--------------------------- MODULE PublishProofs ---------------------------
(***************************************************************************)
(* Proofs about dispatching a content (modules Publish and Replication),   *)
(* for any number of caches, calls, attempts and faults: a cache that      *)
(* lists the content has its blocks.                                       *)
(***************************************************************************)
EXTENDS Publish, TLAPS

(* The fields of a handler. *)
Shaped(h) == h = [id |-> h.id, phase |-> h.phase, src |-> h.src, dst |-> h.dst]

(* The handler has answered that it does not have the content. *)
Fetches(h) == h.phase # "asked"

HandlersOK ==
    /\ connected \subseteq Peers
    /\ storeOf = [p \in Peers |-> storeOf[p]]
    /\ \A h \in handlers : Shaped(h) /\ h.id.peer \in Peers

(* The store that the root has at a cache is the one of the only request   *)
(* it handles, and is full once the transfer completed.                    *)
OwnStore(h) ==
    /\ storeOf[h.id.peer] = h.id
    /\ h.phase \in {"pull", "got"} => h.dst = h.id
    /\ h.phase = "got" => h.id \in full

StoresOK ==
    \A h \in handlers : Fetches(h) /\ h.id.peer \notin overlapped => OwnStore(h)

OneAtATime ==
    \A g, h \in handlers :
        Fetches(g) /\ Fetches(h) /\ g.id.peer = h.id.peer =>
            g = h \/ h.id.peer \in overlapped

CacheInv == HandlersOK /\ StoresOK /\ OneAtATime /\ RefsHaveBlocks

-----------------------------------------------------------------------------
(* A step that leaves the caches alone, but for connections. *)
LEMMA CachesAlone ==
    ASSUME CacheInv, connected' \subseteq Peers,
           UNCHANGED <<index, handlers, storeOf, full, bs, overlapped>>
    PROVE  CacheInv'
<1>1. HandlersOK'
  BY Zenon DEF CacheInv, HandlersOK, Shaped
<1>2. StoresOK'
  BY Zenon DEF CacheInv, StoresOK, OwnStore, Fetches
<1>3. OneAtATime' /\ RefsHaveBlocks'
  BY Zenon DEF CacheInv, OneAtATime, Fetches, RefsHaveBlocks
<1> QED BY <1>1, <1>2, <1>3, Zenon DEF CacheInv

(* Connections come and go, and announcements are read. *)
LEMMA PeerStepKeeps ==
    ASSUME CacheInv, PeerStep
    PROVE  CacheInv'
<1>1. UNCHANGED <<index, cacheVars>> /\ connected' \subseteq Peers
  BY DEF PeerStep, PeerNext, Identified, Disconnected, HandleHey, TakeEvent, FetchDone,
         CacheInv, HandlersOK
<1> QED BY <1>1, CachesAlone, Zenon DEF cacheVars

(* A request reaches a cache it has a connection to. *)
LEMMA SendKeeps ==
    ASSUME CacheInv, NEW d \in Calls, SendStep(d)
    PROVE  CacheInv'
<1>1. /\ UNCHANGED <<index, connected, storeOf, full, bs, overlapped>>
      /\ \/ handlers' = handlers
         \/ \E id : /\ id.peer \in connected
                    /\ handlers' = handlers \cup {[id |-> id, phase |-> "asked",
                                                   src |-> None, dst |-> None]}
  <2>1. PICK k \in 0..Attempts[d], opened \in BOOLEAN : SendRequest(d, k, opened)
    BY DEF SendStep
  <2>2. Asking(d, k).peer = Head(sends[d][k].todo)
    BY Zenon DEF Asking
  <2> QED BY <2>1, <2>2 DEF SendRequest, SendStep
<1>2. CASE handlers' = handlers
  BY <1>1, <1>2 DEF CacheInv, HandlersOK, StoresOK, OneAtATime, RefsHaveBlocks,
                    OwnStore, Fetches, Shaped
<1>3. ASSUME NEW id, id.peer \in connected,
             handlers' = handlers \cup {[id |-> id, phase |-> "asked", src |-> None, dst |-> None]}
      PROVE  CacheInv'
  <2>1. PICK new : /\ new = [id |-> id, phase |-> "asked", src |-> None, dst |-> None]
                   /\ new.id = id /\ ~Fetches(new) /\ Shaped(new)
    <3>1. \A a, b, e, f : LET r == [id |-> a, phase |-> b, src |-> e, dst |-> f]
                          IN  r.id = a /\ r.phase = b /\ Shaped(r)
      BY Zenon DEF Shaped
    <3> QED BY <3>1, Zenon DEF Fetches
  <2>2. handlers' = handlers \cup {new}
    BY <1>3, <2>1, Zenon
  <2>3. HandlersOK'
    BY <1>1, <1>3, <2>1, <2>2, Zenon DEF CacheInv, HandlersOK, Shaped
  <2>4. StoresOK' /\ OneAtATime' /\ RefsHaveBlocks'
    BY <1>1, <2>1, <2>2 DEF CacheInv, StoresOK, OneAtATime, RefsHaveBlocks, OwnStore, Fetches
  <2> QED BY <2>3, <2>4 DEF CacheInv
<1> QED BY <1>1, <1>2, <1>3

(* A handler that goes on: it keeps its request. *)
Going(h, phase) == [h EXCEPT !.phase = phase]

LEMMA Goes ==
    ASSUME NEW h, Shaped(h), NEW phase
    PROVE  /\ Shaped(Going(h, phase)) /\ Going(h, phase).id = h.id
           /\ Going(h, phase).phase = phase /\ Going(h, phase).dst = h.dst
<1>1. Going(h, phase) = [id |-> h.id, phase |-> phase, src |-> h.src, dst |-> h.dst]
  BY DEF Shaped, Going
<1> QED BY <1>1 DEF Shaped

(* Respond: a second handler that fetches the content makes the cache one  *)
(* that pulled it twice at a time.                                         *)
LEMMA RespondKeeps ==
    ASSUME CacheInv, NEW h \in handlers, NEW written \in BOOLEAN, Respond(h, written),
           UNCHANGED <<index, connected>>
    PROVE  CacheInv'
<1>1. /\ UNCHANGED <<index, connected, full, bs>> /\ h.phase = "asked"
      /\ Shaped(h) /\ h.id.peer \in Peers
  BY Zenon DEF Respond, CacheInv, HandlersOK
<1>2. CASE handlers' = handlers \ {h} /\ UNCHANGED <<storeOf, overlapped>>
  BY <1>1, <1>2 DEF CacheInv, HandlersOK, StoresOK, OneAtATime, RefsHaveBlocks,
                    OwnStore, Fetches, Shaped
<1>3. CASE /\ handlers' = To(h, "open")
           /\ storeOf' = [storeOf EXCEPT ![h.id.peer] = h.id]
           /\ overlapped' = overlapped \cup
                {g.id.peer : g \in {g \in handlers : g.id.peer = h.id.peer /\ g.phase # "asked"}}
  <2>0. PICK o : o = Going(h, "open")
    BY Zenon
  <2>1. Shaped(o) /\ o.id = h.id /\ o.phase = "open"
    BY <1>1, <2>0, Goes, Zenon
  <2>2. handlers' = (handlers \ {h}) \cup {o}
    BY <1>3, <2>0, Zenon DEF To, Going
  <2>3. PICK p \in Peers : p = h.id.peer
    BY <1>1
  <2>4. /\ storeOf'[p] = h.id /\ \A q \in Peers : q # p => storeOf'[q] = storeOf[q]
        /\ storeOf' = [q \in Peers |-> storeOf'[q]]
    BY <1>3, <2>3 DEF CacheInv, HandlersOK
  <2>5. /\ overlapped \subseteq overlapped'
        /\ \A g \in handlers : g.id.peer = p /\ Fetches(g) => p \in overlapped'
        /\ \A q \in overlapped' : q \in overlapped \/ q = p
    BY <1>3, <2>3 DEF Fetches
  <2>6. HandlersOK'
    <3>1. \A g \in handlers' : Shaped(g) /\ g.id.peer \in Peers
      BY <1>1, <2>1, <2>2 DEF CacheInv, HandlersOK
    <3> QED BY <1>1, <2>4, <3>1, Zenon DEF CacheInv, HandlersOK, Shaped
  <2>7. StoresOK'
    <3> SUFFICES ASSUME NEW g \in handlers', Fetches(g), g.id.peer \notin overlapped'
                 PROVE  OwnStore(g)'
      BY DEF StoresOK, Fetches
    <3>1. CASE g = o
      BY <2>1, <2>3, <2>4, <3>1 DEF OwnStore
    <3>2. CASE g \in handlers
      <4>1. g.id.peer # p /\ g.id.peer \notin overlapped /\ g.id.peer \in Peers /\ OwnStore(g)
        BY <2>5, <3>2, Zenon DEF CacheInv, StoresOK, HandlersOK
      <4> QED BY <1>1, <2>4, <4>1 DEF OwnStore
    <3> QED BY <2>2, <3>1, <3>2, Zenon
  <2>8. OneAtATime'
    <3> SUFFICES ASSUME NEW f \in handlers', NEW g \in handlers', Fetches(f), Fetches(g),
                        f.id.peer = g.id.peer, g.id.peer \notin overlapped'
                 PROVE  f = g
      BY Zenon DEF OneAtATime, Fetches
    <3>1. \A x \in handlers' : Fetches(x) /\ x.id.peer \notin overlapped' =>
            x = o \/ (x \in handlers /\ x.id.peer # p)
      BY <2>2, <2>5
    <3>2. CASE f \in handlers /\ g \in handlers
      BY <2>5, <3>2, Zenon DEF CacheInv, OneAtATime
    <3> QED BY <2>1, <2>3, <3>1, <3>2
  <2>9. RefsHaveBlocks'
    BY <1>1, <2>5 DEF CacheInv, RefsHaveBlocks
  <2> QED BY <2>6, <2>7, <2>8, <2>9, Zenon DEF CacheInv
<1> QED BY <1>2, <1>3, Zenon DEF Respond, Return

(* A handler whose phase moves on, or that returns, where the store and    *)
(* the cache stay as they are.                                             *)
LEMMA HandlerMoves ==
    ASSUME CacheInv, NEW h \in handlers, Fetches(h),
           UNCHANGED <<index, connected, storeOf, bs, overlapped>>, full \subseteq full',
           \/ handlers' = handlers \ {h}
           \/ \E g : /\ handlers' = (handlers \ {h}) \cup {g} /\ Shaped(g) /\ g.id = h.id
                     /\ Fetches(g)
                     /\ h.id.peer \notin overlapped => OwnStore(g)'
    PROVE  CacheInv'
<1>1. CASE handlers' = handlers \ {h}
  BY <1>1 DEF CacheInv, HandlersOK, StoresOK, OneAtATime, RefsHaveBlocks,
              OwnStore, Fetches, Shaped
<1>2. ASSUME NEW g, handlers' = (handlers \ {h}) \cup {g}, Shaped(g), g.id = h.id, Fetches(g),
             h.id.peer \notin overlapped => OwnStore(g)'
      PROVE  CacheInv'
  <2>1. HandlersOK'
    BY <1>2 DEF CacheInv, HandlersOK, Shaped
  <2>2. StoresOK'
    BY <1>2 DEF CacheInv, StoresOK, OwnStore, Fetches
  <2>3. OneAtATime'
    BY <1>2 DEF CacheInv, OneAtATime, Fetches
  <2> QED BY <2>1, <2>2, <2>3 DEF CacheInv, RefsHaveBlocks
<1> QED BY <1>1, <1>2

(* OpenPull: the transfer is configured with the store the root has.       *)
LEMMA OpenPullKeeps ==
    ASSUME CacheInv, NEW h \in handlers, OpenPull(h), UNCHANGED <<index, connected>>
    PROVE  CacheInv'
<1>1. /\ UNCHANGED <<storeOf, full, bs, overlapped>> /\ h.phase = "open" /\ Fetches(h)
      /\ Shaped(h)
  BY DEF OpenPull, Fetches, CacheInv, HandlersOK
<1>2. CASE handlers' = handlers \ {h}
  BY <1>1, <1>2, HandlerMoves
<1>3. CASE handlers' = (handlers \ {h}) \cup {[id |-> h.id, phase |-> "pull", src |-> stores,
                                              dst |-> storeOf[h.id.peer]]}
  <2>1. PICK g : g = [id |-> h.id, phase |-> "pull", src |-> stores, dst |-> storeOf[h.id.peer]]
    OBVIOUS
  <2>2. Shaped(g) /\ g.id = h.id /\ g.phase = "pull" /\ g.dst = storeOf[h.id.peer]
    BY <2>1 DEF Shaped
  <2>3. h.id.peer \notin overlapped => OwnStore(g)'
    BY <1>1, <2>2, Zenon DEF CacheInv, StoresOK, OwnStore
  <2>4. Fetches(g)
    BY <2>2 DEF Fetches
  <2> QED BY <1>1, <1>3, <2>1, <2>3, <2>4, <2>2, HandlerMoves
<1> QED BY <1>2, <1>3 DEF OpenPull, Return

(* Pulled: the blocks are in the store of the transfer. *)
LEMMA PulledKeeps ==
    ASSUME CacheInv, NEW h \in handlers, NEW ok \in BOOLEAN, Pulled(h, ok),
           UNCHANGED <<index, connected>>
    PROVE  CacheInv'
<1>1. /\ UNCHANGED <<storeOf, bs, overlapped>> /\ h.phase = "pull" /\ Fetches(h) /\ Shaped(h)
      /\ full \subseteq full'
  BY DEF Pulled, Fetches, CacheInv, HandlersOK
<1>2. CASE handlers' = handlers \ {h}
  BY <1>1, <1>2, HandlerMoves, Zenon
<1>3. CASE handlers' = To(h, "got") /\ full' = full \cup {h.dst}
  <2>0. PICK g : g = Going(h, "got")
    BY Zenon
  <2>1. Shaped(g) /\ g.id = h.id /\ g.phase = "got" /\ g.dst = h.dst
    BY <1>1, <2>0, Goes, Zenon
  <2>2. h.id.peer \notin overlapped => OwnStore(g)'
    <3>1. h.id.peer \notin overlapped => storeOf[h.id.peer] = h.id /\ h.dst = h.id
      BY <1>1, Zenon DEF CacheInv, StoresOK, OwnStore
    <3>2. storeOf' = storeOf /\ h.dst \in full'
      BY <1>1, <1>3
    <3> QED BY <2>1, <3>1, <3>2, Zenon DEF OwnStore
  <2>3. Fetches(g) /\ handlers' = (handlers \ {h}) \cup {g}
    <3>1. g.phase # "asked"
      BY <2>1
    <3>2. handlers' = (handlers \ {h}) \cup {g}
      BY <1>3, <2>0, Zenon DEF To, Going
    <3> QED BY <3>1, <3>2, Zenon DEF Fetches
  <2>4. UNCHANGED <<index, connected, storeOf, bs, overlapped>>
    BY <1>1
  <2> QED BY <1>1, <2>1, <2>2, <2>3, <2>4, HandlerMoves, Zenon
<1> QED BY <1>2, <1>3, Zenon DEF Pulled, Return

(* Migrate: the store that the root has is the one that was filled, unless *)
(* the cache handled two requests at a time.                               *)
LEMMA MigrateKeeps ==
    ASSUME CacheInv, NEW h \in handlers, NEW migrated \in BOOLEAN, Migrate(h, migrated),
           UNCHANGED connected
    PROVE  CacheInv'
<1>1. /\ UNCHANGED <<storeOf, overlapped>> /\ h.phase = "got" /\ Fetches(h)
      /\ handlers' = handlers \ {h} /\ \A x \in full : x \in full' \/ x = h.id
      /\ bs \subseteq bs'
  BY Zenon DEF Migrate, Fetches, Return
<1>2. HandlersOK' /\ OneAtATime'
  BY <1>1 DEF CacheInv, HandlersOK, OneAtATime, Fetches, Shaped
<1>3. StoresOK'
  <2> SUFFICES ASSUME NEW g \in handlers', Fetches(g), g.id.peer \notin overlapped
               PROVE  OwnStore(g)'
    BY <1>1 DEF StoresOK, Fetches
  <2>1. g \in handlers /\ g # h /\ OwnStore(g) /\ g.id.peer # h.id.peer
    BY <1>1 DEF CacheInv, StoresOK, OneAtATime
  <2> QED BY <1>1, <2>1 DEF OwnStore
<1>4. RefsHaveBlocks'
  <2>1. \A p \in index' : p \in index \/ (p = h.id.peer /\ migrated)
    BY DEF Migrate, SetRef
  <2>2. h.id.peer \notin overlapped => storeOf[h.id.peer] \in full
    BY <1>1 DEF CacheInv, StoresOK, OwnStore
  <2>3. migrated /\ storeOf[h.id.peer] \in full => h.id.peer \in bs'
    BY Zenon DEF Migrate
  <2> QED BY <1>1, <2>1, <2>2, <2>3, Zenon DEF CacheInv, RefsHaveBlocks
<1> QED BY <1>2, <1>3, <1>4 DEF CacheInv

LEMMA CacheInvStep ==
    ASSUME CacheInv, [Next]_vars
    PROVE  CacheInv'
<1>0. connected \subseteq Peers
  BY Zenon DEF CacheInv, HandlersOK
<1>1. CASE PeerStep
  BY <1>1, PeerStepKeeps, Zenon
<1>2. ASSUME NEW c \in Calls, GotMsg(c) \/ Post(c) \/ CallStep(c) \/ DispatchStep(c)
      PROVE  CacheInv'
  <2>1. UNCHANGED <<index, cacheVars, connected>>
    BY <1>2, ZenonT(60) DEF GotMsg, Post, CallStep, DispatchStep, Put, Status, Commit,
                Committed, Get, Posted, peerVars
  <2> QED BY <1>0, <2>1, CachesAlone, Zenon DEF cacheVars
<1>3. ASSUME NEW h \in handlers, CacheStep(h)
      PROVE  CacheInv'
  BY <1>3, OpenPullKeeps, RespondKeeps, PulledKeeps, MigrateKeeps DEF CacheStep, peerVars
<1>4. ASSUME NEW e \in events, EventStep(e)
      PROVE  CacheInv'
  <2>1. UNCHANGED <<index, connected, handlers, storeOf, full, bs, overlapped>>
    BY <1>4 DEF EventStep, TransferCompleted, peerVars
  <2> QED BY <1>0, <2>1, CachesAlone, Zenon
<1>5. CASE UNCHANGED vars
  <2>1. UNCHANGED <<index, cacheVars, connected>>
    BY <1>5, Zenon DEF vars, peerVars
  <2> QED BY <1>0, <2>1, CachesAlone, Zenon DEF cacheVars
<1> QED BY <1>1, <1>2, <1>3, <1>4, <1>5, SendKeeps DEF Next

LEMMA CacheInvInit ==
    ASSUME Init
    PROVE  CacheInv
<1>1. PICK s \in Scenarios : ReplicationInit(s.known, s.faults)
  BY DEF Init
<1>2. /\ connected \subseteq Peers /\ handlers = {} /\ index = {}
      /\ storeOf = [p \in Peers |-> None]
  BY <1>1, PublishAssumption, Zenon DEF ReplicationInit, PeerInit
<1> QED BY <1>2 DEF CacheInv, HandlersOK, StoresOK, OneAtATime, RefsHaveBlocks

(* handleRequest: whatever order requests, answers, transfers, lost        *)
(* connections and failed migrations come in, a cache sets the ref of a    *)
(* content only when its blocks are in the blockstore, unless it handled   *)
(* two requests for the content at a time.                                 *)
THEOREM RefsAreBacked == Spec => []RefsHaveBlocks
<1>1. CacheInv => RefsHaveBlocks
  BY Zenon DEF CacheInv
<1> QED BY <1>1, CacheInvInit, CacheInvStep, PTL DEF Spec
=============================================================================
