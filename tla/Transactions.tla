---------------------------- MODULE Transactions ----------------------------
(***************************************************************************)
(* Retrieving content on the market (exchange/tx.go, exchange/exchange.go, *)
(* retrieval/deal/mgr.go, and Load of node/popn.go): the transactions of   *)
(* one host, Client, on top of the routing of GossipRouting.               *)
(*                                                                         *)
(* A transaction has a worker that collects offers and runs one at a time, *)
(* a goroutine that executes the offer the worker chose, and a caller.     *)
(* handleOffer runs once per offer that arrived and calls PushBack of the  *)
(* worker that was registered last, with the receiver lock held.  Channels *)
(* without a buffer are steps of both ends.                                *)
(*                                                                         *)
(* A content has two parts: the entries of its root, and the file behind   *)
(* the one key that a caller may ask for.                                  *)
(***************************************************************************)
EXTENDS GossipRouting, Sequences, Functions

CONSTANTS
    Client,     \* the host whose transactions are modelled
    Txs,        \* its transactions
    Root,       \* the content a transaction is for
    Caller,     \* "load" (Pop.Load) or "find" (FindAndRetrieve)
    Path,       \* what Query is called with: "" (nothing), "*" or "key"
    Strategy,   \* numThreshold, whether there is a timeThreshold, priceCeiling
    PPB,        \* the price per byte of a host
    MaxFaults,  \* bound: how many calls fail and contexts end
    MaxOpen     \* bound: how many transactions are open at a time

ASSUME TransactionAssumption ==
    /\ Client \in Askers
    /\ Root \in [Txs -> Roots]
    /\ Caller \in [Txs -> {"load", "find"}]
    /\ Path \in [Txs -> {"", "*", "key"}]
    /\ Strategy \in [Txs -> [after: Int, wait: BOOLEAN, ceiling: Int]]
    /\ PPB \in [Nodes -> Nat \ {0}]

VARIABLES
    rmu,        \* the offer whose handler holds the receiver lock, or None
    receiver,   \* the transaction whose worker gets the offers, or None
    caller,     \* where the caller of a transaction is
    ctx,        \* whether the context of a transaction has ended
    worker,     \* the goroutine of Start
    exec,       \* the goroutine of exec; execDone is nil in phase "none"
    done,       \* what Finish was called with: "none", "ok" or "err"
    results,    \* the channel the latest Execute reads
    deals,      \* the deals the retrieval client is running
    committed,  \* tx.committed
    store,      \* the parts in the store of a transaction
    bs,         \* the parts of a content in the global blockstore
    index,      \* the contents in the index
    remembered, \* the provider of the offer in deal.Mgr, or None
    funds,      \* the funds in deal.Mgr
    faults,     \* how many calls have failed or contexts ended
    crashed,    \* whether the process has panicked
    given,      \* history: the offers a worker took
    tried       \* history: the offers that were executed

callVars == <<faults, caller, ctx, committed, store, bs, index, remembered, crashed>>
dealVars == <<results, deals, funds>>
txVars == <<rmu, receiver, worker, exec, done, given, tried,
            callVars, dealVars>>
vars == <<gossipVars, txVars>>

\* What the worker sees of an offer: of gossip, or asked for directly.
Quotes == [from: Nodes, root: Roots, seq: Seqnos \cup {0}]

Quote(o) == [from |-> o.from, root |-> o.id.root, seq |-> o.id.seq]
Direct(p, root) == [from |-> p, root |-> root, seq |-> 0]

Parts == {"entries", "file"}
PartsOf(sel) == IF sel = "all" THEN Parts ELSE {sel}

\* RetrievalPrice of an offer, and what a transfer spends.
RetrievalPrice(q) == PPB[q.from] * Cardinality(Parts)
Cost(d) == PPB[d.quote.from] * Cardinality(PartsOf(d.sel))

Deals == [tx: Txs, quote: Quotes, sel: Parts \cup {"all"}, budget: Int]

NoExec == [phase |-> "none"]

\* Confirm asks the caller if there is a triage channel, which WithTriage
\* makes after WithStrategy has started the worker and registered it.
Begin(t, q) ==
    [phase |-> IF Caller[t] = "load" /\ caller[t] # "registered"
                 THEN "triage" ELSE "execute",
     quote |-> q]
Returned(res) == [phase |-> "result", res |-> res]

\* A call that succeeds, or one of the failures that are still allowed.
Fails(ok) == faults' = faults + (IF ok THEN 0 ELSE 1) /\ faults' <= MaxFaults

Ends == {"closed", "failed"}
Open(t) == worker[t].open
Waiting(t) == caller[t] \in {"triage", "exec", "loop", "wait"}

TypeOK ==
    /\ RoutingTypeOK
    /\ rmu \in Offers \cup {None}
    /\ receiver \in Txs \cup {None}
    /\ caller \in [Txs -> {"new", "starting", "registered", "ready", "triage",
                           "exec", "loop", "wait", "finishing"} \cup Ends]
    /\ ctx \in [Txs -> BOOLEAN]
    /\ \A t \in Txs : worker[t].open \in BOOLEAN /\ worker[t].delay \in BOOLEAN
                       /\ worker[t].q \in Seq(Quotes)
    /\ \A t \in Txs : exec[t].phase \in {"none", "triage", "confirm", "execute",
                         "retrieve", "ongoing", "wait", "result", "drained"}
    /\ done \in [Txs -> {"none", "ok", "err"}]
    /\ \A t \in Txs : results[t].subscribed \in BOOLEAN
    /\ deals \subseteq Deals
    /\ committed \in [Txs -> BOOLEAN]
    /\ store \in [Txs -> SUBSET Parts]
    /\ bs \in [Roots -> SUBSET Parts]
    /\ index \subseteq Roots
    /\ remembered \in [Roots -> Nodes \cup {None}]
    /\ funds \in [Roots -> Int]
    /\ faults \in 0..MaxFaults
    /\ crashed \in BOOLEAN
    /\ given \in [Txs -> SUBSET Quotes]
    /\ tried \in [Txs -> SUBSET Quotes]

Init ==
    /\ RoutingInit
    /\ rmu = None /\ receiver = None
    /\ caller = [t \in Txs |-> "new"]
    /\ ctx = [t \in Txs |-> FALSE]
    /\ worker = [t \in Txs |-> [open |-> FALSE, delay |-> FALSE, q |-> <<>>]]
    /\ exec = [t \in Txs |-> NoExec]
    /\ done = [t \in Txs |-> "none"]
    /\ results = [t \in Txs |-> [subscribed |-> FALSE, size |-> 0, q |-> <<>>]]
    /\ deals = {}
    /\ committed = [t \in Txs |-> FALSE]
    /\ store = [t \in Txs |-> {}]
    /\ bs = [r \in Roots |-> IF r \in Holds[Client] THEN Parts ELSE {}]
    /\ index = Holds[Client]
    /\ remembered = [r \in Roots |-> None]
    /\ funds = [r \in Roots |-> 0]
    /\ faults = 0
    /\ crashed = FALSE
    /\ given = [t \in Txs |-> {}]
    /\ tried = [t \in Txs |-> {}]

-----------------------------------------------------------------------------
(***************************************************************************)
(* The worker.  Each of its steps is one case of the select in Start.      *)
(***************************************************************************)

\* The worker runs an offer: a goroutine of its own executes it.
Run(t, q, rest) ==
    /\ exec' = [exec EXCEPT ![t] = Begin(t, q)]
    /\ tried' = [tried EXCEPT ![t] = @ \cup {q}]
    /\ worker' = [worker EXCEPT ![t].q = rest]

\* Mutant: the worker ignores what arrives while it executes an offer.
MutKeep(t, queue) ==
    /\ worker' = IF exec[t].phase = "none" THEN [worker EXCEPT ![t].q = queue]
                   ELSE worker
    /\ UNCHANGED <<exec, tried>>

Keep(t, queue) ==
    /\ worker' = [worker EXCEPT ![t].q = queue]
    /\ UNCHANGED <<exec, tried>>

\* sort.Slice leaves the order of equal prices open.
SortOffers(queue) ==
    {s \in [DOMAIN queue -> Range(queue)] :
        /\ Range(s) = Range(queue)
        /\ \A i, j \in DOMAIN s : i < j => PPB[s[i].from] <= PPB[s[j].from]}

RunCheapest(t, queue) ==
    \E s \in SortOffers(queue) : Run(t, Head(s), Tail(s))

OverCeiling(t, q) ==
    Strategy[t].ceiling # -1 /\ PPB[q.from] > Strategy[t].ceiling

\* case <-s.offersBack
TakeBack(t, q) ==
    LET queue == Append(worker[t].q, q)
        idle == exec[t].phase = "none"
    IN  /\ Open(t)
        /\ given' = IF OverCeiling(t, q) THEN given
                      ELSE [given EXCEPT ![t] = @ \cup {q}]
        /\ \/ OverCeiling(t, q) /\ UNCHANGED <<worker, exec, tried>>
           \/ /\ ~OverCeiling(t, q)
              /\ IF idle /\ Strategy[t].after < 0 /\ ~Strategy[t].wait
                   THEN Run(t, q, worker[t].q)
                   ELSE IF idle /\ Len(queue) = Strategy[t].after
                     THEN RunCheapest(t, queue)
                     ELSE Keep(t, queue)

\* case <-s.offersFront
TakeFront(t, q) ==
    /\ Open(t)
    /\ given' = [given EXCEPT ![t] = @ \cup {q}]
    /\ IF exec[t].phase = "none"
         THEN Run(t, q, worker[t].q)
         ELSE Keep(t, <<q>> \o worker[t].q)

\* case <-delay.  With no offer so far, q[0] panics.
Delay(t) ==
    /\ Open(t) /\ worker[t].delay /\ ~crashed
    /\ IF exec[t].phase # "none"
         THEN /\ worker' = [worker EXCEPT ![t].delay = FALSE]
              /\ UNCHANGED <<exec, tried, crashed>>
         ELSE IF worker[t].q = <<>>
           THEN crashed' = TRUE /\ UNCHANGED <<worker, exec, tried>>
           ELSE /\ \E s \in SortOffers(worker[t].q) :
                     /\ exec' = [exec EXCEPT ![t] = Begin(t, Head(s))]
                     /\ tried' = [tried EXCEPT ![t] = @ \cup {Head(s)}]
                     /\ worker' = [worker EXCEPT ![t].q = Tail(s),
                                                 ![t].delay = FALSE]
                /\ UNCHANGED crashed
    /\ UNCHANGED <<gossipVars, rmu, receiver, done, given, dealVars,
                   faults, caller, ctx, committed, store, bs, index,
                   remembered>>

\* case <-execDone: the next offer after a failure, Finish otherwise.
\* execDone stays set.
ExecDone(t) ==
    /\ Open(t) /\ exec[t].phase = "result" /\ ~crashed
    /\ IF exec[t].res = "err" /\ worker[t].q # <<>>
         THEN Run(t, Head(worker[t].q), Tail(worker[t].q)) /\ UNCHANGED done
         ELSE /\ done' = [done EXCEPT ![t] = exec[t].res]
              /\ exec' = [exec EXCEPT ![t] = [phase |-> "drained"]]
              /\ UNCHANGED <<worker, tried>>
    /\ UNCHANGED <<gossipVars, rmu, receiver, given, callVars, dealVars>>

-----------------------------------------------------------------------------
(***************************************************************************)
(* handleOffer at the client, from the lock on.                            *)
(***************************************************************************)

\* The offer is dropped if no transaction has registered a receiver.
HandleOffer(s) ==
    /\ s.at = Client /\ rmu = None /\ ~crashed
    /\ Arrive(s)
    /\ rmu' = IF receiver = None THEN None ELSE s.offer
    /\ UNCHANGED <<receiver, worker, exec, done, given, tried, callVars, dealVars>>

\* PushBack returns when the worker takes the offer: never, once it is closed.
PushBack ==
    /\ rmu # None /\ ~crashed
    /\ TakeBack(receiver, Quote(rmu))
    /\ rmu' = None
    /\ UNCHANGED <<gossipVars, receiver, done, callVars, dealVars>>

-----------------------------------------------------------------------------
(***************************************************************************)
(* exec, Confirm and Execute.                                              *)
(***************************************************************************)

\* RootFor looks for the entries in the blockstore if the index has the root,
\* and in the store of the transaction otherwise.
RootFor(t) ==
    "entries" \in IF Root[t] \in index THEN bs[Root[t]] ELSE store[t]

\* Confirm gives up when the context ends.
ConfirmEnds(t) ==
    /\ exec[t].phase = "confirm" /\ ctx[t] /\ ~crashed
    /\ exec' = [exec EXCEPT ![t] = Returned("err")]
    /\ UNCHANGED <<gossipVars, rmu, receiver, worker, done, given, tried,
                   callVars, dealVars>>

\* Mutant: no room for an event that comes before Execute reads the channel.
MutResultsSize(n) == 0

\* The capacity of the channel Execute reads results from.
ResultsSize(n) == n

\* Execute counts its transfers and subscribes to the events of the client.
Execute(t) ==
    LET known == Path[t] = "key" /\ RootFor(t)
        n == IF Path[t] = "key" /\ ~known THEN 2 ELSE 1
    IN  /\ exec[t].phase = "execute" /\ ~crashed
        /\ exec' = [exec EXCEPT ![t] = [phase |-> "retrieve", quote |-> @.quote,
                                        i |-> 0, n |-> n, known |-> known]]
        /\ results' = [results EXCEPT ![t] =
                          [subscribed |-> TRUE, size |-> ResultsSize(n), q |-> <<>>]]
        /\ UNCHANGED <<gossipVars, rmu, receiver, worker, done, given,
                       tried, callVars, deals, funds>>

\* One transfer: its root, its selector, its funds.  Retrieve may fail.
Retrieve(t, ok) ==
    LET e == exec[t]
        first == e.i = 0 /\ ~e.known
        deal == [tx |-> t, quote |-> e.quote,
                 sel |-> IF ~first THEN "file"
                           ELSE IF Path[t] = "*" THEN "all" ELSE "entries",
                 budget |-> IF first THEN RetrievalPrice(e.quote)
                              ELSE funds[Root[t]]]
    IN  /\ e.phase = "retrieve" /\ ~crashed /\ Fails(ok)
        /\ IF ok /\ (e.i > 0 => RootFor(t))
             THEN /\ deals' = deals \cup {deal}
                  /\ exec' = [exec EXCEPT ![t] =
                        [phase |-> "ongoing", quote |-> e.quote, i |-> e.i,
                         n |-> e.n, known |-> e.known, deal |-> deal]]
             ELSE /\ exec' = [exec EXCEPT ![t] = Returned("err")]
                  /\ UNCHANGED deals
        /\ UNCHANGED <<gossipVars, rmu, receiver, worker, done, given,
                       tried, caller, ctx, committed, store, bs, index,
                       remembered, crashed, results, funds>>

\* The result of a transfer, and what Execute keeps of it.
TakeResult(t) ==
    LET e == exec[t]
        res == Head(results[t].q)
        ok == res.res = "ok"
        last == e.i + 1 = e.n
    IN  /\ e.phase = "wait" /\ results[t].q # <<>> /\ ~crashed
        /\ results' = [results EXCEPT ![t].q = Tail(@)]
        /\ exec' = [exec EXCEPT ![t] =
              IF ok /\ ~last
                THEN [phase |-> "retrieve", quote |-> e.quote, i |-> e.i + 1,
                      n |-> e.n, known |-> e.known]
                ELSE Returned(res.res)]
        /\ remembered' = IF ok /\ e.deal.sel # "file"
                           THEN [remembered EXCEPT ![Root[t]] = e.quote.from]
                           ELSE remembered
        /\ funds' = IF ok THEN [funds EXCEPT ![Root[t]] = e.deal.budget - res.spent]
                      ELSE funds
        /\ committed' = [committed EXCEPT ![t] = @ \/ (ok /\ last)]
        /\ UNCHANGED <<gossipVars, rmu, receiver, worker, done, given,
                       tried, faults, caller, ctx, store, bs, index, crashed, deals>>

WaitEnds(t) ==
    /\ exec[t].phase = "wait" /\ ctx[t] /\ ~crashed
    /\ exec' = [exec EXCEPT ![t] = Returned("err")]
    /\ UNCHANGED <<gossipVars, rmu, receiver, worker, done, given, tried,
                   callVars, dealVars>>

Funded(d) == d.budget >= Cost(d)

\* A deal of the retrieval client ends.  The event goes to every Execute that
\* is subscribed, whichever transaction the deal belongs to, unless its
\* channel is full.  Only a provider with the content completes a deal.
DealEnds(d, res) ==
    /\ d \in deals /\ ~crashed
    /\ LET may == Funded(d) /\ Root[d.tx] \in Holds[d.quote.from]
       IN  (res = "ok" => may) /\ Fails(may => res = "ok")
    /\ deals' = deals \ {d}
    /\ store' = IF res = "ok" /\ Open(d.tx)
                  THEN [store EXCEPT ![d.tx] = @ \cup PartsOf(d.sel)] ELSE store
    /\ results' = [t \in Txs |->
         IF results[t].subscribed /\ Len(results[t].q) < results[t].size
           THEN [results[t] EXCEPT !.q =
                   Append(@, [res |-> res, spent |-> Cost(d)])]
           ELSE results[t]]
    /\ UNCHANGED <<gossipVars, rmu, receiver, worker, exec, done, given,
                   tried, caller, ctx, committed, bs, index, remembered, funds,
                   crashed>>

-----------------------------------------------------------------------------
(***************************************************************************)
(* The callers: Load and FindAndRetrieve.                                  *)
(***************************************************************************)

\* Tx with WithStrategy: the worker starts, then it is registered, for which
\* the handlers' lock must be free.
Start(t) ==
    /\ caller[t] = "new" /\ ~crashed
    /\ Cardinality({u \in Txs : Open(u)}) < MaxOpen
    /\ worker' = [worker EXCEPT ![t] = [open |-> TRUE, delay |-> Strategy[t].wait,
                                        q |-> <<>>]]
    /\ caller' = [caller EXCEPT ![t] = "starting"]
    /\ UNCHANGED <<gossipVars, rmu, receiver, exec, done, given, tried,
                   dealVars, faults, ctx, committed, store, bs, index, remembered, crashed>>

SetReceiver(t) ==
    /\ caller[t] = "starting" /\ rmu = None /\ ~crashed
    /\ receiver' = t
    /\ caller' = [caller EXCEPT ![t] =
                     IF Caller[t] = "load" THEN "registered" ELSE "ready"]
    /\ UNCHANGED <<gossipVars, rmu, worker, exec, done, given, tried,
                   dealVars, faults, ctx, committed, store, bs, index, remembered, crashed>>

WithTriage(t) ==
    /\ caller[t] = "registered" /\ ~crashed
    /\ caller' = [caller EXCEPT ![t] = "ready"]
    /\ UNCHANGED <<gossipVars, rmu, receiver, worker, exec, done, given,
                   tried, dealVars, faults, ctx, committed, store, bs, index, remembered,
                   crashed>>

Asked(t) == [caller EXCEPT ![t] = IF Caller[t] = "load" THEN "triage" ELSE "wait"]

\* Query first asks the provider of the remembered offer for a new one.  A
\* stream to it that does not open leaves QueryProvider with a nil stream.
QueryProvider(t, opened) ==
    LET p == remembered[Root[t]]
    IN  /\ caller[t] = "ready" /\ p # None /\ ~crashed /\ Fails(opened)
        /\ IF opened
             THEN /\ TakeFront(t, Direct(p, Root[t]))
                  /\ caller' = Asked(t)
                  /\ UNCHANGED crashed
             ELSE crashed' = TRUE /\ UNCHANGED <<worker, exec, given, tried, caller>>
        /\ UNCHANGED <<gossipVars, rmu, receiver, done, dealVars, ctx,
                       committed, store, bs, index, remembered>>

\* Without one, or when the provider does not answer, it asks the network.
QueryNetwork(t, k, new) ==
    /\ caller[t] = "ready" /\ ~crashed
    /\ Fails(new = MessagesOf(Client, Root[t], k))
    /\ k = Cardinality({m.seq : m \in published[Client]}) + 1
    /\ Query(Client, Root[t], k, new)
    /\ caller' = IF new = MessagesOf(Client, Root[t], k) THEN Asked(t)
                   ELSE [caller EXCEPT ![t] = "finishing"]
    /\ UNCHANGED <<rmu, receiver, worker, exec, done, given, tried,
                   dealVars, ctx, committed, store, bs, index, remembered, crashed>>

\* Load takes one selection from the triage channel and accepts it.
Triage(t) ==
    /\ caller[t] = "triage" /\ exec[t].phase = "triage" /\ ~crashed
    /\ caller' = [caller EXCEPT ![t] = "exec"]
    /\ exec' = [exec EXCEPT ![t].phase = "confirm"]
    /\ UNCHANGED <<gossipVars, rmu, receiver, worker, done, given, tried,
                   dealVars, faults, ctx, committed, store, bs, index, remembered, crashed>>

Exec(t) ==
    /\ caller[t] = "exec" /\ ~crashed
    /\ caller' = [caller EXCEPT ![t] = "loop"]
    /\ exec' = IF exec[t].phase = "confirm"
                 THEN [exec EXCEPT ![t].phase = "execute"] ELSE exec
    /\ UNCHANGED <<gossipVars, rmu, receiver, worker, done, given, tried,
                   dealVars, faults, ctx, committed, store, bs, index, remembered, crashed>>

\* Load reads the ongoing channel; FindAndRetrieve does not.
ReadOngoing(t) ==
    /\ caller[t] = "loop" /\ exec[t].phase = "ongoing" /\ ~crashed
    /\ exec' = [exec EXCEPT ![t].phase = "wait"]
    /\ UNCHANGED <<gossipVars, rmu, receiver, worker, done, given, tried,
                   callVars, dealVars>>

\* Both set the ref of what they retrieved, FindAndRetrieve only if the root
\* node can be loaded.
TakeDone(t) ==
    /\ caller[t] \in {"loop", "wait"} /\ done[t] # "none" /\ ~crashed
    /\ caller' = [caller EXCEPT ![t] = "finishing"]
    /\ index' = IF done[t] = "ok" /\ (Caller[t] = "load" \/ "entries" \in store[t])
                  THEN index \cup {Root[t]} ELSE index
    /\ UNCHANGED <<gossipVars, rmu, receiver, worker, exec, done, given,
                   tried, dealVars, faults, ctx, committed, store, bs, remembered, crashed>>

ContextEnds(t) ==
    /\ Waiting(t) /\ ~ctx[t] /\ ~crashed /\ Fails(FALSE)
    /\ ctx' = [ctx EXCEPT ![t] = TRUE]
    /\ UNCHANGED <<gossipVars, rmu, receiver, worker, exec, done, given,
                   tried, dealVars, caller, committed, store, bs, index, remembered,
                   crashed>>

ContextReturns(t) ==
    /\ caller[t] \in {"triage", "loop", "wait"} /\ ctx[t] /\ ~crashed
    /\ caller' = [caller EXCEPT ![t] = "finishing"]
    /\ UNCHANGED <<gossipVars, rmu, receiver, worker, exec, done, given,
                   tried, dealVars, faults, ctx, committed, store, bs, index, remembered,
                   crashed>>

\* Mutant: content that the index lists is taken to be stored already.
MutDumpStore(t) ==
    IF committed[t] /\ Root[t] \notin index
      THEN bs[Root[t]] \cup store[t] ELSE bs[Root[t]]

\* The parts in the blockstore after dumpStore.
DumpStore(t) == IF committed[t] THEN bs[Root[t]] \cup store[t] ELSE bs[Root[t]]

\* Close stops the worker, moves the blocks of a committed transaction to the
\* blockstore, which fails if its context has ended, and deletes the store.
\* Load then forgets the offer if nothing is missing or no funds are left.
Close(t, migrated) ==
    LET root == Root[t]
        paid == Caller[t] = "load" /\ done[t] = "ok"
    IN  /\ caller[t] = "finishing" /\ Open(t) /\ ~crashed
        /\ worker' = [worker EXCEPT ![t].open = FALSE, ![t].q = <<>>]
        /\ results' = [results EXCEPT ![t].subscribed = FALSE]
        /\ ~migrated => committed[t] /\ ctx[t]
        /\ IF migrated
             THEN /\ bs' = [bs EXCEPT ![root] = DumpStore(t)]
                  /\ store' = [store EXCEPT ![t] = {}]
                  /\ ctx' = [ctx EXCEPT ![t] = TRUE]
             ELSE UNCHANGED <<bs, store, ctx>>
        /\ caller' = [caller EXCEPT ![t] = IF migrated THEN "closed" ELSE "failed"]
        /\ remembered' = IF paid /\ (bs'[root] # {"entries"} \/ funds[root] = 0)
                           THEN [remembered EXCEPT ![root] = None] ELSE remembered
        /\ UNCHANGED <<gossipVars, rmu, receiver, exec, done, given, tried,
                       committed, index, faults, crashed, deals, funds>>

-----------------------------------------------------------------------------
Worker(t) == Delay(t) \/ ExecDone(t)

Executor(t) ==
    \/ ConfirmEnds(t) \/ Execute(t) \/ TakeResult(t) \/ WaitEnds(t)
    \/ \E ok \in BOOLEAN : Retrieve(t, ok)

Call(t) ==
    \/ SetReceiver(t) \/ WithTriage(t) \/ Triage(t) \/ Exec(t) \/ ReadOngoing(t)
    \/ TakeDone(t) \/ ContextReturns(t)
    \/ \E migrated \in BOOLEAN : Close(t, migrated)
    \/ \E opened \in BOOLEAN : QueryProvider(t, opened)
    \/ \E k \in Seqnos : \E new \in SUBSET MessagesOf(Client, Root[t], k) :
         QueryNetwork(t, k, new)

\* A step of the routing of any host.
Network(opened) ==
    /\ Gossip(opened) /\ Fails(opened)
    /\ UNCHANGED <<rmu, receiver, worker, exec, done, given, tried, dealVars,
                   caller, ctx, committed, store, bs, index, remembered, crashed>>

Next ==
    \/ \E opened \in BOOLEAN : Network(opened)
    \/ \E s \in streams : HandleOffer(s)
    \/ PushBack
    \/ \E t \in Txs : Start(t) \/ Worker(t) \/ Executor(t) \/ Call(t) \/ ContextEnds(t)
    \/ \E d \in deals, res \in {"ok", "err"} : DealEnds(d, res)

Spec == Init /\ [][Next]_vars

\* The hosts do not stop while a goroutine can run, a message can be delivered
\* or a deal that has the funds it needs can end.  Contexts need not end.  No
\* behaviour has infinitely many steps, so this is all the fairness needed.
Progress ==
    \/ Network(TRUE)
    \/ \E s \in streams : HandleOffer(s)
    \/ PushBack
    \/ \E t \in Txs : Worker(t) \/ Executor(t) \/ Call(t)
    \/ \E d \in deals, res \in {"ok", "err"} : Funded(d) /\ DealEnds(d, res)

FairSpec == Spec /\ WF_vars(Progress)

-----------------------------------------------------------------------------
(***************************************************************************)
(* Properties.                                                             *)
(***************************************************************************)

\* While a worker runs, every offer that it took and that was not over its
\* ceiling either waits in its queue, once, or was executed, and an error is
\* reported only when all of them were executed: "if the error is not nil
\* we've run out of options" (tx.go: Start, Tx.done).
OutOfOptions ==
    [][\A t \in Txs :
         Open(t)' =>
           /\ given'[t] = tried'[t] \cup Range(worker'[t].q)
           /\ Cardinality(given'[t]) = Cardinality(tried'[t]) + Len(worker'[t].q)
           /\ done[t] = "none" /\ done'[t] = "err" => given'[t] = tried'[t]]_vars

\* What a transaction received before it reported success is in the global
\* blockstore when Close has returned (tx.go: Execute, Close, dumpStore).
Kept ==
    [][\A t \in Txs :
         caller[t] = "finishing" /\ caller'[t] = "closed" /\ done[t] = "ok"
           => store[t] \subseteq bs'[Root[t]]]_vars

\* An execution that waits for its caller to read a channel the caller does
\* not read again, or for a deal that the remaining funds cannot pay.
Stuck(t) ==
    \/ exec[t].phase = "triage" /\ caller[t] = "loop"
    \/ exec[t].phase = "ongoing" /\ caller[t] \in {"triage", "wait"}
    \/ exec[t].phase = "wait" /\ ~Funded(exec[t].deal)

\* Once a worker has an offer, its transaction reports a result, unless its
\* context ends or the execution is stuck (tx.go: Start, exec, Execute).
Finishes ==
    \A t \in Txs :
        given[t] # {} ~> done[t] # "none" \/ ctx[t] \/ crashed \/ Stuck(t)

\* "This never blocks as our queue is always receiving" (tx.go: PushBack).
PushBackReturns == rmu # None ~> rmu = None
=============================================================================
