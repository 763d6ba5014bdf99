---------------------------- MODULE DealProvider ----------------------------
(***************************************************************************)
(* The provider's side of a retrieval deal: its state machine              *)
(* (retrieval/provider/fsm.go, dtsubscriber.go), the validation of a       *)
(* proposal and the revalidation that asks for payments while blocks are   *)
(* sent (retrieval/validators.go, retrieval/environments.go).              *)
(*                                                                         *)
(* The revalidator holds trackedChannelsLk for reading during a call.  A   *)
(* call that needs the deal's state waits in GetSync until the state       *)
(* machine took every event before it, and goes on with the state as it    *)
(* was then; UntrackChannel, called from an entry function, takes the lock *)
(* for writing.                                                            *)
(***************************************************************************)
EXTENDS DealTransfer

VARIABLES
  p,      \* deal.ProviderState, or None before the proposal is accepted
  pq,     \* the events its state machine has not taken yet
  pbusy,  \* whether an entry function is running
  track,  \* the channelData of the deal, or None while it is not tracked
  calls,  \* the calls of the revalidator waiting in GetSync
  synced  \* the state of the deal for each of them whose turn has come

providerVars == <<p, pq, pbusy, track, calls, synced>>

ProviderFinalityStates == {"Errored", "Completed", "Cancelled"}

ProviderStatuses ==
  ProviderFinalityStates \cup
  {"New", "Ongoing", "BlocksComplete", "FundsNeeded", "FundsNeededLastPayment",
   "Finalizing", "Completing", "Failing", "Cancelling"}

ProviderFSMEvents ==
  On("Open", {"New"}, "NoChange")
  \cup On("DealAccepted", {"New"}, "Ongoing")
  \cup On("BlockSent", {"Ongoing"}, "NoChange")
  \cup On("BlocksCompleted", {"Ongoing"}, "BlocksComplete")
  \cup On("PaymentRequested", {"Ongoing"}, "FundsNeeded")
  \cup On("PaymentRequested", {"FundsNeeded"}, "JustRecord")
  \cup On("PaymentRequested", {"BlocksComplete"}, "FundsNeededLastPayment")
  \cup On("SaveVoucherFailed", {"FundsNeeded", "FundsNeededLastPayment"},
                               "Failing")
  \cup On("PartialPaymentReceived", {"FundsNeeded", "FundsNeededLastPayment"},
                                    "NoChange")
  \cup On("PaymentReceived", {"FundsNeeded"}, "Ongoing")
  \cup On("PaymentReceived", {"FundsNeededLastPayment"}, "Finalizing")
  \cup On("PaymentReceived", {"BlocksComplete", "Ongoing", "Finalizing"},
                             "JustRecord")
  \cup On("Complete", {"BlocksComplete", "Finalizing"}, "Completing")
  \cup On("CleanupComplete", {"Completing"}, "Completed")
  \cup On("CancelComplete", {"Cancelling"}, "Cancelled")
  \cup On("CancelComplete", {"Failing"}, "Errored")
  \cup On("DataTransferError", ProviderStatuses, "Errored")
  \cup On("MultiStoreError", ProviderStatuses, "Errored")
  \cup On("ClientCancelled", {"Failing", "Cancelling"}, "JustRecord")
  \cup On("ClientCancelled", ProviderStatuses \ {"Failing", "Cancelling"},
                                                "Cancelling")

(* Mutants: a payment replaces the funds received so far; the bytes sent   *)
(* are not recorded.                                                       *)
MutRecordFunds(ds, e) ==
  CASE e.name \in {"BlockSent", "PaymentRequested"} -> [ds EXCEPT !.TotalSent = e.arg]
    [] e.name \in {"PaymentReceived", "PartialPaymentReceived"} ->
         [ds EXCEPT !.FundsReceived = e.arg]
    [] OTHER -> ds
MutRecordSent(ds, e) ==
  IF e.name \in {"PaymentReceived", "PartialPaymentReceived"}
  THEN [ds EXCEPT !.FundsReceived = @ + e.arg] ELSE ds

RecordProvider(ds, e) ==
  CASE e.name \in {"BlockSent", "PaymentRequested"} -> [ds EXCEPT !.TotalSent = e.arg]
    [] e.name = "PartialPaymentReceived" -> [ds EXCEPT !.FundsReceived = @ + e.arg]
    [] e.name = "PaymentReceived" ->
         [ds EXCEPT !.FundsReceived = @ + e.arg, !.CurrentInterval = NextInterval(@)]
    [] OTHER -> ds

Live == p # None /\ p.Status \notin ProviderFinalityStates

(* Send to the state machine from outside; a terminated one refuses. *)
ToProvider(es) == IF Live THEN pq \o es ELSE pq

(* The calls cs get the state ds, unless they have one. *)
Answer(cs, ds) ==
  [k \in cs \cup DOMAIN synced |-> IF k \in DOMAIN synced THEN synced[k] ELSE ds]

(* The state machine takes the next event unless an entry function runs.   *)
(* The turn of a GetSync does nothing to the deal; a machine that          *)
(* terminates answers the calls that wait for it.                          *)
ProviderPlan ==
  /\ Live /\ ~pbusy /\ pq # <<>>
  /\ LET e == Head(pq)
         moves == Moves(ProviderFSMEvents, e.name, p.Status)
     IN
       \/ /\ e.name = "Sync"
          /\ pq' = Tail(pq) /\ synced' = Answer({e.arg}, p) /\ UNCHANGED <<p, pbusy>>
       \/ /\ e.name # "Sync" /\ moves = {}
          /\ pq' = Tail(pq) /\ UNCHANGED <<p, pbusy, synced>>
       \/ \E m \in moves : LET s == TargetOf(m) IN
            /\ p' = [RecordProvider(p, e) EXCEPT !.Status = s]
            /\ pq' = IF s \in ProviderFinalityStates THEN <<>> ELSE Tail(pq)
            /\ pbusy' = (s \in {"Failing", "Cancelling", "Completing"}
                           /\ m.to # "JustRecord")
            /\ synced' = IF s \in ProviderFinalityStates THEN Answer(calls, p') ELSE synced
  /\ UNCHANGED <<track, calls, deal, net, chan, faults>>

-----------------------------------------------------------------------------
(* CheckDealParams and GetOfferForCid: the proposal meets the offer. *)
CheckDealParams ==
  /\ deal.PricePerByte >= Ask.MinPricePerByte
  /\ deal.PaymentInterval <= Ask.MaxPaymentInterval
  /\ deal.PaymentIntervalIncrease <= Ask.MaxPaymentIntervalIncrease

writeDealState(tr, ds) ==
  [tr EXCEPT !.totalSent = ds.TotalSent,
             !.totalPaidFor = IF deal.PricePerByte = 0 THEN @
                              ELSE Max({ds.FundsReceived - deal.UnsealPrice, 0})
                                     \div deal.PricePerByte,
             !.interval = ds.CurrentInterval]

TrackChannel(ds) ==
  writeDealState([totalSent |-> 0, totalPaidFor |-> 0, interval |-> 0, reload |-> FALSE], ds)

BeginTracking(ds) ==
  /\ p' = ds
  /\ track' = TrackChannel(ds)
  /\ pq' = <<Ev("Open", 0), Ev("DealAccepted", 0)>>

(* A pull request: the deal is accepted, tracked and its state machine     *)
(* opened, and the transfer starts; or it is refused.  (GetStoreID always  *)
(* finds the content.)                                                     *)
ValidatePull ==
  /\ net.phase = "proposed"
  /\ \/ /\ ~CheckDealParams
        /\ net' = [net EXCEPT !.phase = "closed",
                              !.results = Append(@, Response("Rejected", 0))]
        /\ UNCHANGED <<p, track, pq>>
     \/ /\ CheckDealParams
        /\ BeginTracking([Status |-> "New", TotalSent |-> 0, FundsReceived |-> 0,
                          CurrentInterval |-> deal.PaymentInterval])
        /\ net' = [net EXCEPT !.phase = "open",
                              !.results = Append(@, Response("Accepted", 0))]
  /\ UNCHANGED <<pbusy, calls, synced, deal, chan, faults>>

-----------------------------------------------------------------------------
(* A call takes the read lock and, if it needs the deal, queues for it. *)
Waits(call) ==
  /\ calls' = calls \cup {call}
  /\ pq' = Append(pq, Ev("Sync", call))
  /\ UNCHANGED <<p, pbusy, track, synced, deal, net, chan, faults>>

(* Mutant: a call that goes on stays among those whose turn has come. *)
MutGoes(call, enabled) ==
  /\ call \in DOMAIN synced \/ (call \notin calls /\ enabled)
  /\ calls' = calls \ {call}
  /\ synced' = synced

(* The call goes on: its turn has come, or it does not need the deal. *)
Goes(call, enabled) ==
  /\ call \in DOMAIN synced \/ (call \notin calls /\ enabled)
  /\ calls' = calls \ {call}
  /\ synced' = [k \in DOMAIN synced \ {call} |-> synced[k]]

Reload == track # None /\ track.reload /\ Live

loadDealState(call) ==
  IF track.reload THEN [writeDealState(track, synced[call]) EXCEPT !.reload = FALSE]
  ELSE track

(* Mutant: only whole intervals are owed. *)
MutowedFor(tr) ==
  IF tr.totalSent < tr.interval THEN 0
  ELSE (tr.totalSent - tr.totalPaidFor) * deal.PricePerByte

owedFor(tr) == (tr.totalSent - tr.totalPaidFor) * deal.PricePerByte

(* The loop that sends the blocks may still run when the channel closes. *)
Sending == net.phase \in {"open", "closed"} /\ p # None /\ ~net.paused

Answered(n, r) == IF net.phase = "open" THEN [n EXCEPT !.results = Append(@, r)] ELSE n

CanSend == Sending /\ net.sent < Len(Blocks)

SentOne(n) == [n EXCEPT !.sent = @ + 1]

OnPullDataSentWaits ==
  /\ CanSend /\ Reload /\ calls \cap {"sent", "completed"} = {}
  /\ Waits("sent")

OnPullDataSent ==
  /\ Goes("sent", CanSend /\ ~Reload)
  /\ UNCHANGED <<p, pbusy, deal, chan, faults>>
  /\ IF track = None THEN net' = SentOne(net) /\ UNCHANGED <<track, pq>>
     ELSE IF ~Live
     THEN net' = Closed(net) /\ UNCHANGED <<track, pq>>  \* an error ends the transfer
     ELSE LET tr == [loadDealState("sent") EXCEPT !.totalSent = @ + Blocks[net.sent + 1]] IN
          /\ track' = tr
          /\ IF deal.PricePerByte = 0 \/ tr.totalSent < tr.interval
             THEN /\ net' = SentOne(net)
                  /\ pq' = ToProvider(<<Ev("BlockSent", tr.totalSent)>>)
             ELSE /\ net' = Answered([SentOne(net) EXCEPT !.paused = TRUE],
                                     Response("FundsNeeded", owedFor(tr)))
                  /\ pq' = ToProvider(<<Ev("PaymentRequested", tr.totalSent)>>)

AllSent == Sending /\ net.sent = Len(Blocks) /\ ~net.done

OnCompleteWaits ==
  /\ AllSent /\ Reload /\ calls \cap {"sent", "completed"} = {}
  /\ Waits("completed")

(* The last call for the transfer: the deal is completed, or the client is *)
(* asked for the last payment.                                             *)
OnComplete ==
  /\ Goes("completed", AllSent /\ ~Reload)
  /\ UNCHANGED <<p, pbusy, deal, chan, faults>>
  /\ IF track = None THEN net' = [net EXCEPT !.done = TRUE] /\ UNCHANGED <<track, pq>>
     ELSE IF ~Live
     THEN net' = Closed(net) /\ UNCHANGED <<track, pq>>
     ELSE LET tr == loadDealState("completed") IN
          /\ track' = tr
          /\ IF owedFor(tr) = 0
             THEN /\ net' = Answered([net EXCEPT !.done = TRUE], Response("Completed", 0))
                  /\ pq' = ToProvider(<<Ev("BlocksCompleted", 0), Ev("Complete", 0)>>)
             ELSE /\ net' = Answered([net EXCEPT !.done = TRUE, !.paused = TRUE],
                                     Response("FundsNeededLastPayment", owedFor(tr)))
                  /\ pq' = ToProvider(<<Ev("BlocksCompleted", 0),
                                        Ev("PaymentRequested", tr.totalSent)>>)

-----------------------------------------------------------------------------
paymentOwed(ds, totalPaid) ==
  IF totalPaid < deal.UnsealPrice THEN deal.UnsealPrice - totalPaid
  ELSE IntervalLowerBound(ds.CurrentInterval) * deal.PricePerByte
         - (totalPaid - deal.UnsealPrice)

RevalidateWaits ==
  /\ net.vouchers # <<>> /\ track # None /\ Live /\ "pay" \notin calls
  /\ Waits("pay")

Consumed(n) == [n EXCEPT !.vouchers = Tail(@)]

(* A voucher of a channel that is not tracked is not looked at. *)
RevalidateUntracked ==
  /\ net.vouchers # <<>> /\ "pay" \notin calls
  /\ track = None \/ ~Live
  /\ net' = Consumed(net)
  /\ UNCHANGED <<providerVars, deal, chan, faults>>

(* Revalidate and processPayment: AddVoucherInbound accepts what the       *)
(* voucher adds to its lane; the deal goes on if that is enough.           *)
Revalidate ==
  /\ Goes("pay", FALSE)
  /\ UNCHANGED <<p, pbusy, deal>>
  /\ IF synced["pay"].Status \in ProviderFinalityStates
     THEN /\ net' = Answered(Consumed(net), Response("Errored", 0))
          /\ UNCHANGED <<pq, track, chan, faults>>
     ELSE \/ /\ Fails /\ UNCHANGED <<chan, track>>
             /\ pq' = ToProvider(<<Ev("SaveVoucherFailed", 0)>>)
             /\ net' = Answered(Consumed(net), Response("Errored", 0))
          \/ LET ds       == synced["pay"]
                 v        == Head(net.vouchers)
                 received == Max({v - chan.accepted, 0})
                 owed     == paymentOwed(ds, ds.FundsReceived + received)
             IN
             /\ Works
             /\ chan' = [chan EXCEPT !.accepted = @ + received]
             /\ IF owed > 0
                THEN /\ pq' = ToProvider(<<Ev("PartialPaymentReceived", received)>>)
                     /\ net' = Answered([Consumed(net) EXCEPT !.paused = TRUE],
                                        Response(ds.Status, owed))
                     /\ UNCHANGED track
                ELSE LET last == ds.Status = "FundsNeededLastPayment" IN
                     /\ pq' = ToProvider(<<Ev("PaymentReceived", received)>>
                                           \o IF last THEN <<Ev("Complete", 0)>> ELSE <<>>)
                     /\ LET n == [Consumed(net) EXCEPT !.paused = FALSE] IN
                        net' = IF last THEN Answered(n, Response("Completed", 0)) ELSE n
                     /\ track' = [track EXCEPT !.reload = TRUE]

-----------------------------------------------------------------------------
ProviderTrigger(name) == pq' = Append(pq, Ev(name, 0)) /\ pbusy' = FALSE

(* UntrackChannel takes the lock for writing: no call may hold it. *)
UntrackTransfer == calls = {} /\ track' = None

(* Closing the data transfer tells the client of it with the event told. *)
ProviderCancelDeal(told) ==
  /\ pbusy /\ p.Status \in {"Failing", "Cancelling"}
  /\ UntrackTransfer
  /\ UNCHANGED <<p, calls, synced, deal, chan>>
  /\ \/ /\ Works /\ ProviderTrigger("CancelComplete")
        /\ net' = Closed(net) /\ told = "ProviderCancelled"
     \/ /\ Fails /\ UNCHANGED net /\ told = "none"
        /\ \E e \in {"MultiStoreError", "DataTransferError"} : ProviderTrigger(e)

CleanupDeal ==
  /\ pbusy /\ p.Status = "Completing"
  /\ UntrackTransfer
  /\ ProviderTrigger("CleanupComplete")
  /\ UNCHANGED <<p, calls, synced, deal, net, chan, faults>>

ProviderInit ==
  /\ p = None /\ pq = <<>> /\ pbusy = FALSE
  /\ track = None /\ calls = {} /\ synced = [k \in {} |-> p]

ProviderState == [Status : ProviderStatuses, TotalSent : Nat, FundsReceived : Nat,
                  CurrentInterval : Nat]
ChannelData == [totalSent : Nat, totalPaidFor : Nat, interval : Nat, reload : BOOLEAN]

ProviderTransferCall ==
  \/ ValidatePull \/ OnPullDataSentWaits \/ OnPullDataSent
  \/ OnCompleteWaits \/ OnComplete
  \/ RevalidateWaits \/ RevalidateUntracked \/ Revalidate
=============================================================================
