----------------------------- MODULE Retrieval -----------------------------
(***************************************************************************)
(* A retrieval deal between a client and a provider (retrieval/): the two  *)
(* state machines, the revalidator and the data transfer between them.     *)
(***************************************************************************)
EXTENDS DealClient, DealProvider

vars == <<deal, net, chan, faults, clientVars, providerVars>>

Init ==
  /\ deal \in Proposals
  /\ NetInit /\ ChanInit /\ faults = 0
  /\ Retrieve
  /\ ProviderInit

(* The events the transfer raises on the other side when one side closes it. *)
TellProvider(e) == pq' = IF e = "none" THEN pq ELSE ToProvider(<<Ev(e, 0)>>)
TellClient(e) == cq' = IF e = "none" THEN cq ELSE ToClient(Ev(e, 0))

ClientCancels ==
  /\ \E told \in {"ClientCancelled", "none"} : ClientCancelDeal(told) /\ TellProvider(told)
  /\ UNCHANGED <<p, pbusy, track, calls, synced>>
ProviderCancels ==
  /\ \E told \in {"ProviderCancelled", "none"} : ProviderCancelDeal(told) /\ TellClient(told)
  /\ UNCHANGED <<c, cbusy>>

(* Both sides learn that the connection is gone.  What was on its way to   *)
(* the client is lost; so may be the vouchers that are not looked at yet.  *)
Disconnected ==
  /\ net.phase \in {"proposed", "open"} /\ Fails
  /\ \E vs \in {net.vouchers,
                IF "pay" \in calls THEN <<Head(net.vouchers)>> ELSE <<>>} :
       net' = [Closed(net) EXCEPT !.results = <<>>, !.vouchers = vs]
  /\ cq' = ToClient(Ev("DataTransferError", 0))
  /\ TellProvider("DataTransferError")
  /\ UNCHANGED <<c, cbusy, p, pbusy, track, calls, synced, deal, chan>>

ClientStep == (ClientPlan \/ ClientHandler) /\ UNCHANGED providerVars
ClientEvent == ClientTransferEvent /\ UNCHANGED providerVars
ClientUser == (TryRestartInsufficientFunds \/ OtherDealPays) /\ UNCHANGED providerVars
ProviderStep == (ProviderPlan \/ CleanupDeal) /\ UNCHANGED clientVars
ProviderCall == ProviderTransferCall /\ UNCHANGED clientVars

Next ==
  \/ ClientStep \/ ClientEvent \/ ClientUser \/ ClientCancels
  \/ ProviderStep \/ ProviderCall \/ ProviderCancels
  \/ Disconnected

(* The state machines and the data transfer run; messages arrive unless    *)
(* the connection is lost; nothing makes the user add funds.               *)
Fairness ==
  /\ WF_vars(ClientStep) /\ WF_vars(ClientCancels)
  /\ WF_vars(ClientEvent /\ DataReceivedProgress)
  /\ WF_vars(ClientEvent /\ NewVoucherResult)
  /\ WF_vars(ClientEvent /\ FinishTransfer)
  /\ WF_vars(ProviderStep) /\ WF_vars(ProviderCall) /\ WF_vars(ProviderCancels)

Spec == Init /\ [][Next]_vars
FairSpec == Spec /\ Fairness

TypeOK ==
  /\ deal \in Proposals /\ net \in Net /\ faults \in 0..Faults
  /\ c \in ClientState /\ cbusy \in BOOLEAN
  /\ p \in ProviderState \cup {None} /\ pbusy \in BOOLEAN
  /\ track \in ChannelData \cup {None}
  /\ calls \subseteq {"sent", "completed", "pay"} /\ DOMAIN synced \subseteq calls
  /\ synced = [k \in DOMAIN synced |-> synced[k]] /\ \A k \in DOMAIN synced : synced[k] \in ProviderState

-----------------------------------------------------------------------------
ProviderStatus == IF p = None THEN "None" ELSE p.Status

Price(bytes) == bytes * deal.PricePerByte + deal.UnsealPrice

(* The client never signs vouchers for more than the blocks it holds cost, *)
(* whatever order payment requests and blocks reach SendFunds in.          *)
PaysForReceived == chan.own > 0 => chan.own <= Price(c.TotalReceived)

(* While a deal runs, the funds the provider's deal records, with those in *)
(* events not taken yet, are what AddVoucherInbound accepted: no status    *)
(* drops the event of a payment.                                           *)
ReceivedIsAccepted ==
  Live /\ p.Status \notin {"Failing", "Cancelling"} =>
    p.FundsReceived + SumFunctionOnSet([i \in DOMAIN pq |-> pq[i].arg],
        {i \in DOMAIN pq : pq[i].name \in {"PaymentReceived", "PartialPaymentReceived"}})
      = chan.accepted

(* A provider that took the last payment was paid for all of the content.  *)
(* (status.go: "StatusFinalizing means the last payment has been           *)
(* received".)                                                             *)
ProviderPaid ==
  ProviderStatus \in {"Finalizing", "Completing", "Completed"} =>
    p.FundsReceived >= Price(SizeOf(Len(Blocks)))

(* A client whose deal is completed has every block, although the          *)
(* provider's completion may overtake the last blocks.                     *)
ClientCompleted == c.Status = "Completed" => net.got = Len(Blocks)

(* The unsigned difference in OnPullDataSent and OnComplete never wraps:   *)
(* the revalidator never thinks more is paid for than was sent.            *)
NoUnderflow == track # None => track.totalPaidFor <= track.totalSent

(* SendFunds, which dereferences PaymentInfo, runs only after a channel    *)
(* was recorded.                                                           *)
HasChannel == c.Status \in {"SendFunds", "SendFundsLastPayment"} => c.PaymentInfo

(* The content ends where a payment interval ends: nothing is owed when    *)
(* all blocks are sent, and no last payment is asked for.                  *)
NoLastPayment ==
  IntervalLowerBound(SizeOf(Len(Blocks)) + 1) = SizeOf(Len(Blocks))

(* A deal comes to rest.  If no call fails and no other deal drains the    *)
(* channel, an acceptable proposal is completed on both sides, but for the *)
(* client's when no last payment is due; after a failure the client's deal *)
(* ends, unless waiting for the initial funds failed, which                *)
(* PaymentChannelErrored has no transition for.                            *)
Settles ==
  <>[](\/ chan.other > 0
       \/ /\ faults = 0 /\ CheckDealParams /\ ProviderStatus = "Completed"
          /\ c.Status \in {"Completed"} \cup IF NoLastPayment THEN {"Errored"} ELSE {}
       \/ faults = 0 /\ ~CheckDealParams /\ c.Status = "Rejected"
       \/ faults > 0 /\ c.Status \in ClientFinalityStates
                                       \cup {"PaymentChannelAddingInitialFunds"})

(* A deal that is being cleaned up terminates: CancelDeal of the provider, *)
(* which waits for the revalidator's lock, returns.  (status.go:           *)
(* StatusFailing, "we are cleaning up before terminating with an error".)  *)
CleanupEnds ==
  ProviderStatus \in {"Failing", "Cancelling"} ~> ProviderStatus \in ProviderFinalityStates
=============================================================================
