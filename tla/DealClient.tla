----------------------------- MODULE DealClient -----------------------------
(***************************************************************************)
(* The client's side of a retrieval deal: its state machine                *)
(* (retrieval/client/fsm.go), the data transfer events that reach it       *)
(* (retrieval/client/dtsubscriber.go) and the calls that start and resume  *)
(* a deal (retrieval/manager.go).                                          *)
(***************************************************************************)
EXTENDS DealTransfer

VARIABLES
  c,      \* deal.ClientState
  cq,     \* the events its state machine has not taken yet
  cbusy   \* whether an entry function is running

clientVars == <<c, cq, cbusy>>

ClientFinalityStates ==
  {"Errored", "Completed", "Cancelled", "Rejected", "DealNotFound"}

paymentChannelCreationStates ==
  {"WaitForAcceptance", "Accepted", "PaymentChannelCreating",
   "PaymentChannelAllocatingLane", "PaymentChannelAddingInitialFunds"}

ClientStatuses ==
  ClientFinalityStates \cup paymentChannelCreationStates \cup
  {"New", "PaymentChannelAddingFunds", "Ongoing", "FundsNeeded",
   "FundsNeededLastPayment", "SendFunds", "SendFundsLastPayment", "CheckFunds",
   "InsufficientFunds", "BlocksComplete", "Finalizing", "CheckComplete",
   "ClientWaitingForLastBlocks", "Failing", "Cancelling"}

-----------------------------------------------------------------------------
(* The state chart, by the part of the deal an event belongs to. *)
ProposalEvents ==
  On("Open", {"New"}, "NoChange")
  \cup On("WriteDealProposalErrored", ClientStatuses, "Errored")
  \cup On("DealProposed", {"New"}, "WaitForAcceptance")
  \cup On("DealRejected", {"WaitForAcceptance"}, "Rejected")
  \cup On("DealNotFound", {"WaitForAcceptance"}, "DealNotFound")
  \cup On("DealAccepted", {"WaitForAcceptance"}, "Accepted")
  \cup On("DealAccepted", {"ClientWaitingForLastBlocks"}, "NoChange")
  \cup On("UnknownResponseReceived", ClientStatuses, "Failing")

PaymentChannelEvents ==
  On("PaymentChannelSkip", {"Accepted"}, "Ongoing")
  \cup On("PaymentChannelErrored", {"Accepted", "PaymentChannelCreating",
                                    "PaymentChannelAddingFunds"}, "Failing")
  \cup On("PaymentChannelCreateInitiated", {"Accepted"},
                                           "PaymentChannelCreating")
  \cup On("PaymentChannelAddingFunds", {"Accepted"},
                                       "PaymentChannelAddingInitialFunds")
  \cup On("PaymentChannelAddingFunds", {"CheckFunds"},
                                       "PaymentChannelAddingFunds")
  \cup On("PaymentChannelReady", {"PaymentChannelCreating",
                                  "PaymentChannelAddingInitialFunds",
                                  "Accepted"}, "PaymentChannelAllocatingLane")
  \cup On("PaymentChannelReady", {"PaymentChannelAddingFunds", "CheckFunds"},
                                 "Ongoing")
  \cup On("AllocateLaneErrored", {"PaymentChannelAllocatingLane"}, "Failing")
  \cup On("LaneAllocated", {"PaymentChannelAllocatingLane"}, "Ongoing")

RequestEvents ==
  On("ProviderErrored", ClientStatuses, "Errored")
  \cup On("DataTransferError", ClientStatuses, "Errored")
  \cup On("LastPaymentRequested", {"Ongoing", "FundsNeededLastPayment",
                                   "FundsNeeded"}, "FundsNeededLastPayment")
  \cup On("LastPaymentRequested", {"SendFunds"}, "Ongoing")
  \cup On("LastPaymentRequested", {"CheckComplete"}, "NoChange")
  \cup On("LastPaymentRequested", {"BlocksComplete"}, "SendFundsLastPayment")
  \cup On("LastPaymentRequested", paymentChannelCreationStates, "JustRecord")
  \cup On("PaymentRequested", {"Ongoing", "BlocksComplete",
                               "FundsNeededLastPayment", "FundsNeeded"},
                              "FundsNeeded")
  \cup On("PaymentRequested", {"SendFunds"}, "Ongoing")
  \cup On("PaymentRequested", {"CheckComplete"}, "NoChange")
  \cup On("PaymentRequested", paymentChannelCreationStates, "JustRecord")
  \cup On("UnsealPaymentRequested", {"WaitForAcceptance"}, "Accepted")

DataEvents ==
  On("AllBlocksReceived", {"Ongoing", "BlocksComplete"}, "BlocksComplete")
  \cup On("AllBlocksReceived", paymentChannelCreationStates, "JustRecord")
  \cup On("AllBlocksReceived", {"SendFunds", "SendFundsLastPayment"}, "Ongoing")
  \cup On("AllBlocksReceived", {"FundsNeeded"}, "NoChange")
  \cup On("AllBlocksReceived", {"FundsNeededLastPayment"},
                               "SendFundsLastPayment")
  \cup On("AllBlocksReceived", {"ClientWaitingForLastBlocks", "CheckComplete"},
                               "Completed")
  \cup On("BlocksReceived", {"Ongoing", "FundsNeeded",
                             "FundsNeededLastPayment", "CheckComplete",
                             "ClientWaitingForLastBlocks"}, "NoChange")
  \cup On("BlocksReceived", {"SendFunds", "SendFundsLastPayment"}, "Ongoing")
  \cup On("BlocksReceived", paymentChannelCreationStates, "JustRecord")

PaymentEvents ==
  On("SendFunds", {"SendFunds", "SendFundsLastPayment"}, "Ongoing")
  \cup On("SendFunds", {"FundsNeeded"}, "SendFunds")
  \cup On("SendFunds", {"FundsNeededLastPayment"}, "SendFundsLastPayment")
  \cup On("FundsExpended", {"CheckFunds"}, "InsufficientFunds")
  \cup On("BadPaymentRequested", {"SendFunds", "SendFundsLastPayment"},
                                 "Failing")
  \cup On("CreateVoucherFailed", {"SendFunds", "SendFundsLastPayment"},
                                 "Failing")
  \cup On("VoucherShortfall", {"SendFunds", "SendFundsLastPayment"},
                              "CheckFunds")
  \cup On("WriteDealPaymentErrored", ClientStatuses, "Errored")
  \cup On("PaymentNotSent", {"Ongoing"}, "JustRecord")
  \cup On("PaymentNotSent", {"SendFunds"}, "Ongoing")
  \cup On("PaymentNotSent", {"SendFundsLastPayment"}, "Finalizing")
  \cup On("PaymentSent", {"Ongoing"}, "JustRecord")
  \cup On("PaymentSent", {"BlocksComplete"}, "CheckComplete")
  \cup On("PaymentSent", {"CheckComplete"}, "NoChange")
  \cup On("PaymentSent", {"FundsNeeded", "FundsNeededLastPayment", "SendFunds"},
                         "Ongoing")
  \cup On("PaymentSent", {"SendFundsLastPayment"}, "Finalizing")
  \cup On("RecheckFunds", {"InsufficientFunds"}, "CheckFunds")

CompletionEvents ==
  On("Complete", {"SendFunds", "SendFundsLastPayment", "FundsNeeded",
                  "FundsNeededLastPayment", "BlocksComplete",
                  "WaitForAcceptance", "Accepted", "Ongoing"}, "CheckComplete")
  \cup On("Complete", {"Finalizing"}, "Completed")
  \cup On("CompleteVerified", {"CheckComplete"}, "Completed")
  \cup On("EarlyTermination", {"CheckComplete"}, "Errored")
  \cup On("WaitForLastBlocks", {"CheckComplete"}, "ClientWaitingForLastBlocks")
  \cup On("WaitForLastBlocks", {"Completed"}, "JustRecord")
  \cup On("CancelComplete", {"Failing"}, "Errored")
  \cup On("CancelComplete", {"Cancelling"}, "Cancelled")
  \cup On("ProviderCancelled", {"Failing", "Cancelling"}, "JustRecord")
  \cup On("ProviderCancelled", ClientStatuses \ {"Failing", "Cancelling"},
                                                "Cancelling")
  \cup On("Cancel", ClientStatuses, "Cancelling")

ClientFSMEvents ==
  ProposalEvents \cup PaymentChannelEvents \cup RequestEvents \cup DataEvents
    \cup PaymentEvents \cup CompletionEvents
-----------------------------------------------------------------------------
(* What the action of an event records in the deal. *)
Requested(ds, owed) == [ds EXCEPT !.PaymentRequested = @ + owed]

PaidFor(ds, amount) ==
  IF deal.UnsealPrice >= amount \/ deal.PricePerByte = 0 THEN ds.BytesPaidFor
  ELSE (amount - deal.UnsealPrice) \div deal.PricePerByte

RecordPaymentSent(ds, amount) ==
  LET paidFor == PaidFor(ds, amount)
      moved   == amount > deal.UnsealPrice /\ deal.PricePerByte # 0
                   /\ paidFor >= ds.CurrentInterval
  IN  [ds EXCEPT !.PaymentRequested = @ - (amount - ds.FundsSpent),
                 !.FundsSpent = amount,
                 !.UnsealFundsPaid = Min({amount, deal.UnsealPrice}),
                 !.BytesPaidFor = paidFor,
                 !.CurrentInterval = IF moved THEN NextInterval(@) ELSE @]

RecordClient(ds, e) ==
  CASE e.name = "PaymentChannelCreateInitiated" -> [ds EXCEPT !.WaitMsg = TRUE]
    [] e.name = "PaymentChannelAddingFunds" ->
         [ds EXCEPT !.WaitMsg = TRUE, !.PaymentInfo = TRUE]
    [] e.name = "PaymentChannelReady" ->
         [ds EXCEPT !.WaitMsg = FALSE, !.PaymentInfo = TRUE]
    [] e.name = "LastPaymentRequested" ->
         [Requested(ds, e.arg) EXCEPT !.LastPaymentRequested = TRUE]
    [] e.name \in {"PaymentRequested", "UnsealPaymentRequested"} -> Requested(ds, e.arg)
    [] e.name = "AllBlocksReceived" -> [ds EXCEPT !.AllBlocksReceived = TRUE]
    [] e.name = "BlocksReceived" -> [ds EXCEPT !.TotalReceived = e.arg]
    [] e.name = "FundsExpended" -> [ds EXCEPT !.VoucherShortfall = e.arg]
    [] e.name = "PaymentSent" -> RecordPaymentSent(ds, e.arg)
    [] OTHER -> ds

-----------------------------------------------------------------------------
(* The statuses with an entry function. *)
ClientStateEntryFuncs ==
  {"New", "Accepted", "PaymentChannelCreating", "PaymentChannelAddingInitialFunds",
   "PaymentChannelAllocatingLane", "Ongoing", "FundsNeeded", "FundsNeededLastPayment",
   "SendFunds", "SendFundsLastPayment", "CheckFunds", "PaymentChannelAddingFunds",
   "Failing", "Cancelling", "CheckComplete"}

(* The state machine takes the next event unless an entry function runs.   *)
(* In a final status it terminates and what is left in the queue is lost.  *)
ClientPlan ==
  /\ ~cbusy /\ cq # <<>>
  /\ LET e == Head(cq)
         moves == Moves(ClientFSMEvents, e.name, c.Status)
     IN
       \/ moves = {} /\ cq' = Tail(cq) /\ UNCHANGED <<c, cbusy>>
       \/ \E m \in moves :
            /\ c' = [RecordClient(c, e) EXCEPT !.Status = TargetOf(m)]
            /\ cq' = IF TargetOf(m) \in ClientFinalityStates THEN <<>> ELSE Tail(cq)
            /\ cbusy' = (TargetOf(m) \in ClientStateEntryFuncs /\ m.to # "JustRecord")
  /\ UNCHANGED <<deal, net, chan, faults>>

(* Send to the state machine from outside; a terminated one refuses. *)
ToClient(e) == IF c.Status \in ClientFinalityStates THEN cq ELSE Append(cq, e)

Trigger(name, arg) == cq' = Append(cq, Ev(name, arg)) /\ cbusy' = FALSE
Return == cbusy' = FALSE /\ UNCHANGED cq
Runs(statuses) == cbusy /\ c.Status \in statuses /\ UNCHANGED <<c, deal>>

ProposeDeal ==
  /\ Runs({"New"}) /\ UNCHANGED chan
  /\ \/ Works /\ net' = [net EXCEPT !.phase = "proposed"] /\ Trigger("DealProposed", 0)
     \/ Fails /\ UNCHANGED net /\ Trigger("WriteDealProposalErrored", 0)

(* Mutant: every deal skips the payment channel. *)
MutSetupPaymentChannelStart ==
  Runs({"Accepted"}) /\ UNCHANGED <<net, chan>> /\ Works /\ Trigger("PaymentChannelSkip", 0)

(* GetChannel finds enough funds, or creates the channel or adds to it. *)
SetupPaymentChannelStart ==
  /\ Runs({"Accepted"}) /\ UNCHANGED net
  /\ \/ deal.TotalFunds = 0 /\ Works /\ UNCHANGED chan /\ Trigger("PaymentChannelSkip", 0)
     \/ deal.TotalFunds # 0 /\ Fails /\ UNCHANGED chan /\ Trigger("PaymentChannelErrored", 0)
     \/ /\ deal.TotalFunds # 0 /\ Works
        /\ IF chan.confirmed - chan.other - chan.own >= deal.TotalFunds
           THEN UNCHANGED chan /\ Trigger("PaymentChannelReady", 0)
           ELSE /\ chan' = [chan EXCEPT !.pending = @ + deal.TotalFunds]
                /\ Trigger(IF chan.confirmed = 0 THEN "PaymentChannelCreateInitiated"
                           ELSE "PaymentChannelAddingFunds", 0)

WaitPaymentChannelReady ==
  /\ Runs({"PaymentChannelCreating", "PaymentChannelAddingInitialFunds",
           "PaymentChannelAddingFunds"})
  /\ UNCHANGED net
  /\ \/ /\ Works /\ Trigger("PaymentChannelReady", 0)
        /\ chan' = [chan EXCEPT !.confirmed = @ + chan.pending, !.pending = 0]
     \/ /\ Fails /\ Trigger("PaymentChannelErrored", 0)
        /\ chan' = [chan EXCEPT !.pending = 0]

AllocateLane ==
  /\ Runs({"PaymentChannelAllocatingLane"}) /\ UNCHANGED <<net, chan>>
  /\ \/ Works /\ Trigger("LaneAllocated", 0)
     \/ Fails /\ Trigger("AllocateLaneErrored", 0)

(* Mutant: a request for payment that came before the lane was allocated   *)
(* is forgotten.                                                           *)
MutOngoing == Runs({"Ongoing"}) /\ UNCHANGED <<net, chan, faults>> /\ Return

Ongoing ==
  /\ Runs({"Ongoing"}) /\ UNCHANGED <<net, chan, faults>>
  /\ IF c.PaymentRequested > 0
     THEN Trigger(IF c.LastPaymentRequested THEN "LastPaymentRequested"
                  ELSE "PaymentRequested", 0)
     ELSE Return

ProcessPaymentRequested ==
  /\ Runs({"FundsNeeded", "FundsNeededLastPayment"}) /\ UNCHANGED <<net, chan, faults>>
  /\ IF \/ deal.UnsealPrice > c.UnsealFundsPaid
        \/ /\ c.BytesPaidFor < c.TotalReceived
           /\ c.AllBlocksReceived \/ c.TotalReceived >= c.CurrentInterval
     THEN Trigger("SendFunds", 0)
     ELSE Return

(* Mutant: the next interval is paid for as well. *)
MutcalcAmountToSend ==
  IF c.AllBlocksReceived THEN c.TotalReceived * deal.PricePerByte
                         ELSE NextInterval(c.CurrentInterval) * deal.PricePerByte

(* The total that should have been paid by now: up to the end of the       *)
(* current interval, or for everything once all blocks are there.          *)
calcAmountToSend ==
  IF c.UnsealFundsPaid >= deal.UnsealPrice /\ ~c.AllBlocksReceived
  THEN IF c.TotalReceived < c.CurrentInterval THEN 0
       ELSE c.CurrentInterval * deal.PricePerByte + deal.UnsealPrice
  ELSE c.TotalReceived * deal.PricePerByte + deal.UnsealPrice

SendFunds ==
  /\ Runs({"SendFunds", "SendFundsLastPayment"})
  /\ LET total == calcAmountToSend IN
     \/ total <= c.FundsSpent /\ Works /\ UNCHANGED <<net, chan>> /\ Trigger("PaymentNotSent", 0)
     \/ total > c.FundsSpent /\ Fails /\ UNCHANGED <<net, chan>> /\ Trigger("CreateVoucherFailed", 0)
     \/ /\ total > c.FundsSpent /\ Works /\ UNCHANGED <<net, chan>>
        /\ chan.other + total > chan.confirmed
        /\ Trigger("VoucherShortfall", chan.other + total - chan.confirmed)
     \/ /\ total > c.FundsSpent
        /\ chan.other + total <= chan.confirmed
        /\ chan' = [chan EXCEPT !.own = Max({@, total})]
        /\ \/ /\ Works /\ Trigger("PaymentSent", total)
              /\ net' = [net EXCEPT !.vouchers =
                           IF net.phase = "open" THEN Append(@, total) ELSE @]
           \/ Fails /\ Trigger("WriteDealPaymentErrored", 0) /\ UNCHANGED net

CheckFunds ==
  /\ Runs({"CheckFunds"}) /\ UNCHANGED <<net, chan>>
  /\ LET shortfall == calcAmountToSend - (chan.confirmed - (chan.other + chan.own)) IN
     \/ c.WaitMsg /\ Works /\ Trigger("PaymentChannelAddingFunds", 0)
     \/ ~c.WaitMsg /\ Fails /\ Trigger("PaymentChannelErrored", 0)
     \/ /\ ~c.WaitMsg /\ Works
        /\ IF shortfall <= 0 THEN Trigger("PaymentChannelReady", 0)
           ELSE IF chan.pending < shortfall
                THEN Trigger("FundsExpended", shortfall - chan.pending)
                ELSE Trigger("PaymentChannelAddingFunds", 0)

(* Closing the data transfer cancels it on the provider's side, which is   *)
(* told of it with the event told.                                         *)
ClientCancelDeal(told) ==
  /\ Runs({"Failing", "Cancelling"}) /\ UNCHANGED chan
  /\ \/ /\ Works /\ Trigger("CancelComplete", 0)
        /\ net' = Closed(net) /\ told = "ClientCancelled"
     \/ /\ Fails /\ Trigger("DataTransferError", 0)
        /\ UNCHANGED net /\ told = "none"

(* Mutant: a completion is taken without asking for the blocks. *)
MutCheckComplete ==
  /\ Runs({"CheckComplete"}) /\ UNCHANGED <<net, chan, faults>>
  /\ Trigger("CompleteVerified", 0)

CheckComplete ==
  /\ Runs({"CheckComplete"}) /\ UNCHANGED <<net, chan, faults>>
  /\ Trigger(IF c.AllBlocksReceived THEN "CompleteVerified"
             ELSE IF deal.PricePerByte = 0 THEN "WaitForLastBlocks"
             ELSE "EarlyTermination", 0)

-----------------------------------------------------------------------------
(* Data transfer events. *)
eventFromDealStatus(r) ==
  CASE r.Status = "Rejected" -> Ev("DealRejected", 0)
    [] r.Status = "Errored" -> Ev("ProviderErrored", 0)
    [] r.Status = "DealNotFound" -> Ev("DealNotFound", 0)
    [] r.Status = "Accepted" -> Ev("DealAccepted", 0)
    [] r.Status = "FundsNeededUnseal" -> Ev("UnsealPaymentRequested", r.PaymentOwed)
    [] r.Status = "FundsNeededLastPayment" -> Ev("LastPaymentRequested", r.PaymentOwed)
    [] r.Status = "Completed" -> Ev("Complete", 0)
    [] r.Status \in {"FundsNeeded", "Ongoing"} -> Ev("PaymentRequested", r.PaymentOwed)
    [] OTHER -> Ev("UnknownResponseReceived", 0)

DataReceivedProgress ==
  /\ net.phase = "open" /\ net.got < net.sent
  /\ net' = [net EXCEPT !.got = @ + 1]
  /\ cq' = ToClient(Ev("BlocksReceived", SizeOf(net.got + 1)))
  /\ UNCHANGED <<c, cbusy, deal, chan, faults>>

NewVoucherResult ==
  /\ net.results # <<>>
  /\ net' = [net EXCEPT !.results = Tail(@)]
  /\ cq' = ToClient(eventFromDealStatus(Head(net.results)))
  /\ UNCHANGED <<c, cbusy, deal, chan, faults>>

FinishTransfer ==
  /\ net.phase = "open" /\ net.done /\ net.got = Len(Blocks) /\ ~net.finished
  /\ net' = [net EXCEPT !.finished = TRUE]
  /\ cq' = ToClient(Ev("AllBlocksReceived", 0))
  /\ UNCHANGED <<c, cbusy, deal, chan, faults>>

(* The user adds the shortfall to the channel and restarts the deal. *)
TryRestartInsufficientFunds ==
  /\ c.Status = "InsufficientFunds" /\ chan.topups < TopUps
  /\ chan' = [chan EXCEPT !.confirmed = @ + c.VoucherShortfall, !.topups = @ + 1]
  /\ cq' = ToClient(Ev("RecheckFunds", 0))
  /\ UNCHANGED <<c, cbusy, deal, net, faults>>

(* Another deal with the same provider spends from the same channel. *)
OtherDealPays ==
  /\ \E a \in 1..OtherSpend :
       /\ chan.other + a <= OtherSpend /\ chan.other + a + chan.own <= chan.confirmed
       /\ chan' = [chan EXCEPT !.other = @ + a]
  /\ UNCHANGED <<c, cq, cbusy, deal, net, faults>>

-----------------------------------------------------------------------------
(* Retrieve: a new deal whose state machine is opened. *)
Retrieve ==
  /\ c = [Status |-> "New", TotalReceived |-> 0, AllBlocksReceived |-> FALSE,
          LastPaymentRequested |-> FALSE, PaymentRequested |-> 0, FundsSpent |-> 0,
          UnsealFundsPaid |-> 0, BytesPaidFor |-> 0,
          CurrentInterval |-> deal.PaymentInterval,
          WaitMsg |-> FALSE, PaymentInfo |-> FALSE, VoucherShortfall |-> 0]
  /\ cq = <<Ev("Open", 0)>>
  /\ cbusy = FALSE

ClientState ==
  [Status : ClientStatuses, TotalReceived : Nat, AllBlocksReceived : BOOLEAN,
   LastPaymentRequested : BOOLEAN, PaymentRequested : Int, FundsSpent : Nat,
   UnsealFundsPaid : Nat, BytesPaidFor : Nat, CurrentInterval : Nat,
   WaitMsg : BOOLEAN, PaymentInfo : BOOLEAN, VoucherShortfall : Nat]

ClientHandler ==
  \/ ProposeDeal \/ SetupPaymentChannelStart \/ WaitPaymentChannelReady \/ AllocateLane
  \/ Ongoing \/ ProcessPaymentRequested \/ SendFunds \/ CheckFunds \/ CheckComplete

ClientTransferEvent == DataReceivedProgress \/ NewVoucherResult \/ FinishTransfer
=============================================================================
