-------------------------- MODULE RetrievalProofs --------------------------
(***************************************************************************)
(* Proofs about a retrieval deal (module Retrieval), for all contents,     *)
(* proposals, balances and numbers of failures: DealInv is an inductive    *)
(* invariant, kept by the client's steps, by the transfer and by the       *)
(* provider's steps; type correctness, that a client never signs vouchers  *)
(* for more than it holds, and that vouchers are only created on a channel *)
(* that was recorded follow from it.                                       *)
(***************************************************************************)
EXTENDS Retrieval, NumberLemmas

-----------------------------------------------------------------------------
(* Types that TypeOK leaves open. *)
PaymentChannel == [confirmed : Nat, pending : Nat, other : Nat, own : Nat,
                   accepted : Nat, topups : Nat]

Calls == {"sent", "completed", "pay"}

ClientEventNames ==
  {"Open", "WriteDealProposalErrored", "DealProposed", "DealRejected",
   "DealNotFound", "DealAccepted", "UnknownResponseReceived",
   "PaymentChannelSkip", "PaymentChannelErrored",
   "PaymentChannelCreateInitiated", "PaymentChannelAddingFunds",
   "PaymentChannelReady", "AllocateLaneErrored", "LaneAllocated",
   "ProviderErrored", "DataTransferError", "LastPaymentRequested",
   "PaymentRequested", "UnsealPaymentRequested", "AllBlocksReceived",
   "BlocksReceived", "SendFunds", "FundsExpended", "BadPaymentRequested",
   "CreateVoucherFailed", "VoucherShortfall", "WriteDealPaymentErrored",
   "PaymentNotSent", "PaymentSent", "RecheckFunds", "Complete",
   "CompleteVerified", "EarlyTermination", "WaitForLastBlocks",
   "CancelComplete", "ProviderCancelled", "Cancel"}

ClientEvents == [name : ClientEventNames, arg : Int]

(* The events whose argument is recorded as a natural number. *)
Counts == {"FundsExpended", "PaymentSent", "BlocksReceived"}

(* The events of a deal that is paid for. *)
PaymentNames == {"PaymentRequested", "LastPaymentRequested", "UnsealPaymentRequested",
                 "PaymentSent"}

ProviderEventNames ==
  {"Open", "DealAccepted", "BlockSent", "BlocksCompleted", "PaymentRequested",
   "SaveVoucherFailed", "PartialPaymentReceived", "PaymentReceived",
   "Complete", "CleanupComplete", "CancelComplete", "DataTransferError",
   "MultiStoreError", "ClientCancelled"}

ProviderEvents == [name : ProviderEventNames, arg : Nat] \cup [name : {"Sync"}, arg : Calls]

Fixed == deal \in Proposals /\ chan \in PaymentChannel /\ faults \in 0..Faults

ClientOK == c \in ClientState /\ cbusy \in BOOLEAN

(* An event of the client's queue: only a deal without funds skips the     *)
(* channel, and it is not asked to pay; a block that is reported was       *)
(* received.                                                               *)
EventOK(e, funds, received, arrived) ==
  /\ e.name \in Counts => e.arg \in Nat
  /\ funds # 0 => e.name # "PaymentChannelSkip"
  /\ funds = 0 => e.name \notin PaymentNames
  /\ e.name = "BlocksReceived" => received <= e.arg /\ e.arg <= arrived

ClientQueueOK ==
  /\ cq \in Seq(ClientEvents)
  /\ \A i \in 1..Len(cq) : EventOK(cq[i], deal.TotalFunds, c.TotalReceived, SizeOf(net.got))
  /\ \A i, j \in 1..Len(cq) :
       cq[i].name = "BlocksReceived" /\ cq[j].name = "BlocksReceived" /\ i < j =>
         cq[i].arg <= cq[j].arg

NetOK == net \in Net /\ net.got <= net.sent /\ c.TotalReceived <= SizeOf(net.got)

(* A call that waits in GetSync is either in the queue, once, or has its   *)
(* answer, and the voucher or block it is about is still there.            *)
ProviderOK ==
  /\ p \in ProviderState \cup {None} /\ pbusy \in BOOLEAN
  /\ track \in ChannelData \cup {None}
  /\ calls \subseteq Calls /\ DOMAIN synced \subseteq calls
  /\ synced \in [DOMAIN synced -> ProviderState]
  /\ calls # {} => track \in ChannelData

ProviderQueueOK ==
  /\ pq \in Seq(ProviderEvents)
  /\ \A i \in 1..Len(pq) : pq[i].name = "Sync" => pq[i].arg \in calls \ DOMAIN synced
  /\ \A i, j \in 1..Len(pq) :
       pq[i].name = "Sync" /\ pq[j].name = "Sync" /\ pq[i].arg = pq[j].arg => i = j

CallsOK ==
  /\ "sent" \in calls => net.sent < Len(Blocks)
  /\ "pay" \in calls => net.vouchers # <<>>

(* The statuses that a client reaches once its payment channel is settled. *)
Paying == {"PaymentChannelAllocatingLane", "Ongoing", "FundsNeeded",
           "FundsNeededLastPayment", "SendFunds", "SendFundsLastPayment", "CheckFunds",
           "PaymentChannelAddingFunds", "InsufficientFunds", "BlocksComplete"}

Pays == {"FundsNeeded", "FundsNeededLastPayment", "SendFunds", "SendFundsLastPayment"}

Asks == {"FundsNeeded", "FundsNeededLastPayment", "FundsNeededUnseal", "Ongoing"}

ChannelOK == c.Status \in Paying => c.PaymentInfo \/ deal.TotalFunds = 0

(* Nothing is paid or asked for in a deal without funds. *)
FreeOfCharge ==
  deal.TotalFunds = 0 =>
    /\ c.Status \notin Pays /\ c.PaymentRequested = 0
    /\ \A i \in 1..Len(net.results) : net.results[i].Status \notin Asks
    /\ net.vouchers = <<>> /\ "pay" \notin calls

DealInv ==
  /\ Fixed /\ ClientOK /\ ClientQueueOK /\ NetOK
  /\ ProviderOK /\ ProviderQueueOK /\ CallsOK
  /\ ChannelOK /\ FreeOfCharge /\ PaysForReceived

-----------------------------------------------------------------------------
(* The bytes in the first blocks: none in none, and each block adds its    *)
(* size.                                                                   *)
LEMMA SizeOfStep ==
  /\ \A n \in 0..Len(Blocks) : SizeOf(n) \in Nat
  /\ SizeOf(0) = 0
  /\ \A n \in 0..(Len(Blocks) - 1) : SizeOf(n + 1) = SizeOf(n) + Blocks[n + 1]
<1>0. Len(Blocks) \in Nat /\ \A i \in 1..Len(Blocks) : Blocks[i] \in Nat
  BY BlocksAssumption
<1>1. ASSUME NEW n \in 0..Len(Blocks)
      PROVE  IsFiniteSet(1..n) /\ SumFunctionOnSet(Blocks, 1..n) \in Nat
  <2>1. IsFiniteSet(1..n)
    BY FS_Interval
  <2>2. \A x \in 1..n : Blocks[x] \in Nat
    BY <1>0
  <2> QED BY <2>1, <2>2, SumRemove, Zenon
<1>2. SizeOf(0) = 0
  <2>1. 1..0 = {}
    OBVIOUS
  <2> QED BY <2>1, SumEmpty, Zenon DEF SizeOf
<1>3. ASSUME NEW n \in 0..(Len(Blocks) - 1)
      PROVE  SizeOf(n + 1) = SizeOf(n) + Blocks[n + 1]
  <2>1. 1..(n + 1) = (1..n) \cup {n + 1} /\ n + 1 \notin 1..n /\ n \in 0..Len(Blocks)
    BY <1>0
  <2>2. \A x \in (1..n) \cup {n + 1} : Blocks[x] \in Nat
    BY <1>0
  <2>3. SumFunctionOnSet(Blocks, (1..n) \cup {n + 1})
          = Blocks[n + 1] + SumFunctionOnSet(Blocks, 1..n)
    <3> DEFINE S == 1..n
    <3>1. PICK y : y = n + 1
      OBVIOUS
    <3>2. IsFiniteSet(S) /\ y \notin S /\ \A x \in S \cup {y} : Blocks[x] \in Nat
      BY <1>1, <2>1, <2>2, <3>1
    <3> HIDE DEF S
    <3>3. SumFunctionOnSet(Blocks, S \cup {y}) = Blocks[y] + SumFunctionOnSet(Blocks, S)
      BY <3>2, SumAdd, Zenon
    <3> QED BY <3>1, <3>3, Zenon DEF S
  <2>4. SumFunctionOnSet(Blocks, 1..n) \in Nat /\ Blocks[n + 1] \in Nat
    BY <1>1, <2>1, <2>2, Zenon
  <2>5. SizeOf(n + 1) = SumFunctionOnSet(Blocks, (1..n) \cup {n + 1})
    BY <2>1, Zenon DEF SizeOf
  <2>6. SizeOf(n) = SumFunctionOnSet(Blocks, 1..n)
    BY Zenon DEF SizeOf
  <2> QED BY <2>3, <2>4, <2>5, <2>6
<1> QED BY <1>1, <1>2, <1>3 DEF SizeOf

(* Half of the product of a number and its predecessor. *)
LEMMA Triangle ==
  ASSUME NEW k \in Nat
  PROVE  /\ (k * (k - 1)) \div 2 \in Nat
         /\ k >= 1 => (k * (k - 1)) \div 2 >= k - 1
<1>1. CASE k = 0
  BY <1>1
<1>2. CASE k = 1
  BY <1>2
<1>3. CASE k >= 2
  <2>1. PICK x \in Nat : x = k * (k - 1)
    BY <1>3
  <2>2. x >= 2 * (k - 1)
    BY <1>3, <2>1
  <2>3. x \div 2 \in Nat /\ x \div 2 >= k - 1
    BY <1>3, <2>2
  <2> QED BY <2>1, <2>3, Zenon
<1> QED BY <1>1, <1>2, <1>3

(* The ends of the intervals are natural numbers, and one is found beyond  *)
(* any position.                                                           *)
LEMMA TargetNat ==
  ASSUME deal \in Proposals, NEW k \in Nat
  PROVE  /\ Target(k) \in Nat
         /\ k >= 1 /\ deal.PaymentInterval > 0 => Target(k) >= k
         /\ k >= 1 /\ deal.PaymentInterval = 0 => Target(k) >= k - 1
<1>1. /\ deal.PaymentInterval \in Nat /\ deal.PaymentIntervalIncrease \in Nat
      /\ deal.PaymentInterval + deal.PaymentIntervalIncrease > 0
  BY ProposalsAssumption, Zenon
<1>2. PICK t \in Nat : t = (k * (k - 1)) \div 2
  BY Triangle, Zenon
<1>3. PICK i \in Nat, inc \in Nat :
        i = deal.PaymentInterval /\ inc = deal.PaymentIntervalIncrease
  BY <1>1, Zenon
<1>4. Target(k) = k * i + inc * t
  BY <1>2, <1>3, Zenon DEF Target
<1>5. inc * t \in Nat /\ k * i \in Nat
  OBVIOUS
<1>6. i > 0 => k * i >= k
  OBVIOUS
<1>7. ASSUME i = 0, k >= 1 PROVE inc * t >= k - 1
  <2>1. t >= k - 1 /\ inc >= 1
    BY <1>1, <1>2, <1>3, <1>7, Triangle
  <2>2. inc * t >= t
    BY <2>1
  <2> QED BY <2>1, <2>2
<1> QED BY <1>3, <1>4, <1>5, <1>6, <1>7

(* NextInterval finds an end beyond the current one. *)
LEMMA NextIntervalNat ==
  ASSUME deal \in Proposals, NEW n \in Nat
  PROVE  NextInterval(n) \in Nat /\ NextInterval(n) > n
<1> DEFINE S == {t \in {Target(k) : k \in 1..(n + 2)} : t > n}
<1>1. \A k \in 1..(n + 2) : Target(k) \in Nat
  BY TargetNat
<1>2. S \in SUBSET Nat
  BY <1>1, Zenon
<1>3. deal.PaymentInterval \in Nat
  BY ProposalsAssumption, Zenon
<1>4. n + 2 \in 1..(n + 2) /\ Target(n + 2) >= n + 1
  BY <1>3, TargetNat
<1>5. Target(n + 2) \in S
  BY <1>1, <1>4
<1>6. Min(S) \in S
  <2> HIDE DEF S
  <2> QED BY <1>2, <1>5, MinIsLeast, Zenon
<1> QED BY <1>1, <1>6, Zenon DEF NextInterval

(* The last end before a position is a natural number. *)
LEMMA IntervalLowerBoundNat ==
  ASSUME deal \in Proposals, NEW n \in Nat
  PROVE  IntervalLowerBound(n) \in Nat
<1> DEFINE S == {0} \cup {t \in {Target(k) : k \in 0..n} : t < n}
<1>1. \A k \in 0..n : Target(k) \in Nat
  BY TargetNat
<1>2. S \in SUBSET Nat /\ 0 \in S /\ \A x \in S : x <= n
  BY <1>1
<1>3. Max(S) \in S
  <2> HIDE DEF S
  <2> QED BY <1>2, MaxIsGreatest
<1> QED BY <1>2, <1>3, Zenon DEF IntervalLowerBound

-----------------------------------------------------------------------------
(* The members of a chart. *)
LEMMA OnMember ==
  ASSUME NEW e, NEW S, NEW t, NEW m \in On(e, S, t)
  PROVE  m.event = e /\ m.from \in S /\ m.to = t
BY DEF On

(* What a move of the client's chart may do: it stays in the statuses, and *)
(* reaches those in which the channel is settled, and those in which the   *)
(* client pays, only on the events that settle it and that ask for         *)
(* payment.                                                                *)
ClientMoves(chart) ==
  \A m \in chart :
    /\ TargetOf(m) \in ClientStatuses
    /\ TargetOf(m) \in Paying =>
         m.from \in Paying \/ m.event \in {"PaymentChannelSkip", "PaymentChannelReady"}
    /\ TargetOf(m) \in Pays =>
         m.from \in Pays \/ m.event \in {"PaymentRequested", "LastPaymentRequested"}

LEMMA ClientChart == ClientMoves(ClientFSMEvents)
<1> USE DEF TargetOf, Paying, Pays, ClientMoves, ClientStatuses, ClientFinalityStates,
            paymentChannelCreationStates
<1>1. ClientMoves(ProposalEvents)
  BY OnMember DEF ProposalEvents
<1>2. ClientMoves(PaymentChannelEvents)
  BY OnMember DEF PaymentChannelEvents
<1>3. ClientMoves(RequestEvents)
  BY OnMember DEF RequestEvents
<1>4. ClientMoves(DataEvents)
  BY OnMember DEF DataEvents
<1>5. ClientMoves(PaymentEvents)
  BY OnMember DEF PaymentEvents
<1>6. ClientMoves(CompletionEvents)
  BY OnMember DEF CompletionEvents
<1> HIDE DEF TargetOf, Paying, Pays, ClientStatuses
<1> QED BY <1>1, <1>2, <1>3, <1>4, <1>5, <1>6, Zenon DEF ClientFSMEvents

LEMMA ProviderChart ==
  \A m \in ProviderFSMEvents : TargetOf(m) \in ProviderStatuses /\ m.event # "Sync"
BY OnMember DEF ProviderFSMEvents, TargetOf, ProviderStatuses, ProviderFinalityStates

-----------------------------------------------------------------------------
LEMMA ProposalTypes ==
  ASSUME deal \in Proposals
  PROVE  /\ deal.PricePerByte \in Nat /\ deal.UnsealPrice \in Nat
         /\ deal.PaymentInterval \in Nat /\ deal.TotalFunds \in Nat
         /\ deal.TotalFunds = 0 => deal.PricePerByte = 0
BY ProposalsAssumption, Zenon

(* Division of natural numbers. *)
LEMMA DivNat ==
  ASSUME NEW x \in Nat, NEW y \in Nat, y > 0
  PROVE  x \div y \in Nat /\ y * (x \div y) <= x
<1>1. PICK q \in Int : q = x \div y
  OBVIOUS
<1>2. PICK r \in 0..(y - 1) : x = y * q + r
  <2>1. x = y * (x \div y) + (x % y) /\ x % y \in 0..(y - 1)
    OBVIOUS
  <2> QED BY <1>1, <2>1, Zenon
<1>3. q >= 0
  <2>1. q < 0 => y * q <= -y
    OBVIOUS
  <2> QED BY <1>2, <2>1
<1> QED BY <1>1, <1>2, <1>3

LEMMA ClientTypes ==
  ASSUME c \in ClientState
  PROVE  /\ c.Status \in ClientStatuses /\ c.TotalReceived \in Nat
         /\ c.AllBlocksReceived \in BOOLEAN /\ c.LastPaymentRequested \in BOOLEAN
         /\ c.PaymentRequested \in Int /\ c.FundsSpent \in Nat
         /\ c.UnsealFundsPaid \in Nat /\ c.BytesPaidFor \in Nat
         /\ c.CurrentInterval \in Nat /\ c.WaitMsg \in BOOLEAN
         /\ c.PaymentInfo \in BOOLEAN /\ c.VoucherShortfall \in Nat
BY Zenon DEF ClientState

(* The client's deal after the event e led to the status s. *)
Recorded(e, s) == [RecordClient(c, e) EXCEPT !.Status = s]

(* What an event records in the client's deal. *)
LEMMA ClientRecorded ==
  ASSUME c \in ClientState, deal \in Proposals, NEW e \in ClientEvents,
         e.name \in Counts => e.arg \in Nat, NEW s \in ClientStatuses,
         NEW r, r = Recorded(e, s)
  PROVE  /\ r \in ClientState /\ r.Status = s
         /\ r.TotalReceived = IF e.name = "BlocksReceived" THEN e.arg ELSE c.TotalReceived
         /\ e.name = "PaymentChannelReady" \/ c.PaymentInfo => r.PaymentInfo
         /\ e.name \notin PaymentNames => r.PaymentRequested = c.PaymentRequested
<1> USE DEF PaymentNames, Counts, Recorded
<1>0. e.arg \in Int /\ 0 \in Nat
  BY Zenon DEF ClientEvents
<1>1. CASE e.name = "PaymentChannelCreateInitiated"
  BY <1>1, ClientTypes, Zenon DEF RecordClient, ClientState
<1>2. CASE e.name = "PaymentChannelAddingFunds"
  BY <1>2, ClientTypes, Zenon DEF RecordClient, ClientState
<1>3. CASE e.name = "PaymentChannelReady"
  BY <1>3, ClientTypes, Zenon DEF RecordClient, ClientState
<1>4. CASE e.name = "LastPaymentRequested"
  <2>1. c.PaymentRequested + e.arg \in Int
    BY <1>0, ClientTypes
  <2> QED BY <1>4, <2>1, ClientTypes, Zenon DEF RecordClient, ClientState, Requested
<1>5. CASE e.name \in {"PaymentRequested", "UnsealPaymentRequested"}
  <2>1. c.PaymentRequested + e.arg \in Int
    BY <1>0, ClientTypes
  <2> QED BY <1>5, <2>1, ClientTypes, Zenon DEF RecordClient, ClientState, Requested
<1>6. CASE e.name = "AllBlocksReceived"
  BY <1>6, ClientTypes, Zenon DEF RecordClient, ClientState
<1>7. CASE e.name = "BlocksReceived"
  BY <1>7, ClientTypes, Zenon DEF RecordClient, ClientState
<1>8. CASE e.name = "FundsExpended"
  BY <1>8, ClientTypes, Zenon DEF RecordClient, ClientState
<1>9. CASE e.name = "PaymentSent"
  <2>1. PICK a \in Nat : a = e.arg
    BY <1>9, Zenon
  <2>2. c.PaymentRequested - (a - c.FundsSpent) \in Int
    BY ClientTypes
  <2>3. Min({a, deal.UnsealPrice}) \in Nat
    <3>1. PICK u \in Nat : u = deal.UnsealPrice
      BY ProposalTypes, Zenon
    <3>2. a \in Int /\ u \in Int
      OBVIOUS
    <3>3. Min({a, u}) \in {a, u}
      BY <3>2, MinOfTwo, Zenon
    <3> QED BY <3>1, <3>3, Zenon
  <2>4. PaidFor(c, a) \in Nat
    <3>1. CASE deal.UnsealPrice >= a \/ deal.PricePerByte = 0
      BY <3>1, ClientTypes, Zenon DEF PaidFor
    <3>2. CASE ~(deal.UnsealPrice >= a \/ deal.PricePerByte = 0)
      <4>1. a - deal.UnsealPrice \in Nat /\ deal.PricePerByte > 0
        BY <3>2, ProposalTypes
      <4> QED BY <3>2, <4>1, ProposalTypes, DivNat, Zenon DEF PaidFor
    <3> QED BY <3>1, <3>2, Zenon
  <2>5. NextInterval(c.CurrentInterval) \in Nat
    BY ClientTypes, NextIntervalNat, Zenon
  <2>6. r = [RecordPaymentSent(c, a) EXCEPT !.Status = s]
    BY <1>9, <2>1, Zenon DEF RecordClient
  <2> QED BY <1>9, <2>1, <2>2, <2>3, <2>4, <2>5, <2>6, ClientTypes, ZenonT(60)
          DEF RecordPaymentSent, ClientState
<1> HIDE DEF Counts, PaymentNames
<1>10. CASE e.name \notin {"PaymentChannelCreateInitiated", "PaymentChannelAddingFunds",
               "PaymentChannelReady", "LastPaymentRequested", "PaymentRequested",
               "UnsealPaymentRequested", "AllBlocksReceived", "BlocksReceived",
               "FundsExpended", "PaymentSent"}
  <2>1. RecordClient(c, e) = c
    BY <1>10, Zenon DEF RecordClient
  <2> QED BY <1>10, <2>1, ClientTypes, Zenon DEF ClientState
<1> QED BY <1>1, <1>2, <1>3, <1>4, <1>5, <1>6, <1>7, <1>8, <1>9, <1>10, Zenon

(* The fields of an event. *)
LEMMA EvFields ==
  ASSUME NEW n \in ClientEventNames, NEW a \in Int
  PROVE  Ev(n, a) \in ClientEvents /\ Ev(n, a).name = n /\ Ev(n, a).arg = a
BY Zenon DEF Ev, ClientEvents

(* A new deal has received nothing and asks for nothing. *)
LEMMA DealInvInit ==
  ASSUME Init
  PROVE  DealInv
<1>1. /\ deal \in Proposals /\ faults = 0 /\ cbusy = FALSE
      /\ p = None /\ pq = <<>> /\ pbusy = FALSE
      /\ track = None /\ calls = {} /\ synced = [k \in {} |-> p]
      /\ cq = <<Ev("Open", 0)>>
  BY Zenon DEF Init, Retrieve, ProviderInit
<1>2. PICK b \in Nat : chan = [confirmed |-> b, pending |-> 0, other |-> 0, own |-> 0,
                               accepted |-> 0, topups |-> 0]
  BY BoundsAssumption, Zenon DEF Init, ChanInit
<1>3. chan \in PaymentChannel /\ chan.own = 0
  BY <1>2, Zenon DEF PaymentChannel
<1>4. Fixed
  BY <1>1, <1>3, BoundsAssumption DEF Fixed
<1>5. /\ c \in ClientState /\ c.Status = "New" /\ c.TotalReceived = 0 /\ c.PaymentRequested = 0
  BY <1>1, ProposalTypes DEF Init, Retrieve, ClientState, ClientStatuses
<1>6. /\ net \in Net /\ net.sent = 0 /\ net.got = 0
      /\ net.results = <<>> /\ net.vouchers = <<>>
  <2>1. 0 \in 0..Len(Blocks) /\ <<>> \in Seq(DealResponse) /\ <<>> \in Seq(Nat)
    BY BlocksAssumption
  <2> QED BY <2>1, Zenon DEF Init, NetInit, Net
<1>7. ClientOK
  BY <1>1, <1>5, Zenon DEF ClientOK
<1>8. ClientQueueOK
  <2>1. PICK e \in ClientEvents : e = Ev("Open", 0) /\ e.name = "Open"
    <3>1. "Open" \in ClientEventNames /\ 0 \in Int
      BY DEF ClientEventNames
    <3> QED BY <3>1, EvFields, Zenon
  <2>2. EventOK(e, deal.TotalFunds, c.TotalReceived, SizeOf(net.got))
    BY <2>1, Zenon DEF EventOK, Counts, PaymentNames
  <2>3. cq = <<e>>
    BY <1>1, <2>1, Zenon
  <2> QED BY <2>1, <2>2, <2>3 DEF ClientQueueOK
<1>9. NetOK
  BY <1>5, <1>6, SizeOfStep DEF NetOK
<1>10. ProviderOK /\ ProviderQueueOK /\ CallsOK
  <2>1. DOMAIN synced = {} /\ synced \in [{} -> ProviderState]
    BY <1>1, Zenon
  <2>2. pq = <<>> /\ Len(pq) = 0 /\ pq \in Seq(ProviderEvents)
    BY <1>1
  <2>3. ProviderOK /\ CallsOK
    BY <1>1, <2>1, Zenon DEF ProviderOK, CallsOK
  <2> QED BY <2>2, <2>3 DEF ProviderQueueOK
<1>11. ChannelOK /\ FreeOfCharge /\ PaysForReceived
  BY <1>1, <1>3, <1>5, <1>6 DEF ChannelOK, FreeOfCharge, PaysForReceived, Paying, Pays
<1> QED BY <1>4, <1>7, <1>8, <1>9, <1>10, <1>11, Zenon DEF DealInv

(* The client's queue stays in order when an event is appended that is not *)
(* about blocks, or none is.                                               *)
LEMMA QueueAppended ==
  ASSUME ClientQueueOK, UNCHANGED deal, c'.TotalReceived = c.TotalReceived,
         net'.got = net.got, NEW e \in ClientEvents,
         EventOK(e, deal.TotalFunds, c.TotalReceived, SizeOf(net.got)),
         e.name # "BlocksReceived", cq' = cq \/ cq' = Append(cq, e)
  PROVE  ClientQueueOK'
<1>0. PICK funds, got, arrived :
        funds = deal'.TotalFunds /\ got = c'.TotalReceived /\ arrived = SizeOf(net'.got)
  OBVIOUS
<1>1. CASE cq' = cq
  BY <1>1, Zenon DEF ClientQueueOK, EventOK
<1>2. CASE cq' = Append(cq, e)
  <2>1. /\ cq \in Seq(ClientEvents) /\ cq' \in Seq(ClientEvents) /\ Len(cq') = Len(cq) + 1
        /\ Len(cq) \in Nat /\ cq'[Len(cq) + 1] = e
        /\ \A i \in 1..Len(cq) : cq'[i] = cq[i]
    BY <1>2 DEF ClientQueueOK
  <2>2. \A i \in 1..Len(cq') : i \in 1..Len(cq) \/ cq'[i] = e
    BY <2>1
  <2>3. \A i \in 1..Len(cq') : EventOK(cq'[i], funds, got, arrived)
    BY <1>0, <2>1, <2>2, Zenon DEF ClientQueueOK, EventOK
  <2>4. \A i, j \in 1..Len(cq') :
          cq'[i].name = "BlocksReceived" /\ cq'[j].name = "BlocksReceived" /\ i < j =>
            cq'[i].arg <= cq'[j].arg
    BY <2>1, <2>2, Zenon DEF ClientQueueOK
  <2> QED BY <1>0, <2>1, <2>3, <2>4, Zenon DEF ClientQueueOK
<1> QED BY <1>1, <1>2, Zenon

(* It stays in order when its first event is taken, or all are lost. *)
LEMMA QueueTaken ==
  ASSUME ClientQueueOK, cq # <<>>, cq' = Tail(cq) \/ cq' = <<>>, UNCHANGED deal,
         net'.got = net.got,
         \/ c'.TotalReceived = c.TotalReceived
         \/ Head(cq).name = "BlocksReceived" /\ c'.TotalReceived = Head(cq).arg
  PROVE  ClientQueueOK'
<1>0. PICK funds, got, arrived :
        funds = deal'.TotalFunds /\ got = c'.TotalReceived /\ arrived = SizeOf(net'.got)
  OBVIOUS
<1>1. CASE cq' = <<>>
  BY <1>1 DEF ClientQueueOK
<1>2. CASE cq' = Tail(cq)
  <2>1. /\ cq \in Seq(ClientEvents) /\ Len(cq) \in Nat /\ Len(cq) > 0
        /\ cq' \in Seq(ClientEvents) /\ Len(cq') = Len(cq) - 1 /\ Head(cq) = cq[1]
        /\ \A i \in 1..Len(cq') : cq'[i] = cq[i + 1] /\ i + 1 \in 1..Len(cq)
    BY <1>2 DEF ClientQueueOK
  <2>2. \A i \in 1..Len(cq') : EventOK(cq'[i], funds, got, arrived)
    <3> SUFFICES ASSUME NEW i \in 1..Len(cq') PROVE EventOK(cq'[i], funds, got, arrived)
      OBVIOUS
    <3>1. PICK e : /\ e = cq[i + 1] /\ e = cq'[i]
                   /\ EventOK(e, deal.TotalFunds, c.TotalReceived, SizeOf(net.got))
      BY <2>1, Zenon DEF ClientQueueOK
    <3>2. cq[1].name = "BlocksReceived" /\ e.name = "BlocksReceived" => cq[1].arg <= e.arg
      BY <2>1, <3>1 DEF ClientQueueOK
    <3> QED BY <1>0, <2>1, <3>1, <3>2 DEF EventOK
  <2>3. \A i, j \in 1..Len(cq') :
          cq'[i].name = "BlocksReceived" /\ cq'[j].name = "BlocksReceived" /\ i < j =>
            cq'[i].arg <= cq'[j].arg
    <3> SUFFICES ASSUME NEW i \in 1..Len(cq'), NEW j \in 1..Len(cq'), i < j,
                        cq[i + 1].name = "BlocksReceived", cq[j + 1].name = "BlocksReceived"
                 PROVE  cq[i + 1].arg <= cq[j + 1].arg
      BY <2>1, Zenon
    <3>1. i + 1 < j + 1
      BY <2>1
    <3> QED BY <2>1, <3>1, Zenon DEF ClientQueueOK
  <2> QED BY <1>0, <2>1, <2>2, <2>3, Zenon DEF ClientQueueOK
<1> QED BY <1>1, <1>2, Zenon

(* It stays in order when the next block is reported. *)
LEMMA QueueGrows ==
  ASSUME DealInv, UNCHANGED <<deal, c>>, NEW g, g = net.got + 1, net'.got = g,
         g \in 1..Len(Blocks), NEW e, e = Ev("BlocksReceived", SizeOf(g)),
         cq' = cq \/ cq' = Append(cq, e)
  PROVE  ClientQueueOK' /\ c.TotalReceived <= SizeOf(g)
<1>0. PICK funds, got, arrived :
        funds = deal'.TotalFunds /\ got = c'.TotalReceived /\ arrived = SizeOf(net'.got)
  OBVIOUS
<1>1. /\ ClientQueueOK /\ c.TotalReceived \in Nat /\ SizeOf(g) \in Nat
      /\ SizeOf(net.got) \in Nat /\ SizeOf(net.got) <= SizeOf(g)
      /\ c.TotalReceived <= SizeOf(net.got)
  <2>1. Len(Blocks) \in Nat /\ Blocks[g] \in Nat /\ net.got \in 0..(Len(Blocks) - 1)
        /\ net.got \in 0..Len(Blocks) /\ g \in 0..Len(Blocks)
    BY BlocksAssumption DEF DealInv, NetOK, Net
  <2>2. ClientQueueOK /\ c.TotalReceived \in Nat /\ c.TotalReceived <= SizeOf(net.got)
    BY ClientTypes, Zenon DEF DealInv, NetOK, ClientOK
  <2>3. SizeOf(g) \in Nat /\ SizeOf(net.got) \in Nat
    BY <2>1, SizeOfStep, Zenon
  <2>4. SizeOf(net.got + 1) = SizeOf(net.got) + Blocks[net.got + 1]
    BY <2>1, SizeOfStep, Zenon
  <2> QED BY <2>1, <2>2, <2>3, <2>4
<1>2. e.name = "BlocksReceived" /\ e.arg = SizeOf(g) /\ e \in ClientEvents
  <2>1. PICK n \in Nat : n = SizeOf(g)
    BY <1>1, Zenon
  <2>2. n \in Int /\ "BlocksReceived" \in ClientEventNames
    BY DEF ClientEventNames
  <2> QED BY <2>1, <2>2, EvFields, Zenon
<1>3. EventOK(e, funds, got, arrived)
  BY <1>0, <1>1, <1>2 DEF EventOK, Counts, PaymentNames
<1>4. \A i \in 1..Len(cq) : /\ EventOK(cq[i], funds, got, arrived)
                            /\ cq[i].name = "BlocksReceived" => cq[i].arg <= e.arg
  <2> SUFFICES ASSUME NEW i \in 1..Len(cq)
               PROVE  /\ EventOK(cq[i], funds, got, arrived)
                      /\ cq[i].name = "BlocksReceived" => cq[i].arg <= e.arg
    OBVIOUS
  <2>1. PICK x : x = cq[i] /\ EventOK(x, deal.TotalFunds, c.TotalReceived, SizeOf(net.got))
    BY <1>1, Zenon DEF ClientQueueOK
  <2>2. x.name = "BlocksReceived" => x.arg \in Nat
    BY <2>1 DEF EventOK, Counts
  <2>3. EventOK(x, funds, got, arrived) /\ (x.name = "BlocksReceived" => x.arg <= e.arg)
    BY <1>0, <1>1, <1>2, <2>1, <2>2 DEF EventOK
  <2> QED BY <2>1, <2>3, Zenon
<1>5. CASE cq' = cq
  BY <1>0, <1>1, <1>4, <1>5 DEF ClientQueueOK
<1>6. CASE cq' = Append(cq, e)
  <2>1. /\ cq \in Seq(ClientEvents) /\ cq' \in Seq(ClientEvents) /\ Len(cq') = Len(cq) + 1
        /\ Len(cq) \in Nat /\ cq'[Len(cq) + 1] = e
        /\ \A i \in 1..Len(cq) : cq'[i] = cq[i]
    BY <1>1, <1>2, <1>6 DEF ClientQueueOK
  <2>2. \A i \in 1..Len(cq') : i \in 1..Len(cq) \/ i = Len(cq) + 1
    BY <2>1
  <2>3. \A i \in 1..Len(cq') : EventOK(cq'[i], funds, got, arrived)
    BY <1>3, <1>4, <2>1, <2>2, Zenon
  <2>4. \A i, j \in 1..Len(cq') :
          cq'[i].name = "BlocksReceived" /\ cq'[j].name = "BlocksReceived" /\ i < j =>
            cq'[i].arg <= cq'[j].arg
    <3> SUFFICES ASSUME NEW i \in 1..Len(cq'), NEW j \in 1..Len(cq'), i < j,
                        cq'[i].name = "BlocksReceived", cq'[j].name = "BlocksReceived"
                 PROVE  cq'[i].arg <= cq'[j].arg
      OBVIOUS
    <3>1. i \in 1..Len(cq) /\ cq'[i] = cq[i]
      BY <2>1, <2>2
    <3>2. CASE j \in 1..Len(cq)
      BY <1>1, <2>1, <3>1, <3>2, Zenon DEF ClientQueueOK
    <3>3. CASE j = Len(cq) + 1
      BY <1>4, <2>1, <3>1, <3>3, Zenon
    <3> QED BY <2>2, <3>2, <3>3, Zenon
  <2> QED BY <1>0, <1>1, <2>1, <2>3, <2>4 DEF ClientQueueOK
<1> QED BY <1>1, <1>5, <1>6, Zenon

-----------------------------------------------------------------------------
(* A step of the client or the transfer leaves the provider as it is. *)
LEMMA ProviderFrame ==
  ASSUME ProviderOK, ProviderQueueOK, UNCHANGED providerVars
  PROVE  ProviderOK' /\ ProviderQueueOK'
BY Zenon DEF ProviderOK, ProviderQueueOK, providerVars, Live

(* The rest of the invariant, after a step that leaves the client's deal   *)
(* as it is and puts at most the event n into its queue: only a deal       *)
(* without funds skips the channel, only one with funds is paid for, and   *)
(* only for what was received.                                             *)
RestOK ==
  /\ Fixed /\ ClientOK /\ ClientQueueOK /\ NetOK
  /\ CallsOK /\ ChannelOK /\ FreeOfCharge /\ PaysForReceived

LEMMA ClientSide ==
  ASSUME DealInv, UNCHANGED <<c, deal, calls>>,
         chan' \in PaymentChannel, faults' \in 0..Faults, cbusy' \in BOOLEAN,
         NEW n \in ClientEventNames, NEW a \in Int,
         n \in Counts => a \in Nat, n # "BlocksReceived",
         n = "PaymentChannelSkip" => deal.TotalFunds = 0,
         n \in PaymentNames => deal.TotalFunds # 0,
         cq' = cq \/ cq' = Append(cq, Ev(n, a)),
         net' \in Net, net'.sent = net.sent, net'.got = net.got,
         \/ net'.results = net.results
         \/ deal.TotalFunds = 0 =>
              \A i \in 1..Len(net'.results) : net'.results[i].Status \notin Asks,
         \/ net'.vouchers = net.vouchers
         \/ deal.TotalFunds # 0 /\ net'.vouchers # <<>>
         \/ net'.vouchers = <<>> /\ "pay" \notin calls,
         chan'.own = chan.own \/ chan'.own <= Price(c.TotalReceived)
  PROVE  RestOK'
<1>1. ClientQueueOK'
  <2>1. PICK e \in ClientEvents : e = Ev(n, a) /\ e.name = n /\ e.arg = a
    BY EvFields, Zenon
  <2>2. EventOK(e, deal.TotalFunds, c.TotalReceived, SizeOf(net.got))
    BY <2>1, Zenon DEF EventOK
  <2>3. cq' = cq \/ cq' = Append(cq, e)
    BY <2>1, Zenon
  <2>4. c'.TotalReceived = c.TotalReceived /\ deal' = deal /\ ClientQueueOK
    BY Zenon DEF DealInv
  <2> QED BY <2>1, <2>2, <2>3, <2>4, QueueAppended, Zenon
<1>2. Fixed' /\ ClientOK'
  BY Zenon DEF DealInv, Fixed, ClientOK
<1>3. NetOK'
  BY Zenon DEF DealInv, NetOK
<1>4. CallsOK'
  BY Zenon DEF DealInv, CallsOK, FreeOfCharge
<1>5. ChannelOK' /\ FreeOfCharge'
  BY Zenon DEF DealInv, ChannelOK, FreeOfCharge
<1>6. PaysForReceived'
  BY Zenon DEF DealInv, PaysForReceived, Price
<1> QED BY <1>1, <1>2, <1>3, <1>4, <1>5, <1>6, Zenon DEF RestOK

(* An entry function of the client that returns, or triggers the event n. *)
LEMMA HandlerStep ==
  ASSUME DealInv, UNCHANGED <<c, deal>>, UNCHANGED providerVars,
         chan' \in PaymentChannel, faults' \in 0..Faults, cbusy' \in BOOLEAN,
         NEW n \in ClientEventNames, NEW a \in Int,
         n \in Counts => a \in Nat, n # "BlocksReceived",
         n = "PaymentChannelSkip" => deal.TotalFunds = 0,
         n \in PaymentNames => deal.TotalFunds # 0,
         cq' = cq \/ cq' = Append(cq, Ev(n, a)),
         net' \in Net, net'.sent = net.sent, net'.got = net.got,
         net'.results = net.results,
         net'.vouchers = net.vouchers \/ (deal.TotalFunds # 0 /\ net'.vouchers # <<>>),
         chan'.own = chan.own \/ chan'.own <= Price(c.TotalReceived)
  PROVE  DealInv'
<1>1. ProviderOK' /\ ProviderQueueOK'
  BY ProviderFrame, Zenon DEF DealInv
<1>2. UNCHANGED <<c, deal, calls>>
  BY Zenon DEF providerVars
<1>3. RestOK'
  BY <1>2, ClientSide, Zenon
<1> QED BY <1>1, <1>3, Zenon DEF DealInv, RestOK

(* The types that the invariant gives. *)
LEMMA InvTypes ==
  ASSUME DealInv
  PROVE  /\ c \in ClientState /\ deal \in Proposals /\ chan \in PaymentChannel
         /\ net \in Net /\ faults \in 0..Faults /\ cbusy \in BOOLEAN
BY Zenon DEF DealInv, Fixed, ClientOK, NetOK

(* A fault is counted only below the bound. *)
LEMMA FaultsBounded ==
  ASSUME faults \in 0..Faults, Fails \/ Works
  PROVE  faults' \in 0..Faults
BY BoundsAssumption DEF Fails, Works

LEMMA ChanTypes ==
  ASSUME chan \in PaymentChannel
  PROVE  /\ chan.confirmed \in Nat /\ chan.pending \in Nat /\ chan.other \in Nat
         /\ chan.own \in Nat /\ chan.accepted \in Nat /\ chan.topups \in Nat
BY DEF PaymentChannel

(* The simple entry functions: the channel and the transfer stay, or the   *)
(* proposal is sent.                                                       *)
LEMMA SimpleHandlers ==
  ASSUME DealInv, UNCHANGED providerVars,
         \/ ProposeDeal \/ AllocateLane \/ Ongoing \/ ProcessPaymentRequested
         \/ CheckComplete
  PROVE  DealInv'
<1> USE DEF ClientEventNames, Counts, PaymentNames
<1>0. /\ c \in ClientState /\ deal \in Proposals /\ chan \in PaymentChannel
      /\ net \in Net /\ faults \in 0..Faults /\ 0 \in Int /\ 0 \in Nat
  BY InvTypes
<1> DEFINE Simple(n) ==
      /\ UNCHANGED <<c, deal, chan>> /\ cbusy' = FALSE /\ faults' \in 0..Faults
      /\ cq' = cq \/ cq' = Append(cq, Ev(n, 0))
      /\ net' = net \/ net' = [net EXCEPT !.phase = "proposed"]
<1>1. ASSUME NEW n \in ClientEventNames, Simple(n), n # "BlocksReceived",
             n # "PaymentChannelSkip", n \in PaymentNames => deal.TotalFunds # 0
      PROVE  DealInv'
  <2>1. /\ net' \in Net /\ net'.sent = net.sent /\ net'.got = net.got
        /\ net'.results = net.results /\ net'.vouchers = net.vouchers
    BY <1>0, <1>1, Zenon DEF Net
  <2>2. chan' \in PaymentChannel /\ chan'.own = chan.own /\ cbusy' \in BOOLEAN
    BY <1>0, <1>1, Zenon
  <2> HIDE DEF ClientEventNames, Counts, PaymentNames
  <2> QED BY <1>0, <1>1, <2>1, <2>2, HandlerStep, Zenon
<1> HIDE DEF Simple
<1>2. ASSUME ProposeDeal PROVE DealInv'
  <2>1. Simple("DealProposed") \/ Simple("WriteDealProposalErrored")
    BY <1>0, <1>2, FaultsBounded DEF ProposeDeal, Runs, Trigger, Simple
  <2> QED BY <1>1, <2>1
<1>3. ASSUME AllocateLane PROVE DealInv'
  <2>1. Simple("LaneAllocated") \/ Simple("AllocateLaneErrored")
    BY <1>0, <1>3, FaultsBounded DEF AllocateLane, Runs, Trigger, Simple
  <2> QED BY <1>1, <2>1
<1>4. ASSUME Ongoing PROVE DealInv'
  <2>1. c.PaymentRequested > 0 => deal.TotalFunds # 0
    BY DEF DealInv, FreeOfCharge
  <2>2. \/ c.PaymentRequested > 0 /\ Simple("LastPaymentRequested")
        \/ c.PaymentRequested > 0 /\ Simple("PaymentRequested")
        \/ Simple("Open")
    BY <1>0, <1>4, Zenon DEF Ongoing, Runs, Trigger, Return, Simple
  <2> QED BY <1>1, <2>1, <2>2, Zenon
<1>5. ASSUME ProcessPaymentRequested PROVE DealInv'
  <2>1. Simple("SendFunds")
    BY <1>0, <1>5, Zenon DEF ProcessPaymentRequested, Runs, Trigger, Return, Simple
  <2> QED BY <1>1, <2>1, Zenon
<1>6. ASSUME CheckComplete PROVE DealInv'
  <2>1. Simple("CompleteVerified") \/ Simple("WaitForLastBlocks") \/ Simple("EarlyTermination")
    BY <1>0, <1>6 DEF CheckComplete, Runs, Trigger, Simple
  <2> QED BY <1>1, <2>1
<1> QED BY <1>2, <1>3, <1>4, <1>5, <1>6, Zenon

LEMMA MulMono ==
  ASSUME NEW a \in Nat, NEW b \in Nat, NEW x \in Nat, a <= b
  PROVE  a * x \in Nat /\ a * x <= b * x
<1>1. PICK d \in Nat : b = a + d
  <2>1. b - a \in Nat /\ b = a + (b - a)
    OBVIOUS
  <2> QED BY <2>1, Zenon
<1>2. b * x = a * x + d * x
  BY <1>1
<1>3. a * x \in Nat /\ d * x \in Nat
  OBVIOUS
<1> QED BY <1>2, <1>3

(* What the client means to have paid never exceeds the price of what it   *)
(* received.                                                               *)
LEMMA AmountBounded ==
  ASSUME DealInv
  PROVE  calcAmountToSend \in Nat /\ calcAmountToSend <= Price(c.TotalReceived)
<1>1. PICK x \in Nat, u \in Nat, r \in Nat, i \in Nat, f \in Nat, all \in BOOLEAN :
        /\ x = deal.PricePerByte /\ u = deal.UnsealPrice /\ r = c.TotalReceived
        /\ i = c.CurrentInterval /\ f = c.UnsealFundsPaid /\ all = c.AllBlocksReceived
  BY InvTypes, ProposalTypes, ClientTypes, Zenon
<1>2. r * x \in Nat /\ (i <= r => i * x \in Nat /\ i * x <= r * x)
  BY MulMono
<1>3. Price(c.TotalReceived) = r * x + u
  BY <1>1, Zenon DEF Price
<1>4. calcAmountToSend = IF f >= u /\ ~all
                         THEN IF r < i THEN 0 ELSE i * x + u
                         ELSE r * x + u
  BY <1>1, Zenon DEF calcAmountToSend
<1>5. CASE r < i
  BY <1>2, <1>3, <1>4, <1>5
<1>6. CASE ~(r < i)
  <2>1. i * x \in Nat /\ i * x <= r * x
    BY <1>2, <1>6
  <2> QED BY <1>2, <1>3, <1>4, <1>6, <2>1
<1> QED BY <1>5, <1>6, Zenon

(* The entry functions that deal with the payment channel. *)
LEMMA ChannelHandlers ==
  ASSUME DealInv, UNCHANGED providerVars,
         SetupPaymentChannelStart \/ WaitPaymentChannelReady \/ CheckFunds
  PROVE  DealInv'
<1> USE DEF ClientEventNames, Counts, PaymentNames
<1>0. /\ c \in ClientState /\ deal \in Proposals /\ chan \in PaymentChannel
      /\ net \in Net /\ faults \in 0..Faults /\ 0 \in Int /\ 0 \in Nat
  BY InvTypes
<1> DEFINE Calls0(n, a) ==
      /\ UNCHANGED <<c, deal, net>> /\ cbusy' = FALSE /\ faults' \in 0..Faults
      /\ chan' \in PaymentChannel /\ chan'.own = chan.own
      /\ cq' = Append(cq, Ev(n, a))
<1>1. ASSUME NEW n \in ClientEventNames, NEW a \in Int, Calls0(n, a),
             n \in Counts => a \in Nat, n # "BlocksReceived",
             n = "PaymentChannelSkip" => deal.TotalFunds = 0, n \notin PaymentNames
      PROVE  DealInv'
  <2>1. /\ net' \in Net /\ net'.sent = net.sent /\ net'.got = net.got
        /\ net'.results = net.results /\ net'.vouchers = net.vouchers
    BY <1>0, <1>1, Zenon
  <2>2. cbusy' \in BOOLEAN
    BY <1>1, Zenon
  <2> HIDE DEF ClientEventNames, Counts, PaymentNames
  <2> QED BY <1>0, <1>1, <2>1, <2>2, HandlerStep, Zenon
<1> HIDE DEF Calls0
<1>2. ASSUME SetupPaymentChannelStart PROVE DealInv'
  <2>1. chan.pending + deal.TotalFunds \in Nat
    BY <1>0, ChanTypes, ProposalTypes
  <2>2. /\ [chan EXCEPT !.pending = chan.pending + deal.TotalFunds] \in PaymentChannel
        /\ [chan EXCEPT !.pending = chan.pending + deal.TotalFunds].own = chan.own
    BY <1>0, <2>1, ChanTypes, Zenon DEF PaymentChannel
  <2>3. \/ deal.TotalFunds = 0 /\ Calls0("PaymentChannelSkip", 0)
        \/ Calls0("PaymentChannelErrored", 0) \/ Calls0("PaymentChannelReady", 0)
        \/ Calls0("PaymentChannelCreateInitiated", 0)
        \/ Calls0("PaymentChannelAddingFunds", 0)
    BY <1>0, <1>2, <2>2, FaultsBounded, Zenon DEF SetupPaymentChannelStart, Runs, Trigger, Calls0
  <2> QED BY <1>0, <1>1, <2>3
<1>3. ASSUME WaitPaymentChannelReady PROVE DealInv'
  <2>1. chan.confirmed + chan.pending \in Nat
    BY <1>0, ChanTypes
  <2>2. chan' \in PaymentChannel /\ chan'.own = chan.own
    BY <1>0, <1>3, <2>1, ChanTypes, Zenon DEF PaymentChannel, WaitPaymentChannelReady
  <2>3. Calls0("PaymentChannelReady", 0) \/ Calls0("PaymentChannelErrored", 0)
    BY <1>0, <1>3, <2>2, FaultsBounded, Zenon DEF WaitPaymentChannelReady, Runs, Trigger, Calls0
  <2> QED BY <1>0, <1>1, <2>3
<1>4. ASSUME CheckFunds PROVE DealInv'
  <2>1. PICK short : short = calcAmountToSend - (chan.confirmed - (chan.other + chan.own))
    OBVIOUS
  <2>2. short \in Int /\ chan.pending \in Nat
    BY <1>0, <2>1, AmountBounded, ChanTypes
  <2>3. \/ Calls0("PaymentChannelAddingFunds", 0) \/ Calls0("PaymentChannelErrored", 0)
        \/ Calls0("PaymentChannelReady", 0)
        \/ ~(short <= 0) /\ chan.pending < short /\ Calls0("FundsExpended", short - chan.pending)
    BY <1>0, <1>4, <2>1, FaultsBounded, Zenon DEF CheckFunds, Runs, Trigger, Calls0
  <2>4. ASSUME chan.pending < short, Calls0("FundsExpended", short - chan.pending)
        PROVE  DealInv'
    <3>1. short - chan.pending \in Nat /\ short - chan.pending \in Int
      BY <2>2, <2>4
    <3> QED BY <1>1, <2>4, <3>1
  <2> QED BY <1>0, <1>1, <2>3, <2>4
<1> QED BY <1>2, <1>3, <1>4, Zenon

(* SendFunds creates a voucher for what the client should have paid, and   *)
(* runs only in a deal with funds.                                         *)
LEMMA SendFundsKeeps ==
  ASSUME DealInv, UNCHANGED providerVars, SendFunds
  PROVE  DealInv'
<1>0. /\ c \in ClientState /\ deal \in Proposals /\ chan \in PaymentChannel
      /\ net \in Net /\ faults \in 0..Faults /\ 0 \in Int /\ 0 \in Nat
  BY InvTypes
<1>1. PICK total \in Nat : total = calcAmountToSend /\ total <= Price(c.TotalReceived)
  BY AmountBounded, Zenon
<1>2. deal.TotalFunds # 0
  BY Zenon DEF SendFunds, Runs, DealInv, FreeOfCharge, Pays
<1>3. UNCHANGED <<c, deal>> /\ cbusy' = FALSE /\ cbusy' \in BOOLEAN
  BY Zenon DEF SendFunds, Runs, Trigger
<1>4. faults' \in 0..Faults
  BY <1>0, FaultsBounded, Zenon DEF SendFunds
<1>5. PICK m : m = Max({chan.own, total})
  OBVIOUS
<1>6. m \in Nat /\ (m = chan.own \/ m = total)
  <2>1. chan.own \in Nat
    BY <1>0, ChanTypes, Zenon
  <2>2. chan.own \in Int /\ total \in Int
    BY <2>1
  <2>3. Max({chan.own, total}) \in {chan.own, total}
    BY <2>2, MaxOfTwo, Zenon
  <2> QED BY <1>5, <2>1, <2>3
<1>7. chan' \in PaymentChannel /\ (chan'.own = chan.own \/ chan'.own = total)
  <2>1. /\ [chan EXCEPT !.own = m] \in PaymentChannel
        /\ [chan EXCEPT !.own = m].own = m
    BY <1>0, <1>6, ChanTypes, Zenon DEF PaymentChannel
  <2>2. chan' = chan \/ chan' = [chan EXCEPT !.own = m]
    BY <1>1, <1>5, Zenon DEF SendFunds
  <2> QED BY <1>0, <1>6, <2>1, <2>2, Zenon
<1>8. /\ net' \in Net /\ net'.sent = net.sent /\ net'.got = net.got
      /\ net'.results = net.results
      /\ net'.vouchers = net.vouchers \/ net'.vouchers # <<>>
  <2>1. net.vouchers \in Seq(Nat)
    BY <1>0, Zenon DEF Net
  <2>2. PICK vs : vs = Append(net.vouchers, total)
    BY Zenon
  <2>3. vs \in Seq(Nat) /\ vs # <<>>
    BY <2>1, <2>2
  <2>4. \/ net' = net \/ net' = [net EXCEPT !.vouchers = vs]
        \/ net' = [net EXCEPT !.vouchers = net.vouchers]
    BY <1>1, <2>2, Zenon DEF SendFunds
  <2> QED BY <1>0, <2>1, <2>3, <2>4, Zenon DEF Net
<1>9. \E n \in {"PaymentNotSent", "CreateVoucherFailed", "WriteDealPaymentErrored",
                "VoucherShortfall", "PaymentSent"}, a \in Int :
        (n = "PaymentSent" => a \in Nat) /\ cq' = Append(cq, Ev(n, a))
  <2>1. chan.other + total - chan.confirmed \in Int /\ total \in Int
    BY <1>0, ChanTypes
  <2> QED BY <1>0, <1>1, <2>1, Zenon DEF SendFunds, Trigger
<1>10. PICK n \in {"PaymentNotSent", "CreateVoucherFailed", "WriteDealPaymentErrored",
                "VoucherShortfall", "PaymentSent"}, a \in Int :
        (n = "PaymentSent" => a \in Nat) /\ cq' = Append(cq, Ev(n, a))
  BY <1>9, Zenon
<1>11. /\ n \in ClientEventNames /\ (n \in Counts => a \in Nat) /\ n # "BlocksReceived"
       /\ n # "PaymentChannelSkip"
  BY <1>10, Zenon DEF ClientEventNames, Counts
<1> QED BY <1>1, <1>2, <1>3, <1>4, <1>7, <1>8, <1>10, <1>11, HandlerStep, Zenon

ProviderEvs == [name : ProviderEventNames, arg : Nat]

(* The fields of an event for the provider. *)
LEMMA ProviderEvFields ==
  ASSUME NEW n \in ProviderEventNames, NEW a \in Nat
  PROVE  Ev(n, a) \in ProviderEvs
BY Zenon DEF Ev, ProviderEvs

(* The provider's queue stays in order when events that are not those of a *)
(* call are appended.                                                      *)
LEMMA ProviderAppended ==
  ASSUME ProviderQueueOK, NEW es \in Seq(ProviderEvs), pq' = pq \/ pq' = pq \o es,
         \A i \in 1..Len(pq) : pq[i].name = "Sync" => pq[i].arg \in calls' \ DOMAIN synced'
  PROVE  ProviderQueueOK'
<1>1. CASE pq' = pq
  BY <1>1 DEF ProviderQueueOK
<1>2. CASE pq' = pq \o es
  <2>0. ProviderEvs \subseteq ProviderEvents /\ \A x \in ProviderEvs : x.name # "Sync"
    BY DEF ProviderEvs, ProviderEvents, ProviderEventNames
  <2>1. pq \in Seq(ProviderEvents) /\ es \in Seq(ProviderEvents)
    BY <2>0 DEF ProviderQueueOK
  <2>2. /\ Len(pq) \in Nat /\ Len(es) \in Nat /\ Len(pq') = Len(pq) + Len(es)
        /\ pq' \in Seq(ProviderEvents)
        /\ \A i \in 1..Len(pq) : pq'[i] = pq[i]
        /\ \A i \in (Len(pq) + 1)..Len(pq') :
             pq'[i] = es[i - Len(pq)] /\ i - Len(pq) \in 1..Len(es)
    BY <1>2, <2>1
  <2>3. \A i \in 1..Len(es) : es[i].name # "Sync"
    BY <2>0
  <2>4. \A i \in 1..Len(pq') : pq'[i].name = "Sync" => i \in 1..Len(pq) /\ pq'[i] = pq[i]
    <3> SUFFICES ASSUME NEW i \in 1..Len(pq'), pq'[i].name = "Sync"
                 PROVE  i \in 1..Len(pq) /\ pq'[i] = pq[i]
      OBVIOUS
    <3>1. CASE i \in 1..Len(pq)
      BY <2>2, <3>1, Zenon
    <3>2. CASE i \in (Len(pq) + 1)..Len(pq')
      BY <2>2, <2>3, <3>2, Zenon
    <3> QED BY <2>2, <3>1, <3>2
  <2> QED BY <2>2, <2>4, Zenon DEF ProviderQueueOK
<1> QED BY <1>1, <1>2

(* The event that tells the provider that the transfer was closed. *)
LEMMA TellProviderKeeps ==
  ASSUME ProviderQueueOK, UNCHANGED <<calls, synced>>,
         NEW t \in {"ClientCancelled", "DataTransferError", "none"}, TellProvider(t)
  PROVE  ProviderQueueOK'
<1>1. CASE t = "none"
  <2>1. <<>> \in Seq(ProviderEvs) /\ pq' = pq
    BY <1>1 DEF TellProvider
  <2> QED BY <2>1, ProviderAppended, Zenon DEF ProviderQueueOK
<1>2. CASE t # "none"
  <2>1. Ev(t, 0) \in ProviderEvs
    BY <1>2, ProviderEvFields, Zenon DEF ProviderEventNames
  <2>2. <<Ev(t, 0)>> \in Seq(ProviderEvs)
    BY <2>1
  <2>3. pq' = pq \/ pq' = pq \o <<Ev(t, 0)>>
    BY <1>2 DEF TellProvider, ToProvider
  <2> QED BY <2>2, <2>3, ProviderAppended, Zenon DEF ProviderQueueOK
<1> QED BY <1>1, <1>2

(* What the user and other deals do to the channel, and the end of the     *)
(* transfer.                                                               *)
LEMMA UserSteps ==
  ASSUME DealInv, UNCHANGED providerVars,
         TryRestartInsufficientFunds \/ OtherDealPays \/ FinishTransfer
  PROVE  DealInv'
<1>0. /\ c \in ClientState /\ deal \in Proposals /\ chan \in PaymentChannel
      /\ net \in Net /\ faults \in 0..Faults /\ cbusy \in BOOLEAN /\ 0 \in Int
  BY InvTypes
<1>1. /\ UNCHANGED <<c, deal>> /\ cbusy' \in BOOLEAN /\ faults' \in 0..Faults
  BY <1>0, Zenon DEF TryRestartInsufficientFunds, OtherDealPays, FinishTransfer
<1>2. PICK n \in {"RecheckFunds", "AllBlocksReceived"} : cq' = cq \/ cq' = Append(cq, Ev(n, 0))
  BY Zenon DEF TryRestartInsufficientFunds, OtherDealPays, FinishTransfer, ToClient
<1>3. n \in ClientEventNames /\ n \notin Counts /\ n \notin PaymentNames
      /\ n # "BlocksReceived" /\ n # "PaymentChannelSkip"
  BY Zenon DEF ClientEventNames, Counts, PaymentNames
<1>4. /\ net' \in Net /\ net'.sent = net.sent /\ net'.got = net.got
      /\ net'.results = net.results /\ net'.vouchers = net.vouchers
  <2>1. net' = net \/ net' = [net EXCEPT !.finished = TRUE]
    BY Zenon DEF TryRestartInsufficientFunds, OtherDealPays, FinishTransfer
  <2> QED BY <1>0, <2>1, Zenon DEF Net
<1>5. chan' \in PaymentChannel /\ chan'.own = chan.own
  <2>1. CASE TryRestartInsufficientFunds
    <3>1. chan.confirmed + c.VoucherShortfall \in Nat /\ chan.topups + 1 \in Nat
      BY <1>0, ChanTypes, ClientTypes
    <3> QED BY <1>0, <2>1, <3>1, ChanTypes, Zenon DEF PaymentChannel, TryRestartInsufficientFunds
  <2>2. CASE OtherDealPays
    <3>1. PICK a \in 1..OtherSpend : chan' = [chan EXCEPT !.other = @ + a]
      BY <2>2, Zenon DEF OtherDealPays
    <3>2. chan.other + a \in Nat
      BY <1>0, ChanTypes, BoundsAssumption
    <3> QED BY <1>0, <3>1, <3>2, ChanTypes, Zenon DEF PaymentChannel
  <2>3. CASE FinishTransfer
    BY <1>0, <2>3, Zenon DEF FinishTransfer
  <2> QED BY <2>1, <2>2, <2>3, Zenon
<1> QED BY <1>0, <1>1, <1>2, <1>3, <1>4, <1>5, HandlerStep, Zenon

(* The transfer delivers the next block. *)
LEMMA BlockArrives ==
  ASSUME DealInv, UNCHANGED providerVars, DataReceivedProgress
  PROVE  DealInv'
<1>0. /\ c \in ClientState /\ deal \in Proposals /\ chan \in PaymentChannel
      /\ net \in Net /\ faults \in 0..Faults /\ cbusy \in BOOLEAN /\ Len(Blocks) \in Nat
  BY InvTypes, BlocksAssumption
<1>1. UNCHANGED <<deal, c, chan, faults, cbusy>> /\ net.got < net.sent
      /\ net' = [net EXCEPT !.got = @ + 1]
      /\ cq' = ToClient(Ev("BlocksReceived", SizeOf(net.got + 1)))
  BY Zenon DEF DataReceivedProgress
<1>2. PICK g : g = net.got + 1
  OBVIOUS
<1>3. net.got \in 0..Len(Blocks) /\ net.sent \in 0..Len(Blocks)
  BY <1>0, Zenon DEF Net
<1>4. g \in 1..Len(Blocks) /\ g \in 0..Len(Blocks) /\ g <= net.sent
  BY <1>0, <1>1, <1>2, <1>3
<1>5. /\ net' \in Net /\ net'.sent = net.sent /\ net'.got = g
      /\ net'.results = net.results /\ net'.vouchers = net.vouchers
  BY <1>0, <1>1, <1>2, <1>4, Zenon DEF Net
<1>6. ClientQueueOK' /\ c.TotalReceived <= SizeOf(g)
  <2>1. PICK e : e = Ev("BlocksReceived", SizeOf(g))
    OBVIOUS
  <2>2. cq' = cq \/ cq' = Append(cq, e)
    BY <1>1, <1>2, <2>1, Zenon DEF ToClient
  <2> QED BY <1>1, <1>2, <1>4, <1>5, <2>1, <2>2, QueueGrows, Zenon
<1>7. ProviderOK' /\ ProviderQueueOK' /\ calls' = calls
  BY ProviderFrame, Zenon DEF DealInv, providerVars
<1>8. NetOK' /\ Fixed' /\ ClientOK'
  BY <1>0, <1>1, <1>4, <1>5, <1>6 DEF NetOK, Fixed, ClientOK
<1>9. CallsOK' /\ ChannelOK' /\ FreeOfCharge' /\ PaysForReceived'
  BY <1>1, <1>5, <1>7, Zenon DEF DealInv, CallsOK, ChannelOK, FreeOfCharge, PaysForReceived, Price
<1> QED BY <1>6, <1>7, <1>8, <1>9, Zenon DEF DealInv

(* The event a response is turned into asks for a payment only if the      *)
(* response does.                                                          *)
LEMMA ResponseEvent ==
  ASSUME NEW r \in DealResponse
  PROVE  \E n \in ClientEventNames, a \in Int :
           /\ eventFromDealStatus(r) = Ev(n, a)
           /\ n \notin Counts /\ n # "BlocksReceived" /\ n # "PaymentChannelSkip"
           /\ n \in PaymentNames => r.Status \in Asks
<1>1. r.PaymentOwed \in Int /\ 0 \in Int
  BY DEF DealResponse
<1>2. \E n \in {"DealRejected", "ProviderErrored", "DealAccepted", "LastPaymentRequested",
                "Complete", "PaymentRequested", "UnknownResponseReceived",
                "UnsealPaymentRequested", "DealNotFound"}, a \in Int :
        /\ eventFromDealStatus(r) = Ev(n, a)
        /\ n \in {"LastPaymentRequested", "PaymentRequested", "UnsealPaymentRequested"}
             => r.Status \in Asks
  BY <1>1, Zenon DEF eventFromDealStatus, Asks
<1> QED BY <1>2 DEF ClientEventNames, Counts, PaymentNames

(* The client gets a response. *)
LEMMA ResultArrives ==
  ASSUME DealInv, UNCHANGED providerVars, NewVoucherResult
  PROVE  DealInv'
<1>0. /\ c \in ClientState /\ deal \in Proposals /\ chan \in PaymentChannel
      /\ net \in Net /\ faults \in 0..Faults /\ cbusy \in BOOLEAN
  BY InvTypes, Zenon
<1>1. net.results \in Seq(DealResponse) /\ net.results # <<>>
  BY <1>0, Zenon DEF Net, NewVoucherResult
<1>2. PICK r \in DealResponse, rest \in Seq(DealResponse) :
        /\ r = Head(net.results) /\ r = net.results[1] /\ rest = Tail(net.results)
        /\ Len(net.results) >= 1 /\ Len(rest) = Len(net.results) - 1
        /\ \A i \in 1..Len(rest) : rest[i] = net.results[i + 1]
  <2>1. PICK s \in Seq(DealResponse) : s = net.results /\ s # <<>>
    BY <1>1, Zenon
  <2>2. /\ Head(s) \in DealResponse /\ Head(s) = s[1] /\ Tail(s) \in Seq(DealResponse)
        /\ Len(s) >= 1 /\ Len(Tail(s)) = Len(s) - 1
        /\ \A i \in 1..Len(Tail(s)) : Tail(s)[i] = s[i + 1]
    BY <2>1
  <2> QED BY <2>1, <2>2, Zenon
<1>3. PICK n \in ClientEventNames, a \in Int :
           /\ eventFromDealStatus(r) = Ev(n, a)
           /\ n \notin Counts /\ n # "BlocksReceived" /\ n # "PaymentChannelSkip"
           /\ n \in PaymentNames => r.Status \in Asks
  BY ResponseEvent, Zenon
<1>4. /\ net' \in Net /\ net'.sent = net.sent /\ net'.got = net.got
      /\ net'.results = rest /\ net'.vouchers = net.vouchers
  <2>1. net' = [net EXCEPT !.results = rest]
    BY <1>2, Zenon DEF NewVoucherResult
  <2> QED BY <1>0, <2>1, Zenon DEF Net
<1>5. cq' = cq \/ cq' = Append(cq, Ev(n, a))
  BY <1>2, <1>3 DEF NewVoucherResult, ToClient
<1>6. deal.TotalFunds = 0 => /\ r.Status \notin Asks
                             /\ \A i \in 1..Len(rest) : rest[i].Status \notin Asks
  <2>1. 1 \in 1..Len(net.results) /\ \A i \in 1..Len(rest) : i + 1 \in 1..Len(net.results)
    BY <1>1, <1>2
  <2> QED BY <1>2, <2>1, Zenon DEF DealInv, FreeOfCharge
<1>7. UNCHANGED <<c, deal, chan, faults, cbusy>> /\ calls' = calls
  BY DEF NewVoucherResult, providerVars
<1>8. RestOK'
  BY <1>0, <1>3, <1>4, <1>5, <1>6, <1>7, ClientSide, Zenon
<1>9. ProviderOK' /\ ProviderQueueOK'
  BY ProviderFrame DEF DealInv
<1> QED BY <1>8, <1>9, Zenon DEF DealInv, RestOK

(* The client cancels a deal: the transfer is closed, and the provider     *)
(* told.                                                                   *)
LEMMA ClientCancelsKeeps ==
  ASSUME DealInv, ClientCancels
  PROVE  DealInv'
<1>0. /\ c \in ClientState /\ deal \in Proposals /\ chan \in PaymentChannel
      /\ net \in Net /\ faults \in 0..Faults /\ cbusy \in BOOLEAN /\ 0 \in Int
  BY InvTypes
<1>1. PICK told \in {"ClientCancelled", "none"} : ClientCancelDeal(told) /\ TellProvider(told)
  BY Zenon DEF ClientCancels
<1>2. UNCHANGED <<p, pbusy, track, calls, synced>> /\ UNCHANGED <<c, deal, chan>>
  BY <1>1, Zenon DEF ClientCancels, ClientCancelDeal, Runs
<1>3. ProviderOK'
  BY <1>2, Zenon DEF DealInv, ProviderOK
<1>4. ProviderQueueOK'
  BY <1>1, <1>2, TellProviderKeeps, Zenon DEF DealInv
<1>5. faults' \in 0..Faults /\ cbusy' \in BOOLEAN
  BY <1>0, <1>1, FaultsBounded, Zenon DEF ClientCancelDeal, Trigger
<1>6. /\ net' \in Net /\ net'.sent = net.sent /\ net'.got = net.got
      /\ net'.results = net.results /\ net'.vouchers = net.vouchers
  <2>1. net' = net \/ net' = [net EXCEPT !.phase = "closed"]
    BY <1>1, Zenon DEF ClientCancelDeal, Closed
  <2> QED BY <1>0, <2>1, Zenon DEF Net
<1>7. PICK n \in {"CancelComplete", "DataTransferError"} : cq' = Append(cq, Ev(n, 0))
  BY <1>1, Zenon DEF ClientCancelDeal, Trigger
<1>8. n \in ClientEventNames /\ n \notin Counts /\ n \notin PaymentNames
      /\ n # "BlocksReceived" /\ n # "PaymentChannelSkip"
  BY DEF ClientEventNames, Counts, PaymentNames
<1>9. RestOK'
  BY <1>0, <1>2, <1>5, <1>6, <1>7, <1>8, ClientSide
<1> QED BY <1>3, <1>4, <1>9, Zenon DEF DealInv, RestOK

(* The connection is lost.  A voucher that is being looked at stays. *)
LEMMA DisconnectedKeeps ==
  ASSUME DealInv, Disconnected
  PROVE  DealInv'
<1>0. /\ c \in ClientState /\ deal \in Proposals /\ chan \in PaymentChannel
      /\ net \in Net /\ faults \in 0..Faults /\ cbusy \in BOOLEAN /\ 0 \in Int
  BY InvTypes
<1>1. /\ UNCHANGED <<c, cbusy, p, pbusy, track, calls, synced, deal, chan>>
      /\ cq' = ToClient(Ev("DataTransferError", 0)) /\ TellProvider("DataTransferError")
  BY Zenon DEF Disconnected
<1>2. ProviderOK' /\ ProviderQueueOK'
  BY <1>1, TellProviderKeeps, Zenon DEF DealInv, ProviderOK
<1>3. faults' \in 0..Faults
  BY <1>0, FaultsBounded DEF Disconnected
<1>4. PICK vs : /\ vs = net.vouchers
                   \/ vs = (IF "pay" \in calls THEN <<Head(net.vouchers)>> ELSE <<>>)
                /\ net' = [Closed(net) EXCEPT !.results = <<>>, !.vouchers = vs]
  BY Zenon DEF Disconnected
<1>5. vs \in Seq(Nat)
      /\ \/ vs = net.vouchers
         \/ deal.TotalFunds # 0 /\ vs # <<>>
         \/ vs = <<>> /\ "pay" \notin calls
  <2>1. net.vouchers \in Seq(Nat)
    BY <1>0, Zenon DEF Net
  <2>2. "pay" \in calls => net.vouchers # <<>> /\ deal.TotalFunds # 0
    BY Zenon DEF DealInv, CallsOK, FreeOfCharge
  <2>3. CASE vs = net.vouchers
    BY <2>1, <2>3, Zenon
  <2>4. CASE "pay" \in calls /\ vs = <<Head(net.vouchers)>>
    BY <2>1, <2>2, <2>4
  <2>5. CASE "pay" \notin calls /\ vs = <<>>
    BY <2>5
  <2> QED BY <1>4, <2>3, <2>4, <2>5, Zenon
<1>6. /\ net' \in Net /\ net'.sent = net.sent /\ net'.got = net.got
      /\ net'.results = <<>> /\ net'.vouchers = vs
  <2>1. <<>> \in Seq(DealResponse)
    OBVIOUS
  <2>2. PICK k : k = Closed(net)
    OBVIOUS
  <2>3. k \in Net /\ k.sent = net.sent /\ k.got = net.got
    BY <1>0, <2>2, Zenon DEF Net, Closed
  <2>4. net' = [k EXCEPT !.results = <<>>, !.vouchers = vs]
    BY <1>4, <2>2, Zenon
  <2> QED BY <1>5, <2>1, <2>3, <2>4, Zenon DEF Net
<1>7. cq' = cq \/ cq' = Append(cq, Ev("DataTransferError", 0))
  BY <1>1 DEF ToClient
<1>8. /\ "DataTransferError" \in ClientEventNames /\ "DataTransferError" \notin Counts
      /\ "DataTransferError" \notin PaymentNames
  BY Zenon DEF ClientEventNames, Counts, PaymentNames
<1>9. \A i \in 1..Len(net'.results) : net'.results[i].Status \notin Asks
  BY <1>6
<1>10. RestOK'
  BY <1>0, <1>1, <1>3, <1>5, <1>6, <1>7, <1>8, <1>9, ClientSide
<1> QED BY <1>2, <1>10 DEF DealInv, RestOK

(* The client's state machine takes an event. *)
LEMMA ClientPlanKeeps ==
  ASSUME DealInv, UNCHANGED providerVars, ClientPlan
  PROVE  DealInv'
<1>0. /\ c \in ClientState /\ deal \in Proposals /\ chan \in PaymentChannel
      /\ net \in Net /\ faults \in 0..Faults /\ cbusy \in BOOLEAN
  BY InvTypes, Zenon
<1>1. UNCHANGED <<deal, net, chan, faults>> /\ cq # <<>>
  BY Zenon DEF ClientPlan
<1>2. ProviderOK' /\ ProviderQueueOK' /\ calls' = calls
  BY ProviderFrame, Zenon DEF DealInv, providerVars
<1>3. PICK e \in ClientEvents :
        e = Head(cq) /\ EventOK(e, deal.TotalFunds, c.TotalReceived, SizeOf(net.got))
  <2>1. cq \in Seq(ClientEvents) /\ Head(cq) \in ClientEvents /\ Head(cq) = cq[1]
        /\ 1 \in 1..Len(cq)
    BY <1>1 DEF DealInv, ClientQueueOK
  <2> QED BY <2>1, Zenon DEF DealInv, ClientQueueOK
<1>4. CASE cq' = Tail(cq) /\ UNCHANGED <<c, cbusy>>
  <2>1. ClientQueueOK'
    BY <1>1, <1>4, QueueTaken, Zenon DEF DealInv
  <2>2. Fixed' /\ ClientOK' /\ NetOK' /\ CallsOK'
    BY <1>0, <1>1, <1>2, <1>4, Zenon DEF DealInv, Fixed, ClientOK, NetOK, CallsOK
  <2>3. ChannelOK' /\ FreeOfCharge' /\ PaysForReceived'
    BY <1>1, <1>2, <1>4, Zenon DEF DealInv, ChannelOK, FreeOfCharge, PaysForReceived, Price
  <2> QED BY <1>2, <2>1, <2>2, <2>3, Zenon DEF DealInv
<1>5. CASE \E m \in Moves(ClientFSMEvents, e.name, c.Status) :
             /\ c' = [RecordClient(c, e) EXCEPT !.Status = TargetOf(m)]
             /\ cq' = IF TargetOf(m) \in ClientFinalityStates THEN <<>> ELSE Tail(cq)
             /\ cbusy' = (TargetOf(m) \in ClientStateEntryFuncs /\ m.to # "JustRecord")
  <2>1. PICK m \in ClientFSMEvents :
             /\ m.event = e.name /\ m.from = c.Status
             /\ c' = [RecordClient(c, e) EXCEPT !.Status = TargetOf(m)]
             /\ cq' = IF TargetOf(m) \in ClientFinalityStates THEN <<>> ELSE Tail(cq)
             /\ cbusy' = (TargetOf(m) \in ClientStateEntryFuncs /\ m.to # "JustRecord")
    BY <1>5, Zenon DEF Moves
  <2>2. PICK s : s = TargetOf(m)
    OBVIOUS
  <2>3. /\ s \in ClientStatuses
        /\ s \in Paying => c.Status \in Paying \/ e.name \in {"PaymentChannelSkip", "PaymentChannelReady"}
        /\ s \in Pays => c.Status \in Pays \/ e.name \in {"PaymentRequested", "LastPaymentRequested"}
    BY <2>1, <2>2, ClientChart DEF ClientMoves
  <2>4. PICK r : r = c' /\ r = Recorded(e, s)
    BY <2>1, <2>2, Zenon DEF Recorded
  <2>5. e.name \in Counts => e.arg \in Nat
    BY <1>3, Zenon DEF EventOK
  <2>6. /\ r \in ClientState /\ r.Status = s
        /\ r.TotalReceived = IF e.name = "BlocksReceived" THEN e.arg ELSE c.TotalReceived
        /\ e.name = "PaymentChannelReady" \/ c.PaymentInfo => r.PaymentInfo
        /\ e.name \notin PaymentNames => r.PaymentRequested = c.PaymentRequested
    BY <1>0, <2>3, <2>4, <2>5, ClientRecorded
  <2>7. cbusy' \in BOOLEAN /\ (cq' = Tail(cq) \/ cq' = <<>>)
    BY <2>1, Zenon
  <2>8. ClientQueueOK'
    <3>1. \/ c'.TotalReceived = c.TotalReceived
          \/ Head(cq).name = "BlocksReceived" /\ c'.TotalReceived = Head(cq).arg
      BY <1>3, <2>4, <2>6, Zenon
    <3> QED BY <1>1, <2>7, <3>1, QueueTaken, Zenon DEF DealInv
  <2>9. c.TotalReceived <= c'.TotalReceived /\ c'.TotalReceived <= SizeOf(net.got)
        /\ c'.TotalReceived \in Nat
    <3>1. c.TotalReceived \in Nat /\ c.TotalReceived <= SizeOf(net.got)
      BY <1>0, ClientTypes, Zenon DEF DealInv, NetOK
    <3>2. CASE e.name = "BlocksReceived"
      <4>1. e.arg \in Nat /\ c.TotalReceived <= e.arg /\ e.arg <= SizeOf(net.got)
        BY <1>3, <2>5, <3>2 DEF EventOK, Counts
      <4> QED BY <2>4, <2>6, <3>2, <4>1, Zenon
    <3>3. CASE e.name # "BlocksReceived"
      BY <2>4, <2>6, <3>1, <3>3
    <3> QED BY <3>2, <3>3, Zenon
  <2>10. Fixed' /\ ClientOK' /\ NetOK' /\ CallsOK'
    BY <1>0, <1>1, <1>2, <2>4, <2>6, <2>7, <2>9, Zenon DEF DealInv, Fixed, ClientOK, NetOK, CallsOK
  <2>11. ChannelOK'
    BY <1>1, <1>3, <2>3, <2>4, <2>6 DEF DealInv, ChannelOK, EventOK
  <2>12. FreeOfCharge'
    <3>1. deal.TotalFunds = 0 => /\ e.name \notin PaymentNames
                                 /\ e.name \notin {"PaymentRequested", "LastPaymentRequested"}
      BY <1>3 DEF EventOK, PaymentNames
    <3> QED BY <1>1, <1>2, <2>3, <2>4, <2>6, <3>1, Zenon DEF DealInv, FreeOfCharge
  <2>13. PaysForReceived'
    <3>1. PICK x \in Nat, u \in Nat, a \in Nat, b \in Nat :
             /\ x = deal.PricePerByte /\ u = deal.UnsealPrice
             /\ a = c.TotalReceived /\ b = c'.TotalReceived /\ a <= b
      BY <1>0, <2>9, ProposalTypes, ClientTypes, Zenon
    <3>2. a * x <= b * x /\ a * x \in Nat /\ b * x \in Nat
      BY <3>1, MulMono
    <3>3. chan.own \in Nat
      BY <1>0, ChanTypes, Zenon
    <3>4. chan.own > 0 => chan.own <= a * x + u
      BY <3>1, Zenon DEF DealInv, PaysForReceived, Price
    <3> QED BY <1>1, <3>1, <3>2, <3>3, <3>4 DEF PaysForReceived, Price
  <2> QED BY <1>2, <2>8, <2>10, <2>11, <2>12, <2>13 DEF DealInv
<1> QED BY <1>3, <1>4, <1>5 DEF ClientPlan
-----------------------------------------------------------------------------
(* The rest of the invariant, after a step of the provider. *)
LEMMA ProviderSide ==
  ASSUME DealInv, UNCHANGED clientVars, UNCHANGED deal,
         chan' \in PaymentChannel, chan'.own = chan.own, faults' \in 0..Faults,
         net' \in Net, net'.got = net.got, net.sent <= net'.sent,
         deal.TotalFunds = 0 =>
           /\ \A i \in 1..Len(net'.results) : net'.results[i].Status \notin Asks
           /\ net'.vouchers = <<>> /\ "pay" \notin calls',
         CallsOK'
  PROVE  RestOK'
<1>1. UNCHANGED <<c, cq, cbusy, deal>>
  BY Zenon DEF clientVars
<1>2. Fixed' /\ ClientOK'
  BY <1>1, Zenon DEF DealInv, Fixed, ClientOK
<1>3. ClientQueueOK'
  BY <1>1 DEF DealInv, ClientQueueOK
<1>4. NetOK'
  <2>1. net.got \in Nat /\ net.sent \in Nat /\ net'.sent \in Nat /\ net.got <= net.sent
        /\ c.TotalReceived <= SizeOf(net.got)
    BY BlocksAssumption DEF DealInv, NetOK, Net
  <2> QED BY <1>1, <2>1 DEF NetOK
<1>5. ChannelOK' /\ FreeOfCharge' /\ PaysForReceived'
  BY <1>1, Zenon DEF DealInv, ChannelOK, FreeOfCharge, PaysForReceived, Price
<1> QED BY <1>2, <1>3, <1>4, <1>5, Zenon DEF RestOK

LEMMA ProviderTypes ==
  ASSUME NEW ds \in ProviderState
  PROVE  /\ ds.Status \in ProviderStatuses /\ ds.TotalSent \in Nat
         /\ ds.FundsReceived \in Nat /\ ds.CurrentInterval \in Nat
BY Zenon DEF ProviderState

LEMMA TrackTypes ==
  ASSUME NEW tr \in ChannelData
  PROVE  /\ tr.totalSent \in Nat /\ tr.totalPaidFor \in Nat
         /\ tr.interval \in Nat /\ tr.reload \in BOOLEAN
BY Zenon DEF ChannelData

(* What a call reads of the deal's state. *)
LEMMA WriteTypes ==
  ASSUME deal \in Proposals, NEW tr \in ChannelData, NEW ds \in ProviderState
  PROVE  writeDealState(tr, ds) \in ChannelData
<1>1. PICK x \in Nat, u \in Nat, f \in Nat :
        x = deal.PricePerByte /\ u = deal.UnsealPrice /\ f = ds.FundsReceived
  BY ProposalTypes, ProviderTypes, Zenon
<1>2. PICK m \in Nat : m = Max({f - u, 0})
  <2>1. f - u \in Int /\ 0 \in Int
    OBVIOUS
  <2>2. Max({f - u, 0}) \in {f - u, 0} /\ Max({f - u, 0}) >= 0
    BY <2>1, MaxOfTwo, Zenon
  <2> QED BY <2>1, <2>2
<1>3. PICK paid \in Nat : paid = IF x = 0 THEN tr.totalPaidFor ELSE m \div x
  BY TrackTypes, DivNat
<1>4. writeDealState(tr, ds) = [tr EXCEPT !.totalSent = ds.TotalSent, !.totalPaidFor = paid,
                                          !.interval = ds.CurrentInterval]
  BY <1>1, <1>2, <1>3, Zenon DEF writeDealState
<1> QED BY <1>3, <1>4, ProviderTypes, TrackTypes, Zenon DEF ChannelData

(* The channel data a call goes on with. *)
LEMMA LoadTypes ==
  ASSUME DealInv, NEW call, call \in DOMAIN synced \/ ~Reload, track # None, Live
  PROVE  loadDealState(call) \in ChannelData
<1>1. deal \in Proposals /\ track \in ChannelData
  BY Zenon DEF DealInv, Fixed, ProviderOK
<1>2. CASE ~track.reload
  BY <1>1, <1>2, Zenon DEF loadDealState
<1>3. CASE track.reload
  <2>1. call \in DOMAIN synced /\ synced[call] \in ProviderState
    BY <1>3, Zenon DEF Reload, DealInv, ProviderOK
  <2>2. PICK w \in ChannelData : w = writeDealState(track, synced[call])
    BY <1>1, <2>1, WriteTypes, Zenon
  <2>3. [w EXCEPT !.reload = FALSE] \in ChannelData
    BY TrackTypes, Zenon DEF ChannelData
  <2> QED BY <1>3, <2>2, <2>3, Zenon DEF loadDealState
<1> QED BY <1>1, <1>2, <1>3, TrackTypes, Zenon

(* What an event records in the provider's deal. *)
LEMMA ProviderRecorded ==
  ASSUME deal \in Proposals, NEW ds \in ProviderState, NEW e \in ProviderEvs,
         NEW s \in ProviderStatuses
  PROVE  [RecordProvider(ds, e) EXCEPT !.Status = s] \in ProviderState
<1>0. e.arg \in Nat
  BY DEF ProviderEvs
<1>1. CASE e.name \in {"BlockSent", "PaymentRequested"}
  BY <1>0, <1>1, ProviderTypes, Zenon DEF RecordProvider, ProviderState
<1>2. CASE e.name = "PartialPaymentReceived"
  <2>1. ds.FundsReceived + e.arg \in Nat
    BY <1>0, ProviderTypes
  <2> QED BY <1>2, <2>1, ProviderTypes, Zenon DEF RecordProvider, ProviderState
<1>3. CASE e.name = "PaymentReceived"
  <2>1. ds.FundsReceived + e.arg \in Nat
    BY <1>0, ProviderTypes
  <2>2. NextInterval(ds.CurrentInterval) \in Nat
    BY ProviderTypes, NextIntervalNat, Zenon
  <2> QED BY <1>3, <2>1, <2>2, ProviderTypes, Zenon DEF RecordProvider, ProviderState
<1>4. CASE e.name \notin {"BlockSent", "PaymentRequested", "PartialPaymentReceived", "PaymentReceived"}
  <2>1. RecordProvider(ds, e) = ds
    BY <1>4, Zenon DEF RecordProvider
  <2> QED BY <2>1, ProviderTypes, Zenon DEF ProviderState
<1> QED BY <1>1, <1>2, <1>3, <1>4, Zenon

(* A call goes on. *)
GoesOn(call) ==
  /\ call \in DOMAIN synced \/ call \notin calls
  /\ calls' = calls \ {call}
  /\ synced' = [k \in DOMAIN synced \ {call} |-> synced[k]]

(* The queue when a call goes on: its turn has come, so none of the events *)
(* is its own.                                                             *)
LEMMA GoesKeeps ==
  ASSUME ProviderOK, ProviderQueueOK, NEW call, GoesOn(call),
         NEW es \in Seq(ProviderEvs), pq' = pq \/ pq' = pq \o es
  PROVE  /\ ProviderQueueOK'
         /\ calls' = calls \ {call} /\ calls' \subseteq Calls
         /\ DOMAIN synced' = DOMAIN synced \ {call} /\ DOMAIN synced' \subseteq calls'
         /\ synced' \in [DOMAIN synced' -> ProviderState]
<1>1. /\ calls' = calls \ {call}
      /\ synced' = [k \in DOMAIN synced \ {call} |-> synced[k]]
      /\ call \in DOMAIN synced \/ call \notin calls
  BY Zenon DEF GoesOn
<1>2. /\ calls \subseteq Calls /\ DOMAIN synced \subseteq calls
      /\ synced \in [DOMAIN synced -> ProviderState]
  BY Zenon DEF ProviderOK
<1>3. \A i \in 1..Len(pq) : pq[i].name = "Sync" => pq[i].arg \in calls' \ DOMAIN synced'
  BY <1>1, Zenon DEF ProviderQueueOK
<1>4. ProviderQueueOK'
  BY <1>3, ProviderAppended
<1> QED BY <1>1, <1>2, <1>4, Zenon

(* Updates of the transfer that the provider makes. *)
LEMMA NetUpdates ==
  ASSUME NEW n \in Net
  PROVE  /\ Closed(n) \in Net /\ Closed(n).got = n.got /\ Closed(n).sent = n.sent
         /\ Closed(n).results = n.results /\ Closed(n).vouchers = n.vouchers
         /\ \A b \in BOOLEAN : LET m == [n EXCEPT !.paused = b] IN
              /\ m \in Net /\ m.got = n.got /\ m.sent = n.sent
              /\ m.results = n.results /\ m.vouchers = n.vouchers
         /\ LET m == [n EXCEPT !.done = TRUE] IN
              /\ m \in Net /\ m.got = n.got /\ m.sent = n.sent
              /\ m.results = n.results /\ m.vouchers = n.vouchers
<1>1. /\ Closed(n) \in Net /\ Closed(n).got = n.got /\ Closed(n).sent = n.sent
      /\ Closed(n).results = n.results /\ Closed(n).vouchers = n.vouchers
  BY Zenon DEF Net, Closed
<1>2. ASSUME NEW b \in BOOLEAN
      PROVE  LET m == [n EXCEPT !.paused = b] IN
              /\ m \in Net /\ m.got = n.got /\ m.sent = n.sent
              /\ m.results = n.results /\ m.vouchers = n.vouchers
  BY Zenon DEF Net
<1>3. LET m == [n EXCEPT !.done = TRUE] IN
              /\ m \in Net /\ m.got = n.got /\ m.sent = n.sent
              /\ m.results = n.results /\ m.vouchers = n.vouchers
  BY Zenon DEF Net
<1> QED BY <1>1, <1>2, <1>3, Zenon

(* A response is sent while the channel is open. *)
LEMMA AnsweredKeeps ==
  ASSUME NEW n \in Net, NEW r \in DealResponse
  PROVE  /\ Answered(n, r) \in Net /\ Answered(n, r).got = n.got
         /\ Answered(n, r).sent = n.sent /\ Answered(n, r).vouchers = n.vouchers
         /\ r.Status \notin Asks /\ (\A i \in 1..Len(n.results) : n.results[i].Status \notin Asks)
              => \A i \in 1..Len(Answered(n, r).results) :
                   Answered(n, r).results[i].Status \notin Asks
<1>1. n.results \in Seq(DealResponse)
  BY Zenon DEF Net
<1>2. PICK rs \in Seq(DealResponse) :
        /\ rs = Append(n.results, r)
        /\ \A i \in 1..Len(rs) : rs[i] = r \/ (i \in 1..Len(n.results) /\ rs[i] = n.results[i])
  <2>1. /\ Append(n.results, r) \in Seq(DealResponse)
        /\ \A i \in 1..Len(Append(n.results, r)) :
             \/ Append(n.results, r)[i] = r
             \/ i \in 1..Len(n.results) /\ Append(n.results, r)[i] = n.results[i]
    BY <1>1
  <2> QED BY <2>1, Zenon
<1>3. CASE Answered(n, r) = n
  BY <1>3
<1>4. CASE Answered(n, r) = [n EXCEPT !.results = rs]
  <2>1. /\ [n EXCEPT !.results = rs] \in Net /\ [n EXCEPT !.results = rs].got = n.got
        /\ [n EXCEPT !.results = rs].sent = n.sent
        /\ [n EXCEPT !.results = rs].vouchers = n.vouchers
        /\ [n EXCEPT !.results = rs].results = rs
    BY <1>2, Zenon DEF Net
  <2>2. ASSUME r.Status \notin Asks, \A i \in 1..Len(n.results) : n.results[i].Status \notin Asks
        PROVE  \A i \in 1..Len(rs) : rs[i].Status \notin Asks
    BY <1>2, <2>2, Zenon
  <2> QED BY <1>4, <2>1, <2>2, Zenon
<1> QED BY <1>2, <1>3, <1>4, Zenon DEF Answered

(* The fields of a response. *)
LEMMA ResponseFields ==
  ASSUME NEW s, NEW a \in Int,
         s \in {"Accepted", "Rejected"} \cup ProviderStatuses
  PROVE  Response(s, a) \in DealResponse /\ Response(s, a).Status = s
BY Zenon DEF Response, DealResponse, ProviderStatuses, ProviderFinalityStates

(* A call queues for the deal's state. *)
LEMMA WaitsKeeps ==
  ASSUME DealInv, UNCHANGED clientVars, NEW call \in Calls, call \notin calls,
         track \in ChannelData, Waits(call),
         call = "sent" => net.sent < Len(Blocks),
         call = "pay" => net.vouchers # <<>>
  PROVE  DealInv'
<1>1. /\ calls' = calls \cup {call} /\ pq' = Append(pq, Ev("Sync", call))
      /\ UNCHANGED <<p, pbusy, track, synced, deal, net, chan, faults>>
  BY Zenon DEF Waits
<1>2. ProviderOK'
  BY <1>1, Zenon DEF DealInv, ProviderOK
<1>3. ProviderQueueOK'
  <2>1. PICK e \in ProviderEvents : e = Ev("Sync", call) /\ e.name = "Sync" /\ e.arg = call
    <3>1. [name |-> "Sync", arg |-> call] \in [name : {"Sync"}, arg : Calls]
      BY Zenon
    <3>2. Ev("Sync", call) \in ProviderEvents
      BY <3>1, Zenon DEF Ev, ProviderEvents
    <3>3. Ev("Sync", call).name = "Sync" /\ Ev("Sync", call).arg = call
      BY Zenon DEF Ev
    <3> QED BY <3>2, <3>3, Zenon
  <2>2. /\ Len(pq) \in Nat /\ pq' \in Seq(ProviderEvents) /\ Len(pq') = Len(pq) + 1
        /\ \A i \in 1..Len(pq) : pq'[i] = pq[i]
        /\ pq'[Len(pq) + 1] = e
        /\ \A i \in 1..Len(pq') : i \in 1..Len(pq) \/ i = Len(pq) + 1
    BY <1>1, <2>1 DEF DealInv, ProviderQueueOK
  <2>3. call \in calls' \ DOMAIN synced' /\ calls \subseteq calls' /\ synced' = synced
    BY <1>1, Zenon DEF DealInv, ProviderOK
  <2>4. \A i \in 1..Len(pq) : pq[i].name = "Sync" => pq[i].arg \in calls \ DOMAIN synced
    BY Zenon DEF DealInv, ProviderQueueOK
  <2>5. \A i \in 1..Len(pq') : pq'[i].name = "Sync" => pq'[i].arg \in calls' \ DOMAIN synced'
    BY <2>1, <2>2, <2>3, <2>4, Zenon
  <2>6. \A i, j \in 1..Len(pq') :
          pq'[i].name = "Sync" /\ pq'[j].name = "Sync" /\ pq'[i].arg = pq'[j].arg => i = j
    <3> SUFFICES ASSUME NEW i \in 1..Len(pq'), NEW j \in 1..Len(pq'),
                        pq'[i].name = "Sync", pq'[j].name = "Sync", pq'[i].arg = pq'[j].arg
                 PROVE  i = j
      OBVIOUS
    <3>1. CASE i \in 1..Len(pq) /\ j \in 1..Len(pq)
      BY <2>2, <3>1, Zenon DEF DealInv, ProviderQueueOK
    <3>2. \A k \in 1..Len(pq) : pq'[k].name = "Sync" => pq'[k].arg # call
      BY <2>2, <2>4, Zenon
    <3> QED BY <2>1, <2>2, <3>1, <3>2
  <2> QED BY <2>2, <2>5, <2>6, Zenon DEF ProviderQueueOK
<1>4. CallsOK'
  BY <1>1, Zenon DEF DealInv, CallsOK
<1>5. /\ chan' \in PaymentChannel /\ chan'.own = chan.own /\ faults' \in 0..Faults
      /\ net' \in Net /\ net'.got = net.got /\ net.sent <= net'.sent
  <2>1. net.sent \in Nat
    BY InvTypes, BlocksAssumption DEF Net
  <2> QED BY <1>1, <2>1, InvTypes
<1>6. deal.TotalFunds = 0 =>
           /\ \A i \in 1..Len(net'.results) : net'.results[i].Status \notin Asks
           /\ net'.vouchers = <<>> /\ "pay" \notin calls'
  BY <1>1, Zenon DEF DealInv, FreeOfCharge
<1>7. RestOK'
  BY <1>1, <1>4, <1>5, <1>6, ProviderSide, Zenon
<1> QED BY <1>2, <1>3, <1>7 DEF DealInv, RestOK

(* A call that goes on, with what it changes. *)
LEMMA CallKeeps ==
  ASSUME DealInv, UNCHANGED clientVars, UNCHANGED <<p, pbusy, deal>>,
         NEW call, GoesOn(call),
         NEW es \in Seq(ProviderEvs), pq' = pq \/ pq' = pq \o es,
         chan' \in PaymentChannel, chan'.own = chan.own, faults' \in 0..Faults,
         track' = track \/ track' \in ChannelData,
         net' \in Net, net'.got = net.got, net.sent <= net'.sent,
         net'.sent = net.sent \/ call = "sent",
         net'.vouchers = net.vouchers \/ call = "pay",
         deal.TotalFunds = 0 =>
           /\ \A i \in 1..Len(net'.results) : net'.results[i].Status \notin Asks
           /\ net'.vouchers = <<>>
  PROVE  DealInv'
<1>1. /\ ProviderQueueOK'
      /\ calls' = calls \ {call} /\ calls' \subseteq Calls
      /\ DOMAIN synced' \subseteq calls' /\ synced' \in [DOMAIN synced' -> ProviderState]
  BY GoesKeeps, Zenon DEF DealInv
<1>2. ProviderOK'
  BY <1>1 DEF DealInv, ProviderOK
<1>3. CallsOK'
  BY <1>1, Zenon DEF DealInv, CallsOK
<1>4. deal.TotalFunds = 0 => "pay" \notin calls'
  BY <1>1, Zenon DEF DealInv, FreeOfCharge
<1>5. RestOK'
  BY <1>3, <1>4, ProviderSide, Zenon
<1> QED BY <1>1, <1>2, <1>5 DEF DealInv, RestOK

(* The sequences of events that a call sends to the state machine. *)
LEMMA Sends ==
  ASSUME NEW e \in ProviderEvs, NEW f \in ProviderEvs
  PROVE  <<>> \in Seq(ProviderEvs) /\ <<e>> \in Seq(ProviderEvs) /\ <<e, f>> \in Seq(ProviderEvs)
OBVIOUS

(* Updates of the channel data. *)
LEMMA TrackUpdates ==
  ASSUME NEW tr \in ChannelData, NEW b \in Nat
  PROVE  /\ [tr EXCEPT !.totalSent = b] \in ChannelData
         /\ [tr EXCEPT !.totalSent = b].totalSent = b
         /\ [tr EXCEPT !.reload = TRUE] \in ChannelData
<1>1. [tr EXCEPT !.totalSent = b] \in ChannelData
  BY Zenon DEF ChannelData
<1>2. [tr EXCEPT !.totalSent = b].totalSent = b
  BY Zenon DEF ChannelData
<1>3. [tr EXCEPT !.reload = TRUE] \in ChannelData
  BY Zenon DEF ChannelData
<1> QED BY <1>1, <1>2, <1>3, Zenon

(* OnPullDataSent: a deal without funds has no price, so no payment is     *)
(* asked for.                                                              *)
LEMMA OnPullDataSentKeeps ==
  ASSUME DealInv, UNCHANGED clientVars, OnPullDataSent
  PROVE  DealInv'
<1>0. /\ net \in Net /\ chan \in PaymentChannel /\ deal \in Proposals /\ faults \in 0..Faults
      /\ net.sent \in Nat /\ net.sent < Len(Blocks) /\ Len(Blocks) \in Nat
      /\ Blocks[net.sent + 1] \in Nat
  <2>1. net.sent < Len(Blocks)
    BY Zenon DEF OnPullDataSent, Goes, CanSend, DealInv, CallsOK, ProviderOK
  <2>2. net \in Net /\ net.sent \in 0..Len(Blocks)
    BY InvTypes, Zenon DEF Net
  <2> QED BY <2>1, <2>2, InvTypes, BlocksAssumption
<1>1. /\ UNCHANGED <<p, pbusy, deal, chan, faults>> /\ GoesOn("sent")
      /\ "sent" \in DOMAIN synced \/ ~Reload
  BY DEF OnPullDataSent, Goes, GoesOn
<1>2. deal.TotalFunds = 0 =>
        /\ deal.PricePerByte = 0 /\ net.vouchers = <<>>
        /\ \A i \in 1..Len(net.results) : net.results[i].Status \notin Asks
  BY <1>0, ProposalsAssumption, Zenon DEF DealInv, FreeOfCharge
<1>3. PICK m \in Net : /\ m = SentOne(net) /\ m.sent = net.sent + 1 /\ m.got = net.got
                       /\ m.results = net.results /\ m.vouchers = net.vouchers
  <2>1. net.sent + 1 \in 0..Len(Blocks)
    BY <1>0
  <2>2. PICK k : k = net.sent + 1
    OBVIOUS
  <2>3. /\ [net EXCEPT !.sent = k] \in Net /\ [net EXCEPT !.sent = k].sent = k
        /\ [net EXCEPT !.sent = k].got = net.got
        /\ [net EXCEPT !.sent = k].results = net.results
        /\ [net EXCEPT !.sent = k].vouchers = net.vouchers
    BY <1>0, <2>1, <2>2, Zenon DEF Net
  <2>4. SentOne(net) = [net EXCEPT !.sent = k]
    BY <2>2, Zenon DEF SentOne
  <2> QED BY <2>2, <2>3, <2>4, Zenon
<1>4. <<>> \in Seq(ProviderEvs)
  OBVIOUS
<1>5. CASE track = None
  <2>1. net' = m /\ UNCHANGED <<track, pq>>
    BY <1>3, <1>5 DEF OnPullDataSent
  <2>2. /\ net' \in Net /\ net'.got = net.got /\ net.sent <= net'.sent
        /\ net'.results = net.results /\ net'.vouchers = net.vouchers
    BY <1>0, <1>3, <2>1
  <2> QED BY <1>0, <1>1, <1>2, <1>4, <2>1, <2>2, CallKeeps, Zenon
<1>6. CASE track # None /\ ~Live
  <2>1. net' = Closed(net) /\ UNCHANGED <<track, pq>>
    BY <1>6 DEF OnPullDataSent
  <2>2. net.sent <= net.sent
    BY <1>0
  <2> QED BY <1>0, <1>1, <1>2, <1>4, <2>1, <2>2, NetUpdates, CallKeeps, Zenon
<1>7. CASE track # None /\ Live
  <2>1. PICK ld \in ChannelData : ld = loadDealState("sent")
    BY <1>1, <1>7, LoadTypes, Zenon
  <2>2. PICK b \in Nat : b = ld.totalSent + Blocks[net.sent + 1]
    BY <1>0, TrackTypes
  <2>3. PICK tr \in ChannelData : tr = [ld EXCEPT !.totalSent = b] /\ tr.totalSent = b
    BY TrackUpdates, Zenon
  <2>4. tr = [loadDealState("sent") EXCEPT !.totalSent = @ + Blocks[net.sent + 1]]
    BY <2>1, <2>2, <2>3, Zenon
  <2>5. /\ track' = tr
        /\ \/ /\ net' = SentOne(net)
              /\ pq' = ToProvider(<<Ev("BlockSent", tr.totalSent)>>)
           \/ /\ deal.PricePerByte # 0
              /\ net' = Answered([SentOne(net) EXCEPT !.paused = TRUE],
                                 Response("FundsNeeded", owedFor(tr)))
              /\ pq' = ToProvider(<<Ev("PaymentRequested", tr.totalSent)>>)
    BY <1>7, <2>4 DEF OnPullDataSent
  <2>6. CASE net' = SentOne(net) /\ pq' = ToProvider(<<Ev("BlockSent", tr.totalSent)>>)
    <3>1. <<Ev("BlockSent", tr.totalSent)>> \in Seq(ProviderEvs)
      BY <2>3, ProviderEvFields, Sends DEF ProviderEventNames
    <3>2. pq' = pq \o <<Ev("BlockSent", tr.totalSent)>>
      BY <1>7, <2>6, Zenon DEF ToProvider
    <3>3. net.sent <= net'.sent /\ net' = m
      BY <1>0, <1>3, <2>6
    <3> QED BY <1>0, <1>1, <1>2, <1>3, <2>5, <3>1, <3>2, <3>3, CallKeeps, Zenon
  <2>7. CASE /\ deal.PricePerByte # 0
             /\ net' = Answered([SentOne(net) EXCEPT !.paused = TRUE],
                                 Response("FundsNeeded", owedFor(tr)))
             /\ pq' = ToProvider(<<Ev("PaymentRequested", tr.totalSent)>>)
    <3>1. <<Ev("PaymentRequested", tr.totalSent)>> \in Seq(ProviderEvs)
      BY <2>3, ProviderEvFields, Sends DEF ProviderEventNames
    <3>2. pq' = pq \o <<Ev("PaymentRequested", tr.totalSent)>>
      BY <1>7, <2>7, Zenon DEF ToProvider
    <3>3. PICK r \in DealResponse : r = Response("FundsNeeded", owedFor(tr))
      <4>1. owedFor(tr) \in Int
        <5>1. PICK s \in Nat, t \in Nat, f \in Nat :
                s = tr.totalSent /\ t = tr.totalPaidFor /\ f = deal.PricePerByte
          BY <1>0, ProposalTypes, TrackTypes, Zenon
        <5>2. (s - t) * f \in Int
          OBVIOUS
        <5> QED BY <5>1, <5>2, Zenon DEF owedFor
      <4> QED BY <4>1, ResponseFields, Zenon DEF ProviderStatuses
    <3>4. PICK n \in Net : /\ n = [m EXCEPT !.paused = TRUE] /\ n.sent = m.sent
                           /\ n.got = m.got /\ n.vouchers = m.vouchers
      BY NetUpdates, Zenon
    <3>5. net' = Answered(n, r)
      BY <1>3, <2>7, <3>3, <3>4, Zenon
    <3>6. net' \in Net /\ net'.got = net.got /\ net'.sent = net.sent + 1
          /\ net'.vouchers = net.vouchers
      BY <1>3, <3>4, <3>5, AnsweredKeeps, Zenon
    <3>7. net.sent <= net'.sent
      BY <1>0, <3>6
    <3> QED BY <1>0, <1>1, <1>2, <2>5, <2>7, <3>1, <3>2, <3>6, <3>7, CallKeeps, Zenon
  <2> QED BY <2>5, <2>6, <2>7, Zenon
<1> QED BY <1>5, <1>6, <1>7

(* OnComplete: a deal without funds owes nothing. *)
LEMMA OnCompleteKeeps ==
  ASSUME DealInv, UNCHANGED clientVars, OnComplete
  PROVE  DealInv'
<1>0. /\ net \in Net /\ chan \in PaymentChannel /\ deal \in Proposals /\ faults \in 0..Faults
      /\ net.sent \in Nat /\ net.sent <= net.sent
  BY InvTypes, BlocksAssumption DEF Net
<1>1. /\ UNCHANGED <<p, pbusy, deal, chan, faults>> /\ GoesOn("completed")
      /\ "completed" \in DOMAIN synced \/ ~Reload
  BY Zenon DEF OnComplete, Goes, GoesOn
<1>2. deal.TotalFunds = 0 =>
        /\ deal.PricePerByte = 0 /\ net.vouchers = <<>>
        /\ \A i \in 1..Len(net.results) : net.results[i].Status \notin Asks
  BY <1>0, ProposalsAssumption, Zenon DEF DealInv, FreeOfCharge
<1>3. PICK m \in Net : /\ m = [net EXCEPT !.done = TRUE] /\ m.sent = net.sent /\ m.got = net.got
                       /\ m.results = net.results /\ m.vouchers = net.vouchers
  BY <1>0, NetUpdates, Zenon
<1>4. <<>> \in Seq(ProviderEvs)
  OBVIOUS
<1>5. CASE track = None
  <2>1. net' = m /\ UNCHANGED <<track, pq>>
    BY <1>3, <1>5 DEF OnComplete
  <2> QED BY <1>0, <1>1, <1>2, <1>3, <1>4, <2>1, CallKeeps, Zenon
<1>6. CASE track # None /\ ~Live
  <2>1. net' = Closed(net) /\ UNCHANGED <<track, pq>>
    BY <1>6 DEF OnComplete
  <2> QED BY <1>0, <1>1, <1>2, <1>4, <2>1, NetUpdates, CallKeeps, Zenon
<1>7. CASE track # None /\ Live
  <2>1. PICK tr \in ChannelData : tr = loadDealState("completed")
    BY <1>1, <1>7, LoadTypes, Zenon
  <2>2. /\ tr.totalSent \in Nat /\ owedFor(tr) \in Int
        /\ deal.PricePerByte = 0 => owedFor(tr) = 0
    BY <1>0, ProposalTypes, TrackTypes DEF owedFor
  <2>3. /\ track' = tr
        /\ \/ /\ owedFor(tr) = 0
              /\ net' = Answered([net EXCEPT !.done = TRUE], Response("Completed", 0))
              /\ pq' = ToProvider(<<Ev("BlocksCompleted", 0), Ev("Complete", 0)>>)
           \/ /\ owedFor(tr) # 0
              /\ net' = Answered([net EXCEPT !.done = TRUE, !.paused = TRUE],
                                 Response("FundsNeededLastPayment", owedFor(tr)))
              /\ pq' = ToProvider(<<Ev("BlocksCompleted", 0),
                                    Ev("PaymentRequested", tr.totalSent)>>)
    BY <1>7, <2>1, Zenon DEF OnComplete
  <2>4. CASE /\ owedFor(tr) = 0
             /\ net' = Answered([net EXCEPT !.done = TRUE], Response("Completed", 0))
             /\ pq' = ToProvider(<<Ev("BlocksCompleted", 0), Ev("Complete", 0)>>)
    <3>1. <<Ev("BlocksCompleted", 0), Ev("Complete", 0)>> \in Seq(ProviderEvs)
      BY ProviderEvFields, Sends DEF ProviderEventNames
    <3>2. pq' = pq \o <<Ev("BlocksCompleted", 0), Ev("Complete", 0)>>
      BY <1>7, <2>4, Zenon DEF ToProvider
    <3>3. PICK r \in DealResponse : r = Response("Completed", 0) /\ r.Status = "Completed"
      BY ResponseFields DEF ProviderStatuses, ProviderFinalityStates
    <3>4. net' = Answered(m, r) /\ r.Status \notin Asks
      BY <1>3, <2>4, <3>3 DEF Asks
    <3>5. /\ net' \in Net /\ net'.got = net.got /\ net'.sent = net.sent
          /\ net'.vouchers = net.vouchers
          /\ deal.TotalFunds = 0 =>
               \A i \in 1..Len(net'.results) : net'.results[i].Status \notin Asks
      BY <1>2, <1>3, <3>4, AnsweredKeeps, Zenon
    <3> QED BY <1>0, <1>1, <1>2, <2>3, <3>1, <3>2, <3>5, CallKeeps, Zenon
  <2>5. CASE /\ owedFor(tr) # 0
             /\ net' = Answered([net EXCEPT !.done = TRUE, !.paused = TRUE],
                                Response("FundsNeededLastPayment", owedFor(tr)))
             /\ pq' = ToProvider(<<Ev("BlocksCompleted", 0),
                                   Ev("PaymentRequested", tr.totalSent)>>)
    <3>1. <<Ev("BlocksCompleted", 0), Ev("PaymentRequested", tr.totalSent)>> \in Seq(ProviderEvs)
      BY <2>2, ProviderEvFields, Sends, Zenon DEF ProviderEventNames
    <3>2. pq' = pq \o <<Ev("BlocksCompleted", 0), Ev("PaymentRequested", tr.totalSent)>>
      BY <1>7, <2>5 DEF ToProvider
    <3>3. PICK r \in DealResponse : r = Response("FundsNeededLastPayment", owedFor(tr))
      BY <2>2, ResponseFields, Zenon DEF ProviderStatuses
    <3>4. PICK n \in Net : /\ n = [m EXCEPT !.paused = TRUE] /\ n.sent = m.sent
                           /\ n.got = m.got /\ n.vouchers = m.vouchers
      BY NetUpdates, Zenon
    <3>5. net' = Answered(n, r)
      <4>1. [[net EXCEPT !.done = TRUE] EXCEPT !.paused = TRUE]
              = [net EXCEPT !.done = TRUE, !.paused = TRUE]
        OBVIOUS
      <4> QED BY <1>3, <2>5, <3>3, <3>4, <4>1
    <3>6. net' \in Net /\ net'.got = net.got /\ net'.sent = net.sent
          /\ net'.vouchers = net.vouchers
      BY <1>3, <3>4, <3>5, AnsweredKeeps, Zenon
    <3>7. deal.TotalFunds # 0
      BY <1>2, <2>2, <2>5, Zenon
    <3> QED BY <1>0, <1>1, <2>3, <3>1, <3>2, <3>6, <3>7, CallKeeps, Zenon
  <2> QED BY <2>3, <2>4, <2>5, Zenon
<1> QED BY <1>5, <1>6, <1>7, Zenon

(* Taking the first voucher off the channel. *)
LEMMA ConsumedTypes ==
  ASSUME NEW n \in Net, n.vouchers # <<>>
  PROVE  /\ Consumed(n) \in Net /\ Consumed(n).got = n.got /\ Consumed(n).sent = n.sent
         /\ Consumed(n).results = n.results /\ Head(n.vouchers) \in Nat
<1>1. n.vouchers \in Seq(Nat)
  BY Zenon DEF Net
<1>2. PICK vs \in Seq(Nat) : vs = Tail(n.vouchers)
  <2>1. \A s \in Seq(Nat) : s # <<>> => Tail(s) \in Seq(Nat)
    OBVIOUS
  <2> QED BY <1>1, <2>1, Zenon
<1>3. /\ [n EXCEPT !.vouchers = vs] \in Net /\ [n EXCEPT !.vouchers = vs].got = n.got
      /\ [n EXCEPT !.vouchers = vs].sent = n.sent
      /\ [n EXCEPT !.vouchers = vs].results = n.results
  BY Zenon DEF Net
<1>4. Head(n.vouchers) \in Nat
  BY <1>1
<1>5. Consumed(n) = [n EXCEPT !.vouchers = vs]
  BY <1>2, Zenon DEF Consumed
<1> QED BY <1>3, <1>4, <1>5, Zenon

(* A voucher that is not looked at: there is none in a deal without funds. *)
LEMMA RevalidateUntrackedKeeps ==
  ASSUME DealInv, UNCHANGED clientVars, RevalidateUntracked
  PROVE  DealInv'
<1>1. /\ net \in Net /\ net.vouchers # <<>> /\ net' = Consumed(net) /\ "pay" \notin calls
      /\ UNCHANGED <<providerVars, deal, chan, faults>> /\ deal.TotalFunds # 0
      /\ chan \in PaymentChannel /\ faults \in 0..Faults
  BY InvTypes, Zenon DEF RevalidateUntracked, DealInv, FreeOfCharge
<1>2. /\ net' \in Net /\ net'.got = net.got /\ net'.sent = net.sent /\ net.sent <= net'.sent
  <2>1. net.sent \in Nat
    BY <1>1, BlocksAssumption DEF Net
  <2> QED BY <1>1, <2>1, ConsumedTypes
<1>3. ProviderOK' /\ ProviderQueueOK'
  BY <1>1, ProviderFrame, Zenon DEF DealInv
<1>4. CallsOK'
  BY <1>1, <1>2, Zenon DEF DealInv, CallsOK, providerVars
<1>5. RestOK'
  BY <1>1, <1>2, <1>4, ProviderSide, Zenon
<1> QED BY <1>3, <1>5, Zenon DEF DealInv, RestOK

(* What is still to be paid after a voucher. *)
LEMMA OwedTypes ==
  ASSUME deal \in Proposals, NEW ds \in ProviderState, NEW paid \in Nat
  PROVE  paymentOwed(ds, paid) \in Int
<1>1. PICK x \in Nat, u \in Nat, l \in Nat :
        /\ x = deal.PricePerByte /\ u = deal.UnsealPrice
        /\ l = IntervalLowerBound(ds.CurrentInterval)
  BY ProposalTypes, ProviderTypes, IntervalLowerBoundNat, Zenon
<1> QED BY <1>1 DEF paymentOwed

(* Revalidate: the voucher is taken off the channel, whether it is         *)
(* accepted or not.                                                        *)
LEMMA RevalidateKeeps ==
  ASSUME DealInv, UNCHANGED clientVars, Revalidate
  PROVE  DealInv'
<1>0. /\ net \in Net /\ chan \in PaymentChannel /\ deal \in Proposals /\ faults \in 0..Faults
      /\ net.sent \in Nat /\ net.sent <= net.sent
  BY InvTypes, BlocksAssumption DEF Net
<1>1. UNCHANGED <<p, pbusy, deal>> /\ GoesOn("pay") /\ "pay" \in DOMAIN synced
  BY Zenon DEF Revalidate, Goes, GoesOn
<1>2. /\ net.vouchers # <<>> /\ deal.TotalFunds # 0 /\ track \in ChannelData
  BY <1>1 DEF DealInv, ProviderOK, CallsOK, FreeOfCharge
<1>3. PICK ds \in ProviderState : ds = synced["pay"]
  BY <1>1, Zenon DEF DealInv, ProviderOK
<1>4. PICK n \in Net : n = Consumed(net) /\ n.got = net.got /\ n.sent = net.sent
  BY <1>0, <1>2, ConsumedTypes, Zenon
<1>5. PICK v \in Nat : v = Head(net.vouchers)
  BY <1>0, <1>2, ConsumedTypes
<1>6. PICK received \in Nat : received = Max({v - chan.accepted, 0})
  <2>1. v - chan.accepted \in Int /\ 0 \in Int
    BY <1>0, ChanTypes
  <2>2. Max({v - chan.accepted, 0}) \in {v - chan.accepted, 0} /\ Max({v - chan.accepted, 0}) >= 0
    BY <2>1, MaxOfTwo, Zenon
  <2> QED BY <2>1, <2>2
<1>7. PICK owed \in Int : owed = paymentOwed(ds, ds.FundsReceived + received)
  BY <1>0, <1>3, <1>6, ProviderTypes, OwedTypes
<1>8. PICK errored \in DealResponse : errored = Response("Errored", 0)
  BY ResponseFields DEF ProviderStatuses, ProviderFinalityStates
<1>9. PICK completed \in DealResponse : completed = Response("Completed", 0)
  BY ResponseFields DEF ProviderStatuses, ProviderFinalityStates
<1>10. PICK asks \in DealResponse : asks = Response(ds.Status, owed)
  BY <1>3, <1>7, ProviderTypes, ResponseFields, Zenon
<1>11. PICK np \in Net : np = [n EXCEPT !.paused = TRUE] /\ np.got = net.got /\ np.sent = net.sent
  <2>1. /\ [n EXCEPT !.paused = TRUE] \in Net /\ [n EXCEPT !.paused = TRUE].got = n.got
        /\ [n EXCEPT !.paused = TRUE].sent = n.sent
    BY NetUpdates, Zenon
  <2> QED BY <1>4, <2>1, Zenon
<1>12. PICK ng \in Net : ng = [n EXCEPT !.paused = FALSE] /\ ng.got = net.got /\ ng.sent = net.sent
  <2>1. /\ [n EXCEPT !.paused = FALSE] \in Net /\ [n EXCEPT !.paused = FALSE].got = n.got
        /\ [n EXCEPT !.paused = FALSE].sent = n.sent
    BY NetUpdates, Zenon
  <2> QED BY <1>4, <2>1, Zenon
<1>13. PICK accepted \in Nat : accepted = chan.accepted + received
  BY <1>0, ChanTypes
<1>14. PICK ch \in PaymentChannel : ch = [chan EXCEPT !.accepted = accepted] /\ ch.own = chan.own
  <2>1. [chan EXCEPT !.accepted = accepted] \in PaymentChannel
        /\ [chan EXCEPT !.accepted = accepted].own = chan.own
    BY <1>0, Zenon DEF PaymentChannel
  <2> QED BY <2>1, Zenon
<1>15. PICK tr \in ChannelData : tr = [track EXCEPT !.reload = TRUE]
  BY <1>2, TrackUpdates, Zenon
<1>16. PICK fails \in Seq(ProviderEvs), partial \in Seq(ProviderEvs), full \in Seq(ProviderEvs),
            final \in Seq(ProviderEvs) :
         /\ fails = <<Ev("SaveVoucherFailed", 0)>>
         /\ partial = <<Ev("PartialPaymentReceived", received)>>
         /\ full = <<Ev("PaymentReceived", received)>> \o <<>>
         /\ final = <<Ev("PaymentReceived", received)>> \o <<Ev("Complete", 0)>>
  <2>1. /\ Ev("SaveVoucherFailed", 0) \in ProviderEvs
        /\ Ev("PartialPaymentReceived", received) \in ProviderEvs
        /\ Ev("PaymentReceived", received) \in ProviderEvs
        /\ Ev("Complete", 0) \in ProviderEvs
    BY ProviderEvFields, Zenon DEF ProviderEventNames
  <2>2. \A e, f \in ProviderEvs : /\ <<e>> \in Seq(ProviderEvs)
                                  /\ <<e>> \o <<>> \in Seq(ProviderEvs)
                                  /\ <<e>> \o <<f>> \in Seq(ProviderEvs)
    OBVIOUS
  <2> QED BY <2>1, <2>2, Zenon
<1>17. ASSUME NEW es \in Seq(ProviderEvs), pq' = ToProvider(es)
       PROVE  pq' = pq \/ pq' = pq \o es
  BY <1>17, Zenon DEF ToProvider
<1>18. ASSUME NEW nn \in Net, nn.got = net.got, nn.sent = net.sent,
              NEW r \in DealResponse, net' = nn \/ net' = Answered(nn, r),
              NEW es \in Seq(ProviderEvs), pq' = pq \/ pq' = pq \o es,
              chan' = chan \/ chan' = ch, Fails \/ Works, track' = track \/ track' = tr
       PROVE  DealInv'
  <2>1. net' \in Net /\ net'.got = net.got /\ net'.sent = net.sent
    <3>1. /\ Answered(nn, r) \in Net /\ Answered(nn, r).got = nn.got
          /\ Answered(nn, r).sent = nn.sent
      BY AnsweredKeeps, Zenon
    <3> QED BY <1>18, <3>1
  <2>2. chan' \in PaymentChannel /\ chan'.own = chan.own /\ faults' \in 0..Faults
    BY <1>0, <1>14, <1>18, FaultsBounded, Zenon
  <2> QED BY <1>0, <1>1, <1>2, <1>15, <1>18, <2>1, <2>2, CallKeeps, Zenon
<1>19. CASE ds.Status \in ProviderFinalityStates
  <2>1. net' = Answered(n, errored) /\ UNCHANGED <<pq, track, chan, faults>>
    BY <1>3, <1>4, <1>8, <1>19, Zenon DEF Revalidate
  <2>2. Works
    BY <2>1, Zenon DEF Works
  <2> QED BY <1>4, <1>16, <1>18, <2>1, <2>2, Zenon
<1>20. CASE ds.Status \notin ProviderFinalityStates
  <2>1. \/ /\ Fails /\ UNCHANGED <<chan, track>>
           /\ pq' = ToProvider(fails) /\ net' = Answered(n, errored)
        \/ /\ Works /\ chan' = ch
           /\ \/ /\ pq' = ToProvider(partial)
                 /\ net' = Answered(np, asks) /\ UNCHANGED track
              \/ /\ pq' = ToProvider(full) /\ net' = ng /\ track' = tr
              \/ /\ pq' = ToProvider(final) /\ net' = Answered(ng, completed) /\ track' = tr
    BY <1>3, <1>4, <1>5, <1>6, <1>7, <1>8, <1>9, <1>10, <1>11, <1>12, <1>13, <1>14, <1>15,
       <1>16, <1>20, Zenon DEF Revalidate
  <2>2. CASE /\ Fails /\ UNCHANGED <<chan, track>>
             /\ pq' = ToProvider(fails) /\ net' = Answered(n, errored)
    BY <1>4, <1>17, <1>18, <2>2, Zenon
  <2>3. CASE /\ Works /\ chan' = ch /\ pq' = ToProvider(partial)
             /\ net' = Answered(np, asks) /\ UNCHANGED track
    BY <1>11, <1>17, <1>18, <2>3, Zenon
  <2>4. CASE /\ Works /\ chan' = ch /\ pq' = ToProvider(full) /\ net' = ng /\ track' = tr
    BY <1>12, <1>17, <1>18, <2>4, <1>8, Zenon
  <2>5. CASE /\ Works /\ chan' = ch /\ pq' = ToProvider(final)
             /\ net' = Answered(ng, completed) /\ track' = tr
    BY <1>12, <1>17, <1>18, <2>5, Zenon
  <2> QED BY <2>1, <2>2, <2>3, <2>4, <2>5
<1> QED BY <1>19, <1>20, Zenon

-----------------------------------------------------------------------------
(* The queue of the provider without its first event. *)
LEMMA ProviderTaken ==
  ASSUME ProviderQueueOK, pq # <<>>, NEW q, q = Tail(pq)
  PROVE  /\ q \in Seq(ProviderEvents) /\ Head(pq) = pq[1] /\ pq[1] \in ProviderEvents
         /\ \A i \in 1..Len(q) : q[i] = pq[i + 1] /\ i + 1 \in 1..Len(pq) /\ i + 1 # 1
         /\ \A i \in 1..Len(q) : q[i].name = "Sync" =>
              /\ q[i].arg \in calls \ DOMAIN synced
              /\ pq[1].name = "Sync" => q[i].arg # pq[1].arg
         /\ \A i, j \in 1..Len(q) :
              q[i].name = "Sync" /\ q[j].name = "Sync" /\ q[i].arg = q[j].arg => i = j
<1>1. /\ q \in Seq(ProviderEvents) /\ Head(pq) = pq[1] /\ pq[1] \in ProviderEvents
      /\ Len(pq) \in Nat /\ 1 \in 1..Len(pq)
      /\ \A i \in 1..Len(q) : q[i] = pq[i + 1] /\ i + 1 \in 1..Len(pq) /\ i + 1 # 1
  BY DEF ProviderQueueOK
<1>2. \A i \in 1..Len(q) : q[i].name = "Sync" =>
              /\ q[i].arg \in calls \ DOMAIN synced
              /\ pq[1].name = "Sync" => q[i].arg # pq[1].arg
  BY <1>1, Zenon DEF ProviderQueueOK
<1>3. ASSUME NEW i \in 1..Len(q), NEW j \in 1..Len(q),
             q[i].name = "Sync", q[j].name = "Sync", q[i].arg = q[j].arg
      PROVE  i = j
  <2>1. i + 1 = j + 1
    BY <1>1, <1>3 DEF ProviderQueueOK
  <2> QED BY <2>1
<1> QED BY <1>1, <1>2, <1>3, Zenon

(* A step of the provider that leaves the client, the transfer and the     *)
(* calls alone.                                                            *)
LEMMA ProviderAlone ==
  ASSUME DealInv, UNCHANGED clientVars, UNCHANGED <<calls, deal, net, chan, faults>>
  PROVE  RestOK'
<1>1. net \in Net /\ net.sent \in Nat /\ chan \in PaymentChannel /\ faults \in 0..Faults
  BY InvTypes, BlocksAssumption DEF Net
<1>2. CallsOK'
  BY Zenon DEF DealInv, CallsOK
<1>3. deal.TotalFunds = 0 =>
           /\ \A i \in 1..Len(net'.results) : net'.results[i].Status \notin Asks
           /\ net'.vouchers = <<>> /\ "pay" \notin calls'
  BY Zenon DEF DealInv, FreeOfCharge
<1>4. net' \in Net /\ net'.got = net.got /\ net.sent <= net'.sent
      /\ chan' \in PaymentChannel /\ chan'.own = chan.own /\ faults' \in 0..Faults
  BY <1>1
<1> QED BY <1>2, <1>3, <1>4, ProviderSide, Zenon

(* The state machine takes an event. *)
LEMMA ProviderPlanKeeps ==
  ASSUME DealInv, UNCHANGED clientVars, ProviderPlan
  PROVE  DealInv'
<1>1. /\ UNCHANGED <<track, calls, deal, net, chan, faults>> /\ pq # <<>>
      /\ p \in ProviderState /\ deal \in Proposals /\ pbusy \in BOOLEAN
      /\ synced \in [DOMAIN synced -> ProviderState] /\ DOMAIN synced \subseteq calls
      /\ calls \subseteq Calls /\ ProviderOK /\ ProviderQueueOK
  BY Zenon DEF ProviderPlan, Live, DealInv, ProviderOK, Fixed
<1>2. RestOK'
  BY <1>1, ProviderAlone, Zenon
<1>3. PICK q : q = Tail(pq)
  BY Zenon
<1>4. /\ q \in Seq(ProviderEvents)
      /\ \A i \in 1..Len(q) : q[i].name = "Sync" =>
           /\ q[i].arg \in calls \ DOMAIN synced
           /\ pq[1].name = "Sync" => q[i].arg # pq[1].arg
      /\ \A i, j \in 1..Len(q) :
           q[i].name = "Sync" /\ q[j].name = "Sync" /\ q[i].arg = q[j].arg => i = j
  BY <1>1, <1>3, ProviderTaken, Zenon
<1>5. PICK e \in ProviderEvents : e = Head(pq) /\ e = pq[1]
  BY <1>1, <1>3, ProviderTaken, Zenon
<1>6. CASE /\ e.name = "Sync" /\ pq' = q /\ synced' = Answer({e.arg}, p)
           /\ UNCHANGED <<p, pbusy>>
  <2>1. e.arg \in calls
    BY <1>1, <1>5, <1>6, 1 \in 1..Len(pq) DEF ProviderQueueOK
  <2>2. DOMAIN synced' = {e.arg} \cup DOMAIN synced
        /\ \A k \in DOMAIN synced' : synced'[k] \in ProviderState
        /\ synced' = [x \in DOMAIN synced' |-> synced'[x]]
    BY <1>1, <1>6 DEF Answer
  <2>3. ProviderOK'
    BY <1>1, <1>6, <2>1, <2>2, Zenon DEF ProviderOK
  <2>4. \A i \in 1..Len(q) : q[i].name = "Sync" => q[i].arg \in calls' \ DOMAIN synced'
    BY <1>1, <1>4, <1>5, <1>6, <2>2
  <2>5. ProviderQueueOK'
    BY <1>4, <1>6, <2>4, Zenon DEF ProviderQueueOK
  <2> QED BY <1>2, <2>3, <2>5, Zenon DEF DealInv, RestOK
<1>7. CASE pq' = q /\ UNCHANGED <<p, pbusy, synced>>
  <2>1. ProviderOK'
    BY <1>1, <1>7 DEF ProviderOK
  <2>2. ProviderQueueOK'
    BY <1>1, <1>4, <1>7, Zenon DEF ProviderQueueOK
  <2> QED BY <1>2, <2>1, <2>2, Zenon DEF DealInv, RestOK
<1>8. ASSUME NEW m \in Moves(ProviderFSMEvents, e.name, p.Status), NEW s, s = TargetOf(m),
             p' = [RecordProvider(p, e) EXCEPT !.Status = s],
             pq' = IF s \in ProviderFinalityStates THEN <<>> ELSE q,
             pbusy' \in BOOLEAN,
             synced' = IF s \in ProviderFinalityStates THEN Answer(calls, p') ELSE synced
      PROVE  DealInv'
  <2>1. s \in ProviderStatuses /\ e.name # "Sync"
    BY <1>8, ProviderChart, Zenon DEF Moves
  <2>2. e \in ProviderEvs
    BY <2>1 DEF ProviderEvents, ProviderEvs
  <2>3. p' \in ProviderState
    BY <1>1, <1>8, <2>1, <2>2, ProviderRecorded
  <2>4. CASE s \in ProviderFinalityStates
    <3>1. pq' = <<>> /\ synced' = Answer(calls, p')
      BY <1>8, <2>4, Zenon
    <3>2. DOMAIN synced' = calls /\ synced' \in [calls -> ProviderState]
      <4>1. PICK ds \in ProviderState : ds = p'
        BY <2>3, Zenon
      <4>2. calls \cup DOMAIN synced = calls
        BY <1>1, Zenon
      <4>3. synced' = [k \in calls |-> IF k \in DOMAIN synced THEN synced[k] ELSE ds]
        BY <3>1, <4>1, <4>2, Zenon DEF Answer
      <4> QED BY <1>1, <4>3
    <3>3. ProviderOK'
      <4>1. synced' \in [DOMAIN synced' -> ProviderState]
        BY <3>2
      <4>2. pbusy' \in BOOLEAN /\ track' = track /\ calls' = calls
        BY <1>1, <1>8
      <4> QED BY <1>1, <2>3, <3>2, <4>1, <4>2, Zenon DEF ProviderOK
    <3>4. ProviderQueueOK'
      BY <3>1 DEF ProviderQueueOK
    <3> QED BY <1>2, <3>3, <3>4 DEF DealInv, RestOK
  <2>5. CASE s \notin ProviderFinalityStates
    <3>1. pq' = q /\ synced' = synced
      BY <1>8, <2>5, Zenon
    <3>2. ProviderOK'
      BY <1>1, <1>8, <2>3, <3>1 DEF ProviderOK
    <3>3. ProviderQueueOK'
      BY <1>1, <1>4, <3>1, Zenon DEF ProviderQueueOK
    <3> QED BY <1>2, <3>2, <3>3, Zenon DEF DealInv, RestOK
  <2> QED BY <2>4, <2>5
<1> QED BY <1>3, <1>5, <1>6, <1>7, <1>8, Zenon DEF ProviderPlan

(* The queue when an entry function triggers an event. *)
LEMMA TriggerKeeps ==
  ASSUME ProviderQueueOK, UNCHANGED <<calls, synced>>,
         NEW n \in ProviderEventNames, pq' = Append(pq, Ev(n, 0))
  PROVE  ProviderQueueOK'
<1>1. <<Ev(n, 0)>> \in Seq(ProviderEvs)
  BY ProviderEvFields, Sends
<1>2. pq' = pq \o <<Ev(n, 0)>>
  BY DEF ProviderQueueOK
<1> QED BY <1>1, <1>2, ProviderAppended, Zenon DEF ProviderQueueOK

(* The channel is untracked only when no call is under way. *)
LEMMA CleanupDealKeeps ==
  ASSUME DealInv, UNCHANGED clientVars, CleanupDeal
  PROVE  DealInv'
<1>1. /\ UNCHANGED <<p, calls, synced, deal, net, chan, faults>>
      /\ calls = {} /\ track' = None /\ pbusy' = FALSE
      /\ pq' = Append(pq, Ev("CleanupComplete", 0))
  BY Zenon DEF CleanupDeal, ProviderTrigger, UntrackTransfer
<1>2. ProviderOK'
  BY <1>1, Zenon DEF DealInv, ProviderOK
<1>3. ProviderQueueOK'
  BY <1>1, TriggerKeeps DEF DealInv, ProviderEventNames
<1>4. RestOK'
  BY <1>1, ProviderAlone, Zenon
<1> QED BY <1>2, <1>3, <1>4, Zenon DEF DealInv, RestOK

LEMMA ProviderCancelsKeeps ==
  ASSUME DealInv, ProviderCancels
  PROVE  DealInv'
<1>0. /\ net \in Net /\ chan \in PaymentChannel /\ faults \in 0..Faults
      /\ cbusy \in BOOLEAN /\ 0 \in Int
  BY InvTypes
<1>1. PICK told \in {"ProviderCancelled", "none"} : ProviderCancelDeal(told) /\ TellClient(told)
  BY Zenon DEF ProviderCancels
<1>2. /\ UNCHANGED <<c, cbusy, p, calls, synced, deal, chan>>
      /\ calls = {} /\ track' = None /\ pbusy' = FALSE
      /\ Fails \/ Works
      /\ net' = net \/ net' = Closed(net)
      /\ \E e \in {"CancelComplete", "MultiStoreError", "DataTransferError"} :
           pq' = Append(pq, Ev(e, 0))
  BY <1>1, Zenon DEF ProviderCancels, ProviderCancelDeal, ProviderTrigger, UntrackTransfer
<1>3. ProviderOK'
  BY <1>2, Zenon DEF DealInv, ProviderOK
<1>4. ProviderQueueOK'
  BY <1>2, TriggerKeeps DEF DealInv, ProviderEventNames
<1>5. cq' = cq \/ cq' = Append(cq, Ev("ProviderCancelled", 0))
  BY <1>1, Zenon DEF TellClient, ToClient
<1>6. /\ net' \in Net /\ net'.sent = net.sent /\ net'.got = net.got
      /\ net'.results = net.results /\ net'.vouchers = net.vouchers
  BY <1>0, <1>2, NetUpdates, Zenon
<1>7. chan' \in PaymentChannel /\ chan'.own = chan.own /\ faults' \in 0..Faults
  BY <1>0, <1>2, FaultsBounded
<1>8. RestOK'
  <2>1. PICK n \in ClientEventNames :
          /\ n = "ProviderCancelled" /\ n \notin Counts /\ n # "BlocksReceived"
          /\ n # "PaymentChannelSkip" /\ n \notin PaymentNames
    BY DEF ClientEventNames, Counts, PaymentNames
  <2> QED BY <1>0, <1>2, <1>5, <1>6, <1>7, <2>1, ClientSide, Zenon
<1> QED BY <1>3, <1>4, <1>8 DEF DealInv, RestOK

(* A pull request is accepted or refused. *)
LEMMA ValidatePullKeeps ==
  ASSUME DealInv, UNCHANGED clientVars, ValidatePull
  PROVE  DealInv'
<1>0. /\ net \in Net /\ chan \in PaymentChannel /\ faults \in 0..Faults /\ deal \in Proposals
      /\ net.sent \in Nat /\ net.results \in Seq(DealResponse)
  BY InvTypes, BlocksAssumption DEF Net
<1>1. UNCHANGED <<pbusy, calls, synced, deal, chan, faults>>
  BY Zenon DEF ValidatePull
<1>2. PICK r \in DealResponse, ph \in {"open", "closed"} :
        /\ r.Status \in {"Accepted", "Rejected"}
        /\ net' = [net EXCEPT !.phase = ph, !.results = Append(@, r)]
  <2>1. /\ Response("Accepted", 0) \in DealResponse /\ Response("Accepted", 0).Status = "Accepted"
        /\ Response("Rejected", 0) \in DealResponse /\ Response("Rejected", 0).Status = "Rejected"
    BY ResponseFields
  <2> QED BY <2>1, Zenon DEF ValidatePull
<1>3. PICK rs \in Seq(DealResponse) :
        /\ rs = Append(net.results, r)
        /\ \A i \in 1..Len(rs) : rs[i] = r \/ (i \in 1..Len(net.results) /\ rs[i] = net.results[i])
  <2>1. /\ Append(net.results, r) \in Seq(DealResponse)
        /\ \A i \in 1..Len(Append(net.results, r)) :
             \/ Append(net.results, r)[i] = r
             \/ i \in 1..Len(net.results) /\ Append(net.results, r)[i] = net.results[i]
    BY <1>0
  <2> QED BY <2>1, Zenon
<1>4. net' = [net EXCEPT !.phase = ph, !.results = rs]
  BY <1>2, <1>3, Zenon
<1>5. /\ net' \in Net /\ net'.got = net.got /\ net'.sent = net.sent
      /\ net'.results = rs /\ net'.vouchers = net.vouchers
  <2>1. ph \in {"idle", "proposed", "open", "closed"}
    OBVIOUS
  <2> QED BY <1>0, <1>4, <2>1, Zenon DEF Net
<1>6. net.sent <= net'.sent /\ chan' \in PaymentChannel /\ chan'.own = chan.own
      /\ faults' \in 0..Faults
  BY <1>0, <1>1, <1>5
<1>7. CallsOK'
  BY <1>1, <1>5, Zenon DEF DealInv, CallsOK
<1>8. deal.TotalFunds = 0 =>
           /\ \A i \in 1..Len(net'.results) : net'.results[i].Status \notin Asks
           /\ net'.vouchers = <<>> /\ "pay" \notin calls'
  BY <1>1, <1>2, <1>3, <1>5 DEF DealInv, FreeOfCharge, Asks
<1>9. RestOK'
  BY <1>1, <1>5, <1>6, <1>7, <1>8, ProviderSide, Zenon
<1>10. ProviderOK' /\ ProviderQueueOK'
  <2>1. CASE UNCHANGED <<p, track, pq>>
    BY <1>1, <2>1, Zenon DEF DealInv, ProviderOK, ProviderQueueOK
  <2>2. CASE BeginTracking([Status |-> "New", TotalSent |-> 0, FundsReceived |-> 0,
                            CurrentInterval |-> deal.PaymentInterval])
    <3>1. PICK ds \in ProviderState :
            ds = [Status |-> "New", TotalSent |-> 0, FundsReceived |-> 0,
                  CurrentInterval |-> deal.PaymentInterval]
      BY <1>0, ProposalTypes, Zenon DEF ProviderState, ProviderStatuses
    <3>2. /\ p' = ds /\ track' = TrackChannel(ds)
          /\ pq' = <<Ev("Open", 0), Ev("DealAccepted", 0)>>
      BY <2>2, <3>1 DEF BeginTracking
    <3>3. track' \in ChannelData
      <4>1. [totalSent |-> 0, totalPaidFor |-> 0, interval |-> 0, reload |-> FALSE] \in ChannelData
        BY DEF ChannelData
      <4> QED BY <1>0, <3>2, <4>1, WriteTypes, Zenon DEF TrackChannel
    <3>4. ProviderOK'
      BY <1>1, <3>2, <3>3 DEF DealInv, ProviderOK
    <3>5. ProviderQueueOK'
      <4>1. PICK a \in ProviderEvs, b \in ProviderEvs :
              a = Ev("Open", 0) /\ b = Ev("DealAccepted", 0)
        BY ProviderEvFields, Zenon DEF ProviderEventNames
      <4>2. a \in ProviderEvents /\ b \in ProviderEvents /\ a.name # "Sync" /\ b.name # "Sync"
        BY DEF ProviderEvs, ProviderEvents, ProviderEventNames
      <4> QED BY <3>2, <4>1, <4>2 DEF ProviderQueueOK
    <3> QED BY <3>4, <3>5
  <2> QED BY <2>1, <2>2 DEF ValidatePull
<1> QED BY <1>9, <1>10 DEF DealInv, RestOK

(* The calls of the revalidator and the steps of the provider's state      *)
(* machine.                                                                *)
LEMMA ProviderCallKeeps ==
  ASSUME DealInv, ProviderCall
  PROVE  DealInv'
<1>1. UNCHANGED clientVars
  BY Zenon DEF ProviderCall
<1>2. ASSUME NEW call \in Calls, call \notin calls, Waits(call), track # None,
             call = "sent" => net.sent < Len(Blocks),
             call = "pay" => net.vouchers # <<>>
      PROVE  DealInv'
  <2>1. track \in ChannelData
    BY <1>2, Zenon DEF DealInv, ProviderOK
  <2> QED BY <1>1, <1>2, <2>1, WaitsKeeps
<1>3. CASE OnPullDataSentWaits
  BY <1>2, <1>3 DEF OnPullDataSentWaits, CanSend, Reload, Calls
<1>4. CASE OnCompleteWaits
  BY <1>2, <1>4, Zenon DEF OnCompleteWaits, Reload, Calls
<1>5. CASE RevalidateWaits
  BY <1>2, <1>5 DEF RevalidateWaits, Calls
<1> QED BY <1>1, <1>3, <1>4, <1>5, ValidatePullKeeps, OnPullDataSentKeeps, OnCompleteKeeps,
           RevalidateUntrackedKeeps, RevalidateKeeps DEF ProviderCall, ProviderTransferCall

(* Every step keeps the invariant. *)
LEMMA DealInvStep ==
  ASSUME DealInv, [Next]_vars
  PROVE  DealInv'
<1>1. CASE ClientStep
  BY <1>1, ClientPlanKeeps, SimpleHandlers, ChannelHandlers, SendFundsKeeps
     DEF ClientStep, ClientHandler
<1>2. CASE ClientEvent
  BY <1>2, BlockArrives, ResultArrives, UserSteps, Zenon DEF ClientEvent, ClientTransferEvent
<1>3. CASE ClientUser
  BY <1>3, UserSteps, Zenon DEF ClientUser
<1>4. CASE ProviderStep
  BY <1>4, ProviderPlanKeeps, CleanupDealKeeps, Zenon DEF ProviderStep
<1>5. CASE UNCHANGED vars
  <2>1. UNCHANGED clientVars /\ UNCHANGED providerVars /\ UNCHANGED <<deal, net, chan, faults>>
    BY <1>5 DEF vars
  <2>2. ProviderOK' /\ ProviderQueueOK'
    BY <2>1, ProviderFrame, Zenon DEF DealInv
  <2>3. RestOK'
    BY <2>1, ProviderAlone DEF providerVars
  <2> QED BY <2>2, <2>3, Zenon DEF DealInv, RestOK
<1> QED BY <1>1, <1>2, <1>3, <1>4, <1>5, ClientCancelsKeeps, ProviderCallKeeps,
           ProviderCancelsKeeps, DisconnectedKeeps, Zenon DEF Next

-----------------------------------------------------------------------------
(* The invariant of a deal: the queues of both state machines hold events  *)
(* that they can take in order, a call that waits for the deal has its     *)
(* block or voucher, and a deal without funds is neither asked to pay nor  *)
(* pays.                                                                   *)
THEOREM DealInvariant == Spec => []DealInv
BY DealInvInit, DealInvStep, PTL DEF Spec

(* The fields of ClientDealState, ProviderDealState, channelData and the   *)
(* transfer keep their types, however large blocks, prices and intervals   *)
(* are.                                                                    *)
THEOREM DealTypeCorrect == Spec => []TypeOK
<1>1. DealInv => TypeOK
  <2> SUFFICES ASSUME DealInv PROVE TypeOK
    OBVIOUS
  <2>1. synced = [k \in DOMAIN synced |-> synced[k]] /\ \A k \in DOMAIN synced : synced[k] \in ProviderState
    BY Zenon DEF DealInv, ProviderOK
  <2> QED BY <2>1, Zenon DEF DealInv, Fixed, ClientOK, NetOK, ProviderOK, TypeOK, Calls
<1> QED BY <1>1, DealInvariant, PTL

(* SendFunds: whatever order blocks, payment requests, lost connections    *)
(* and refills of the channel come in, the vouchers a client signs are for *)
(* no more than the price of the blocks it recorded, and the unsealing.    *)
THEOREM VouchersAreForReceived == Spec => []PaysForReceived
<1>1. DealInv => PaysForReceived
  BY Zenon DEF DealInv
<1> QED BY <1>1, DealInvariant, PTL

(* SendFunds dereferences PaymentInfo only after a channel was recorded:   *)
(* a deal that skipped the channel has no funds and is never asked to pay. *)
THEOREM ChannelBeforeFunds == Spec => []HasChannel
<1>1. DealInv => HasChannel
  BY Zenon DEF DealInv, ChannelOK, FreeOfCharge, HasChannel, Paying, Pays
<1> QED BY <1>1, DealInvariant, PTL
=============================================================================
