---------------------------- MODULE DealTransfer ----------------------------
(***************************************************************************)
(* What the two sides of a retrieval deal share: the parameters of the     *)
(* proposal (retrieval/deal/types.go), the way their state machines take   *)
(* events, and the data transfer channel between them.                     *)
(*                                                                         *)
(* The data transfer manager, the state machine group and the payment      *)
(* channel are libraries or other components; they are modelled from how   *)
(* retrieval/ uses them.  A pause takes effect at the block it is asked    *)
(* for.  Blocks, voucher results and vouchers each arrive in the order     *)
(* they were sent; between the three there is no order, and the state      *)
(* charts of both sides have transitions for either one.                   *)
(***************************************************************************)
EXTENDS Integers, Sequences, FiniteSetsExt, Functions

CONSTANTS
  Blocks,     \* the sizes of the blocks of the content, in order
  Proposals,  \* what a client may propose
  Ask,        \* the provider's offer for the content
  Faults,     \* how many calls may fail
  Balances,   \* what the payment channel may hold before the deal
  OtherSpend, \* what other deals of the client may spend from it
  TopUps,     \* how often the user adds the shortfall to it
  None

ASSUME BlocksAssumption == Blocks \in Seq(Nat)

ASSUME BoundsAssumption ==
  Balances \subseteq Nat /\ Faults \in Nat /\ OtherSpend \in Nat /\ TopUps \in Nat

(* The funds are the price of the content (Offer.RetrievalPrice), so a     *)
(* deal without funds is free.  Intervals that are all empty would keep    *)
(* the loop in Params.NextInterval from ending.                            *)
ASSUME ProposalsAssumption ==
  /\ Proposals \subseteq [PricePerByte : Nat, PaymentInterval : Nat,
                          PaymentIntervalIncrease : Nat, UnsealPrice : Nat, TotalFunds : Nat]
  /\ \A d \in Proposals : /\ d.PaymentInterval + d.PaymentIntervalIncrease > 0
                          /\ d.TotalFunds = 0 => d.PricePerByte = 0

VARIABLES
  deal,       \* the proposal, with the funds the client set aside
  net,        \* the data transfer channel
  chan,       \* the payment channel of the client and the provider
  faults      \* how many calls have failed

(* The bytes in the first n blocks. *)
SizeOf(n) == SumFunctionOnSet(Blocks, 1..n)

(* The ends of the payment intervals: each interval is longer than the     *)
(* last one by the increase.                                               *)
Target(k) == k * deal.PaymentInterval
               + deal.PaymentIntervalIncrease * ((k * (k - 1)) \div 2)

IntervalLowerBound(current) ==
  Max({0} \cup {t \in {Target(k) : k \in 0..current} : t < current})

NextInterval(current) ==
  Min({t \in {Target(k) : k \in 1..(current + 2)} : t > current})

(***************************************************************************)
(* State machines.  A chart is the set of their moves: on an event, from a *)
(* status, to a status.  NoChange stays and runs the status' entry         *)
(* function again, JustRecord stays and does not.  An event the status     *)
(* does not take is logged and dropped.                                    *)
(***************************************************************************)
On(e, S, target) == {[event |-> e, from |-> s, to |-> target] : s \in S}

Moves(chart, e, status) == {m \in chart : m.event = e /\ m.from = status}

TargetOf(m) == IF m.to \in {"NoChange", "JustRecord"} THEN m.from ELSE m.to

Ev(name, arg) == [name |-> name, arg |-> arg]

(* A response has the status of the provider's deal or the answer to the   *)
(* proposal.                                                               *)
DealResponse ==
  [Status : {"Accepted", "Rejected", "New", "Ongoing", "BlocksComplete", "FundsNeeded",
             "FundsNeededLastPayment", "Finalizing", "Completing", "Completed", "Failing",
             "Errored", "Cancelling", "Cancelled"},
   PaymentOwed : Int]

(***************************************************************************)
(* The channel: how many blocks the provider sent and the client got,      *)
(* whether the provider is asked to pause, whether it sent everything, and *)
(* the messages on their way.                                              *)
(***************************************************************************)
Net == [phase : {"idle", "proposed", "open", "closed"},
        sent : 0..Len(Blocks), got : 0..Len(Blocks),
        paused : BOOLEAN, done : BOOLEAN, finished : BOOLEAN,
        results : Seq(DealResponse), vouchers : Seq(Nat)]

NetInit == net = [phase |-> "idle", sent |-> 0, got |-> 0,
                  paused |-> FALSE, done |-> FALSE, finished |-> FALSE,
                  results |-> <<>>, vouchers |-> <<>>]

(* Closing does not call back what is on its way. *)
Closed(n) == [n EXCEPT !.phase = "closed"]

Response(status, owed) == [Status |-> status, PaymentOwed |-> owed]

(* A call that may fail fails while the bound on failures is not used up. *)
Fails == faults < Faults /\ faults' = faults + 1
Works == UNCHANGED faults

(***************************************************************************)
(* The payment channel: its balance and what is being added, what other    *)
(* deals have vouchers for, what this deal created vouchers for, and the   *)
(* highest of those the provider accepted.                                 *)
(***************************************************************************)
ChanInit == \E b \in Balances :
  chan = [confirmed |-> b, pending |-> 0, other |-> 0, own |-> 0,
          accepted |-> 0, topups |-> 0]
=============================================================================
