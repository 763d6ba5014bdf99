------------------------------ MODULE Vouchers ------------------------------
(***************************************************************************)
(* The vouchers of one payment channel, from the payer that creates them   *)
(* to the channel actor that redeems them for the payee                    *)
(* (payments/channel.go, payments/manager.go, payments/store.go).          *)
(*                                                                         *)
(* Vouchers reach the payee late, out of order, repeatedly or never.  The  *)
(* payee keeps one record of the channel and works on it through two       *)
(* accessors with a lock each: AddVoucherInbound, SubmitVoucher and        *)
(* CheckVoucherSpendable take the one from payer to payee, Settle, Collect *)
(* and ListVouchers the one from payee to payer.  Every operation reads    *)
(* the whole record, works on its copy and writes the whole record back.   *)
(*                                                                         *)
(* The messages of the payee are signed with the nonce its account has on  *)
(* chain (mpoolPush), so at most one of them is pending: a second one      *)
(* takes its place with a higher gas premium (increaseGas).                *)
(***************************************************************************)
EXTENDS Integers, FiniteSetsExt

CONSTANTS
  MaxLane,    \* the highest lane a client allocates
  MaxNonce,   \* how many vouchers are created per lane
  Amounts,    \* the amounts vouchers are created for
  MaxBalance, \* how far the channel is funded
  MaxCalls,   \* how often the payee submits, settles or collects
  Faults,     \* the calls of the Filecoin API that may fail
  None

ASSUME BoundAssumption ==
  MaxLane \in Nat /\ MaxNonce \in Nat /\ MaxBalance \in Nat /\ MaxCalls \in Nat
ASSUME AmountAssumption == Amounts \subseteq Nat

(* GasEstimateMessageGas to MpoolPush; StateWaitMsg; StateGetActor,        *)
(* StateReadState and StateCall.                                           *)
ASSUME FaultAssumption == Faults \subseteq {"push", "wait", "read"}

Lanes == 0..MaxLane
Voucher == [Lane : Lanes, Nonce : 1..MaxNonce, Amount : Amounts]

(* The state of the actor: open, settled but not collectable yet,          *)
(* collectable, collected and gone.                                        *)
Phases == {"open", "settling", "ripe", "collected"}

(* The payee's ChannelInfo as it is stored.  Submitted: the vouchers with  *)
(* that flag.  MarshalCBOR has no field SettlingAt, which is 0 when read.  *)
ChannelInfo == [Vouchers : SUBSET Voucher, Submitted : SUBSET Voucher,
                Settling : BOOLEAN]

(* A message of the payee to the actor; v is the voucher of an Update. *)
Message == [method : {"Update", "Settle", "Collect"}, v : Voucher \cup {None}]

ASSUME NoneAssumption ==
  None \notin Voucher /\ None \notin ChannelInfo /\ None \notin Message

VARIABLES
  payer,    \* Vouchers and NextLane of the payer's ChannelInfo
  actor,    \* the channel actor: phase, Balance and lane states
  pool,     \* the pending message of the payee's account, or None
  ci,       \* the payee's ChannelInfo, or None while it is not tracked
  add,      \* the AddVoucherInbound that has the lock
  submit,   \* the call of SubmitAllVouchers or SubmitVoucherForLane
  settle,   \* the call of Settle
  collect,  \* the turn of collectLoop
  credit,   \* credit[l]: sum of what AddVoucherInbound returned for lane l
  calls     \* how often the payee has submitted, settled or collected

vars == <<payer, actor, pool, ci, add, submit, settle, collect, credit, calls>>

NoAdd == [pc |-> "idle", v |-> None, ci |-> None, delta |-> 0]
NoSubmit == [pc |-> "idle", all |-> FALSE, lanes |-> {}, todo |-> {}, best |-> {},
             v |-> None, ci |-> None, wg |-> {}, sent |-> {}]
NoCollect == [pc |-> "idle", res |-> "none", ci |-> None]

Init ==
  /\ payer = [Vouchers |-> {}, NextLane |-> 0]
  /\ actor = [phase |-> "open", Balance |-> 0,
              lane |-> [l \in Lanes |-> [Nonce |-> 0, Redeemed |-> 0]]]
  /\ pool = None /\ ci = None
  /\ add = NoAdd /\ submit = NoSubmit
  /\ settle = [pc |-> "never", res |-> "none", ci |-> None]
  /\ collect = NoCollect
  /\ credit = [l \in Lanes |-> 0]
  /\ calls = 0

Call == calls < MaxCalls /\ calls' = calls + 1
ReadFails == "read" \in Faults
WaitFails(res) == "wait" \in Faults /\ res = "sent"

(* The accessors are locked while one of these is between its read and its *)
(* write; the other critical sections are single steps.                    *)
InboundFree == add.pc = "idle" /\ submit.pc \notin {"push", "write"}
OutboundFree == settle.pc \notin {"push", "write"}
-----------------------------------------------------------------------------
(* Lane states: the actor's, with the vouchers of a record applied on top. *)

OnLane(V, l) == {v \in V : v.Lane = l}

(* What is known of a lane; a lane the actor does not have yet has nonce 0. *)
Known(V, l) ==
  {actor.lane[l]} \cup
  {[Nonce |-> v.Nonce, Redeemed |-> v.Amount] : v \in OnLane(V, l)}

LaneState(V, l) ==
  CHOOSE s \in Known(V, l) : \A t \in Known(V, l) : t.Nonce <= s.Nonce

TotalRedeemedWithVoucher(V, v) ==
  MapThenSumSet(LAMBDA l : IF l = v.Lane THEN v.Amount
                           ELSE LaneState(V, l).Redeemed, Lanes)

(* Mutants: the amount is not compared, or not strictly; the balance is    *)
(* not compared.                                                           *)
AmountUnchecked(V, v) ==
  /\ actor.phase # "collected" /\ v.Nonce > LaneState(V, v.Lane).Nonce
  /\ TotalRedeemedWithVoucher(V, v) <= actor.Balance
EqualAmount(V, v) == AmountUnchecked(V, v) /\ v.Amount >= LaneState(V, v.Lane).Redeemed
BalanceUnchecked(V, v) ==
  /\ actor.phase # "collected"
  /\ LET ls == LaneState(V, v.Lane) IN v.Nonce > ls.Nonce /\ v.Amount > ls.Redeemed

CheckVoucherValid(V, v) ==
  /\ actor.phase # "collected"
  /\ LET ls == LaneState(V, v.Lane)
     IN ls.Nonce > 0 => v.Nonce > ls.Nonce /\ v.Amount > ls.Redeemed
  /\ TotalRedeemedWithVoucher(V, v) <= actor.Balance

(* nextNonceForLane: one more than the highest nonce of the lane. *)
IsNextNonce(V, l, n) ==
  /\ \A v \in OnLane(V, l) : v.Nonce < n
  /\ n = 1 \/ \E v \in OnLane(V, l) : v.Nonce = n - 1
-----------------------------------------------------------------------------
(* The payer. *)

AllocateLane ==
  /\ payer.NextLane \in Lanes
  /\ payer' = [payer EXCEPT !.NextLane = @ + 1]
  /\ UNCHANGED <<actor, pool, ci, add, submit, settle, collect, credit, calls>>

(* A deal creates vouchers on the lane it allocated, so addVoucher never   *)
(* has to raise NextLane.  Without funds it returns the shortfall instead. *)
CreateVoucher ==
  /\ \E v \in Voucher :
       /\ v.Lane < payer.NextLane
       /\ IsNextNonce(payer.Vouchers, v.Lane, v.Nonce)
       /\ CheckVoucherValid(payer.Vouchers, v)
       /\ payer' = [payer EXCEPT !.Vouchers = @ \cup {v}]
  /\ UNCHANGED <<actor, pool, ci, add, submit, settle, collect, credit, calls>>

(* An add-funds message of the payer is executed. *)
Fund ==
  /\ actor.phase # "collected" /\ actor.Balance < MaxBalance
  /\ actor' = [actor EXCEPT !.Balance = @ + 1]
  /\ UNCHANGED <<payer, pool, ci, add, submit, settle, collect, credit, calls>>
-----------------------------------------------------------------------------
(* The payee accepts vouchers. *)

(* trackInboundChannel, under the exclusive lock of both accessors. *)
TrackChannel ==
  /\ ci = None /\ actor.phase # "collected"
  /\ ci' = [Vouchers |-> {}, Submitted |-> {}, Settling |-> FALSE]
  /\ UNCHANGED <<payer, actor, pool, add, submit, settle, collect, credit, calls>>

(* A voucher of the payer arrives.  One that is in the record already is   *)
(* ignored, and worth 0.                                                   *)
AddVoucherInbound ==
  /\ InboundFree /\ ci # None
  /\ \E v \in payer.Vouchers \ ci.Vouchers :
       add' = [NoAdd EXCEPT !.pc = "check", !.v = v, !.ci = ci]
  /\ UNCHANGED <<payer, actor, pool, ci, submit, settle, collect, credit, calls>>

(* Mutant: the delta is not taken against the lane. *)
AddWholeAmount ==
  /\ add.pc = "check"
  /\ add' = IF CheckVoucherValid(ci.Vouchers, add.v)
            THEN [add EXCEPT !.pc = "write", !.delta = add.v.Amount]
            ELSE NoAdd
  /\ UNCHANGED <<payer, actor, pool, ci, submit, settle, collect, credit, calls>>

(* laneState reads the vouchers from the store again.  All callers pass    *)
(* minDelta 0, which no accepted voucher falls short of.                   *)
AddCheck ==
  /\ add.pc = "check"
  /\ \/ add' = IF CheckVoucherValid(ci.Vouchers, add.v)
               THEN [add EXCEPT !.pc = "write",
                     !.delta = add.v.Amount - LaneState(ci.Vouchers, add.v.Lane).Redeemed]
               ELSE NoAdd
     \/ ReadFails /\ add' = NoAdd
  /\ UNCHANGED <<payer, actor, pool, ci, submit, settle, collect, credit, calls>>

AddWrite ==
  /\ add.pc = "write"
  /\ ci' = [add.ci EXCEPT !.Vouchers = @ \cup {add.v}]
  /\ credit' = [credit EXCEPT ![add.v.Lane] = @ + add.delta]
  /\ add' = NoAdd
  /\ UNCHANGED <<payer, actor, pool, submit, settle, collect, calls>>
-----------------------------------------------------------------------------
(* The channel actor (specs-actors, paych) and the message pool. *)

(* UpdateChannelState: a higher nonce, before the channel can be collected, *)
(* and enough funds for all lanes.                                          *)
ActorAccepts(v) ==
  /\ actor.phase \in {"open", "settling"}
  /\ v.Nonce > actor.lane[v.Lane].Nonce
  /\ MapThenSumSet(LAMBDA l : IF l = v.Lane THEN v.Amount ELSE actor.lane[l].Redeemed,
                   Lanes) <= actor.Balance

ActorStep(m) ==
  \/ /\ m.method = "Update" /\ ActorAccepts(m.v)
     /\ actor' = [actor EXCEPT !.lane[m.v.Lane] =
                    [Nonce |-> m.v.Nonce, Redeemed |-> m.v.Amount]]
  \/ /\ m.method = "Settle" /\ actor.phase = "open"
     /\ actor' = [actor EXCEPT !.phase = "settling"]
  \/ /\ m.method = "Collect" /\ actor.phase = "ripe"
     /\ actor' = [actor EXCEPT !.phase = "collected"]

ActorRefuses(m) ==
  ~ \/ m.method = "Update" /\ ActorAccepts(m.v)
    \/ m.method = "Settle" /\ actor.phase = "open"
    \/ m.method = "Collect" /\ actor.phase = "ripe"

(* What StateWaitMsg gives a call that has sent a message with this nonce. *)
Result(call, method, ok) ==
  IF call.res # "sent" THEN call
  ELSE [call EXCEPT !.res = IF ok /\ pool.method = method THEN "ok" ELSE "failed"]

(* Mutant: those that wait for a message that was replaced are not told. *)
ExecuteOwn ==
  /\ pool # None
  /\ \E ok \in BOOLEAN :
       /\ IF ok THEN ActorStep(pool) ELSE ActorRefuses(pool) /\ UNCHANGED actor
       /\ settle' = Result(settle, "Settle", ok)
       /\ collect' = Result(collect, "Collect", ok)
  /\ submit' = [submit EXCEPT !.wg = @ \ {pool.v}, !.sent = @ \ {pool.v}]
  /\ pool' = None
  /\ UNCHANGED <<payer, ci, add, credit, calls>>

(* The pending message is executed.  Those that wait for it, or for one    *)
(* whose place it took, are told.                                          *)
Execute ==
  /\ pool # None
  /\ \E ok \in BOOLEAN :
       /\ IF ok THEN ActorStep(pool) ELSE ActorRefuses(pool) /\ UNCHANGED actor
       /\ settle' = Result(settle, "Settle", ok)
       /\ collect' = Result(collect, "Collect", ok)
  /\ submit' = [submit EXCEPT !.wg = @ \ submit.sent, !.sent = {}]
  /\ pool' = None
  /\ UNCHANGED <<payer, ci, add, credit, calls>>

(* The epoch at which the channel can be collected is reached. *)
Ripen ==
  /\ actor.phase = "settling"
  /\ actor' = [actor EXCEPT !.phase = "ripe"]
  /\ UNCHANGED <<payer, pool, ci, add, submit, settle, collect, credit, calls>>

(* mpoolPush: the nonce is that of the account on chain, so the message    *)
(* replaces the one that is pending.                                       *)
Push(method, v) == pool' = [method |-> method, v |-> v]
PushFails == "push" \in Faults /\ UNCHANGED pool
-----------------------------------------------------------------------------
(* The payee submits vouchers: SubmitAllVouchers, SubmitVoucherForLane. *)

(* ListVouchers, under the lock of the other accessor. *)
SubmitVouchers ==
  /\ submit.pc = "idle" /\ ci # None /\ OutboundFree
  /\ \E all \in BOOLEAN, l \in Lanes :
       submit' = [NoSubmit EXCEPT !.pc = "check", !.all = all, !.todo = ci.Vouchers,
                                  !.lanes = IF all THEN Lanes ELSE {l}]
  /\ Call
  /\ UNCHANGED <<payer, actor, pool, ci, add, settle, collect, credit>>

(* One turn of the loop of bestSpendableByLane: CheckVoucherSpendable asks *)
(* the chain as it is.  A voucher that the record no longer has is an      *)
(* error that ends the call, and so is a failing StateCall.                *)
SubmitCheck ==
  /\ submit.pc = "check" /\ InboundFree
  /\ \E v \in submit.todo :
       LET mine == OnLane(submit.best, v.Lane)
           better == /\ v \notin ci.Submitted /\ ActorAccepts(v)
                     /\ \A w \in mine : v.Amount > w.Amount
       IN \/ submit' = IF v \notin ci.Vouchers THEN NoSubmit
                       ELSE [submit EXCEPT !.todo = @ \ {v},
                             !.best = IF better THEN (@ \ mine) \cup {v} ELSE @]
          \/ ReadFails /\ submit' = NoSubmit
  /\ UNCHANGED <<payer, actor, pool, ci, add, settle, collect, credit, calls>>

(* The wait group counts all vouchers that are going to be submitted. *)
SubmitChoose ==
  /\ submit.pc = "check" /\ submit.todo = {}
  /\ LET chosen == {v \in submit.best : v.Lane \in submit.lanes}
     IN submit' = IF chosen = {} THEN NoSubmit
                  ELSE [submit EXCEPT !.pc = "next", !.todo = chosen, !.wg = chosen]
  /\ UNCHANGED <<payer, actor, pool, ci, add, settle, collect, credit, calls>>

(* submitVoucher returned an error: SubmitAllVouchers goes on without      *)
(* telling the wait group, SubmitVoucherForLane returns it.                *)
SubmitFailed(s) == IF s.all THEN [s EXCEPT !.pc = "next", !.v = None, !.ci = None]
                   ELSE NoSubmit

SubmitVoucher ==
  /\ submit.pc = "next" /\ InboundFree
  /\ \E v \in submit.todo :
       LET s == [submit EXCEPT !.todo = @ \ {v}]
       IN submit' = IF v \in ci.Submitted THEN SubmitFailed(s)
                    ELSE [s EXCEPT !.pc = "push", !.v = v, !.ci = ci]
  /\ UNCHANGED <<payer, actor, pool, ci, add, settle, collect, credit, calls>>

SubmitPush ==
  /\ submit.pc = "push"
  /\ \/ /\ Push("Update", submit.v)
        /\ submit' = [submit EXCEPT !.pc = "write", !.sent = @ \cup {submit.v}]
     \/ PushFails /\ submit' = SubmitFailed(submit)
  /\ UNCHANGED <<payer, actor, ci, add, settle, collect, credit, calls>>

(* markVoucherSubmitted: the vouchers it supersedes are marked with it.    *)
(* Mutant: they are not.                                                   *)
MarkOnlyVoucher(c, v) ==
  [c EXCEPT !.Vouchers = @ \cup {v}, !.Submitted = @ \cup {v}]

MarkVoucherSubmitted(c, v) ==
  LET V == c.Vouchers \cup {v}
  IN [c EXCEPT !.Vouchers = V,
       !.Submitted = @ \cup {v} \cup {w \in OnLane(V, v.Lane) : w.Nonce < v.Nonce}]

SubmitWrite ==
  /\ submit.pc = "write"
  /\ ci' = MarkVoucherSubmitted(submit.ci, submit.v)
  /\ submit' = [submit EXCEPT !.pc = "next", !.v = None, !.ci = None]
  /\ UNCHANGED <<payer, actor, pool, add, settle, collect, credit, calls>>

(* A goroutine that waits for a message gives up. *)
SubmitWaitFails ==
  /\ submit.pc \in {"next", "push", "write"}
  /\ \E v \in submit.sent \ {submit.v} :
       submit' = [submit EXCEPT !.wg = @ \ {v}, !.sent = @ \ {v}]
  /\ WaitFails("sent")
  /\ UNCHANGED <<payer, actor, pool, ci, add, settle, collect, credit, calls>>

SubmitReturn ==
  /\ submit.pc = "next" /\ submit.todo = {} /\ submit.wg = {}
  /\ submit' = NoSubmit
  /\ UNCHANGED <<payer, actor, pool, ci, add, settle, collect, credit, calls>>
-----------------------------------------------------------------------------
(* The payee settles the channel. *)

Settle ==
  /\ settle.pc \in {"never", "idle"} /\ ci # None
  /\ settle' = [pc |-> "push", res |-> "none", ci |-> ci]
  /\ Call
  /\ UNCHANGED <<payer, actor, pool, ci, add, submit, collect, credit>>

SettleEnd == [pc |-> "idle", res |-> "none", ci |-> None]

SettlePush ==
  /\ settle.pc = "push"
  /\ \/ /\ Push("Settle", None)
        /\ settle' = [settle EXCEPT !.pc = "write", !.res = "sent"]
     \/ PushFails /\ settle' = SettleEnd
  /\ UNCHANGED <<payer, actor, ci, add, submit, collect, credit, calls>>

SettleWrite ==
  /\ settle.pc = "write"
  /\ ci' = [settle.ci EXCEPT !.Settling = TRUE]
  /\ settle' = [settle EXCEPT !.pc = "wait", !.ci = None]
  /\ UNCHANGED <<payer, actor, pool, add, submit, collect, credit, calls>>

(* After the wait, without the lock: the record is read again ... *)
SettleRead ==
  /\ settle.pc = "wait"
  /\ \/ /\ settle.res = "ok" /\ actor.phase # "collected"
        /\ settle' = [settle EXCEPT !.pc = "save", !.ci = ci]
     \/ /\ \/ settle.res = "failed" \/ WaitFails(settle.res)
           \/ settle.res = "ok" /\ (actor.phase = "collected" \/ ReadFails)
        /\ settle' = SettleEnd
  /\ UNCHANGED <<payer, actor, pool, ci, add, submit, collect, credit, calls>>

(* ... and written back: the epoch at which it can be collected is set in  *)
(* the copy and does not reach the store.                                  *)
SetChannelSettlingAt ==
  /\ settle.pc = "save"
  /\ ci' = settle.ci
  /\ settle' = SettleEnd
  /\ UNCHANGED <<payer, actor, pool, add, submit, collect, credit, calls>>
-----------------------------------------------------------------------------
(* The payee collects the channel. *)

(* collectForEpoch: SettlingAt is 0 in what ListSettlingChannels reads, so *)
(* it is below every epoch.                                                *)
CollectForEpoch ==
  /\ collect.pc = "idle" /\ ci # None /\ ci.Settling
  /\ collect' = [NoCollect EXCEPT !.pc = "push"]
  /\ Call
  /\ UNCHANGED <<payer, actor, pool, ci, add, submit, settle, credit>>

CollectPush ==
  /\ collect.pc = "push" /\ OutboundFree
  /\ \/ /\ Push("Collect", None)
        /\ collect' = [collect EXCEPT !.pc = "wait", !.res = "sent"]
     \/ PushFails /\ collect' = NoCollect
  /\ UNCHANGED <<payer, actor, ci, add, submit, settle, credit, calls>>

(* mutateChannelInfo, without the lock: it reads the record ... *)
CollectRead ==
  /\ collect.pc = "wait"
  /\ \/ collect.res = "ok" /\ collect' = [collect EXCEPT !.pc = "save", !.ci = ci]
     \/ /\ collect.res = "failed" \/ WaitFails(collect.res)
        /\ collect' = NoCollect
  /\ UNCHANGED <<payer, actor, pool, ci, add, submit, settle, credit, calls>>

(* ... and writes it. *)
CollectWrite ==
  /\ collect.pc = "save"
  /\ ci' = [collect.ci EXCEPT !.Settling = FALSE]
  /\ collect' = NoCollect
  /\ UNCHANGED <<payer, actor, pool, add, submit, settle, credit, calls>>

(* The command Collect checks the actor first, and leaves the record alone. *)
Collect ==
  /\ ci # None /\ OutboundFree /\ actor.phase = "ripe"
  /\ Push("Collect", None)
  /\ Call
  /\ UNCHANGED <<payer, actor, ci, add, submit, settle, collect, credit>>
-----------------------------------------------------------------------------
Submitting ==
  \/ SubmitCheck \/ SubmitChoose \/ SubmitVoucher \/ SubmitPush \/ SubmitWrite
  \/ SubmitReturn
Settling == SettlePush \/ SettleWrite \/ SettleRead \/ SetChannelSettlingAt
Collecting == CollectPush \/ CollectRead \/ CollectWrite

Next ==
  \/ AllocateLane \/ CreateVoucher \/ Fund
  \/ TrackChannel \/ AddVoucherInbound \/ AddCheck \/ AddWrite
  \/ Execute \/ Ripen
  \/ SubmitVouchers \/ Submitting \/ SubmitWaitFails
  \/ Settle \/ Settling
  \/ CollectForEpoch \/ Collecting \/ Collect

Spec == Init /\ [][Next]_vars

(* The goroutines go on, also those that wait for a lock others take again *)
(* and again, and the chain executes what is pending.                      *)
Fairness ==
  /\ WF_vars(AddCheck) /\ WF_vars(AddWrite)
  /\ SF_vars(Submitting) /\ WF_vars(Settling) /\ SF_vars(Collecting)
  /\ WF_vars(Execute)

FairSpec == Spec /\ Fairness
-----------------------------------------------------------------------------
AddType ==
  [pc : {"idle", "check", "write"}, v : Voucher \cup {None},
   ci : ChannelInfo \cup {None}, delta : Nat]
SubmitType ==
  [pc : {"idle", "check", "next", "push", "write"}, all : BOOLEAN, lanes : SUBSET Lanes,
   todo : SUBSET Voucher, best : SUBSET Voucher, v : Voucher \cup {None},
   ci : ChannelInfo \cup {None}, wg : SUBSET Voucher, sent : SUBSET Voucher]
SettleType ==
  [pc : {"never", "idle", "push", "write", "wait", "save"},
   res : {"none", "sent", "ok", "failed"}, ci : ChannelInfo \cup {None}]
CollectType ==
  [pc : {"idle", "push", "wait", "save"}, res : {"none", "sent", "ok", "failed"},
   ci : ChannelInfo \cup {None}]

TypeOK ==
  /\ payer \in [Vouchers : SUBSET Voucher, NextLane : 0..MaxLane + 1]
  /\ actor \in [phase : Phases, Balance : 0..MaxBalance,
                lane : [Lanes -> [Nonce : 0..MaxNonce, Redeemed : Nat]]]
  /\ pool \in Message \cup {None}
  /\ ci \in ChannelInfo \cup {None}
  /\ add \in AddType /\ submit \in SubmitType
  /\ settle \in SettleType /\ collect \in CollectType
  /\ credit \in [Lanes -> Nat]
  /\ calls \in 0..MaxCalls

Tracked == IF ci = None THEN {} ELSE ci.Vouchers

(* nextNonceForLane never gives a nonce twice and a voucher with a higher  *)
(* nonce is worth more, although the lane states that createVoucher checks *)
(* mix the payer's vouchers with what the payee has redeemed; and all that *)
(* the payee stores or the actor has redeemed was created by the payer.    *)
LaneOrder ==
  /\ \A v, w \in payer.Vouchers : v.Lane = w.Lane =>
       /\ v.Nonce = w.Nonce => v = w
       /\ v.Nonce < w.Nonce => v.Amount < w.Amount
  /\ \A c \in {ci, add.ci, submit.ci, settle.ci, collect.ci} : c # None =>
       c.Submitted \subseteq c.Vouchers /\ c.Vouchers \subseteq payer.Vouchers
  /\ \A l \in Lanes : actor.lane[l].Nonce > 0 =>
       [Lane |-> l, Nonce |-> actor.lane[l].Nonce, Amount |-> actor.lane[l].Redeemed]
         \in payer.Vouchers

(* The vouchers that calls and messages hold come from the payer, and a    *)
(* call that is going to write has read the record.                        *)
InFlight ==
  /\ add.pc # "idle" => add.v \in payer.Vouchers /\ add.ci # None
  /\ submit.todo \cup submit.best \subseteq payer.Vouchers
  /\ submit.pc \in {"push", "write"} => submit.v \in payer.Vouchers /\ submit.ci # None
  /\ settle.pc \in {"push", "write", "save"} => settle.ci # None
  /\ collect.pc = "save" => collect.ci # None
  /\ pool # None /\ pool.method = "Update" => pool.v \in payer.Vouchers
  /\ \/ add.pc # "idle" \/ submit.pc # "idle"
     \/ settle.pc # "never" \/ collect.pc # "idle"
     => ci # None
  /\ \A l \in Lanes : actor.lane[l].Nonce = 0 => actor.lane[l].Redeemed = 0

(* The inductive invariant behind LaneOrder: createVoucher gives out nonces *)
(* in order because whatever the payee redeems, on any of its ways to the  *)
(* chain, is one of the payer's own vouchers.                              *)
VoucherInv == TypeOK /\ LaneOrder /\ InFlight

(* The payer never promises more than the channel holds: the best vouchers *)
(* of all lanes together are covered (totalRedeemedWithVoucher).           *)
Solvent ==
  MapThenSumSet(LAMBDA l : LaneState(payer.Vouchers, l).Redeemed, Lanes) <= actor.Balance

(* What AddVoucherInbound has reported as received for a lane is what the  *)
(* best voucher in the record is worth, however the vouchers arrive; once  *)
(* Settle has run it may be more, and is never less.                       *)
CreditIsRedeemable ==
  \A l \in Lanes :
    LET redeemable == LaneState(Tracked, l).Redeemed
    IN /\ credit[l] >= redeemable
       /\ settle.pc = "never" => credit[l] = redeemable

(* No gas is spent on an Update that the actor refuses: submitVoucher and  *)
(* checkVoucherSpendable never send a superseded voucher, as long as the   *)
(* channel is not settled.                                                 *)
UpdatesAccepted ==
  [][pool # None /\ pool.method = "Update" /\ settle.pc = "never" /\ pool' = None
       => actor'.lane[pool.v.Lane].Nonce = pool.v.Nonce]_vars

(* SubmitAllVouchers and SubmitVoucherForLane return when every message    *)
(* they sent was executed or replaced.  The one exception: the wait group  *)
(* of SubmitAllVouchers counts a voucher that submitVoucher failed for.    *)
SubmitReturns ==
  submit.pc # "idle" ~>
    \/ submit.pc = "idle"
    \/ submit.pc = "next" /\ submit.wg \ (submit.todo \cup submit.sent) # {}

(* Once Settle has returned, collectForEpoch tries to collect a channel    *)
(* only when the epoch that SetChannelSettlingAt stored has passed.        *)
CollectsWhenDue ==
  [][collect.pc = "idle" /\ collect'.pc = "push" /\ settle.pc = "idle"
       => actor.phase # "settling"]_vars
=============================================================================
