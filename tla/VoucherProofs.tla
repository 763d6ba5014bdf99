--------------------------- MODULE VoucherProofs ---------------------------
(***************************************************************************)
(* Proofs about Vouchers: the nonces and amounts of a lane stay in order   *)
(* for any number of lanes, vouchers, calls and messages.                  *)
(***************************************************************************)
EXTENDS Vouchers, WellFoundedInduction, TLAPS

USE BoundAssumption, AmountAssumption
-----------------------------------------------------------------------------
(* Lane states. *)

(* A bounded set of naturals has a greatest element. *)
LEMMA MaxExists ==
  ASSUME NEW N \in Nat, NEW S \in SUBSET (0..N), S # {}
  PROVE  \E x \in S : \A y \in S : y <= x
<1> DEFINE T == {n \in 0..N : N - n \in S}
<1>1. T \subseteq Nat
  OBVIOUS
<1>2. \A y \in S : N - y \in T
  OBVIOUS
<1>3. T # {}
  BY <1>2, Zenon
<1>4. PICK t \in T : \A y \in T : ~(<<y, t>> \in OpToRel(<, Nat))
  BY <1>1, <1>3, WFMin, NatLessThanWellFounded, Zenon
<1>5. \A y \in T : ~(y < t)
  <2>1. OpToRel(<, Nat) = {ss \in Nat \X Nat : ss[1] < ss[2]}
    BY Zenon DEF OpToRel
  <2>2. \A y \in T : <<y, t>> \in Nat \X Nat
    BY <1>1
  <2> QED BY <1>4, <2>1, <2>2, Zenon
<1>6. N - t \in S /\ \A y \in S : y <= N - t
  BY <1>2, <1>5
<1> QED BY <1>6

LEMMA VoucherType ==
  ASSUME NEW v \in Voucher
  PROVE  /\ v.Lane \in Lanes /\ v.Nonce \in 1..MaxNonce /\ v.Nonce \in Nat /\ v.Nonce > 0
         /\ v.Amount \in Amounts /\ v.Amount \in Nat
<1>1. v.Lane \in Lanes /\ v.Nonce \in 1..MaxNonce /\ v.Amount \in Amounts
  BY Zenon DEF Voucher
<1>2. v.Amount \in Nat
  BY <1>1, Zenon
<1>3. v.Nonce \in Nat /\ v.Nonce > 0
  BY <1>1, SMTT(60)
<1> QED BY <1>1, <1>2, <1>3, Zenon

(* laneState finds the highest nonce known of the lane. *)
LEMMA LaneStateIsLatest ==
  ASSUME TypeOK, NEW V \in SUBSET Voucher, NEW l \in Lanes
  PROVE  /\ LaneState(V, l) \in Known(V, l)
         /\ \A t \in Known(V, l) : t.Nonce <= LaneState(V, l).Nonce
         /\ Known(V, l) \subseteq [Nonce : 0..MaxNonce, Redeemed : Nat]
<1> DEFINE K == Known(V, l)
<1>1. K \subseteq [Nonce : 0..MaxNonce, Redeemed : Nat] /\ actor.lane[l] \in K
  <2>1. actor.lane[l] \in [Nonce : 0..MaxNonce, Redeemed : Nat]
    BY Zenon DEF TypeOK
  <2>2. \A v \in OnLane(V, l) :
          [Nonce |-> v.Nonce, Redeemed |-> v.Amount] \in [Nonce : 0..MaxNonce, Redeemed : Nat]
    BY VoucherType, SMTT(60) DEF OnLane
  <2> QED BY <2>1, <2>2, Zenon DEF Known
<1> DEFINE S == {n \in 0..MaxNonce : \E k \in K : k.Nonce = n}
<1> HIDE DEF K
<1>2. S # {} /\ S \in SUBSET (0..MaxNonce)
  BY <1>1
<1>3. PICK n \in S : \A m \in S : m <= n
  BY <1>2, MaxExists, Zenon
<1>4. PICK s \in K : s.Nonce = n
  BY <1>3
<1>5. \A t \in K : t.Nonce <= s.Nonce
  BY <1>1, <1>3, <1>4
<1> QED BY <1>1, <1>4, <1>5, Zenon DEF LaneState, K

(* A voucher that createVoucher accepts has a higher nonce and a higher    *)
(* amount than all others of its lane.                                     *)
LEMMA NewVoucherIsLatest ==
  ASSUME TypeOK, LaneOrder, NEW v \in Voucher,
         IsNextNonce(payer.Vouchers, v.Lane, v.Nonce),
         CheckVoucherValid(payer.Vouchers, v)
  PROVE  \A w \in payer.Vouchers : w.Lane = v.Lane =>
           w.Nonce < v.Nonce /\ w.Amount < v.Amount
<1> DEFINE V == payer.Vouchers
           ls == LaneState(V, v.Lane)
<1>1. V \in SUBSET Voucher /\ v.Lane \in Lanes /\ v.Nonce \in Nat /\ v.Amount \in Nat
  BY VoucherType, Zenon DEF TypeOK
<1>2. \A w \in V : w.Nonce \in 1..MaxNonce /\ w.Amount \in Nat
  BY <1>1, VoucherType, Zenon
<1>3. /\ ls \in Known(V, v.Lane)
      /\ \A t \in Known(V, v.Lane) : t.Nonce <= ls.Nonce
      /\ Known(V, v.Lane) \subseteq [Nonce : 0..MaxNonce, Redeemed : Nat]
  BY <1>1, LaneStateIsLatest
<1>4. ls.Nonce > 0 => v.Nonce > ls.Nonce /\ v.Amount > ls.Redeemed
  BY DEF CheckVoucherValid
<1> HIDE DEF ls, V
<1> SUFFICES ASSUME NEW w \in V, w.Lane = v.Lane
             PROVE  w.Nonce < v.Nonce /\ w.Amount < v.Amount
  BY Zenon DEF V
<1>5. [Nonce |-> w.Nonce, Redeemed |-> w.Amount] \in Known(V, v.Lane)
  BY Zenon DEF Known, OnLane
<1>6. ls.Nonce \in Nat /\ ls.Redeemed \in Nat /\ w.Nonce <= ls.Nonce
  BY <1>3, <1>5, SMTT(60)
<1>7. PICK u \in V : u.Lane = v.Lane /\ u.Nonce = ls.Nonce /\ u.Amount = ls.Redeemed
  <2>1. CASE ls = actor.lane[v.Lane]
    <3>1. [Lane |-> v.Lane, Nonce |-> ls.Nonce, Amount |-> ls.Redeemed] \in V
      BY <1>1, <1>2, <1>6, <2>1, SMTT(60) DEF LaneOrder, V
    <3> QED BY <3>1
  <2>2. CASE ls # actor.lane[v.Lane]
    <3>1. PICK u \in OnLane(V, v.Lane) : ls = [Nonce |-> u.Nonce, Redeemed |-> u.Amount]
      BY <1>3, <2>2, Zenon DEF Known
    <3> QED BY <3>1 DEF OnLane
  <2> QED BY <2>1, <2>2
<1>8. w.Amount <= u.Amount
  BY <1>2, <1>6, <1>7, SMTT(60) DEF LaneOrder, V
<1> QED BY <1>1, <1>2, <1>4, <1>6, <1>7, <1>8, SMTT(60)
-----------------------------------------------------------------------------
(* Every step preserves the invariant. *)

LEMMA InitInv == ASSUME Init PROVE VoucherInv
<1> USE DEF Init
<1>1. TypeOK
  BY SMTT(60) DEF TypeOK, NoAdd, NoSubmit, NoCollect, AddType, SubmitType, SettleType,
     CollectType, Phases, Lanes
<1>2. LaneOrder
  BY SMTT(60) DEF LaneOrder, NoAdd, NoSubmit, NoCollect
<1>3. InFlight
  BY Zenon DEF InFlight, NoAdd, NoSubmit, NoCollect
<1> QED BY <1>1, <1>2, <1>3 DEF VoucherInv

LEMMA AllocateLaneInv == ASSUME VoucherInv, AllocateLane PROVE VoucherInv'
<1> USE DEF VoucherInv, AllocateLane
<1>1. TypeOK'
  BY SMTT(60) DEF TypeOK, Lanes
<1>2. payer'.Vouchers = payer.Vouchers
  BY Zenon DEF TypeOK
<1>3. LaneOrder'
  BY <1>2, SMTT(60) DEF LaneOrder
<1>4. InFlight'
  BY <1>2, Zenon DEF InFlight
<1> QED BY <1>1, <1>3, <1>4

LEMMA CreateVoucherInv == ASSUME VoucherInv, CreateVoucher PROVE VoucherInv'
<1> USE DEF VoucherInv
<1>1. PICK v \in Voucher :
        /\ IsNextNonce(payer.Vouchers, v.Lane, v.Nonce)
        /\ CheckVoucherValid(payer.Vouchers, v)
        /\ payer' = [payer EXCEPT !.Vouchers = @ \cup {v}]
        /\ UNCHANGED <<actor, pool, ci, add, submit, settle, collect, credit, calls>>
  BY Zenon DEF CreateVoucher
<1>2. TypeOK'
  BY <1>1, Zenon DEF TypeOK
<1>3. payer'.Vouchers = payer.Vouchers \cup {v}
  BY <1>1, Zenon DEF TypeOK
<1>4. \A w \in payer.Vouchers : w.Lane = v.Lane => w.Nonce < v.Nonce /\ w.Amount < v.Amount
  BY <1>1, NewVoucherIsLatest, Zenon
<1>5. \A w \in payer'.Vouchers : w.Nonce \in Nat /\ w.Amount \in Nat
  BY <1>2, VoucherType, Zenon DEF TypeOK
<1>6. \A a, b \in payer'.Vouchers : a.Lane = b.Lane =>
        /\ a.Nonce = b.Nonce => a = b
        /\ a.Nonce < b.Nonce => a.Amount < b.Amount
  BY <1>3, <1>4, <1>5, SMTT(60) DEF LaneOrder
<1>7. LaneOrder'
  BY <1>1, <1>3, <1>6, SMTT(60) DEF LaneOrder
<1>8. InFlight'
  BY <1>1, <1>3, Zenon DEF InFlight
<1> QED BY <1>2, <1>7, <1>8

LEMMA FundInv == ASSUME VoucherInv, Fund PROVE VoucherInv'
<1> USE DEF VoucherInv, Fund
<1>1. TypeOK'
  BY SMTT(60) DEF TypeOK
<1>2. actor'.lane = actor.lane
  BY Zenon DEF TypeOK
<1>3. LaneOrder' /\ InFlight'
  BY <1>2, SMTT(60) DEF LaneOrder, InFlight
<1> QED BY <1>1, <1>3

LEMMA RipenInv == ASSUME VoucherInv, Ripen PROVE VoucherInv'
<1> USE DEF VoucherInv, Ripen
<1>1. TypeOK'
  BY Zenon DEF TypeOK, Phases
<1>2. actor'.lane = actor.lane
  BY Zenon DEF TypeOK
<1>3. LaneOrder' /\ InFlight'
  BY <1>2, SMTT(60) DEF LaneOrder, InFlight
<1> QED BY <1>1, <1>3

LEMMA TrackChannelInv == ASSUME VoucherInv, TrackChannel PROVE VoucherInv'
<1> USE DEF VoucherInv, TrackChannel
<1>0. ci' \in ChannelInfo
  BY Zenon DEF ChannelInfo
<1>1. ci' \in ChannelInfo /\ ci' # None
  BY <1>0, NoneAssumption, Zenon
<1>2. TypeOK'
  BY <1>1, Zenon DEF TypeOK
<1>3. LaneOrder'
  BY SMTT(60) DEF LaneOrder
<1>4. InFlight'
  BY <1>1, Zenon DEF InFlight
<1> QED BY <1>2, <1>3, <1>4

LEMMA AddVoucherInboundInv == ASSUME VoucherInv, AddVoucherInbound PROVE VoucherInv'
<1> USE DEF VoucherInv
<1>1. PICK v \in payer.Vouchers :
        /\ ci # None
        /\ add' = [NoAdd EXCEPT !.pc = "check", !.v = v, !.ci = ci]
        /\ UNCHANGED <<payer, actor, pool, ci, submit, settle, collect, credit, calls>>
  BY Zenon DEF AddVoucherInbound
<1>2. add' = [pc |-> "check", v |-> v, ci |-> ci, delta |-> 0]
  BY <1>1, Zenon DEF NoAdd
<1>3. TypeOK'
  BY <1>1, <1>2, SMTT(60) DEF TypeOK, AddType
<1>4. LaneOrder' /\ InFlight'
  BY <1>1, <1>2, SMTT(60) DEF LaneOrder, InFlight
<1> QED BY <1>3, <1>4

LEMMA AddCheckInv == ASSUME VoucherInv, AddCheck PROVE VoucherInv'
<1> USE DEF VoucherInv
<1>1. /\ add.pc = "check"
      /\ UNCHANGED <<payer, actor, pool, ci, submit, settle, collect, credit, calls>>
  BY DEF AddCheck
<1>2. CASE add' = NoAdd
  <2>1. TypeOK'
    BY <1>1, <1>2, Zenon DEF TypeOK, AddType, NoAdd
  <2>2. LaneOrder' /\ InFlight'
    BY <1>1, <1>2, SMTT(60) DEF LaneOrder, InFlight, NoAdd
  <2> QED BY <2>1, <2>2
<1>3. CASE add' # NoAdd
  <2> DEFINE ls == LaneState(ci.Vouchers, add.v.Lane)
  <2>1. /\ CheckVoucherValid(ci.Vouchers, add.v)
        /\ add' = [add EXCEPT !.pc = "write", !.delta = add.v.Amount - ls.Redeemed]
    BY <1>3, Zenon DEF AddCheck
  <2>2. add.v \in Voucher /\ add.v \in payer.Vouchers /\ add.ci # None
    BY <1>1, Zenon DEF TypeOK, InFlight
  <2>3. ls.Redeemed \in Nat /\ ls.Redeemed <= add.v.Amount
    <3>1. add.v.Lane \in Lanes /\ add.v.Amount \in Nat
      BY <2>2, VoucherType, Zenon
    <3>2. ci \in ChannelInfo /\ ci.Vouchers \in SUBSET Voucher
      BY <1>1, Zenon DEF TypeOK, InFlight, ChannelInfo
    <3>3. ls \in Known(ci.Vouchers, add.v.Lane)
          /\ Known(ci.Vouchers, add.v.Lane) \subseteq [Nonce : 0..MaxNonce, Redeemed : Nat]
      BY <3>1, <3>2, LaneStateIsLatest, Zenon
    <3>4. ls.Nonce \in Nat /\ ls.Redeemed \in Nat
      BY <3>3, SMTT(60)
    <3>5. ls.Nonce > 0 => add.v.Amount > ls.Redeemed
      BY <2>1, Zenon DEF CheckVoucherValid
    <3>6. ls.Nonce = 0 => ls = actor.lane[add.v.Lane]
      <4>1. \A u \in OnLane(ci.Vouchers, add.v.Lane) : u.Nonce > 0
        BY <3>2, VoucherType, Zenon DEF OnLane
      <4> HIDE DEF ls
      <4>2. ls = actor.lane[add.v.Lane] \/ \E u \in OnLane(ci.Vouchers, add.v.Lane) :
              ls = [Nonce |-> u.Nonce, Redeemed |-> u.Amount]
        BY <3>3, Zenon DEF Known
      <4> QED BY <4>1, <4>2, SMTT(60)
    <3>7. ls.Nonce = 0 => ls.Redeemed = 0
      BY <3>1, <3>6, Zenon DEF InFlight
    <3> HIDE DEF ls
    <3> QED BY <3>1, <3>4, <3>5, <3>7, SMTT(60)
  <2> DEFINE d == add.v.Amount - ls.Redeemed
  <2>d. d \in Nat
    BY <2>2, <2>3, VoucherType, SMTT(60)
  <2> HIDE DEF ls, d
  <2>4. add' \in AddType /\ add'.ci = add.ci /\ add'.v = add.v /\ add'.pc = "write"
    <3>1. add' = [add EXCEPT !.pc = "write", !.delta = d]
      BY <2>1, Zenon DEF d
    <3>2. add \in AddType
      BY Zenon DEF TypeOK
    <3> QED BY <2>d, <3>1, <3>2, ZenonT(60) DEF AddType
  <2>5. TypeOK'
    BY <1>1, <2>4, Zenon DEF TypeOK
  <2>6. LaneOrder' /\ InFlight'
    BY <1>1, <2>2, <2>4, SMTT(60) DEF LaneOrder, InFlight
  <2> QED BY <2>5, <2>6
<1> QED BY <1>2, <1>3

LEMMA AddWriteInv == ASSUME VoucherInv, AddWrite PROVE VoucherInv'
<1> USE DEF VoucherInv
<1> DEFINE new == [add.ci EXCEPT !.Vouchers = @ \cup {add.v}]
<1>1. /\ add.pc = "write" /\ ci' = new /\ add' = NoAdd
      /\ credit' = [credit EXCEPT ![add.v.Lane] = @ + add.delta]
      /\ UNCHANGED <<payer, actor, pool, submit, settle, collect, calls>>
  BY DEF AddWrite
<1>2. add.v \in Voucher /\ add.v \in payer.Vouchers /\ add.ci \in ChannelInfo /\ add.delta \in Nat
  BY <1>1, Zenon DEF TypeOK, InFlight, AddType
<1>3. /\ new \in ChannelInfo /\ new # None
      /\ new.Vouchers = add.ci.Vouchers \cup {add.v} /\ new.Submitted = add.ci.Submitted
  BY <1>2, NoneAssumption, SMTT(60) DEF ChannelInfo
<1> HIDE DEF new
<1>4. credit' \in [Lanes -> Nat]
  BY <1>1, <1>2, VoucherType, SMTT(60) DEF TypeOK
<1>5. TypeOK'
  BY <1>1, <1>3, <1>4, Zenon DEF TypeOK, NoAdd, AddType
<1>6. LaneOrder'
  BY <1>1, <1>2, <1>3, NoneAssumption, SMTT(60) DEF LaneOrder, NoAdd
<1>7. InFlight'
  BY <1>1, <1>3, Zenon DEF InFlight, NoAdd
<1> QED BY <1>5, <1>6, <1>7

(* What the invariant says of a copy of the record, of each call, and of   *)
(* the pending message.                                                    *)
InfoOK(c) ==
  c # None => c \in ChannelInfo /\ c.Submitted \subseteq c.Vouchers
                                /\ c.Vouchers \subseteq payer.Vouchers
SubmitOK(s) ==
  /\ s \in SubmitType /\ InfoOK(s.ci) /\ s.todo \cup s.best \subseteq payer.Vouchers
  /\ s.pc \in {"push", "write"} => s.v \in payer.Vouchers /\ s.ci # None
SettleOK(s) ==
  /\ s \in SettleType /\ InfoOK(s.ci)
  /\ s.pc \in {"push", "write", "save"} => s.ci # None
CollectOK(c) ==
  c \in CollectType /\ InfoOK(c.ci) /\ (c.pc = "save" => c.ci # None)
PoolOK(m) ==
  m # None => m \in Message /\ (m.method = "Update" => m.v \in payer.Vouchers)

LEMMA Parts ==
  ASSUME VoucherInv
  PROVE  /\ InfoOK(ci) /\ SubmitOK(submit) /\ SettleOK(settle) /\ CollectOK(collect)
         /\ PoolOK(pool) /\ calls \in 0..MaxCalls
         /\ \/ submit.pc # "idle" \/ settle.pc # "never" \/ collect.pc # "idle" => ci # None
<1> USE DEF VoucherInv
<1>1. InfoOK(ci)
  BY Zenon DEF InfoOK, TypeOK, LaneOrder
<1>2. InfoOK(submit.ci) /\ SubmitOK(submit)
  <2>1. submit.ci \in ChannelInfo \cup {None}
    BY Zenon DEF TypeOK, SubmitType
  <2>2. InfoOK(submit.ci)
    BY <2>1, Zenon DEF InfoOK, LaneOrder
  <2> QED BY <2>2, Zenon DEF SubmitOK, TypeOK, InFlight
<1>3. SettleOK(settle)
  <2>1. settle.ci \in ChannelInfo \cup {None}
    BY Zenon DEF TypeOK, SettleType
  <2>2. InfoOK(settle.ci)
    BY <2>1, Zenon DEF InfoOK, LaneOrder
  <2> QED BY <2>2, Zenon DEF SettleOK, TypeOK, InFlight
<1>4. CollectOK(collect)
  <2>1. collect.ci \in ChannelInfo \cup {None}
    BY Zenon DEF TypeOK, CollectType
  <2>2. InfoOK(collect.ci)
    BY <2>1, Zenon DEF InfoOK, LaneOrder
  <2> QED BY <2>2, Zenon DEF CollectOK, TypeOK, InFlight
<1>5. PoolOK(pool) /\ calls \in 0..MaxCalls
  BY Zenon DEF PoolOK, TypeOK, InFlight
<1>6. \/ submit.pc # "idle" \/ settle.pc # "never" \/ collect.pc # "idle" => ci # None
  BY Zenon DEF InFlight
<1> QED BY <1>1, <1>2, <1>3, <1>4, <1>5, <1>6, Zenon

(* A step that leaves these parts in order preserves the invariant. *)
LEMMA Frame ==
  ASSUME VoucherInv, UNCHANGED <<payer, actor, add, credit>>, calls' \in 0..MaxCalls,
         InfoOK(ci'), ci' # None, SubmitOK(submit'), SettleOK(settle'),
         CollectOK(collect'), PoolOK(pool')
  PROVE  VoucherInv'
<1> USE DEF VoucherInv
<1>1. TypeOK'
  BY Zenon DEF TypeOK, InfoOK, SubmitOK, SettleOK, CollectOK, PoolOK
<1>2. LaneOrder'
  <2>1. \A c \in {ci', add.ci, submit'.ci, settle'.ci, collect'.ci} : c # None =>
          c.Submitted \subseteq c.Vouchers /\ c.Vouchers \subseteq payer.Vouchers
    BY Zenon DEF LaneOrder, InfoOK, SubmitOK, SettleOK, CollectOK
  <2> QED BY <2>1, Zenon DEF LaneOrder
<1>3. InFlight'
  BY Zenon DEF InFlight, SubmitOK, SettleOK, CollectOK, PoolOK
<1> QED BY <1>1, <1>2, <1>3
-----------------------------------------------------------------------------
(* Calls to submit vouchers. *)

LEMMA SubmitFrame ==
  ASSUME VoucherInv, ci # None, SubmitOK(submit'), PoolOK(pool'),
         UNCHANGED <<payer, actor, ci, add, settle, collect, credit>>,
         calls' \in 0..MaxCalls
  PROVE  VoucherInv'
BY Parts, Frame, Zenon

LEMMA NoSubmitOK == SubmitOK(NoSubmit)
<1>1. NoSubmit \in SubmitType
  BY Zenon DEF NoSubmit, SubmitType
<1> QED BY <1>1, Zenon DEF NoSubmit, SubmitOK, InfoOK

LEMMA SubmitVouchersInv == ASSUME VoucherInv, SubmitVouchers PROVE VoucherInv'
<1>1. PICK all \in BOOLEAN, l \in Lanes :
        submit' = [NoSubmit EXCEPT !.pc = "check", !.all = all, !.todo = ci.Vouchers,
                                   !.lanes = IF all THEN Lanes ELSE {l}]
  BY Zenon DEF SubmitVouchers
<1>2. /\ ci # None /\ UNCHANGED <<payer, actor, pool, ci, add, settle, collect, credit>>
      /\ calls' \in 0..MaxCalls
  BY Parts, SMTT(60) DEF SubmitVouchers, Call
<1>3. PICK L \in SUBSET Lanes :
        submit' = [pc |-> "check", all |-> all, lanes |-> L, todo |-> ci.Vouchers,
                   best |-> {}, v |-> None, ci |-> None, wg |-> {}, sent |-> {}]
  BY <1>1, Zenon DEF NoSubmit
<1>4. ci.Vouchers \in SUBSET Voucher /\ ci.Vouchers \subseteq payer.Vouchers
  BY <1>2, Parts, Zenon DEF InfoOK, ChannelInfo
<1>5. submit' \in SubmitType
  BY <1>3, <1>4, Zenon DEF SubmitType
<1>6. SubmitOK(submit')
  BY <1>3, <1>4, <1>5, Zenon DEF SubmitOK, InfoOK
<1> QED BY <1>2, <1>6, Parts, SubmitFrame, Zenon

(* The record of a call with other vouchers to check or submit. *)
LEMMA SubmitExcept ==
  ASSUME NEW s, SubmitOK(s), NEW t \in SUBSET (s.todo \cup s.best),
         NEW b \in SUBSET (s.todo \cup s.best)
  PROVE  SubmitOK([s EXCEPT !.todo = t, !.best = b])
<1> DEFINE u == [s EXCEPT !.todo = t, !.best = b]
<1>1. s \in SubmitType /\ t \in SUBSET Voucher /\ b \in SUBSET Voucher
  <2>1. s \in SubmitType
    BY Zenon DEF SubmitOK
  <2>2. s.todo \in SUBSET Voucher /\ s.best \in SUBSET Voucher
    BY <2>1, Zenon DEF SubmitType
  <2> QED BY <2>1, <2>2, Zenon
<1>2. u \in SubmitType /\ u.pc = s.pc /\ u.ci = s.ci /\ u.v = s.v /\ u.todo = t /\ u.best = b
  BY <1>1, ZenonT(60) DEF SubmitType
<1> HIDE DEF u
<1>3. SubmitOK(u)
  BY <1>2, Zenon DEF SubmitOK
<1> QED BY <1>3, Zenon DEF u

LEMMA SubmitCheckInv == ASSUME VoucherInv, SubmitCheck PROVE VoucherInv'
<1>1. PICK v \in submit.todo :
        LET mine == OnLane(submit.best, v.Lane)
            better == /\ v \notin ci.Submitted /\ ActorAccepts(v)
                      /\ \A w \in mine : v.Amount > w.Amount
        IN \/ submit' = [submit EXCEPT !.todo = @ \ {v},
                          !.best = IF better THEN (@ \ mine) \cup {v} ELSE @]
           \/ submit' = NoSubmit
  BY Zenon DEF SubmitCheck
<1>2. /\ submit.pc = "check"
      /\ UNCHANGED <<payer, actor, pool, ci, add, settle, collect, credit, calls>>
  BY Zenon DEF SubmitCheck
<1>3. SubmitOK(submit')
  <2>1. CASE submit' # NoSubmit
    <3>1. PICK B \in SUBSET (submit.todo \cup submit.best) :
            submit' = [submit EXCEPT !.todo = submit.todo \ {v}, !.best = B]
      BY <1>1, <2>1, Zenon
    <3> QED BY <3>1, Parts, SubmitExcept, Zenon
  <2> QED BY <2>1, NoSubmitOK, Zenon
<1>4. ci # None
  BY <1>2, Parts, Zenon
<1> QED BY <1>2, <1>3, <1>4, Parts, SubmitFrame, Zenon

LEMMA SubmitChooseInv == ASSUME VoucherInv, SubmitChoose PROVE VoucherInv'
<1> DEFINE chosen == {v \in submit.best : v.Lane \in submit.lanes}
<1>1. /\ submit.pc = "check" /\ ci # None
      /\ UNCHANGED <<payer, actor, pool, ci, add, settle, collect, credit, calls>>
      /\ \/ submit' = NoSubmit
         \/ submit' = [submit EXCEPT !.pc = "next", !.todo = chosen, !.wg = chosen]
  BY Parts, Zenon DEF SubmitChoose
<1>2. submit \in SubmitType /\ InfoOK(submit.ci) /\ submit.best \subseteq payer.Vouchers
  BY Parts, Zenon DEF SubmitOK
<1>3. CASE submit' = [submit EXCEPT !.pc = "next", !.todo = chosen, !.wg = chosen]
  <2>1. chosen \in SUBSET submit.best /\ chosen \in SUBSET Voucher
    BY <1>2, Zenon DEF SubmitType
  <2> HIDE DEF chosen
  <2>2. /\ submit' \in SubmitType /\ submit'.pc = "next" /\ submit'.ci = submit.ci
        /\ submit'.todo = chosen /\ submit'.best = submit.best
    BY <1>2, <1>3, <2>1, ZenonT(60) DEF SubmitType
  <2>3. SubmitOK(submit')
    BY <1>2, <2>1, <2>2, Zenon DEF SubmitOK
  <2> QED BY <1>1, <2>3, Parts, SubmitFrame, Zenon
<1> QED BY <1>1, <1>3, NoSubmitOK, Parts, SubmitFrame, Zenon

(* The call goes on, or returns, after submitVoucher. *)
LEMMA SubmitFailedOK ==
  ASSUME NEW s, SubmitOK(s)
  PROVE  SubmitOK(SubmitFailed(s)) /\ SubmitOK([s EXCEPT !.pc = "next", !.v = None, !.ci = None])
<1> DEFINE u == [s EXCEPT !.pc = "next", !.v = None, !.ci = None]
<1>1. s \in SubmitType
  BY Zenon DEF SubmitOK
<1>2. u \in SubmitType /\ u.pc = "next" /\ u.ci = None /\ u.todo = s.todo /\ u.best = s.best
  BY <1>1, ZenonT(60) DEF SubmitType
<1> HIDE DEF u
<1>3. SubmitOK(u)
  BY <1>2, Zenon DEF SubmitOK, InfoOK
<1>4. SubmitFailed(s) = u \/ SubmitFailed(s) = NoSubmit
  BY Zenon DEF SubmitFailed, u
<1> QED BY <1>3, <1>4, NoSubmitOK, Zenon DEF u

LEMMA SubmitVoucherInv == ASSUME VoucherInv, SubmitVoucher PROVE VoucherInv'
<1>1. PICK v \in submit.todo :
        LET s == [submit EXCEPT !.todo = @ \ {v}]
        IN submit' = IF v \in ci.Submitted THEN SubmitFailed(s)
                     ELSE [s EXCEPT !.pc = "push", !.v = v, !.ci = ci]
  BY Zenon DEF SubmitVoucher
<1>2. /\ submit.pc = "next" /\ ci # None
      /\ UNCHANGED <<payer, actor, pool, ci, add, settle, collect, credit, calls>>
  BY Parts, Zenon DEF SubmitVoucher
<1> DEFINE s == [submit EXCEPT !.todo = submit.todo \ {v}]
<1>3. /\ submit \in SubmitType /\ submit.todo \subseteq payer.Vouchers
      /\ submit.best \subseteq payer.Vouchers /\ submit.todo \in SUBSET Voucher
      /\ submit.ci \in ChannelInfo \cup {None} /\ InfoOK(submit.ci)
  BY Parts, ZenonT(60) DEF SubmitOK, SubmitType
<1>4. s \in SubmitType /\ s.pc = "next" /\ s.ci = submit.ci /\ s.best = submit.best
      /\ s.todo = submit.todo \ {v}
  BY <1>2, <1>3, ZenonT(60) DEF SubmitType
<1>5. submit' = SubmitFailed(s) \/ submit' = [s EXCEPT !.pc = "push", !.v = v, !.ci = ci]
  BY <1>1, Zenon
<1> HIDE DEF s
<1>6. SubmitOK(s)
  BY <1>3, <1>4, Zenon DEF SubmitOK
<1>7. CASE submit' = [s EXCEPT !.pc = "push", !.v = v, !.ci = ci]
  <2>1. v \in Voucher /\ v \in payer.Vouchers /\ InfoOK(ci)
    BY <1>3, Parts, Zenon
  <2>2. ci \in ChannelInfo
    BY <1>2, <2>1, Zenon DEF InfoOK
  <2>3. /\ submit' \in SubmitType /\ submit'.v = v /\ submit'.ci = ci
        /\ submit'.todo = s.todo /\ submit'.best = s.best
    BY <1>4, <1>7, <2>1, <2>2, ZenonT(60) DEF SubmitType
  <2>4. SubmitOK(submit')
    BY <1>2, <1>3, <1>4, <2>1, <2>3, Zenon DEF SubmitOK
  <2> QED BY <1>2, <2>4, Parts, SubmitFrame, Zenon
<1> QED BY <1>2, <1>5, <1>6, <1>7, SubmitFailedOK, Parts, SubmitFrame, Zenon

LEMMA MessageOK ==
  /\ PoolOK([method |-> "Settle", v |-> None])
  /\ PoolOK([method |-> "Collect", v |-> None])
BY Zenon DEF PoolOK, Message

LEMMA SubmitPushInv == ASSUME VoucherInv, SubmitPush PROVE VoucherInv'
<1>1. /\ submit.pc = "push" /\ ci # None
      /\ UNCHANGED <<payer, actor, ci, add, settle, collect, credit, calls>>
  BY Parts, Zenon DEF SubmitPush
<1>2. CASE pool' = [method |-> "Update", v |-> submit.v]
           /\ submit' = [submit EXCEPT !.pc = "write", !.sent = @ \cup {submit.v}]
  <2>1. /\ submit \in SubmitType /\ submit.v \in payer.Vouchers /\ submit.ci # None
        /\ submit.todo \cup submit.best \subseteq payer.Vouchers /\ InfoOK(submit.ci)
    BY <1>1, Parts, Zenon DEF SubmitOK
  <2>2. submit.v \in Voucher /\ submit.sent \in SUBSET Voucher
    <3>1. payer.Vouchers \subseteq Voucher
      BY Zenon DEF VoucherInv, TypeOK
    <3> QED BY <2>1, <3>1, Zenon DEF SubmitType
  <2>3. /\ submit' \in SubmitType /\ submit'.v = submit.v /\ submit'.ci = submit.ci
        /\ submit'.todo = submit.todo /\ submit'.best = submit.best
    BY <1>2, <2>1, <2>2, ZenonT(60) DEF SubmitType
  <2>4. SubmitOK(submit')
    BY <2>1, <2>3, Zenon DEF SubmitOK
  <2>5. PoolOK(pool')
    BY <1>2, <2>1, <2>2, Zenon DEF PoolOK, Message
  <2> QED BY <1>1, <2>4, <2>5, Parts, SubmitFrame, Zenon
<1>3. CASE UNCHANGED pool /\ submit' = SubmitFailed(submit)
  BY <1>1, <1>3, SubmitFailedOK, Parts, SubmitFrame, Zenon
<1> QED BY <1>2, <1>3, Zenon DEF SubmitPush, Push, PushFails

LEMMA SubmitWriteInv == ASSUME VoucherInv, SubmitWrite PROVE VoucherInv'
<1> DEFINE c == submit.ci
           v == submit.v
           V == c.Vouchers \cup {v}
           S == c.Submitted \cup {v} \cup {w \in OnLane(V, v.Lane) : w.Nonce < v.Nonce}
<1>1. /\ submit.pc = "write" /\ ci' = [c EXCEPT !.Vouchers = V, !.Submitted = S]
      /\ submit' = [submit EXCEPT !.pc = "next", !.v = None, !.ci = None]
      /\ UNCHANGED <<payer, actor, pool, add, settle, collect, credit, calls>>
  BY Zenon DEF SubmitWrite, MarkVoucherSubmitted
<1>2. v \in payer.Vouchers /\ c # None /\ InfoOK(c) /\ payer.Vouchers \subseteq Voucher
  <2>1. payer.Vouchers \subseteq Voucher
    BY Zenon DEF VoucherInv, TypeOK
  <2> QED BY <1>1, <2>1, Parts, Zenon DEF SubmitOK
<1>3. V \subseteq payer.Vouchers /\ S \subseteq V /\ c \in ChannelInfo
  BY <1>2, Zenon DEF InfoOK, OnLane
<1> HIDE DEF S, V, c, v
<1>4. ci' \in ChannelInfo /\ ci'.Vouchers = V /\ ci'.Submitted = S
  <2>1. V \in SUBSET Voucher /\ S \in SUBSET Voucher
    BY <1>2, <1>3, Zenon
  <2> QED BY <1>1, <1>3, <2>1, ZenonT(60) DEF ChannelInfo
<1>5. ci' # None /\ InfoOK(ci')
  BY <1>3, <1>4, NoneAssumption, Zenon DEF InfoOK
<1>6. SubmitOK(submit')
  BY <1>1, SubmitFailedOK, Parts, Zenon
<1> QED BY <1>1, <1>5, <1>6, Parts, Frame, Zenon

LEMMA SubmitWaitFailsInv == ASSUME VoucherInv, SubmitWaitFails PROVE VoucherInv'
<1>1. PICK v \in submit.sent \ {submit.v} :
        submit' = [submit EXCEPT !.wg = @ \ {v}, !.sent = @ \ {v}]
  BY Zenon DEF SubmitWaitFails
<1>2. UNCHANGED <<payer, actor, pool, ci, add, settle, collect, credit, calls>>
  BY Zenon DEF SubmitWaitFails
<1>3. submit \in SubmitType /\ submit.wg \in SUBSET Voucher /\ submit.sent \in SUBSET Voucher
  BY Parts, Zenon DEF SubmitOK, SubmitType
<1>4. /\ submit' \in SubmitType /\ submit'.pc = submit.pc /\ submit'.ci = submit.ci
      /\ submit'.v = submit.v /\ submit'.todo = submit.todo /\ submit'.best = submit.best
  BY <1>1, <1>3, ZenonT(60) DEF SubmitType
<1>5. ci # None
  BY Parts, Zenon DEF SubmitWaitFails
<1>6. SubmitOK(submit')
  BY <1>4, Parts, Zenon DEF SubmitOK
<1> QED BY <1>2, <1>5, <1>6, Parts, SubmitFrame, Zenon

LEMMA SubmitReturnInv == ASSUME VoucherInv, SubmitReturn PROVE VoucherInv'
<1>1. /\ ci # None /\ submit' = NoSubmit
      /\ UNCHANGED <<payer, actor, pool, ci, add, settle, collect, credit, calls>>
  BY Parts, Zenon DEF SubmitReturn
<1> QED BY <1>1, NoSubmitOK, Parts, SubmitFrame, Zenon
-----------------------------------------------------------------------------
(* Calls to settle and to collect. *)

LEMMA SettleFrame ==
  ASSUME VoucherInv, ci # None, SettleOK(settle'), PoolOK(pool'),
         UNCHANGED <<payer, actor, ci, add, submit, collect, credit>>,
         calls' \in 0..MaxCalls
  PROVE  VoucherInv'
BY Parts, Frame, Zenon

LEMMA CollectFrame ==
  ASSUME VoucherInv, ci # None, CollectOK(collect'), PoolOK(pool'),
         UNCHANGED <<payer, actor, ci, add, submit, settle, credit>>,
         calls' \in 0..MaxCalls
  PROVE  VoucherInv'
BY Parts, Frame, Zenon

(* The records of the two calls, with or without a copy of the channel's. *)
LEMMA CallOK ==
  ASSUME NEW c, c = None \/ (c # None /\ InfoOK(c)), NEW r \in {"none", "sent", "ok", "failed"}
  PROVE  /\ c # None => \A p \in {"push", "write", "save"} :
                          SettleOK([pc |-> p, res |-> r, ci |-> c])
         /\ c # None => CollectOK([pc |-> "save", res |-> r, ci |-> c])
         /\ \A p \in {"idle", "wait"} : SettleOK([pc |-> p, res |-> r, ci |-> None])
         /\ \A p \in {"idle", "push", "wait"} : CollectOK([pc |-> p, res |-> r, ci |-> None])
<1>1. c \in ChannelInfo \cup {None}
  BY Zenon DEF InfoOK
<1>2. InfoOK(None)
  BY Zenon DEF InfoOK
<1>3. ASSUME c # None, NEW p \in {"push", "write", "save"}
      PROVE  SettleOK([pc |-> p, res |-> r, ci |-> c])
  BY <1>1, <1>3, Zenon DEF SettleOK, SettleType
<1>4. ASSUME c # None PROVE CollectOK([pc |-> "save", res |-> r, ci |-> c])
  BY <1>1, <1>4, Zenon DEF CollectOK, CollectType
<1>5. ASSUME NEW p \in {"idle", "wait"} PROVE SettleOK([pc |-> p, res |-> r, ci |-> None])
  BY <1>2, Zenon DEF SettleOK, SettleType
<1>6. ASSUME NEW p \in {"idle", "push", "wait"}
      PROVE  CollectOK([pc |-> p, res |-> r, ci |-> None])
  BY <1>2, Zenon DEF CollectOK, CollectType
<1> QED BY <1>3, <1>4, <1>5, <1>6, Zenon

(* The calls are such records. *)
LEMMA CallRecord ==
  ASSUME VoucherInv
  PROVE  /\ settle = [pc |-> settle.pc, res |-> settle.res, ci |-> settle.ci]
         /\ collect = [pc |-> collect.pc, res |-> collect.res, ci |-> collect.ci]
         /\ settle.res \in {"none", "sent", "ok", "failed"}
         /\ collect.res \in {"none", "sent", "ok", "failed"}
BY Zenon DEF VoucherInv, TypeOK, SettleType, CollectType

LEMMA SettleInv == ASSUME VoucherInv, Settle PROVE VoucherInv'
<1>1. /\ ci # None /\ settle' = [pc |-> "push", res |-> "none", ci |-> ci]
      /\ UNCHANGED <<payer, actor, pool, ci, add, submit, collect, credit>>
      /\ calls' \in 0..MaxCalls
  BY Parts, SMTT(60) DEF Settle, Call
<1>2. SettleOK(settle')
  BY <1>1, CallOK, Parts, Zenon
<1> QED BY <1>1, <1>2, Parts, SettleFrame, Zenon

LEMMA SettleEndOK == SettleOK(SettleEnd)
BY Zenon DEF SettleEnd, SettleOK, SettleType, InfoOK

LEMMA SettlePushInv == ASSUME VoucherInv, SettlePush PROVE VoucherInv'
<1>1. /\ settle.pc = "push" /\ ci # None
      /\ UNCHANGED <<payer, actor, ci, add, submit, collect, credit, calls>>
  BY Parts, Zenon DEF SettlePush
<1>2. CASE pool' = [method |-> "Settle", v |-> None]
           /\ settle' = [settle EXCEPT !.pc = "write", !.res = "sent"]
  <2>1. settle' = [pc |-> "write", res |-> "sent", ci |-> settle.ci]
    BY <1>2, CallRecord, Zenon
  <2>2. settle.ci # None /\ InfoOK(settle.ci)
    BY <1>1, Parts, Zenon DEF SettleOK
  <2>3. SettleOK(settle') /\ PoolOK(pool')
    BY <1>2, <2>1, <2>2, CallOK, MessageOK, Zenon
  <2> QED BY <1>1, <2>3, Parts, SettleFrame, Zenon
<1>3. CASE UNCHANGED pool /\ settle' = SettleEnd
  BY <1>1, <1>3, SettleEndOK, Parts, SettleFrame, Zenon
<1> QED BY <1>2, <1>3, Zenon DEF SettlePush, Push, PushFails

(* Writing back a copy of the record with another flag. *)
LEMMA FlagOK ==
  ASSUME NEW c, c # None, InfoOK(c), NEW b \in BOOLEAN
  PROVE  /\ InfoOK([c EXCEPT !.Settling = b]) /\ [c EXCEPT !.Settling = b] # None
<1> DEFINE d == [c EXCEPT !.Settling = b]
<1>1. c \in ChannelInfo
  BY Zenon DEF InfoOK
<1>2. d \in ChannelInfo /\ d.Vouchers = c.Vouchers /\ d.Submitted = c.Submitted
  BY <1>1, ZenonT(60) DEF ChannelInfo
<1> HIDE DEF d
<1>3. InfoOK(d) /\ d # None
  BY <1>2, NoneAssumption, Zenon DEF InfoOK
<1> QED BY <1>3, Zenon DEF d

LEMMA SettleWriteInv == ASSUME VoucherInv, SettleWrite PROVE VoucherInv'
<1>1. /\ settle.pc = "write" /\ ci' = [settle.ci EXCEPT !.Settling = TRUE]
      /\ settle' = [settle EXCEPT !.pc = "wait", !.ci = None]
      /\ UNCHANGED <<payer, actor, pool, add, submit, collect, credit, calls>>
  BY Zenon DEF SettleWrite
<1>2. settle.ci # None /\ InfoOK(settle.ci)
  BY <1>1, Parts, Zenon DEF SettleOK
<1>3. settle' = [pc |-> "wait", res |-> settle.res, ci |-> None]
  BY <1>1, CallRecord, Zenon
<1>4. SettleOK(settle')
  BY <1>2, <1>3, CallOK, CallRecord, Zenon
<1>5. ci' # None /\ InfoOK(ci')
  BY <1>1, <1>2, FlagOK, Zenon
<1> QED BY <1>1, <1>4, <1>5, Parts, Frame, Zenon

LEMMA SettleReadInv == ASSUME VoucherInv, SettleRead PROVE VoucherInv'
<1>1. /\ ci # None
      /\ UNCHANGED <<payer, actor, pool, ci, add, submit, collect, credit, calls>>
      /\ settle' = SettleEnd \/ settle' = [settle EXCEPT !.pc = "save", !.ci = ci]
  BY Parts, Zenon DEF SettleRead
<1>2. CASE settle' = [settle EXCEPT !.pc = "save", !.ci = ci]
  <2>1. settle' = [pc |-> "save", res |-> settle.res, ci |-> ci]
    BY <1>2, CallRecord, Zenon
  <2>2. SettleOK(settle')
    BY <1>1, <2>1, CallOK, CallRecord, Parts, Zenon
  <2> QED BY <1>1, <2>2, Parts, SettleFrame, Zenon
<1> QED BY <1>1, <1>2, SettleEndOK, Parts, SettleFrame, Zenon

LEMMA SetChannelSettlingAtInv == ASSUME VoucherInv, SetChannelSettlingAt PROVE VoucherInv'
<1>1. /\ settle.pc = "save" /\ ci' = settle.ci
      /\ settle' = SettleEnd
      /\ UNCHANGED <<payer, actor, pool, add, submit, collect, credit, calls>>
  BY Zenon DEF SetChannelSettlingAt
<1>2. settle.ci # None /\ InfoOK(settle.ci)
  BY <1>1, Parts, Zenon DEF SettleOK
<1>3. ci' # None /\ InfoOK(ci')
  BY <1>1, <1>2, Zenon
<1> QED BY <1>1, <1>3, SettleEndOK, Parts, Frame, Zenon

LEMMA NoCollectOK == CollectOK(NoCollect)
BY Zenon DEF NoCollect, CollectOK, CollectType, InfoOK

LEMMA CollectForEpochInv == ASSUME VoucherInv, CollectForEpoch PROVE VoucherInv'
<1>1. /\ ci # None /\ collect' = [NoCollect EXCEPT !.pc = "push"]
      /\ UNCHANGED <<payer, actor, pool, ci, add, submit, settle, credit>>
      /\ calls' \in 0..MaxCalls
  BY Parts, SMTT(60) DEF CollectForEpoch, Call
<1>2. collect' = [pc |-> "push", res |-> "none", ci |-> None]
  BY <1>1, Zenon DEF NoCollect
<1>3. CollectOK(collect')
  BY <1>2, Zenon DEF CollectOK, CollectType, InfoOK
<1> QED BY <1>1, <1>3, Parts, CollectFrame, Zenon

LEMMA CollectPushInv == ASSUME VoucherInv, CollectPush PROVE VoucherInv'
<1>1. /\ collect.pc = "push" /\ ci # None
      /\ UNCHANGED <<payer, actor, ci, add, submit, settle, credit, calls>>
  BY Parts, Zenon DEF CollectPush
<1>2. CASE pool' = [method |-> "Collect", v |-> None]
           /\ collect' = [collect EXCEPT !.pc = "wait", !.res = "sent"]
  <2>1. collect' = [pc |-> "wait", res |-> "sent", ci |-> collect.ci]
    BY <1>2, CallRecord, Zenon
  <2>2. collect.ci \in ChannelInfo \cup {None} /\ InfoOK(collect.ci)
    BY Parts, Zenon DEF CollectOK, CollectType
  <2>3. CollectOK(collect')
    BY <2>1, <2>2, Zenon DEF CollectOK, CollectType
  <2>4. PoolOK(pool')
    BY <1>2, MessageOK, Zenon
  <2> QED BY <1>1, <2>3, <2>4, Parts, CollectFrame, Zenon
<1>3. CASE UNCHANGED pool /\ collect' = NoCollect
  BY <1>1, <1>3, NoCollectOK, Parts, CollectFrame, Zenon
<1> QED BY <1>2, <1>3, Zenon DEF CollectPush, Push, PushFails

LEMMA CollectReadInv == ASSUME VoucherInv, CollectRead PROVE VoucherInv'
<1>1. /\ ci # None
      /\ UNCHANGED <<payer, actor, pool, ci, add, submit, settle, credit, calls>>
      /\ collect' = NoCollect \/ collect' = [collect EXCEPT !.pc = "save", !.ci = ci]
  BY Parts, Zenon DEF CollectRead
<1>2. CASE collect' = [collect EXCEPT !.pc = "save", !.ci = ci]
  <2>1. collect' = [pc |-> "save", res |-> collect.res, ci |-> ci]
    BY <1>2, CallRecord, Zenon
  <2>2. CollectOK(collect')
    BY <1>1, <2>1, CallOK, CallRecord, Parts, Zenon
  <2> QED BY <1>1, <2>2, Parts, CollectFrame, Zenon
<1> QED BY <1>1, <1>2, NoCollectOK, Parts, CollectFrame, Zenon

LEMMA CollectWriteInv == ASSUME VoucherInv, CollectWrite PROVE VoucherInv'
<1>1. /\ collect.pc = "save" /\ ci' = [collect.ci EXCEPT !.Settling = FALSE]
      /\ collect' = NoCollect
      /\ UNCHANGED <<payer, actor, pool, add, submit, settle, credit, calls>>
  BY Zenon DEF CollectWrite
<1>2. collect.ci # None /\ InfoOK(collect.ci)
  BY <1>1, Parts, Zenon DEF CollectOK
<1>3. ci' # None /\ InfoOK(ci')
  BY <1>1, <1>2, FlagOK, Zenon
<1> QED BY <1>1, <1>3, NoCollectOK, Parts, Frame, Zenon

LEMMA CollectInv == ASSUME VoucherInv, Collect PROVE VoucherInv'
<1>1. /\ ci # None /\ pool' = [method |-> "Collect", v |-> None]
      /\ UNCHANGED <<payer, actor, ci, add, submit, settle, collect, credit>>
      /\ calls' \in 0..MaxCalls
  BY Parts, SMTT(60) DEF Collect, Call, Push
<1>2. PoolOK(pool')
  BY <1>1, MessageOK, Zenon
<1> QED BY <1>1, <1>2, Parts, CollectFrame, Zenon
-----------------------------------------------------------------------------
(* The chain executes a message. *)

(* A call that is told of the execution is where it was. *)
LEMMA ResultOK ==
  ASSUME VoucherInv, NEW ok \in BOOLEAN
  PROVE  /\ Result(settle, "Settle", ok) \in SettleType
         /\ Result(settle, "Settle", ok).pc = settle.pc
         /\ Result(settle, "Settle", ok).ci = settle.ci
         /\ Result(collect, "Collect", ok) \in CollectType
         /\ Result(collect, "Collect", ok).pc = collect.pc
         /\ Result(collect, "Collect", ok).ci = collect.ci
<1>1. settle \in SettleType /\ collect \in CollectType
  BY Zenon DEF VoucherInv, TypeOK
<1>2. PICK r \in {"none", "sent", "ok", "failed"} :
        Result(settle, "Settle", ok) = [settle EXCEPT !.res = r]
  BY <1>1, Zenon DEF Result, SettleType
<1>3. PICK q \in {"none", "sent", "ok", "failed"} :
        Result(collect, "Collect", ok) = [collect EXCEPT !.res = q]
  BY <1>1, Zenon DEF Result, CollectType
<1>4. /\ [settle EXCEPT !.res = r] \in SettleType
      /\ [settle EXCEPT !.res = r].pc = settle.pc /\ [settle EXCEPT !.res = r].ci = settle.ci
  BY <1>1, ZenonT(60) DEF SettleType
<1>5. /\ [collect EXCEPT !.res = q] \in CollectType
      /\ [collect EXCEPT !.res = q].pc = collect.pc /\ [collect EXCEPT !.res = q].ci = collect.ci
  BY <1>1, ZenonT(60) DEF CollectType
<1> QED BY <1>2, <1>3, <1>4, <1>5, Zenon

(* What the actor has redeemed remains one of the payer's vouchers. *)
LEMMA ActorStepOK ==
  ASSUME VoucherInv, pool # None, ActorStep(pool)
  PROVE  /\ actor' \in [phase : Phases, Balance : 0..MaxBalance,
                        lane : [Lanes -> [Nonce : 0..MaxNonce, Redeemed : Nat]]]
         /\ \A l \in Lanes :
              \/ actor'.lane[l] = actor.lane[l]
              \/ \E v \in payer.Vouchers : v.Lane = l
                   /\ actor'.lane[l] = [Nonce |-> v.Nonce, Redeemed |-> v.Amount]
<1> DEFINE LaneRec == [Nonce : 0..MaxNonce, Redeemed : Nat]
<1>1. actor \in [phase : Phases, Balance : 0..MaxBalance, lane : [Lanes -> LaneRec]]
  BY Zenon DEF VoucherInv, TypeOK
<1>2. CASE pool.method = "Update" /\ actor' = [actor EXCEPT !.lane[pool.v.Lane] =
             [Nonce |-> pool.v.Nonce, Redeemed |-> pool.v.Amount]]
  <2> DEFINE v == pool.v
             n == [Nonce |-> v.Nonce, Redeemed |-> v.Amount]
  <2>1. v \in payer.Vouchers /\ v \in Voucher
    <3>1. v \in payer.Vouchers
      BY <1>2, Parts, Zenon DEF PoolOK
    <3>2. payer.Vouchers \subseteq Voucher
      BY Zenon DEF VoucherInv, TypeOK
    <3> QED BY <3>1, <3>2, Zenon
  <2>2. v.Lane \in Lanes /\ n \in LaneRec
    BY <2>1, VoucherType, SMTT(60)
  <2>3. actor' = [actor EXCEPT !.lane = [actor.lane EXCEPT ![v.Lane] = n]]
    BY <1>2, Zenon
  <2> HIDE DEF LaneRec
  <2>4. [actor.lane EXCEPT ![v.Lane] = n] \in [Lanes -> LaneRec] /\ actor.lane \in [Lanes -> LaneRec]
    BY <1>1, <2>2, Zenon
  <2>5. actor'.lane = [actor.lane EXCEPT ![v.Lane] = n]
    BY <1>1, <2>3, Zenon
  <2>6. actor' \in [phase : Phases, Balance : 0..MaxBalance, lane : [Lanes -> LaneRec]]
    BY <1>1, <2>3, <2>4, ZenonT(60)
  <2>7. \A l \in Lanes : actor'.lane[l] = IF l = v.Lane THEN n ELSE actor.lane[l]
    BY <2>4, <2>5, Zenon
  <2> QED BY <2>1, <2>6, <2>7, Zenon DEF LaneRec
<1>3. CASE \E ph \in Phases : actor' = [actor EXCEPT !.phase = ph]
  BY <1>1, <1>3, ZenonT(60)
<1> QED BY <1>2, <1>3, Zenon DEF ActorStep, Phases

LEMMA ExecuteInv == ASSUME VoucherInv, Execute PROVE VoucherInv'
<1>1. PICK ok \in BOOLEAN :
        /\ IF ok THEN ActorStep(pool) ELSE ActorRefuses(pool) /\ UNCHANGED actor
        /\ settle' = Result(settle, "Settle", ok)
        /\ collect' = Result(collect, "Collect", ok)
  BY Zenon DEF Execute
<1>2. /\ pool # None /\ pool' = None /\ UNCHANGED <<payer, ci, add, credit, calls>>
      /\ submit' = [submit EXCEPT !.wg = @ \ submit.sent, !.sent = {}]
  BY Zenon DEF Execute
<1>3. /\ settle' \in SettleType /\ settle'.pc = settle.pc /\ settle'.ci = settle.ci
      /\ collect' \in CollectType /\ collect'.pc = collect.pc /\ collect'.ci = collect.ci
  BY <1>1, ResultOK, Zenon
<1>4. /\ submit' \in SubmitType /\ submit'.pc = submit.pc /\ submit'.ci = submit.ci
      /\ submit'.v = submit.v /\ submit'.todo = submit.todo /\ submit'.best = submit.best
  <2>1. submit \in SubmitType /\ submit.wg \in SUBSET Voucher
    BY Zenon DEF VoucherInv, TypeOK, SubmitType
  <2> QED BY <1>2, <2>1, ZenonT(60) DEF SubmitType
<1>5. /\ actor' \in [phase : Phases, Balance : 0..MaxBalance,
                     lane : [Lanes -> [Nonce : 0..MaxNonce, Redeemed : Nat]]]
      /\ \A l \in Lanes :
           \/ actor'.lane[l] = actor.lane[l]
           \/ \E v \in payer.Vouchers : v.Lane = l
                /\ actor'.lane[l] = [Nonce |-> v.Nonce, Redeemed |-> v.Amount]
  BY <1>1, <1>2, ActorStepOK, Zenon DEF VoucherInv, TypeOK
<1>6. TypeOK'
  BY <1>2, <1>3, <1>4, <1>5, Zenon DEF VoucherInv, TypeOK
<1>7. \A v \in payer.Vouchers :
        v = [Lane |-> v.Lane, Nonce |-> v.Nonce, Amount |-> v.Amount] /\ v.Nonce # 0
  <2>1. payer.Vouchers \subseteq Voucher
    BY Zenon DEF VoucherInv, TypeOK
  <2>2. \A v \in Voucher : v = [Lane |-> v.Lane, Nonce |-> v.Nonce, Amount |-> v.Amount]
    BY SMTT(60) DEF Voucher
  <2>3. \A v \in Voucher : v.Nonce # 0
    BY VoucherType, SMTT(60)
  <2> QED BY <2>1, <2>2, <2>3, Zenon
<1>8. ASSUME NEW l \in Lanes
      PROVE  /\ actor'.lane[l].Nonce > 0 =>
                  [Lane |-> l, Nonce |-> actor'.lane[l].Nonce,
                   Amount |-> actor'.lane[l].Redeemed] \in payer.Vouchers
             /\ actor'.lane[l].Nonce = 0 => actor'.lane[l].Redeemed = 0
  <2>1. CASE actor'.lane[l] = actor.lane[l]
    BY <2>1, Zenon DEF VoucherInv, LaneOrder, InFlight
  <2>2. ASSUME NEW v \in payer.Vouchers, v.Lane = l,
               actor'.lane[l] = [Nonce |-> v.Nonce, Redeemed |-> v.Amount]
        PROVE  /\ [Lane |-> l, Nonce |-> actor'.lane[l].Nonce,
                   Amount |-> actor'.lane[l].Redeemed] \in payer.Vouchers
               /\ actor'.lane[l].Nonce # 0
    <3>1. actor'.lane[l].Nonce = v.Nonce /\ actor'.lane[l].Redeemed = v.Amount
      BY <2>2, SMTT(60)
    <3> QED BY <1>7, <2>2, <3>1, Zenon
  <2> QED BY <1>5, <2>1, <2>2, Zenon
<1>9. LaneOrder'
  BY <1>2, <1>3, <1>4, <1>8, Zenon DEF VoucherInv, LaneOrder
<1>10. InFlight'
  BY <1>2, <1>3, <1>4, <1>8, Zenon DEF VoucherInv, InFlight
<1> QED BY <1>6, <1>9, <1>10, Zenon DEF VoucherInv

LEMMA StutterInv == ASSUME VoucherInv, UNCHANGED vars PROVE VoucherInv'
<1>1. TypeOK'
  BY Zenon DEF VoucherInv, TypeOK, vars
<1>2. LaneOrder' /\ InFlight'
  BY SMTT(60) DEF VoucherInv, LaneOrder, InFlight, vars
<1> QED BY <1>1, <1>2, Zenon DEF VoucherInv

LEMMA NextInv == ASSUME VoucherInv, [Next]_vars PROVE VoucherInv'
<1>1. CASE AllocateLane \/ CreateVoucher \/ Fund
  BY <1>1, AllocateLaneInv, CreateVoucherInv, FundInv, Zenon
<1>2. CASE TrackChannel \/ AddVoucherInbound \/ AddCheck \/ AddWrite
  BY <1>2, TrackChannelInv, AddVoucherInboundInv, AddCheckInv, AddWriteInv, Zenon
<1>3. CASE Execute \/ Ripen
  BY <1>3, ExecuteInv, RipenInv, Zenon
<1>4. CASE SubmitVouchers \/ Submitting \/ SubmitWaitFails
  BY <1>4, SubmitVouchersInv, SubmitCheckInv, SubmitChooseInv, SubmitVoucherInv,
     SubmitPushInv, SubmitWriteInv, SubmitReturnInv, SubmitWaitFailsInv, Zenon DEF Submitting
<1>5. CASE Settle \/ Settling
  BY <1>5, SettleInv, SettlePushInv, SettleWriteInv, SettleReadInv,
     SetChannelSettlingAtInv, Zenon DEF Settling
<1>6. CASE CollectForEpoch \/ Collecting \/ Collect
  BY <1>6, CollectForEpochInv, CollectPushInv, CollectReadInv, CollectWriteInv,
     CollectInv, Zenon DEF Collecting
<1>7. CASE UNCHANGED vars
  BY <1>7, StutterInv, Zenon
<1> QED BY <1>1, <1>2, <1>3, <1>4, <1>5, <1>6, <1>7, Zenon DEF Next

(* VoucherInv is an invariant: whatever the calls of the payee that work   *)
(* on copies of its record write back, and whichever message replaces      *)
(* which, all they hold are vouchers the payer created.                    *)
THEOREM VoucherInvariant == Spec => []VoucherInv
<1>1. Init => VoucherInv
  BY InitInv
<1>2. VoucherInv /\ [Next]_vars => VoucherInv'
  BY NextInv
<1> QED BY <1>1, <1>2, PTL DEF Spec

(* The nonces that nextNonceForLane gives out are never reused and a       *)
(* voucher with a higher nonce is worth more, for any number of lanes and  *)
(* vouchers.                                                               *)
THEOREM LanesOrdered == Spec => []LaneOrder
<1>1. VoucherInv => LaneOrder
  BY Zenon DEF VoucherInv
<1> QED BY <1>1, VoucherInvariant, PTL
-----------------------------------------------------------------------------
(* What AddVoucherInbound reports as received is what the payee's vouchers *)
(* redeem.                                                                 *)

(* All the vouchers the payee has in its record, in a copy of it, in a     *)
(* call or on their way to the chain are worth no more than the credit of  *)
(* their lane.                                                             *)
Covered(V) == \A v \in V : v.Amount <= credit[v.Lane]
InfoCovered(c) == c # None => Covered(c.Vouchers)
SubmitCovered(s) ==
  /\ Covered(s.todo) /\ Covered(s.best) /\ InfoCovered(s.ci)
  /\ s.pc \in {"push", "write"} => Covered({s.v})
PoolCovered(m) == m # None /\ m.method = "Update" => Covered({m.v})

(* The credit a lane has when the voucher that was checked is written. *)
AddCovered(a) ==
  /\ InfoCovered(a.ci)
  /\ a.pc = "write" => a.v.Amount <= credit[a.v.Lane] + a.delta

AllCovered ==
  /\ InfoCovered(ci) /\ InfoCovered(settle.ci) /\ InfoCovered(collect.ci)
  /\ SubmitCovered(submit) /\ PoolCovered(pool) /\ AddCovered(add)
  /\ \A l \in Lanes : actor.lane[l].Redeemed <= credit[l]

(* Before Settle is called no write is based on a copy that is out of      *)
(* date, and the credit is that of a voucher in the record.                *)
Exclusive ==
  /\ collect.pc = "idle" /\ (ci # None => ci.Settling = FALSE)
  /\ add.pc # "idle" => add.ci = ci /\ submit.pc \notin {"push", "write"}
  /\ submit.pc \in {"push", "write"} => submit.ci = ci

Exact ==
  /\ \A l \in Lanes : credit[l] = 0 \/ \E v \in Tracked : v.Lane = l /\ v.Amount = credit[l]
  /\ add.pc = "write" => credit[add.v.Lane] + add.delta = add.v.Amount

CreditInv == AllCovered /\ (settle.pc = "never" => Exclusive /\ Exact)

(* The lane state of the record is a voucher of the payer or empty. *)
LEMMA LaneStateOfRecord ==
  ASSUME VoucherInv, NEW l \in Lanes
  PROVE  /\ Tracked \in SUBSET Voucher /\ Tracked \subseteq payer.Vouchers
         /\ LaneState(Tracked, l).Nonce \in Nat /\ LaneState(Tracked, l).Redeemed \in Nat
         /\ \A v \in Tracked : v.Lane = l => v.Nonce <= LaneState(Tracked, l).Nonce
         /\ \/ LaneState(Tracked, l) = actor.lane[l]
            \/ \E v \in Tracked : v.Lane = l /\ LaneState(Tracked, l).Redeemed = v.Amount
         /\ \/ LaneState(Tracked, l).Redeemed = 0 /\ LaneState(Tracked, l).Nonce = 0
            \/ \E u \in payer.Vouchers : /\ u.Lane = l
                                         /\ u.Nonce = LaneState(Tracked, l).Nonce
                                         /\ u.Amount = LaneState(Tracked, l).Redeemed
<1> DEFINE ls == LaneState(Tracked, l)
<1>1. Tracked \in SUBSET Voucher /\ Tracked \subseteq payer.Vouchers
  BY Parts, Zenon DEF Tracked, InfoOK, ChannelInfo
<1>2. /\ ls \in Known(Tracked, l)
      /\ \A t \in Known(Tracked, l) : t.Nonce <= ls.Nonce
      /\ Known(Tracked, l) \subseteq [Nonce : 0..MaxNonce, Redeemed : Nat]
  BY <1>1, LaneStateIsLatest, Zenon DEF VoucherInv
<1> HIDE DEF ls
<1>3. ls.Nonce \in Nat /\ ls.Redeemed \in Nat
  BY <1>2, SMTT(60)
<1>4. ASSUME NEW v \in Tracked, v.Lane = l PROVE v.Nonce <= ls.Nonce
  <2>1. [Nonce |-> v.Nonce, Redeemed |-> v.Amount] \in Known(Tracked, l)
    BY <1>4, Zenon DEF Known, OnLane
  <2> QED BY <1>2, <2>1, Zenon
<1>5. CASE ls = actor.lane[l]
  <2>1. ls.Nonce > 0 => [Lane |-> l, Nonce |-> ls.Nonce, Amount |-> ls.Redeemed] \in payer.Vouchers
    BY <1>5, Zenon DEF VoucherInv, LaneOrder
  <2>2. ls.Nonce = 0 => ls.Redeemed = 0
    BY <1>5, Zenon DEF VoucherInv, InFlight
  <2>3. \/ ls.Redeemed = 0 /\ ls.Nonce = 0
        \/ \E u \in payer.Vouchers : u.Lane = l /\ u.Nonce = ls.Nonce /\ u.Amount = ls.Redeemed
    BY <1>3, <2>1, <2>2, SMTT(60)
  <2> QED BY <1>1, <1>3, <1>4, <1>5, <2>3, Zenon DEF ls
<1>6. ASSUME NEW v \in OnLane(Tracked, l), ls = [Nonce |-> v.Nonce, Redeemed |-> v.Amount]
      PROVE  v \in Tracked /\ v.Lane = l /\ ls.Redeemed = v.Amount /\ ls.Nonce = v.Nonce
  BY <1>6, Zenon DEF OnLane
<1> QED BY <1>1, <1>2, <1>3, <1>4, <1>5, <1>6, Zenon DEF ls, Known

(* The invariant is what CreditIsRedeemable needs. *)
LEMMA CreditFollows == ASSUME VoucherInv, CreditInv PROVE CreditIsRedeemable
<1> SUFFICES ASSUME NEW l \in Lanes
             PROVE  /\ credit[l] >= LaneState(Tracked, l).Redeemed
                    /\ settle.pc = "never" => credit[l] = LaneState(Tracked, l).Redeemed
  BY Zenon DEF CreditIsRedeemable
<1> DEFINE ls == LaneState(Tracked, l)
<1>1. credit[l] \in Nat /\ ls.Nonce \in Nat /\ ls.Redeemed \in Nat
  BY LaneStateOfRecord, Zenon DEF VoucherInv, TypeOK
<1>2. Covered(Tracked)
  BY Zenon DEF CreditInv, AllCovered, InfoCovered, Tracked, Covered
<1>3. \/ ls = actor.lane[l]
      \/ \E v \in Tracked : v.Lane = l /\ ls.Redeemed = v.Amount
  BY LaneStateOfRecord, Zenon
<1>4. ls.Redeemed <= credit[l]
  BY <1>1, <1>2, <1>3, Zenon DEF CreditInv, AllCovered, Covered
<1>5. ASSUME settle.pc = "never" PROVE credit[l] <= ls.Redeemed
  <2>1. CASE credit[l] = 0
    BY <1>1, <2>1, SMTT(60)
  <2>2. ASSUME NEW v \in Tracked, v.Lane = l, v.Amount = credit[l]
        PROVE  credit[l] <= ls.Redeemed
    <3>1. v \in payer.Vouchers /\ v \in Voucher /\ v.Nonce <= ls.Nonce
      BY <2>2, LaneStateOfRecord, Zenon
    <3>2. PICK u \in payer.Vouchers : u.Lane = l /\ u.Nonce = ls.Nonce /\ u.Amount = ls.Redeemed
      <4>1. v.Nonce > 0 /\ v.Nonce \in Nat
        BY <3>1, VoucherType, Zenon
      <4>2. ls.Nonce # 0
        BY <1>1, <3>1, <4>1, SMTT(60)
      <4> QED BY <4>2, LaneStateOfRecord, Zenon
    <3>3. u \in Voucher
      BY Zenon DEF VoucherInv, TypeOK
    <3>4. /\ v.Nonce = u.Nonce => v = u
          /\ v.Nonce < u.Nonce => v.Amount < u.Amount
      BY <2>2, <3>1, <3>2, Zenon DEF VoucherInv, LaneOrder
    <3>5. v.Nonce \in Nat /\ u.Nonce \in Nat /\ v.Amount \in Nat /\ u.Amount \in Nat
      BY <3>1, <3>3, VoucherType, Zenon
    <3> HIDE DEF ls
    <3> QED BY <2>2, <3>1, <3>2, <3>4, <3>5, SMTT(60)
  <2> QED BY <1>5, <2>1, <2>2, Zenon DEF CreditInv, Exact
<1> HIDE DEF ls
<1>6. credit[l] >= ls.Redeemed /\ (settle.pc = "never" => credit[l] = ls.Redeemed)
  BY <1>1, <1>4, <1>5, SMTT(60)
<1> QED BY <1>6, Zenon DEF ls
-----------------------------------------------------------------------------
(* Every step preserves the invariant. *)

LEMMA InitCredit == ASSUME Init PROVE CreditInv
BY SMTT(60) DEF Init, CreditInv, AllCovered, InfoCovered, SubmitCovered, PoolCovered,
   AddCovered, Covered, Exclusive, Exact, NoAdd, NoSubmit, NoCollect

LEMMA CoveredFrame ==
  ASSUME credit' = credit, \A l \in Lanes : actor'.lane[l].Redeemed <= credit[l],
         InfoCovered(ci'), InfoCovered(settle'.ci), InfoCovered(collect'.ci),
         SubmitCovered(submit'), PoolCovered(pool'), AddCovered(add')
  PROVE  AllCovered'
<1>1. ASSUME NEW V, Covered(V) PROVE \A v \in V : v.Amount <= credit'[v.Lane]
  BY <1>1, Zenon DEF Covered
<1> QED BY Zenon DEF AllCovered, InfoCovered, SubmitCovered, PoolCovered, AddCovered, Covered

(* The payer, and time. *)
LEMMA PayerCredit ==
  ASSUME CreditInv, UNCHANGED <<pool, ci, add, submit, settle, collect, credit>>,
         \A l \in Lanes : actor'.lane[l].Redeemed = actor.lane[l].Redeemed
  PROVE  CreditInv'
<1>1. AllCovered'
  BY CoveredFrame, Zenon DEF CreditInv, AllCovered
<1>2. (settle.pc = "never" => Exclusive /\ Exact)'
  BY Zenon DEF CreditInv, Exclusive, Exact, Tracked
<1> QED BY <1>1, <1>2, Zenon DEF CreditInv

LEMMA ActorLanes ==
  ASSUME VoucherInv, AllocateLane \/ CreateVoucher \/ Fund \/ Ripen
  PROVE  /\ \A l \in Lanes : actor'.lane[l].Redeemed = actor.lane[l].Redeemed
         /\ UNCHANGED <<pool, ci, add, submit, settle, collect, credit>>
<1>1. actor \in [phase : Phases, Balance : 0..MaxBalance,
                 lane : [Lanes -> [Nonce : 0..MaxNonce, Redeemed : Nat]]]
  BY Zenon DEF VoucherInv, TypeOK
<1>2. actor'.lane = actor.lane
  BY <1>1, ZenonT(60) DEF AllocateLane, CreateVoucher, Fund, Ripen
<1>3. UNCHANGED <<pool, ci, add, submit, settle, collect, credit>>
  BY Zenon DEF AllocateLane, CreateVoucher, Fund, Ripen
<1> QED BY <1>2, <1>3, Zenon

LEMMA TrackCredit == ASSUME VoucherInv, CreditInv, TrackChannel PROVE CreditInv'
<1>1. /\ ci = None /\ ci' = [Vouchers |-> {}, Submitted |-> {}, Settling |-> FALSE]
      /\ UNCHANGED <<actor, pool, add, submit, settle, collect, credit>>
  BY Zenon DEF TrackChannel
<1>2. ci'.Vouchers = {} /\ ci'.Settling = FALSE /\ ci' # None
  <2>1. ci' \in ChannelInfo
    BY <1>1, Zenon DEF ChannelInfo
  <2>2. ci'.Vouchers = {} /\ ci'.Settling = FALSE
    BY <1>1, Zenon
  <2> QED BY <2>1, <2>2, NoneAssumption, Zenon
<1>3. add.pc = "idle" /\ submit.pc = "idle" /\ collect.pc = "idle"
  BY <1>1, Zenon DEF VoucherInv, InFlight
<1>4. AllCovered'
  <2>1. InfoCovered(ci')
    BY <1>2, Zenon DEF InfoCovered, Covered
  <2> QED BY <1>1, <2>1, CoveredFrame, Zenon DEF CreditInv, AllCovered
<1>5. Tracked = {} /\ Tracked' = {}
  BY <1>1, <1>2, Zenon DEF Tracked
<1>6. (settle.pc = "never" => Exclusive)'
  BY <1>1, <1>2, <1>3, Zenon DEF Exclusive
<1>7. (settle.pc = "never" => Exact)'
  BY <1>1, <1>3, <1>5, Zenon DEF CreditInv, Exact
<1> QED BY <1>4, <1>6, <1>7, Zenon DEF CreditInv

LEMMA AddVoucherInboundCredit ==
  ASSUME VoucherInv, CreditInv, AddVoucherInbound PROVE CreditInv'
<1>1. PICK v \in payer.Vouchers :
        /\ InboundFree /\ ci # None
        /\ add' = [NoAdd EXCEPT !.pc = "check", !.v = v, !.ci = ci]
        /\ UNCHANGED <<actor, pool, ci, submit, settle, collect, credit>>
  BY Zenon DEF AddVoucherInbound
<1>2. add' = [pc |-> "check", v |-> v, ci |-> ci, delta |-> 0]
  BY <1>1, Zenon DEF NoAdd
<1>3. add'.pc = "check" /\ add'.ci = ci
  BY <1>2, Zenon
<1>4. AllCovered'
  <2>1. AddCovered(add')
    BY <1>3, Zenon DEF CreditInv, AllCovered, AddCovered
  <2> QED BY <1>1, <2>1, CoveredFrame, Zenon DEF CreditInv, AllCovered
<1>5. (settle.pc = "never" => Exclusive)'
  BY <1>1, <1>3, Zenon DEF CreditInv, Exclusive, InboundFree
<1>6. (settle.pc = "never" => Exact)'
  BY <1>1, <1>3, Zenon DEF CreditInv, Exact, Tracked
<1> QED BY <1>4, <1>5, <1>6, Zenon DEF CreditInv

(* The difference to the lane state, which the credit of the lane covers,  *)
(* makes up for the rest of the amount.                                    *)
LEMMA AddCheckCredit == ASSUME VoucherInv, CreditInv, AddCheck PROVE CreditInv'
<1>1. /\ add.pc = "check"
      /\ UNCHANGED <<actor, pool, ci, submit, settle, collect, credit>>
  BY Zenon DEF AddCheck
<1>2. CASE add' = NoAdd
  <2>1. add'.pc = "idle" /\ add'.ci = None
    BY <1>2, Zenon DEF NoAdd
  <2>2. AllCovered'
    <3>1. AddCovered(add')
      BY <2>1, Zenon DEF AddCovered, InfoCovered
    <3> QED BY <1>1, <3>1, CoveredFrame, Zenon DEF CreditInv, AllCovered
  <2>3. (settle.pc = "never" => Exclusive /\ Exact)'
    BY <1>1, <2>1, Zenon DEF CreditInv, Exclusive, Exact, Tracked
  <2> QED BY <2>2, <2>3, Zenon DEF CreditInv
<1>3. CASE add' # NoAdd
  <2> DEFINE l == add.v.Lane
             r == LaneState(ci.Vouchers, l).Redeemed
             d == add.v.Amount - r
  <2>1. add' = [add EXCEPT !.pc = "write", !.delta = d]
    BY <1>3, Zenon DEF AddCheck
  <2>2. /\ add.v \in Voucher /\ add \in AddType /\ ci # None
        /\ l \in Lanes /\ add.v.Amount \in Nat
    <3>1. add.v \in Voucher /\ add \in AddType /\ ci # None
      BY <1>1, Zenon DEF VoucherInv, TypeOK, InFlight
    <3> QED BY <3>1, VoucherType, Zenon
  <2>3. /\ credit[l] \in Nat /\ r \in Nat /\ r <= credit[l]
        /\ settle.pc = "never" => r = credit[l]
    <3>1. Tracked = ci.Vouchers
      BY <2>2, Zenon DEF Tracked
    <3>2. r \in Nat
      BY <2>2, <3>1, LaneStateOfRecord, Zenon
    <3>3. credit[l] \in Nat
      BY <2>2, SMTT(60) DEF VoucherInv, TypeOK
    <3>4. credit[l] >= r /\ (settle.pc = "never" => credit[l] = r)
      BY <2>2, <3>1, CreditFollows, Zenon DEF CreditIsRedeemable
    <3> HIDE DEF r, l
    <3> QED BY <3>2, <3>3, <3>4, Zenon
  <2>4. /\ add'.pc = "write" /\ add'.ci = add.ci /\ add'.v = add.v
        /\ add'.delta = add.v.Amount - r
    <3> HIDE DEF r
    <3> QED BY <2>1, <2>2, ZenonT(60) DEF AddType, d
  <2> HIDE DEF r, d
  <2>5. add.v.Amount <= credit[l] + (add.v.Amount - r)
        /\ (settle.pc = "never" => credit[l] + (add.v.Amount - r) = add.v.Amount)
    BY <2>2, <2>3, SMTT(60)
  <2>6. AllCovered'
    <3>1. AddCovered(add')
      BY <2>4, <2>5, Zenon DEF CreditInv, AllCovered, AddCovered
    <3> QED BY <1>1, <3>1, CoveredFrame, Zenon DEF CreditInv, AllCovered
  <2>7. (settle.pc = "never" => Exclusive)'
    BY <1>1, <2>4, Zenon DEF CreditInv, Exclusive
  <2>8. (settle.pc = "never" => Exact)'
    BY <1>1, <2>4, <2>5, Zenon DEF CreditInv, Exact, Tracked
  <2> QED BY <2>6, <2>7, <2>8, Zenon DEF CreditInv
<1> QED BY <1>2, <1>3

(* More credit covers what was covered before. *)
LEMMA AddWriteCredit == ASSUME VoucherInv, CreditInv, AddWrite PROVE CreditInv'
<1> DEFINE l == add.v.Lane
<1>1. /\ add.pc = "write" /\ ci' = [add.ci EXCEPT !.Vouchers = @ \cup {add.v}]
      /\ credit' = [credit EXCEPT ![l] = @ + add.delta] /\ add' = NoAdd
      /\ UNCHANGED <<actor, pool, submit, settle, collect>>
  BY Zenon DEF AddWrite
<1>2. /\ add.v \in Voucher /\ add.ci \in ChannelInfo /\ add.ci # None /\ add.delta \in Nat
      /\ credit \in [Lanes -> Nat]
  BY <1>1, Zenon DEF VoucherInv, TypeOK, InFlight, AddType
<1>3. l \in Lanes /\ add.v.Amount \in Nat
  BY <1>2, VoucherType, Zenon
<1>4. /\ ci' \in ChannelInfo /\ ci'.Vouchers = add.ci.Vouchers \cup {add.v}
      /\ ci'.Settling = add.ci.Settling
  BY <1>1, <1>2, Zenon DEF ChannelInfo
<1>5. ci' # None /\ Tracked' = add.ci.Vouchers \cup {add.v}
  BY <1>4, NoneAssumption, Zenon DEF Tracked
<1>6. add'.pc = "idle" /\ add'.ci = None
  BY <1>1, Zenon DEF NoAdd
<1>7. /\ credit'[l] = credit[l] + add.delta
      /\ \A k \in Lanes : k # l => credit'[k] = credit[k]
      /\ \A k \in Lanes : credit[k] <= credit'[k] /\ credit[k] \in Nat /\ credit'[k] \in Nat
  BY <1>1, <1>2, <1>3, SMTT(60)
<1> HIDE DEF l
<1>8. ASSUME NEW V \in SUBSET Voucher, Covered(V)
      PROVE  \A v \in V : v.Amount <= credit'[v.Lane]
  <2> SUFFICES ASSUME NEW v \in V PROVE v.Amount <= credit'[v.Lane]
    OBVIOUS
  <2>1. v.Lane \in Lanes /\ v.Amount \in Nat
    BY VoucherType, Zenon
  <2>2. v.Amount <= credit[v.Lane]
    BY <1>8, Zenon DEF Covered
  <2> QED BY <1>7, <2>1, <2>2, SMTT(60)
<1>9. add.v.Amount <= credit'[add.v.Lane]
  BY <1>1, <1>7, Zenon DEF CreditInv, AllCovered, AddCovered, l
<1>10. AllCovered'
  <2>1. ASSUME NEW c, InfoOK(c), InfoCovered(c)
        PROVE  c # None => \A v \in c.Vouchers : v.Amount <= credit'[v.Lane]
    <3>1. ASSUME c # None PROVE c.Vouchers \in SUBSET Voucher /\ Covered(c.Vouchers)
      <4>1. c \in ChannelInfo
        BY <2>1, <3>1, Zenon DEF InfoOK
      <4> QED BY <2>1, <3>1, <4>1, Zenon DEF InfoCovered, ChannelInfo
    <3> QED BY <1>8, <3>1, Zenon
  <2>2. InfoCovered(ci)'
    <3>1. Covered(add.ci.Vouchers) /\ add.ci.Vouchers \in SUBSET Voucher
      BY <1>2, Zenon DEF CreditInv, AllCovered, AddCovered, InfoCovered, ChannelInfo
    <3> QED BY <1>4, <1>8, <1>9, <3>1, Zenon DEF InfoCovered, Covered
  <2>3. InfoCovered(settle.ci)' /\ InfoCovered(collect.ci)' /\ InfoCovered(submit.ci)'
    <3>1. InfoOK(settle.ci) /\ InfoOK(collect.ci) /\ InfoOK(submit.ci)
      BY Parts, Zenon DEF SettleOK, CollectOK, SubmitOK
    <3>2. InfoCovered(settle.ci) /\ InfoCovered(collect.ci) /\ InfoCovered(submit.ci)
      BY Zenon DEF CreditInv, AllCovered, SubmitCovered
    <3> QED BY <1>1, <2>1, <3>1, <3>2, Zenon DEF InfoCovered, Covered
  <2>4. SubmitCovered(submit)'
    <3>1. /\ submit.todo \in SUBSET Voucher /\ submit.best \in SUBSET Voucher
          /\ submit.pc \in {"push", "write"} => {submit.v} \in SUBSET Voucher
      <4>1. payer.Vouchers \subseteq Voucher
        BY Zenon DEF VoucherInv, TypeOK
      <4> QED BY <4>1, Parts, Zenon DEF SubmitOK, SubmitType
    <3> QED BY <1>1, <1>8, <2>3, <3>1, Zenon DEF CreditInv, AllCovered, SubmitCovered, Covered
  <2>5. PoolCovered(pool)'
    <3>1. pool # None /\ pool.method = "Update" => {pool.v} \in SUBSET Voucher
      <4>1. payer.Vouchers \subseteq Voucher
        BY Zenon DEF VoucherInv, TypeOK
      <4> QED BY <4>1, Parts, Zenon DEF PoolOK
    <3> QED BY <1>1, <1>8, <3>1, Zenon DEF CreditInv, AllCovered, PoolCovered, Covered
  <2>6. AddCovered(add)'
    BY <1>6, Zenon DEF AddCovered, InfoCovered
  <2>7. ASSUME NEW k \in Lanes PROVE actor'.lane[k].Redeemed <= credit'[k]
    <3>1. actor.lane[k].Redeemed \in Nat /\ actor.lane[k].Redeemed <= credit[k]
      BY Zenon DEF CreditInv, AllCovered, VoucherInv, TypeOK
    <3> QED BY <1>1, <1>7, <3>1, SMTT(60)
  <2> QED BY <2>2, <2>3, <2>4, <2>5, <2>6, <2>7, Zenon DEF AllCovered
<1>11. ASSUME settle.pc = "never" PROVE Exclusive'
  <2>1. /\ collect.pc = "idle" /\ ci.Settling = FALSE /\ add.ci = ci
        /\ submit.pc \notin {"push", "write"}
    <3>1. add.pc # "idle"
      BY <1>1, Zenon
    <3> QED BY <1>2, <1>11, <3>1, Zenon DEF CreditInv, Exclusive
  <2> QED BY <1>1, <1>4, <1>6, <2>1, Zenon DEF Exclusive
<1>12. ASSUME settle.pc = "never" PROVE Exact'
  <2>1. Tracked' = Tracked \cup {add.v}
    BY <1>1, <1>2, <1>5, <1>12, Zenon DEF CreditInv, Exclusive, Tracked
  <2>2. credit'[l] = add.v.Amount
    BY <1>1, <1>7, <1>12, Zenon DEF CreditInv, Exact, l
  <2>3. \A k \in Lanes : credit'[k] = 0 \/ \E v \in Tracked' : v.Lane = k /\ v.Amount = credit'[k]
    BY <1>7, <1>12, <2>1, <2>2, Zenon DEF CreditInv, Exact, l
  <2> QED BY <1>6, <2>3, Zenon DEF Exact
<1> QED BY <1>1, <1>10, <1>11, <1>12, Zenon DEF CreditInv
-----------------------------------------------------------------------------
(* Calls to submit vouchers. *)

(* A step of a call that leaves the record alone. *)
LEMMA SubmitStep ==
  ASSUME CreditInv, UNCHANGED <<actor, ci, add, settle, collect, credit>>,
         SubmitCovered(submit'), PoolCovered(pool'),
         submit'.pc \in {"push", "write"} =>
           \/ submit.pc \in {"push", "write"} /\ submit'.ci = submit.ci
           \/ InboundFree /\ submit'.ci = ci
  PROVE  CreditInv'
<1>1. AllCovered'
  BY CoveredFrame, Zenon DEF CreditInv, AllCovered
<1>2. ASSUME settle.pc = "never" PROVE Exclusive'
  BY <1>2, Zenon DEF CreditInv, Exclusive, InboundFree
<1>3. ASSUME settle.pc = "never" PROVE Exact'
  BY <1>3, Zenon DEF CreditInv, Exact, Tracked
<1> QED BY <1>1, <1>2, <1>3, Zenon DEF CreditInv

LEMMA NoSubmitCovered == SubmitCovered(NoSubmit) /\ NoSubmit.pc = "idle"
BY Zenon DEF NoSubmit, SubmitCovered, InfoCovered, Covered

LEMMA NoSubmitStep ==
  ASSUME CreditInv, submit' = NoSubmit,
         UNCHANGED <<actor, pool, ci, add, settle, collect, credit>>
  PROVE  CreditInv'
<1>1. PoolCovered(pool') /\ submit'.pc \notin {"push", "write"}
  BY NoSubmitCovered, Zenon DEF CreditInv, AllCovered
<1> QED BY <1>1, NoSubmitCovered, SubmitStep, Zenon

LEMMA SubmitVouchersCredit == ASSUME VoucherInv, CreditInv, SubmitVouchers PROVE CreditInv'
<1>1. PICK all \in BOOLEAN, l \in Lanes :
        submit' = [NoSubmit EXCEPT !.pc = "check", !.all = all, !.todo = ci.Vouchers,
                                   !.lanes = IF all THEN Lanes ELSE {l}]
  BY Zenon DEF SubmitVouchers
<1>2. ci # None /\ UNCHANGED <<actor, pool, ci, add, settle, collect, credit>>
  BY Zenon DEF SubmitVouchers
<1>3. submit' = [pc |-> "check", all |-> all, lanes |-> IF all THEN Lanes ELSE {l},
                 todo |-> ci.Vouchers, best |-> {}, v |-> None, ci |-> None,
                 wg |-> {}, sent |-> {}]
  BY <1>1, Zenon DEF NoSubmit
<1>4. /\ submit'.pc = "check" /\ submit'.todo = ci.Vouchers /\ submit'.best = {}
      /\ submit'.ci = None
  BY <1>3, Zenon
<1>5. SubmitCovered(submit') /\ submit'.pc \notin {"push", "write"} /\ PoolCovered(pool')
  BY <1>2, <1>4, Zenon DEF CreditInv, AllCovered, SubmitCovered, InfoCovered, Covered
<1> QED BY <1>2, <1>5, SubmitStep, Zenon

(* A call that checks or chooses among the vouchers it has. *)
LEMMA SubmitMoves ==
  ASSUME CreditInv, UNCHANGED <<actor, pool, ci, add, settle, collect, credit>>,
         submit'.todo \cup submit'.best \subseteq submit.todo \cup submit.best,
         \/ submit'.pc \notin {"push", "write"} /\ submit'.ci = None
         \/ submit'.pc = submit.pc /\ submit'.v = submit.v /\ submit'.ci = submit.ci
         \/ submit'.pc = "next" /\ submit'.ci = submit.ci
  PROVE  CreditInv'
<1>1. SubmitCovered(submit) /\ PoolCovered(pool')
  BY Zenon DEF CreditInv, AllCovered
<1>2. Covered(submit'.todo) /\ Covered(submit'.best)
  BY <1>1, Zenon DEF SubmitCovered, Covered
<1>3. InfoCovered(submit'.ci)
  BY <1>1, Zenon DEF SubmitCovered, InfoCovered
<1>4. submit'.pc \in {"push", "write"} =>
        submit'.pc = submit.pc /\ submit'.v = submit.v /\ submit'.ci = submit.ci
  BY Zenon
<1>5. SubmitCovered(submit')
  BY <1>1, <1>2, <1>3, <1>4, Zenon DEF SubmitCovered
<1> QED BY <1>1, <1>4, <1>5, SubmitStep, Zenon

LEMMA SubmitCheckCredit == ASSUME VoucherInv, CreditInv, SubmitCheck PROVE CreditInv'
<1>1. PICK v \in submit.todo :
        LET mine == OnLane(submit.best, v.Lane)
            better == /\ v \notin ci.Submitted /\ ActorAccepts(v)
                      /\ \A w \in mine : v.Amount > w.Amount
        IN \/ submit' = [submit EXCEPT !.todo = @ \ {v},
                          !.best = IF better THEN (@ \ mine) \cup {v} ELSE @]
           \/ submit' = NoSubmit
  BY Zenon DEF SubmitCheck
<1>2. UNCHANGED <<actor, pool, ci, add, settle, collect, credit>>
  BY Zenon DEF SubmitCheck
<1>3. submit \in SubmitType
  BY Zenon DEF VoucherInv, TypeOK
<1>4. CASE submit' # NoSubmit
  <2>1. PICK B \in SUBSET (submit.todo \cup submit.best) :
          submit' = [submit EXCEPT !.todo = submit.todo \ {v}, !.best = B]
    BY <1>1, <1>4, Zenon
  <2>2. /\ submit'.pc = submit.pc /\ submit'.v = submit.v /\ submit'.ci = submit.ci
        /\ submit'.todo = submit.todo \ {v} /\ submit'.best = B
    BY <1>3, <2>1, ZenonT(60) DEF SubmitType
  <2> QED BY <1>2, <2>2, SubmitMoves, Zenon
<1> QED BY <1>2, <1>4, NoSubmitStep, Zenon

LEMMA SubmitChooseCredit == ASSUME VoucherInv, CreditInv, SubmitChoose PROVE CreditInv'
<1> DEFINE chosen == {v \in submit.best : v.Lane \in submit.lanes}
<1>1. /\ UNCHANGED <<actor, pool, ci, add, settle, collect, credit>>
      /\ \/ submit' = NoSubmit
         \/ submit' = [submit EXCEPT !.pc = "next", !.todo = chosen, !.wg = chosen]
  BY Zenon DEF SubmitChoose
<1>2. submit \in SubmitType /\ chosen \subseteq submit.best
  BY Zenon DEF VoucherInv, TypeOK
<1> HIDE DEF chosen
<1>3. CASE submit' = [submit EXCEPT !.pc = "next", !.todo = chosen, !.wg = chosen]
  <2>1. /\ submit'.pc = "next" /\ submit'.ci = submit.ci
        /\ submit'.todo = chosen /\ submit'.best = submit.best
    BY <1>2, <1>3, ZenonT(60) DEF SubmitType
  <2> QED BY <1>1, <1>2, <2>1, SubmitMoves, Zenon
<1> QED BY <1>1, <1>3, NoSubmitStep, Zenon

LEMMA SubmitVoucherCredit == ASSUME VoucherInv, CreditInv, SubmitVoucher PROVE CreditInv'
<1>1. PICK v \in submit.todo :
        LET s == [submit EXCEPT !.todo = @ \ {v}]
        IN submit' = IF v \in ci.Submitted THEN SubmitFailed(s)
                     ELSE [s EXCEPT !.pc = "push", !.v = v, !.ci = ci]
  BY Zenon DEF SubmitVoucher
<1>2. /\ InboundFree /\ UNCHANGED <<actor, pool, ci, add, settle, collect, credit>>
  BY Zenon DEF SubmitVoucher
<1> DEFINE s == [submit EXCEPT !.todo = submit.todo \ {v}]
<1>3. submit \in SubmitType /\ submit.todo \in SUBSET Voucher
  BY Zenon DEF VoucherInv, TypeOK, SubmitType
<1>4. s \in SubmitType /\ s.best = submit.best /\ s.todo = submit.todo \ {v}
  BY <1>3, ZenonT(60) DEF SubmitType
<1>5. \/ submit' = NoSubmit
      \/ submit' = [s EXCEPT !.pc = "next", !.v = None, !.ci = None]
      \/ submit' = [s EXCEPT !.pc = "push", !.v = v, !.ci = ci]
  BY <1>1, Zenon DEF SubmitFailed
<1> HIDE DEF s
<1>6. CASE submit' = [s EXCEPT !.pc = "next", !.v = None, !.ci = None]
  <2>1. /\ submit'.pc = "next" /\ submit'.ci = None
        /\ submit'.todo = s.todo /\ submit'.best = s.best
    BY <1>4, <1>6, ZenonT(60) DEF SubmitType
  <2>2. submit'.pc \notin {"push", "write"}
    BY <2>1, Zenon
  <2> QED BY <1>2, <1>4, <2>1, <2>2, SubmitMoves, Zenon
<1>7. CASE submit' = [s EXCEPT !.pc = "push", !.v = v, !.ci = ci]
  <2>1. /\ submit'.pc = "push" /\ submit'.v = v /\ submit'.ci = ci
        /\ submit'.todo = s.todo /\ submit'.best = s.best
    BY <1>4, <1>7, ZenonT(60) DEF SubmitType
  <2>2. SubmitCovered(submit') /\ PoolCovered(pool')
    BY <1>2, <1>4, <2>1, Zenon DEF CreditInv, AllCovered, SubmitCovered, Covered
  <2> QED BY <1>2, <2>1, <2>2, SubmitStep, Zenon
<1> QED BY <1>2, <1>5, <1>6, <1>7, NoSubmitStep, Zenon

LEMMA SubmitPushCredit == ASSUME VoucherInv, CreditInv, SubmitPush PROVE CreditInv'
<1>1. submit.pc = "push" /\ UNCHANGED <<actor, ci, add, settle, collect, credit>>
  BY Zenon DEF SubmitPush
<1>2. submit \in SubmitType
  BY Zenon DEF VoucherInv, TypeOK
<1>3. CASE pool' = [method |-> "Update", v |-> submit.v]
           /\ submit' = [submit EXCEPT !.pc = "write", !.sent = @ \cup {submit.v}]
  <2>1. /\ submit'.pc = "write" /\ submit'.v = submit.v /\ submit'.ci = submit.ci
        /\ submit'.todo = submit.todo /\ submit'.best = submit.best
    BY <1>2, <1>3, ZenonT(60) DEF SubmitType
  <2>2. Covered({submit.v}) /\ SubmitCovered(submit)
    BY <1>1, Zenon DEF CreditInv, AllCovered, SubmitCovered
  <2>3. pool'.v = submit.v
    BY <1>3, Zenon
  <2>4. SubmitCovered(submit') /\ PoolCovered(pool')
    BY <2>1, <2>2, <2>3, Zenon DEF SubmitCovered, PoolCovered
  <2>5. submit.pc \in {"push", "write"} /\ submit'.ci = submit.ci
    BY <1>1, <2>1, Zenon
  <2> QED BY <1>1, <2>4, <2>5, SubmitStep, Zenon
<1>4. CASE UNCHANGED pool /\ submit' = SubmitFailed(submit)
  <2>1. CASE submit' = NoSubmit
    BY <1>1, <1>4, <2>1, NoSubmitStep, Zenon
  <2>2. CASE submit' = [submit EXCEPT !.pc = "next", !.v = None, !.ci = None]
    <3>1. /\ submit'.pc = "next" /\ submit'.ci = None
          /\ submit'.todo = submit.todo /\ submit'.best = submit.best
      BY <1>2, <2>2, ZenonT(60) DEF SubmitType
    <3>2. submit'.pc \notin {"push", "write"}
      BY <3>1, Zenon
    <3> QED BY <1>1, <1>4, <3>1, <3>2, SubmitMoves, Zenon
  <2> QED BY <1>4, <2>1, <2>2, Zenon DEF SubmitFailed
<1> QED BY <1>3, <1>4, Zenon DEF SubmitPush, Push, PushFails

(* The record that is written has the vouchers of the copy, and before     *)
(* Settle is called the copy is the record.                                *)
LEMMA SubmitWriteCredit == ASSUME VoucherInv, CreditInv, SubmitWrite PROVE CreditInv'
<1> DEFINE V == submit.ci.Vouchers \cup {submit.v}
<1>1. /\ submit.pc = "write" /\ submit.pc \in {"push", "write"}
      /\ submit' = [submit EXCEPT !.pc = "next", !.v = None, !.ci = None]
      /\ UNCHANGED <<actor, pool, add, settle, collect, credit>>
  BY Zenon DEF SubmitWrite
<1>2. \E S : ci' = [submit.ci EXCEPT !.Vouchers = V, !.Submitted = S]
  BY Zenon DEF SubmitWrite, MarkVoucherSubmitted
<1>3. submit \in SubmitType /\ submit.ci \in ChannelInfo /\ submit.ci # None
  <2>1. SubmitOK(submit) /\ InfoOK(submit.ci)
    BY Parts, Zenon DEF SubmitOK
  <2> QED BY <1>1, <2>1, Zenon DEF SubmitOK, InfoOK
<1>4. ci'.Vouchers = V /\ ci'.Settling = submit.ci.Settling
  BY <1>2, <1>3, ZenonT(60) DEF ChannelInfo
<1>5. /\ submit'.pc = "next" /\ submit'.ci = None
      /\ submit'.todo = submit.todo /\ submit'.best = submit.best
  BY <1>1, <1>3, ZenonT(60) DEF SubmitType
<1>6. Covered(V) /\ SubmitCovered(submit)
  BY <1>1, <1>3, Zenon DEF CreditInv, AllCovered, SubmitCovered, InfoCovered, Covered
<1> HIDE DEF V
<1>7. InfoCovered(ci')
  BY <1>4, <1>6, Zenon DEF InfoCovered
<1>8. submit'.pc \notin {"push", "write"}
  BY <1>5, Zenon
<1>9. SubmitCovered(submit')
  BY <1>5, <1>6, <1>8, Zenon DEF SubmitCovered, InfoCovered
<1>10. AllCovered'
  BY <1>1, <1>7, <1>9, CoveredFrame, Zenon DEF CreditInv, AllCovered
<1>11. ASSUME settle.pc = "never" PROVE Exclusive' /\ Exact'
  <2>1. /\ collect.pc = "idle" /\ submit.ci = ci /\ add.pc = "idle" /\ ci # None
        /\ submit.ci.Settling = FALSE
    BY <1>1, <1>3, <1>11, Zenon DEF CreditInv, Exclusive
  <2>2. Exclusive'
    BY <1>1, <1>4, <1>8, <2>1, Zenon DEF Exclusive
  <2>3. Tracked \subseteq Tracked'
    <3>1. ci' # None
      <4>1. submit'.pc # "idle"
        BY <1>5, Zenon
      <4> QED BY <4>1, SubmitWriteInv, Zenon DEF VoucherInv, InFlight
    <3> QED BY <1>4, <2>1, <3>1, Zenon DEF Tracked, V
  <2>4. add'.pc # "write"
    BY <1>1, <2>1, Zenon
  <2>5. Exact'
    BY <1>1, <1>11, <2>3, <2>4, Zenon DEF CreditInv, Exact
  <2> QED BY <2>2, <2>5
<1> QED BY <1>1, <1>10, <1>11, Zenon DEF CreditInv

LEMMA SubmitWaitFailsCredit == ASSUME VoucherInv, CreditInv, SubmitWaitFails PROVE CreditInv'
<1>1. PICK v : submit' = [submit EXCEPT !.wg = @ \ {v}, !.sent = @ \ {v}]
  BY Zenon DEF SubmitWaitFails
<1>2. UNCHANGED <<actor, pool, ci, add, settle, collect, credit>>
  BY Zenon DEF SubmitWaitFails
<1>3. submit \in SubmitType
  BY Zenon DEF VoucherInv, TypeOK
<1>4. /\ submit'.pc = submit.pc /\ submit'.ci = submit.ci /\ submit'.v = submit.v
      /\ submit'.todo = submit.todo /\ submit'.best = submit.best
  BY <1>1, <1>3, ZenonT(60) DEF SubmitType
<1> QED BY <1>2, <1>4, SubmitMoves, Zenon
-----------------------------------------------------------------------------
(* Settle, after which copies may be out of date, and collecting. *)

LEMMA PoolEmpty ==
  PoolCovered([method |-> "Settle", v |-> None]) /\ PoolCovered([method |-> "Collect", v |-> None])
BY Zenon DEF PoolCovered

(* Once Settle was called only AllCovered is left to show. *)
LEMMA SettledStep ==
  ASSUME CreditInv, UNCHANGED <<actor, add, submit, credit>>, settle'.pc # "never",
         InfoCovered(ci'), InfoCovered(settle'.ci), InfoCovered(collect'.ci),
         PoolCovered(pool')
  PROVE  CreditInv'
<1>1. AllCovered'
  BY CoveredFrame, Zenon DEF CreditInv, AllCovered
<1> QED BY <1>1, Zenon DEF CreditInv

LEMMA SettleCredit == ASSUME VoucherInv, CreditInv, Settle PROVE CreditInv'
<1>1. /\ settle' = [pc |-> "push", res |-> "none", ci |-> ci]
      /\ UNCHANGED <<actor, pool, ci, add, submit, collect, credit>>
  BY Zenon DEF Settle
<1>2. settle'.pc # "never" /\ settle'.ci = ci
  BY <1>1, SMTT(60)
<1> QED BY <1>1, <1>2, SettledStep, Zenon DEF CreditInv, AllCovered

LEMMA SettlingCredit == ASSUME VoucherInv, CreditInv, Settling PROVE CreditInv'
<1> USE PoolEmpty DEF CreditInv, AllCovered
<1>1. settle \in SettleType /\ UNCHANGED <<actor, add, submit, collect, credit>>
  BY Zenon DEF VoucherInv, TypeOK, Settling, SettlePush, SettleWrite, SettleRead,
               SetChannelSettlingAt
<1>2. SettleEnd.pc # "never" /\ InfoCovered(SettleEnd.ci)
  BY Zenon DEF SettleEnd, InfoCovered
<1>3. CASE SettlePush
  <2>1. ci' = ci /\ PoolCovered(pool')
    BY <1>3, Zenon DEF SettlePush, Push, PushFails
  <2>2. CASE settle' = [settle EXCEPT !.pc = "write", !.res = "sent"]
    <3>1. settle'.pc # "never" /\ settle'.ci = settle.ci
      BY <1>1, <2>2, ZenonT(60) DEF SettleType
    <3> QED BY <1>1, <2>1, <3>1, SettledStep, Zenon
  <2> QED BY <1>1, <1>2, <1>3, <2>1, <2>2, SettledStep, Zenon DEF SettlePush
<1>4. CASE SettleWrite
  <2>1. /\ ci' = [settle.ci EXCEPT !.Settling = TRUE] /\ UNCHANGED pool
        /\ settle' = [settle EXCEPT !.pc = "wait", !.ci = None]
    BY <1>4, Zenon DEF SettleWrite
  <2>2. settle'.pc # "never" /\ InfoCovered(settle'.ci)
    BY <1>1, <2>1, ZenonT(60) DEF SettleType, InfoCovered
  <2>3. settle.ci \in ChannelInfo /\ settle.ci # None
    <3>1. settle.pc = "write" /\ settle.pc \in {"push", "write", "save"}
      BY <1>4, Zenon DEF SettleWrite
    <3> QED BY <3>1, Parts, Zenon DEF SettleOK, InfoOK
  <2>4. ci'.Vouchers = settle.ci.Vouchers
    BY <2>1, <2>3, ZenonT(60) DEF ChannelInfo
  <2>5. InfoCovered(ci')
    BY <2>3, <2>4, Zenon DEF InfoCovered
  <2> QED BY <1>1, <2>1, <2>2, <2>5, SettledStep, Zenon
<1>5. CASE SettleRead
  <2>1. UNCHANGED <<pool, ci>>
    BY <1>5, Zenon DEF SettleRead
  <2>2. CASE settle' = [settle EXCEPT !.pc = "save", !.ci = ci]
    <3>1. settle'.pc # "never" /\ settle'.ci = ci
      BY <1>1, <2>2, ZenonT(60) DEF SettleType
    <3> QED BY <1>1, <2>1, <3>1, SettledStep, Zenon
  <2> QED BY <1>1, <1>2, <1>5, <2>1, <2>2, SettledStep, Zenon DEF SettleRead
<1>6. CASE SetChannelSettlingAt
  BY <1>1, <1>2, <1>6, SettledStep, Zenon DEF SetChannelSettlingAt
<1> QED BY <1>3, <1>4, <1>5, <1>6, Zenon DEF Settling

(* The loop has nothing to collect before Settle is called. *)
LEMMA CollectingCredit ==
  ASSUME VoucherInv, CreditInv, CollectForEpoch \/ Collecting PROVE CreditInv'
<1> USE PoolEmpty DEF CreditInv, AllCovered
<1>1. collect \in CollectType /\ UNCHANGED <<actor, add, submit, settle, credit>>
  BY Zenon DEF VoucherInv, TypeOK, CollectForEpoch, Collecting, CollectPush, CollectRead,
               CollectWrite
<1>2. settle'.pc # "never"
  <2>1. CASE CollectForEpoch
    BY <1>1, <2>1, Zenon DEF CollectForEpoch, Exclusive
  <2>2. CASE Collecting
    BY <1>1, <2>2, SMTT(60) DEF Collecting, CollectPush, CollectRead, CollectWrite, Exclusive
  <2> QED BY <2>1, <2>2
<1>3. InfoCovered(NoCollect.ci)
  BY Zenon DEF NoCollect, InfoCovered
<1>4. CASE CollectForEpoch
  <2>1. collect' = [NoCollect EXCEPT !.pc = "push"] /\ UNCHANGED <<pool, ci>>
    BY <1>4, Zenon DEF CollectForEpoch
  <2>2. collect'.ci = None
    BY <2>1, ZenonT(60) DEF NoCollect
  <2> QED BY <1>1, <1>2, <2>1, <2>2, SettledStep, Zenon DEF InfoCovered
<1>5. CASE CollectPush
  <2>1. ci' = ci /\ PoolCovered(pool')
    BY <1>5, Zenon DEF CollectPush, Push, PushFails
  <2>2. CASE collect' = [collect EXCEPT !.pc = "wait", !.res = "sent"]
    <3>1. collect'.ci = collect.ci
      BY <1>1, <2>2, ZenonT(60) DEF CollectType
    <3> QED BY <1>1, <1>2, <2>1, <3>1, SettledStep, Zenon
  <2> QED BY <1>1, <1>2, <1>3, <1>5, <2>1, <2>2, SettledStep, Zenon DEF CollectPush
<1>6. CASE CollectRead
  <2>1. UNCHANGED <<pool, ci>>
    BY <1>6, Zenon DEF CollectRead
  <2>2. CASE collect' = [collect EXCEPT !.pc = "save", !.ci = ci]
    <3>1. collect'.ci = ci
      BY <1>1, <2>2, ZenonT(60) DEF CollectType
    <3> QED BY <1>1, <1>2, <2>1, <3>1, SettledStep, Zenon
  <2> QED BY <1>1, <1>2, <1>3, <1>6, <2>1, <2>2, SettledStep, Zenon DEF CollectRead
<1>7. CASE CollectWrite
  <2>1. /\ collect.pc = "save" /\ ci' = [collect.ci EXCEPT !.Settling = FALSE]
        /\ collect' = NoCollect /\ UNCHANGED pool
    BY <1>7, Zenon DEF CollectWrite
  <2>2. collect.ci \in ChannelInfo /\ collect.ci # None
    BY <2>1, Parts, Zenon DEF CollectOK, InfoOK
  <2>3. ci'.Vouchers = collect.ci.Vouchers
    BY <2>1, <2>2, ZenonT(60) DEF ChannelInfo
  <2>4. InfoCovered(ci')
    BY <2>2, <2>3, Zenon DEF InfoCovered
  <2> QED BY <1>1, <1>2, <1>3, <2>1, <2>4, SettledStep, Zenon
<1> QED BY <1>4, <1>5, <1>6, <1>7, Zenon DEF Collecting

LEMMA CollectCredit == ASSUME VoucherInv, CreditInv, Collect PROVE CreditInv'
<1>1. /\ pool' = [method |-> "Collect", v |-> None]
      /\ UNCHANGED <<actor, ci, add, submit, settle, collect, credit>>
  BY Zenon DEF Collect, Push
<1>2. SubmitCovered(submit') /\ PoolCovered(pool')
  BY <1>1, PoolEmpty, Zenon DEF CreditInv, AllCovered
<1>3. submit'.pc \in {"push", "write"} => submit.pc \in {"push", "write"} /\ submit'.ci = submit.ci
  BY <1>1, Zenon
<1> QED BY <1>1, <1>2, <1>3, SubmitStep, Zenon

(* The actor redeems what was pending, which is covered. *)
LEMMA ExecuteCredit == ASSUME VoucherInv, CreditInv, Execute PROVE CreditInv'
<1>1. PICK ok \in BOOLEAN :
        /\ IF ok THEN ActorStep(pool) ELSE ActorRefuses(pool) /\ UNCHANGED actor
        /\ settle' = Result(settle, "Settle", ok)
        /\ collect' = Result(collect, "Collect", ok)
  BY Zenon DEF Execute
<1>2. /\ pool # None /\ pool' = None /\ UNCHANGED <<ci, add, credit>>
      /\ submit' = [submit EXCEPT !.wg = @ \ submit.sent, !.sent = {}]
  BY Zenon DEF Execute
<1>3. /\ settle'.pc = settle.pc /\ settle'.ci = settle.ci
      /\ collect'.pc = collect.pc /\ collect'.ci = collect.ci
  BY <1>1, ResultOK, Zenon
<1>4. /\ submit'.pc = submit.pc /\ submit'.ci = submit.ci /\ submit'.v = submit.v
      /\ submit'.todo = submit.todo /\ submit'.best = submit.best
  <2>1. submit \in SubmitType
    BY Zenon DEF VoucherInv, TypeOK
  <2> QED BY <1>2, <2>1, ZenonT(60) DEF SubmitType
<1>5. \A l \in Lanes : actor'.lane[l].Redeemed <= credit[l]
  <2>1. actor \in [phase : Phases, Balance : 0..MaxBalance,
                   lane : [Lanes -> [Nonce : 0..MaxNonce, Redeemed : Nat]]]
    BY Zenon DEF VoucherInv, TypeOK
  <2>2. \A l \in Lanes : actor.lane[l].Redeemed <= credit[l]
    BY Zenon DEF CreditInv, AllCovered
  <2>3. CASE pool.method = "Update" /\ actor' = [actor EXCEPT !.lane[pool.v.Lane] =
               [Nonce |-> pool.v.Nonce, Redeemed |-> pool.v.Amount]]
    <3> DEFINE v == pool.v
               n == [Nonce |-> v.Nonce, Redeemed |-> v.Amount]
    <3>1. v.Amount <= credit[v.Lane]
      BY <1>2, <2>3, Zenon DEF CreditInv, AllCovered, PoolCovered, Covered
    <3>2. actor' = [actor EXCEPT !.lane = [actor.lane EXCEPT ![v.Lane] = n]]
      BY <2>3, Zenon
    <3>3. actor'.lane = [actor.lane EXCEPT ![v.Lane] = n]
      BY <2>1, <3>2, ZenonT(60)
    <3>4. n.Redeemed = v.Amount
      BY Zenon
    <3> HIDE DEF n, v
    <3>5. \A l \in Lanes : actor'.lane[l] = IF l = v.Lane THEN n ELSE actor.lane[l]
      BY <2>1, <3>3, ZenonT(60)
    <3> QED BY <2>2, <3>1, <3>4, <3>5, Zenon
  <2>4. CASE \E ph : actor' = [actor EXCEPT !.phase = ph]
    <3>1. actor'.lane = actor.lane
      BY <2>1, <2>4, ZenonT(60)
    <3> QED BY <2>2, <3>1, Zenon
  <2> QED BY <1>1, <2>2, <2>3, <2>4, Zenon DEF ActorStep
<1>6. SubmitCovered(submit') /\ PoolCovered(pool')
  BY <1>2, <1>4, Zenon DEF CreditInv, AllCovered, SubmitCovered, PoolCovered
<1>7. AllCovered'
  BY <1>2, <1>3, <1>5, <1>6, CoveredFrame, Zenon DEF CreditInv, AllCovered
<1>8. ASSUME settle.pc = "never" PROVE Exclusive' /\ Exact'
  BY <1>2, <1>3, <1>4, <1>8, Zenon DEF CreditInv, Exclusive, Exact, Tracked
<1> QED BY <1>3, <1>7, <1>8, Zenon DEF CreditInv

LEMMA NextCredit == ASSUME VoucherInv, CreditInv, [Next]_vars PROVE CreditInv'
<1>1. CASE AllocateLane \/ CreateVoucher \/ Fund \/ Ripen
  BY <1>1, ActorLanes, PayerCredit, Zenon
<1>2. CASE TrackChannel \/ AddVoucherInbound \/ AddCheck \/ AddWrite \/ Execute
  BY <1>2, TrackCredit, AddVoucherInboundCredit, AddCheckCredit, AddWriteCredit,
     ExecuteCredit, Zenon
<1>3. CASE SubmitReturn
  BY <1>3, NoSubmitStep, Zenon DEF SubmitReturn
<1>4. CASE SubmitVouchers \/ Submitting \/ SubmitWaitFails
  BY <1>3, <1>4, SubmitVouchersCredit, SubmitCheckCredit, SubmitChooseCredit,
     SubmitVoucherCredit, SubmitPushCredit, SubmitWriteCredit, SubmitWaitFailsCredit,
     Zenon DEF Submitting
<1>5. CASE Settle \/ Settling \/ CollectForEpoch \/ Collecting \/ Collect
  BY <1>5, SettleCredit, SettlingCredit, CollectingCredit, CollectCredit, Zenon
<1>6. CASE UNCHANGED vars
  BY <1>6, PayerCredit, Zenon DEF vars
<1> QED BY <1>1, <1>2, <1>3, <1>4, <1>5, <1>6, Zenon DEF Next

(* However vouchers arrive, and whatever is submitted meanwhile, the sum   *)
(* that AddVoucherInbound reported for a lane is what the best voucher in  *)
(* the record redeems, and it is never less once Settle, whose writes may  *)
(* drop vouchers from the record, has been called (channel.go:             *)
(* addVoucherUnlocked; manager.go: Settle, SubmitAllVouchers).             *)
THEOREM CreditRedeemable == Spec => []CreditIsRedeemable
<1>1. Init => CreditInv
  BY InitCredit
<1>2. VoucherInv /\ CreditInv /\ [Next]_vars => CreditInv'
  BY NextCredit
<1>3. VoucherInv /\ CreditInv => CreditIsRedeemable
  BY CreditFollows
<1> QED BY <1>1, <1>2, <1>3, VoucherInvariant, PTL DEF Spec
=============================================================================
