-------------------------- MODULE FundsGuarantees --------------------------
(***************************************************************************)
(* What FundsQueue guarantees its callers, proved from FundsInv:           *)
(* it implements FundsRequests, it strands no request in the queue, and    *)
(* the store accounts for the balance of every channel.                    *)
(***************************************************************************)
EXTENDS FundsQueueProofs

USE AmtAssumption, BoundAssumption, NoneAssumption
USE DEF Mcid, Err, QueueCleared, RunAgain, Succeeded
-----------------------------------------------------------------------------
AbsVars == <<Known, Batch>>

(* Steps that FundsRequests does not see. *)
LEMMA KnownFrame ==
  ASSUME UNCHANGED reply,
         \A r \in Req : caller'[r] # caller[r] =>
           \/ reply[r] # None
           \/ /\ caller[r] \in {"idle", "checking", "asking"}
              /\ caller'[r] \in {"checking", "asking", "ready", "failed"}
  PROVE  Known' = Known
BY Zenon DEF Known

LEMMA BatchFrame ==
  ASSUME \A k \in Mcid : /\ msg'[k] # None <=> msg[k] # None
                         /\ msg[k] # None => msg'[k].covers = msg[k].covers
  PROVE  Batch' = Batch
BY Zenon DEF Batch

LEMMA SentIsPaid ==
  ASSUME FundsInv, NEW r \in Req
  PROVE  r \in Requests!Sent <=> \E m \in Mcid : Paid(r, m)
BY Zenon DEF Requests!Sent, Batch, Paid, Pushed

(* The steps of the callers. *)
LEMMA CallerSteps ==
  ASSUME FundsInv, NEW r \in Req,
         GetChannel(r) \/ Enqueue(r) \/ Expire(r) \/ Cancel(r)
            \/ WaitForChannel(r) \/ StopListening(r)
  PROVE  Requests!Next \/ UNCHANGED AbsVars
<1>i. TypeOK /\ CallerInv
  BY Zenon DEF FundsInv
<1> USE <1>i
<1>1. CASE GetChannel(r)
  <2>1. UNCHANGED <<reply, msg>> /\ caller[r] = "idle"
        /\ \A q \in Req : caller'[q] # caller[q] =>
             q = r /\ caller'[q] \in {"checking", "asking"}
    BY <1>1 DEF GetChannel, TypeOK
  <2> QED BY <2>1, KnownFrame, BatchFrame DEF AbsVars
<1>2. CASE Enqueue(r)
  <2>1. /\ UNCHANGED <<reply, msg>> /\ caller[r] = "asking" /\ reply[r] = None
        /\ caller'[r] = "queued" /\ \A q \in Req : q # r => caller'[q] = caller[q]
    BY <1>2 DEF Enqueue, TypeOK, CallerInv
  <2>2. Known[r] = "idle" /\ Known' = [Known EXCEPT ![r] = "waiting"]
    BY <2>1, Zenon DEF Known
  <2>3. Batch' = Batch
    BY <2>1, BatchFrame, Zenon
  <2> QED BY <2>2, <2>3, Zenon DEF Requests!Next, Requests!Ask
<1>3. CASE Cancel(r)
  <2>1. /\ UNCHANGED <<reply, msg>> /\ caller[r] = "queued" /\ reply[r] = None
        /\ caller'[r] = "cancelled" /\ \A q \in Req : q # r => caller'[q] = caller[q]
    BY <1>3 DEF Cancel, TypeOK, CallerInv
  <2>2. Known[r] = "waiting" /\ Known' = [Known EXCEPT ![r] = "cancelled"]
    BY <2>1, Zenon DEF Known
  <2>3. Batch' = Batch
    BY <2>1, BatchFrame, Zenon
  <2> QED BY <2>2, <2>3, Zenon DEF Requests!Next, Requests!Cancel
<1>4. CASE WaitForChannel(r) \/ StopListening(r)
  <2>1. /\ UNCHANGED <<reply, msg>> /\ reply[r] # None
        /\ \A q \in Req : q # r => caller'[q] = caller[q]
    BY <1>4 DEF WaitForChannel, StopListening, TypeOK, CallerInv
  <2> QED BY <2>1, KnownFrame, BatchFrame DEF AbsVars
<1>5. CASE Expire(r)
  <2>1. UNCHANGED <<reply, msg, caller>>
    BY <1>5, Zenon DEF Expire
  <2> QED BY <2>1, KnownFrame, BatchFrame, Zenon DEF AbsVars
<1> QED BY <1>1, <1>2, <1>3, <1>4, <1>5, Zenon

LEMMA PushStep ==
  ASSUME FundsInv, TaskPush
  PROVE  Requests!Next
<1>i. TypeOK /\ MergeInv /\ StoreInv
  BY Zenon DEF FundsInv
<1> USE <1>i
<1> DEFINE n == nmsg + 1
<1>1. /\ pq.pc = "task" /\ pq \in PqType /\ n \in Mcid /\ msg[n] = None
      /\ UNCHANGED <<caller, reply>>
  BY DEF TaskPush, TypeOK, StoreInv, calls
<1>2. /\ pq.covers \subseteq queue /\ pq.covers # {} /\ queue \subseteq Req
      /\ \A r \in queue : Waiting(r) /\ \A m \in Mcid : ~Paid(r, m)
  BY <1>1, Zenon DEF MergeInv, TypeOK
<1>3. PICK new : /\ msg' = [msg EXCEPT ![n] = new] /\ new # None
                 /\ new.covers = pq.covers
  <2>1. PICK ch \in Mcid : msg' = [msg EXCEPT ![n] =
            [channel |-> ch, value |-> pq.sum, covers |-> pq.covers,
             chain |-> "pool", stored |-> "no", wait |-> "none"]]
    BY <1>1, Zenon DEF TaskPush, Fundable, Active
  <2>2. pq.sum \in Nat /\ pq.covers \in SUBSET Req
    BY <1>1, Zenon DEF PqType
  <2> DEFINE new == [channel |-> ch, value |-> pq.sum, covers |-> pq.covers,
                     chain |-> "pool", stored |-> "no", wait |-> "none"]
  <2>3. new \in Message /\ new.covers = pq.covers
    BY <2>2, Zenon DEF Message
  <2>4. msg' = [msg EXCEPT ![n] = new]
    BY <2>1, Zenon
  <2> HIDE DEF new
  <2> QED BY <2>3, <2>4, Zenon
<1> HIDE DEF n
<1>4. Known' = Known
  BY <1>1, KnownFrame, Zenon
<1>5. Batch[n] = {} /\ Batch' = [Batch EXCEPT ![n] = pq.covers]
  BY <1>1, <1>3, Zenon DEF Batch, TypeOK
<1>6. \A r \in pq.covers : Known[r] \in {"waiting", "cancelled"} /\ r \notin Requests!Sent
  <2>1. \A r \in pq.covers : r \notin Requests!Sent
    BY <1>2, SentIsPaid, Zenon
  <2>2. \A r \in pq.covers : Known[r] \in {"waiting", "cancelled"}
    BY <1>2, Zenon DEF Known, Waiting
  <2> QED BY <2>1, <2>2, Zenon
<1>7. Requests!Send(n, pq.covers)
  BY <1>2, <1>4, <1>5, <1>6, Zenon DEF Requests!Send
<1> QED BY <1>1, <1>2, <1>7 DEF Requests!Next

LEMMA SendStep ==
  ASSUME FundsInv, Send
  PROVE  Requests!Next
<1>i. TypeOK /\ CallerInv /\ CompleteInv
  BY Zenon DEF FundsInv
<1> USE <1>i
<1> DEFINE r == pq.cur
<1>1. /\ pq.pc = "send" /\ r \in Req /\ caller[r] = "queued" /\ reply[r] = None
      /\ r \notin inactive /\ UNCHANGED msg /\ r \in ToAnswer
      /\ pq.res \in Mcid \cup {Err}
  BY Zenon DEF Send, CompleteInv, CallerInv, TypeOK, PqType, ToAnswer
<1>2. Batch' = Batch
  BY <1>1, BatchFrame, Zenon
<1>3. CASE pq.res = Err
  <2>1. /\ caller'[r] = "refused" /\ reply'[r] = None
        /\ \A q \in Req : q # r => caller'[q] = caller[q] /\ reply'[q] = reply[q]
    BY <1>1, <1>3, Zenon DEF Send, TypeOK
  <2> HIDE DEF r
  <2>2. Known[r] = "waiting" /\ Known' = [Known EXCEPT ![r] = "refused"]
    BY <1>1, <2>1, Zenon DEF Known
  <2>3. r \notin Requests!Sent
    BY <1>1, <1>3, SentIsPaid, Zenon DEF CompleteInv
  <2> QED BY <1>1, <1>2, <2>2, <2>3, Zenon DEF Requests!Next, Requests!Refuse
<1>4. CASE pq.res # Err
  <2>1. /\ reply'[r] = pq.res /\ pq.res # None
        /\ \A q \in Req : q # r => caller'[q] = caller[q] /\ reply'[q] = reply[q]
    BY <1>1, <1>4 DEF Send, TypeOK
  <2>2. Paid(r, pq.res) /\ pq.res \in Mcid
    BY <1>1, <1>4, Zenon DEF CompleteInv, Paid
  <2> HIDE DEF r
  <2>3. Known[r] = "waiting" /\ Known' = [Known EXCEPT ![r] = "answered"]
    BY <1>1, <2>1, ZenonT(60) DEF Known
  <2>4. r \in Requests!Sent
    BY <1>1, <2>2, SentIsPaid, Zenon
  <2> QED BY <1>1, <1>2, <2>3, <2>4, Zenon DEF Requests!Next, Requests!Answer
<1> QED BY <1>3, <1>4, Zenon

(* The other steps of processQueue show nothing to FundsRequests. *)
LEMMA QueueSteps ==
  ASSUME FundsInv,
         (\E by \in Req \cup {None} : Start(by)) \/ Sum \/ TaskWait \/ TaskFail
           \/ StoreMessage \/ Complete \/ SendExpired \/ Return
  PROVE  UNCHANGED AbsVars
<1>i. TypeOK /\ MergeInv /\ StoreInv
  BY Zenon DEF FundsInv
<1> USE <1>i
<1>1. CASE (\E by \in Req \cup {None} : Start(by)) \/ Sum \/ TaskWait \/ TaskFail
             \/ Complete \/ SendExpired
  <2>1. UNCHANGED <<caller, reply, msg>>
    BY <1>1, Zenon DEF Start, Sum, TaskWait, TaskFail, Complete, SendExpired, calls
  <2> QED BY <2>1, KnownFrame, BatchFrame, Zenon DEF AbsVars
<1>2. CASE StoreMessage
  <2>1. UNCHANGED <<caller, reply>>
    BY <1>2, Zenon DEF StoreMessage, calls
  <2>2. /\ pq.res \in Mcid /\ msg[pq.res] \in Message
        /\ msg' = [msg EXCEPT ![pq.res] =
                     [msg[pq.res] EXCEPT !.stored = "sent", !.wait = "waiting"]]
    <3>1. pq.res \in Mcid /\ msg[pq.res] \in Message
      BY <1>2 DEF StoreMessage, StoreInv, TypeOK, PqType, Pushed
    <3> QED BY <1>2, <3>1, Zenon DEF StoreMessage, TypeOK
  <2>3. \A y \in Message : LET z == [y EXCEPT !.stored = "sent", !.wait = "waiting"]
                           IN z \in Message /\ z.covers = y.covers
    BY Zenon DEF Message
  <2>4. \A k \in Mcid : /\ msg'[k] # None <=> msg[k] # None
                        /\ msg[k] # None => msg'[k].covers = msg[k].covers
    <3>1. PICK z \in Message : msg' = [msg EXCEPT ![pq.res] = z] /\ z.covers = msg[pq.res].covers
      BY <2>2, <2>3, Zenon
    <3> QED BY <2>2, <3>1, ZenonT(30) DEF TypeOK
  <2> QED BY <2>1, <2>4, KnownFrame, BatchFrame, Zenon DEF AbsVars
<1>3. CASE Return
  <2>1. /\ UNCHANGED <<reply, msg>>
        /\ \A q \in Req : caller'[q] # caller[q] =>
             q = pq.by /\ caller'[q] \in {"ready", "asking", "failed"}
    BY <1>3, ZenonT(60) DEF Return, TypeOK
  <2>2. pq.by # None => caller[pq.by] = "checking"
    BY Zenon DEF MergeInv
  <2> QED BY <2>1, <2>2, KnownFrame, BatchFrame, Zenon DEF AbsVars
<1> QED BY <1>1, <1>2, <1>3, Zenon

(* Nor do the steps of the chain and of the goroutines. *)
LEMMA ChainSteps ==
  ASSUME FundsInv, NEW m \in Mcid,
         Exec(m) \/ WaitMsg(m) \/ WaitFails(m) \/ MsgWaitComplete(m)
           \/ CreateVoucher(m) \/ Settle(m)
  PROVE  UNCHANGED AbsVars
<1>i. TypeOK /\ CallerInv
  BY Zenon DEF FundsInv
<1> USE <1>i
<1>1. Known' = Known
  <2>1. CASE MsgWaitComplete(m)
    <3>1. /\ UNCHANGED reply
          /\ \A q \in Req : caller'[q] # caller[q] => caller[q] = "listening"
      BY <2>1, Zenon DEF MsgWaitComplete, TypeOK
    <3>2. \A q \in Req : caller[q] = "listening" => reply[q] # None
      BY Zenon DEF CallerInv
    <3> QED BY <3>1, <3>2, KnownFrame, Zenon
  <2>2. CASE ~MsgWaitComplete(m)
    <3>1. UNCHANGED <<caller, reply>>
      BY <2>2, Zenon DEF Exec, WaitMsg, WaitFails, CreateVoucher, Settle, calls
    <3> QED BY <3>1, KnownFrame, Zenon
  <2> QED BY <2>1, <2>2, Zenon
<1>2. Batch' = Batch
  <2>1. CASE CreateVoucher(m) \/ Settle(m)
    BY <2>1, BatchFrame DEF CreateVoucher, Settle
  <2>2. CASE ~(CreateVoucher(m) \/ Settle(m))
    <3>1. msg[m] \in Message
      BY <2>2 DEF Exec, WaitMsg, WaitFails, MsgWaitComplete, TypeOK
    <3>2. PICK z \in Message : msg' = [msg EXCEPT ![m] = z] /\ z.covers = msg[m].covers
      <4>1. \A y \in Message, ch \in {"ok", "failed"} : LET z == [y EXCEPT !.chain = ch]
                           IN z \in Message /\ z.covers = y.covers
        BY Zenon DEF Message
      <4>2. \A y \in Message, w \in {"ok", "err"} : LET z == [y EXCEPT !.wait = w]
                           IN z \in Message /\ z.covers = y.covers
        BY Zenon DEF Message
      <4>3. \A y \in Message, w \in {"ok", "err"} :
              LET z == [y EXCEPT !.stored = w, !.wait = "done"]
              IN z \in Message /\ z.covers = y.covers
        BY Zenon DEF Message
      <4>4. CASE Exec(m)
        <5>1. PICK ch \in {"ok", "failed"} : msg' = [msg EXCEPT ![m] = [msg[m] EXCEPT !.chain = ch]]
          BY <4>4, Zenon DEF Exec, TypeOK
        <5> QED BY <3>1, <4>1, <5>1, Zenon
      <4>5. CASE WaitMsg(m) \/ WaitFails(m)
        <5>1. PICK w \in {"ok", "err"} : msg' = [msg EXCEPT ![m] = [msg[m] EXCEPT !.wait = w]]
          BY <4>5 DEF WaitMsg, WaitFails, TypeOK
        <5> QED BY <3>1, <4>2, <5>1, Zenon
      <4>6. CASE MsgWaitComplete(m)
        <5>1. PICK w \in {"ok", "err"} :
                msg' = [msg EXCEPT ![m] = [msg[m] EXCEPT !.stored = w, !.wait = "done"]]
          BY <4>6, Zenon DEF MsgWaitComplete, TypeOK
        <5> QED BY <3>1, <4>3, <5>1, Zenon
      <4> QED BY <2>2, <4>4, <4>5, <4>6, Zenon
    <3> QED BY <3>1, <3>2, BatchFrame, Zenon DEF TypeOK
  <2> QED BY <2>1, <2>2, Zenon
<1> QED BY <1>1, <1>2, Zenon DEF AbsVars

LEMMA RestartStep ==
  ASSUME FundsInv, NEW stopped \in [Req -> Callers], Restart(stopped),
         \A r \in Req : stopped[r] # caller[r] =>
                        stopped[r] = "panic" /\ caller[r] = "checking"
  PROVE  Requests!Next
<1>i. TypeOK
  BY Zenon DEF FundsInv
<1> USE <1>i
<1> DEFINE S == {r \in Req : Known[r] # Known'[r]}
<1>1. /\ UNCHANGED reply
      /\ \A r \in Req : \/ caller'[r] = caller[r] /\ caller[r] \in Returned \cup {"idle"}
                        \/ caller'[r] = "gone" /\ caller[r] \notin Returned
                        \/ caller'[r] = "panic" /\ caller[r] = "checking"
  BY Zenon DEF Restart, Returned, Callers
<1>2. ASSUME NEW r \in Req
      PROVE  \/ Known'[r] = Known[r]
             \/ Known'[r] = "gone" /\ Known[r] \in {"idle", "waiting"}
  BY <1>1, Zenon DEF Known, Returned
<1>3. Known' = [r \in Req |-> IF r \in S THEN "gone" ELSE Known[r]]
  <2>1. Known' = [r \in Req |-> Known'[r]]
    BY Zenon DEF Known
  <2> QED BY <1>2, <2>1, Zenon
<1>4. Batch' = Batch
  <2>1. \A y \in Message : LET z == [y EXCEPT !.wait = "none"]
                           IN z \in Message /\ z.covers = y.covers
    BY Zenon DEF Message
  <2>2. ASSUME NEW k \in Mcid
        PROVE  /\ msg'[k] # None <=> msg[k] # None
               /\ msg[k] # None => msg'[k].covers = msg[k].covers
    <3>1. CASE msg[k] = None
      BY <3>1 DEF Restart
    <3>2. CASE msg[k] # None
      <4>1. PICK y \in Message : y = msg[k] /\ msg'[k] = [y EXCEPT !.wait = "none"]
        BY <3>2, Zenon DEF Restart, TypeOK
      <4>2. msg'[k] \in Message /\ msg'[k].covers = y.covers
        BY <2>1, <4>1
      <4> QED BY <3>2, <4>1, <4>2
    <3> QED BY <3>1, <3>2, Zenon
  <2> QED BY <2>2, BatchFrame, Zenon
<1>5. \A r \in S : Known[r] \in {"idle", "waiting"}
  BY <1>2, Zenon
<1>6. S \in SUBSET Req
  OBVIOUS
<1> HIDE DEF S
<1> QED BY <1>3, <1>4, <1>5, <1>6, Zenon DEF Requests!Next, Requests!Lose

(* Every step of the payments manager is a step of FundsRequests or leaves *)
(* what the callers of get know, and what the messages carry, unchanged.   *)
LEMMA NextStep ==
  ASSUME FundsInv, [Next]_vars
  PROVE  [Requests!Next]_AbsVars
<1>i. TypeOK /\ MergeInv
  BY Zenon DEF FundsInv
<1> USE <1>i
<1>1. ASSUME NEW r \in Req,
             GetChannel(r) \/ Enqueue(r) \/ Expire(r) \/ Cancel(r)
                \/ WaitForChannel(r) \/ StopListening(r)
      PROVE  [Requests!Next]_AbsVars
  BY <1>1, CallerSteps, Zenon
<1>2. CASE Crash
  <2>1. caller \in [Req -> Callers] /\ Restart(caller)
    BY <1>2, Zenon DEF Crash, TypeOK
  <2> QED BY <2>1, RestartStep, Zenon
<1>3. CASE ReturnNil
  <2> DEFINE stopped == [caller EXCEPT ![pq.by] = "panic"]
  <2>1. pq.by \in Req /\ caller[pq.by] = "checking" /\ caller \in [Req -> Callers]
    BY <1>3, Zenon DEF MergeInv, ReturnNil, TypeOK, PqType
  <2>2. /\ stopped \in [Req -> Callers]
        /\ \A r \in Req : stopped[r] # caller[r] =>
                            stopped[r] = "panic" /\ caller[r] = "checking"
    BY <2>1, Zenon DEF Callers
  <2>3. Restart(stopped)
    BY <1>3, Zenon DEF ReturnNil
  <2> HIDE DEF stopped
  <2> QED BY <2>2, <2>3, RestartStep
<1>4. CASE ProcessQueue
  BY <1>3, <1>4, QueueSteps, PushStep, SendStep, Zenon DEF ProcessQueue
<1>5. ASSUME NEW m \in Mcid,
             Exec(m) \/ WaitMsg(m) \/ WaitFails(m) \/ MsgWaitComplete(m)
                \/ CreateVoucher(m) \/ Settle(m)
      PROVE  [Requests!Next]_AbsVars
  BY <1>5, ChainSteps, Zenon
<1>6. CASE UNCHANGED vars
  BY <1>6, Zenon DEF vars, AbsVars, Known, Batch
<1> QED BY <1>1, <1>2, <1>4, <1>5, <1>6, Zenon DEF Next

(* The funding queue, with its merging, cancelling, retrying and crashing, *)
(* implements what get promises to its callers.                            *)
THEOREM QueueImplementsRequests == Spec => ImplementsRequests
<1>1. Init => Requests!Init
  BY Zenon DEF Init, Requests!Init, Known, Batch
<1>2. FundsInv /\ [Next]_vars => [Requests!Next]_AbsVars
  BY NextStep, Zenon
<1> QED BY <1>1, <1>2, FundsInvariant, PTL
    DEF Spec, ImplementsRequests, Requests!Spec, AbsVars
-----------------------------------------------------------------------------
(* No request is stranded in the queue.  What the record of a channel      *)
(* waits for is in flight, and once processQueue is about to return what   *)
(* it leaves in the queue has somebody who will run it again.              *)
Awaited(c) == {info[c].CreateMsg, info[c].AddFundsMsg} \ {None}

WillRun == procs > 0 \/ Completing # {} \/ InFlight # {}

WakeInv ==
  /\ pq.pc = "sum" /\ pq.sum = 0 => pq.covers = {}
  /\ ("wait" \notin Faults /\ crashes = 0) =>
       /\ \A c \in Mcid : info[c] # None =>
            \A m \in Awaited(c) : m \in InFlight /\ msg[m].channel = c
       /\ pq.pc \in {"idle", "return"} => \A r \in queue : IsActive(r) => WillRun

(* Steps that complete no message and add nothing to the queue. *)
LEMMA WakeKeep ==
  ASSUME WakeInv, crashes' = crashes, queue' \subseteq queue, inactive \subseteq inactive',
         procs \in Nat, procs' \in Nat, procs <= procs',
         pq'.pc = "sum" /\ pq'.sum = 0 => pq'.covers = {},
         pq'.pc \in {"idle", "return"} => pq.pc \in {"idle", "return"},
         \A c \in Mcid : info'[c] # None =>
           info[c] # None /\ info'[c].CreateMsg = info[c].CreateMsg
             /\ info'[c].AddFundsMsg = info[c].AddFundsMsg,
         \A m \in Mcid : msg[m] # None =>
           msg'[m] # None /\ msg'[m].wait = msg[m].wait /\ msg'[m].channel = msg[m].channel
  PROVE  WakeInv'
<1>1. InFlight \subseteq InFlight' /\ Completing \subseteq Completing'
  BY Zenon DEF InFlight, Completing, Pushed
<1>a. \A m \in InFlight : msg'[m].channel = msg[m].channel
  BY Zenon DEF InFlight, Pushed
<1>2. WillRun => WillRun'
  BY <1>1 DEF WillRun
<1>3. \A c \in Mcid : info'[c] # None => Awaited(c)' = Awaited(c)
  BY Zenon DEF Awaited
<1> QED BY <1>1, <1>a, <1>2, <1>3 DEF WakeInv, IsActive

LEMMA CallerWake ==
  ASSUME FundsInv, WakeInv, NEW r \in Req,
         GetChannel(r) \/ Expire(r) \/ Cancel(r) \/ WaitForChannel(r) \/ StopListening(r)
  PROVE  WakeInv'
<1>i. TypeOK
  BY Zenon DEF FundsInv
<1> USE <1>i
<1>1. UNCHANGED <<queue, procs, pq, info, msg, crashes>> /\ inactive \subseteq inactive'
  BY Zenon DEF GetChannel, Expire, Cancel, WaitForChannel, StopListening
<1>2. procs \in Nat
  BY Zenon DEF TypeOK
<1> QED BY <1>1, <1>2, WakeKeep DEF WakeInv

LEMMA EnqueueWake ==
  ASSUME FundsInv, WakeInv, NEW r \in Req, Enqueue(r)
  PROVE  WakeInv'
<1>i. TypeOK
  BY Zenon DEF FundsInv
<1> USE <1>i
<1>1. /\ UNCHANGED <<inactive, pq, info, msg, crashes>> /\ procs' = procs + 1
      /\ procs \in Nat
  BY Zenon DEF Enqueue, TypeOK
<1>2. WillRun'
  BY <1>1 DEF WillRun
<1>3. InFlight' = InFlight /\ \A c \in Mcid : Awaited(c)' = Awaited(c)
  BY <1>1, Zenon DEF InFlight, Pushed, Awaited
<1> QED BY <1>1, <1>2, <1>3 DEF WakeInv

(* The lock is held and processQueue is not about to return. *)
LEMMA BusyWake ==
  ASSUME WakeInv, UNCHANGED <<info, msg, crashes>>,
         pq'.pc \notin {"idle", "return"},
         pq'.pc = "sum" /\ pq'.sum = 0 => pq'.covers = {}
  PROVE  WakeInv'
<1>1. InFlight' = InFlight /\ \A c \in Mcid : Awaited(c)' = Awaited(c)
  BY Zenon DEF InFlight, Pushed, Awaited
<1> QED BY <1>1, ZenonT(60) DEF WakeInv

LEMMA StartWake ==
  ASSUME FundsInv, WakeInv, NEW by \in Req \cup {None}, Start(by)
  PROVE  WakeInv'
<1>1. /\ UNCHANGED <<info, msg, crashes>>
      /\ IF queue' = {} THEN pq'.pc = "return" ELSE pq'.pc = "sum"
      /\ pq'.covers = {}
  BY Zenon DEF Start, Idle
<1>2. CASE queue' = {}
  <2>1. InFlight' = InFlight /\ \A c \in Mcid : Awaited(c)' = Awaited(c)
    BY <1>1, Zenon DEF InFlight, Pushed, Awaited
  <2> QED BY <1>1, <1>2, <2>1, ZenonT(60) DEF WakeInv
<1>3. CASE queue' # {}
  BY <1>1, <1>3, BusyWake, Zenon
<1> QED BY <1>2, <1>3, Zenon

LEMMA SumWake ==
  ASSUME FundsInv, WakeInv, Sum
  PROVE  WakeInv'
<1>i. TypeOK /\ MergeInv
  BY Zenon DEF FundsInv
<1> USE <1>i
<1>0. UNCHANGED <<queue, inactive, procs, info, msg, crashes>> /\ pq \in PqType /\ pq.pc = "sum"
  BY Zenon DEF Sum, calls, TypeOK
<1>1. ASSUME NEW r \in pq.todo,
             pq' = [pq EXCEPT !.todo = @ \ {r}, !.sum = @ + Amt[r], !.covers = @ \cup {r}]
      PROVE  WakeInv'
  <2>1. pq'.pc = "sum" /\ pq'.sum = pq.sum + Amt[r]
    BY <1>0, <1>1, Zenon DEF PqType
  <2>2. pq.sum \in Nat /\ Amt[r] \in Nat \ {0}
    BY <1>0, Zenon DEF PqType
  <2>3. pq'.sum # 0
    BY <2>1, <2>2
  <2> QED BY <1>0, <2>1, <2>3, BusyWake, Zenon
<1>2. ASSUME NEW r \in pq.todo, pq' = [pq EXCEPT !.todo = @ \ {r}]
      PROVE  WakeInv'
  <2>1. pq'.pc = "sum" /\ pq'.sum = pq.sum /\ pq'.covers = pq.covers
    BY <1>0, <1>2, Zenon DEF PqType
  <2> QED BY <1>0, <2>1, BusyWake, Zenon DEF WakeInv
<1>3. CASE pq.todo = {} /\ pq' = [pq EXCEPT !.pc = IF pq.sum = 0 THEN "return" ELSE "task"]
  <2>1. CASE pq.sum = 0
    <3>1. pq'.pc = "return"
      BY <1>0, <1>3, <2>1, Zenon DEF PqType
    <3>2. \A r \in queue : ~IsActive(r)
      BY <1>0, <1>3, <2>1 DEF WakeInv, MergeInv, IsActive
    <3>3. InFlight' = InFlight /\ \A c \in Mcid : Awaited(c)' = Awaited(c)
      BY <1>0, Zenon DEF InFlight, Pushed, Awaited
    <3> QED BY <1>0, <3>1, <3>2, <3>3, ZenonT(60) DEF WakeInv, IsActive
  <2>2. CASE pq.sum # 0
    <3>1. pq'.pc = "task"
      BY <1>0, <1>3, <2>2, Zenon DEF PqType
    <3> QED BY <1>0, <3>1, BusyWake, Zenon
  <2> QED BY <2>1, <2>2, Zenon
<1> QED BY <1>1, <1>2, <1>3, Zenon DEF Sum

LEMMA TaskWaitWake ==
  ASSUME FundsInv, WakeInv, TaskWait
  PROVE  WakeInv'
<1>i. TypeOK
  BY Zenon DEF FundsInv
<1> USE <1>i
<1>1. /\ UNCHANGED <<queue, inactive, procs, info, msg, crashes>>
      /\ pq'.pc = "return"
  BY Zenon DEF TaskWait, calls, TypeOK, PqType
<1>2. PICK c \in Mcid : info[c] # None /\ Awaited(c) # {}
  BY Zenon DEF TaskWait, Active, Awaited
<1>3. InFlight' = InFlight /\ Completing' = Completing /\ \A k \in Mcid : Awaited(k)' = Awaited(k)
  BY <1>1, Zenon DEF InFlight, Completing, Pushed, Awaited
<1>4. ("wait" \notin Faults /\ crashes = 0) => WillRun'
  BY <1>2, <1>3, Zenon DEF WakeInv, WillRun
<1> QED BY <1>1, <1>3, <1>4 DEF WakeInv

LEMMA TaskFailWake ==
  ASSUME FundsInv, WakeInv, TaskFail
  PROVE  WakeInv'
<1>i. TypeOK
  BY Zenon DEF FundsInv
<1> USE <1>i
<1>1. UNCHANGED <<info, msg, crashes>> /\ pq'.pc = "complete"
  BY Zenon DEF TaskFail, TypeOK, PqType
<1> QED BY <1>1, BusyWake, Zenon

LEMMA TaskPushWake ==
  ASSUME FundsInv, WakeInv, TaskPush
  PROVE  WakeInv'
<1>i. TypeOK /\ StoreInv
  BY Zenon DEF FundsInv
<1> USE <1>i
<1>1. /\ UNCHANGED <<queue, inactive, procs, info, crashes>> /\ pq'.pc = "store"
      /\ procs \in Nat
  BY Zenon DEF TaskPush, calls, TypeOK, PqType
<1>2. \A m \in Mcid : msg[m] # None => msg'[m] = msg[m]
  <2>1. nmsg \in Nat /\ msg[nmsg + 1] = None
    BY DEF TaskPush, TypeOK, StoreInv
  <2> QED BY <2>1 DEF TaskPush
<1> QED BY <1>1, <1>2, WakeKeep

LEMMA StoreMessageWake ==
  ASSUME FundsInv, WakeInv, StoreMessage
  PROVE  WakeInv'
<1>i. TypeOK /\ StoreInv
  BY Zenon DEF FundsInv
<1> USE <1>i
<1>a. pq.res \in Mcid /\ msg[pq.res] \in Message /\ msg[pq.res].channel \in Mcid
  BY DEF StoreMessage, StoreInv, TypeOK, PqType, Message, Pushed
<1>b. PICK m \in Mcid, c \in Mcid : m = pq.res /\ c = msg[m].channel
  BY <1>a, Zenon
<1>0. /\ msg[m] # None /\ msg[m] \in Message
      /\ pq \in PqType /\ msg \in [Mcid -> Message \cup {None}]
      /\ info \in [Mcid -> ChannelInfo \cup {None}]
  BY <1>a, <1>b, Zenon DEF TypeOK
<1>1. crashes' = crashes /\ pq'.pc = "complete"
  BY <1>0, Zenon DEF StoreMessage, PqType
<1>2. /\ \A k \in Mcid : msg[k] # None => msg'[k] # None
      /\ \A k \in Mcid : k # m => msg'[k] = msg[k]
      /\ msg'[m].wait = "waiting" /\ msg'[m].channel = c
  <2>1. /\ \A k \in Mcid : k # m => msg'[k] = msg[k]
        /\ msg'[m] = [msg[m] EXCEPT !.stored = "sent", !.wait = "waiting"]
    BY <1>0, <1>b, Zenon DEF StoreMessage
  <2>2. msg'[m].wait = "waiting" /\ msg'[m] \in Message /\ msg'[m].channel = c
    BY <1>0, <1>b, <2>1, ZenonT(30) DEF Message
  <2> QED BY <2>1, <2>2, Zenon
<1>3. InFlight \subseteq InFlight' /\ m \in InFlight'
  BY <1>0, <1>2, Zenon DEF InFlight, Pushed
<1>4. /\ \A k \in Mcid : k # c => info'[k] = info[k]
      /\ info'[c].CreateMsg \in {m, None} /\ info'[c].AddFundsMsg \in {m, None}
  <2>1. CASE c = m
    BY <1>0, <1>b, <2>1, Zenon DEF StoreMessage
  <2>2. CASE c # m
    <3>1. info[c] # None /\ info[c].CreateMsg = None /\ info[c] \in ChannelInfo
      BY <1>0, <1>b, <2>2 DEF StoreMessage, StoreInv
    <3>2. /\ \A k \in Mcid : k # c => info'[k] = info[k]
          /\ info'[c] = [info[c] EXCEPT !.PendingAmount = msg[m].value, !.AddFundsMsg = m]
      BY <1>0, <1>b, <2>2, Zenon DEF StoreMessage
    <3>3. info'[c].CreateMsg = None /\ info'[c].AddFundsMsg = m
      BY <3>1, <3>2, Zenon DEF ChannelInfo
    <3> QED BY <3>2, <3>3, Zenon
  <2> QED BY <2>1, <2>2, Zenon
<1>5. Awaited(c)' \subseteq {m} /\ \A k \in Mcid : k # c => Awaited(k)' = Awaited(k)
  BY <1>0, <1>4, Zenon DEF Awaited
<1>6. ASSUME "wait" \notin Faults, crashes = 0,
             NEW k \in Mcid, info'[k] # None, NEW n \in Awaited(k)'
      PROVE  n \in InFlight' /\ msg'[n].channel = k
  <2>1. CASE k = c
    BY <1>2, <1>3, <1>5, <1>6, <2>1, Zenon
  <2>2. CASE k # c
    <3>1. n \in InFlight /\ msg[n].channel = k /\ n \in Mcid
      BY <1>4, <1>5, <1>6, <2>2 DEF WakeInv, InFlight
    <3>2. msg'[n].channel = msg[n].channel
      BY <1>0, <1>b, <1>2, <3>1, Zenon
    <3> QED BY <1>3, <3>1, <3>2, Zenon
  <2> QED BY <2>1, <2>2, Zenon
<1> QED BY <1>1, <1>6, Zenon DEF WakeInv

LEMMA CompleteWake ==
  ASSUME FundsInv, WakeInv, Complete
  PROVE  WakeInv'
<1>i. TypeOK /\ CompleteInv
  BY Zenon DEF FundsInv
<1> USE <1>i
<1>1. /\ UNCHANGED <<queue, inactive, procs, info, msg, crashes>>
      /\ pq'.pc \in {"return", "send", "complete"} /\ queue = {}
  BY ZenonT(30) DEF Complete, calls, CompleteInv, TypeOK, PqType
<1>2. InFlight' = InFlight /\ \A k \in Mcid : Awaited(k)' = Awaited(k)
  BY <1>1, Zenon DEF InFlight, Pushed, Awaited
<1> QED BY <1>1, <1>2 DEF WakeInv

LEMMA SendWake ==
  ASSUME FundsInv, WakeInv, Send \/ SendExpired
  PROVE  WakeInv'
<1>i. TypeOK
  BY Zenon DEF FundsInv
<1> USE <1>i
<1>1. UNCHANGED <<info, msg, crashes>> /\ pq'.pc = "complete"
  BY ZenonT(30) DEF Send, SendExpired, TypeOK, PqType
<1> QED BY <1>1, BusyWake, Zenon

LEMMA ReturnWake ==
  ASSUME FundsInv, WakeInv, Return
  PROVE  WakeInv'
<1>i. TypeOK
  BY Zenon DEF FundsInv
<1> USE <1>i
<1>1. /\ UNCHANGED <<queue, inactive, procs, info, msg, crashes>>
      /\ pq'.pc = "idle" /\ pq.pc = "return" /\ procs \in Nat
  BY Zenon DEF Return, Idle, TypeOK
<1> QED BY <1>1, WakeKeep

LEMMA RestartWake ==
  ASSUME FundsInv, WakeInv, NEW stopped, Restart(stopped)
  PROVE  WakeInv'
<1>i. TypeOK
  BY Zenon DEF FundsInv
<1> USE <1>i
<1>1. pq'.pc = "idle" /\ crashes' # 0
  BY SMTT(60) DEF Restart, Idle, TypeOK
<1> QED BY <1>1, Zenon DEF WakeInv

LEMMA ExecWake ==
  ASSUME FundsInv, WakeInv, NEW m \in Mcid, Exec(m)
  PROVE  WakeInv'
<1>i. TypeOK
  BY Zenon DEF FundsInv
<1> USE <1>i
<1>1. UNCHANGED <<queue, inactive, procs, pq, info, crashes>> /\ procs \in Nat
  BY Zenon DEF Exec, calls, TypeOK
<1>2. PICK x \in {"ok", "failed"} : msg' = [msg EXCEPT ![m].chain = x]
  BY Zenon DEF Exec
<1>3. msg \in [Mcid -> Message \cup {None}] /\ msg[m] \in Message
  BY Zenon DEF Exec, TypeOK
<1>4. /\ \A k \in Mcid : k # m => msg'[k] = msg[k]
      /\ msg'[m] = [msg[m] EXCEPT !.chain = x]
  BY <1>2, <1>3, Zenon
<1>5. msg'[m] \in Message /\ msg'[m].wait = msg[m].wait /\ msg'[m].channel = msg[m].channel
  BY <1>3, <1>4, Zenon DEF Message
<1>6. \A k \in Mcid : msg[k] # None =>
        msg'[k] # None /\ msg'[k].wait = msg[k].wait /\ msg'[k].channel = msg[k].channel
  BY <1>4, <1>5, Zenon
<1> QED BY <1>1, <1>6, WakeKeep DEF WakeInv

LEMMA ChannelWake ==
  ASSUME FundsInv, WakeInv, NEW c \in Mcid, CreateVoucher(c) \/ Settle(c)
  PROVE  WakeInv'
<1>i. TypeOK
  BY Zenon DEF FundsInv
<1> USE <1>i
<1>1. UNCHANGED <<queue, inactive, procs, pq, msg, crashes>> /\ procs \in Nat
  BY Zenon DEF CreateVoucher, Settle, calls, TypeOK
<1>2. /\ info[c] \in ChannelInfo /\ info[c] # None
      /\ info \in [Mcid -> ChannelInfo \cup {None}]
  BY Zenon DEF CreateVoucher, Settle, TypeOK
<1>3. /\ \A k \in Mcid : k # c => info'[k] = info[k]
      /\ info'[c].CreateMsg = info[c].CreateMsg
      /\ info'[c].AddFundsMsg = info[c].AddFundsMsg
  <2>1. CASE Settle(c)
    <3>1. /\ \A k \in Mcid : k # c => info'[k] = info[k]
          /\ info'[c] = [info[c] EXCEPT !.Settling = TRUE]
      BY <1>2, <2>1, Zenon DEF Settle
    <3> QED BY <1>2, <3>1, Zenon DEF ChannelInfo
  <2>2. CASE CreateVoucher(c)
    <3>1. PICK total, am : info' = [info EXCEPT ![c] =
                             [info[c] EXCEPT !.Redeemed = total, !.Amount = am]]
      <4>1. PICK total \in info[c].Redeemed + 1 .. bal[c] :
              info' = [info EXCEPT ![c].Redeemed = total,
                                   ![c].Amount = IF @ < bal[c] THEN bal[c] ELSE @]
        BY <2>2, Zenon DEF CreateVoucher
      <4>2. info' = [info EXCEPT ![c] = [info[c] EXCEPT !.Redeemed = total,
                       !.Amount = IF info[c].Amount < bal[c] THEN bal[c] ELSE info[c].Amount]]
        BY <1>2, <4>1, Zenon DEF ChannelInfo
      <4> QED BY <4>2, Zenon
    <3>2. /\ \A k \in Mcid : k # c => info'[k] = info[k]
          /\ info'[c] = [info[c] EXCEPT !.Redeemed = total, !.Amount = am]
      BY <1>2, <3>1, Zenon
    <3> QED BY <1>2, <3>2, Zenon DEF ChannelInfo
  <2> QED BY <2>1, <2>2, Zenon
<1> QED BY <1>1, <1>2, <1>3, WakeKeep DEF WakeInv

LEMMA WaitFailsWake ==
  ASSUME FundsInv, WakeInv, NEW m \in Mcid, WaitFails(m)
  PROVE  WakeInv'
<1>1. "wait" \in Faults /\ UNCHANGED pq
  BY Zenon DEF WaitFails
<1> QED BY <1>1, Zenon DEF WakeInv

(* The message leaves the record of its channel when it leaves flight. *)
LEMMA WaitMsgWake ==
  ASSUME FundsInv, WakeInv, NEW m \in Mcid, WaitMsg(m)
  PROVE  WakeInv'
<1>i. TypeOK /\ StoreInv /\ PendingIsOwn
  BY Zenon DEF FundsInv
<1> USE <1>i
<1> DEFINE c == msg[m].channel
<1>1. /\ UNCHANGED <<queue, inactive, procs, pq, crashes>> /\ pq.pc = "idle"
      /\ msg \in [Mcid -> Message \cup {None}] /\ msg[m] # None /\ msg[m] \in Message
      /\ info \in [Mcid -> ChannelInfo \cup {None}] /\ c \in Mcid /\ msg[m].wait = "waiting"
  BY Zenon DEF WaitMsg, Unlocked, calls, TypeOK, Message
<1>2. PICK w \in {"ok", "err"} : msg' = [msg EXCEPT ![m].wait = w]
  BY Zenon DEF WaitMsg
<1>3. /\ \A k \in Mcid : k # m => msg'[k] = msg[k]
      /\ msg'[m] = [msg[m] EXCEPT !.wait = w]
  BY <1>1, <1>2, Zenon
<1>4. msg'[m] \in Message /\ msg'[m].wait = w
  BY <1>1, <1>3, Zenon DEF Message
<1>5. m \in Completing' /\ InFlight' = InFlight \ {m}
  BY <1>1, <1>3, <1>4, ZenonT(30) DEF InFlight, Completing, Pushed
<1>6. /\ info[c] # None /\ info[c] \in ChannelInfo
      /\ IF c = m THEN info[c].CreateMsg = m /\ info[c].AddFundsMsg = None
         ELSE info[c].AddFundsMsg = m /\ info[c].CreateMsg = None
  <2>1. /\ info[c] # None
        /\ IF c = m THEN info[c].CreateMsg = m ELSE info[c].AddFundsMsg = m
    BY <1>1, Zenon DEF PendingIsOwn, Pushed
  <2>2. info[c].CreateMsg # None => info[c].AddFundsMsg = None
    BY <1>1, <2>1, Zenon DEF StoreInv
  <2> QED BY <1>1, <2>1, <2>2, SMTT(60)
<1>7. /\ \A k \in Mcid : k # c => info'[k] = info[k]
      /\ info'[c] # None => info'[c].CreateMsg = None /\ info'[c].AddFundsMsg = None
  <2>1. \A k \in Mcid : k # c => info'[k] = info[k]
    BY <1>1, Zenon DEF WaitMsg
  <2>2. CASE c = m /\ Succeeded(m)
    <3>1. info'[c] = [info[c] EXCEPT !.Channel = TRUE, !.Amount = info[c].PendingAmount,
                               !.PendingAmount = 0, !.CreateMsg = None]
      BY <1>1, <1>6, <2>2, Zenon DEF WaitMsg
    <3> QED BY <1>6, <2>1, <2>2, <3>1, Zenon DEF ChannelInfo
  <2>3. CASE c = m /\ ~Succeeded(m)
    <3>1. info'[c] = None
      BY <1>1, <1>6, <2>3, Zenon DEF WaitMsg
    <3> QED BY <2>1, <3>1, Zenon
  <2>4. CASE c # m
    <3>1. info'[c] = [info[c] EXCEPT
                        !.Amount = IF Succeeded(m) THEN info[c].Amount + info[c].PendingAmount
                                   ELSE info[c].Amount,
                        !.PendingAmount = 0, !.AddFundsMsg = None]
      BY <1>1, <1>6, <2>4, Zenon DEF WaitMsg
    <3> QED BY <1>6, <2>1, <2>4, <3>1, Zenon DEF ChannelInfo
  <2> QED BY <2>2, <2>3, <2>4, Zenon
<1>8. ASSUME "wait" \notin Faults, crashes = 0, NEW k \in Mcid, info'[k] # None
      PROVE  \A n \in Awaited(k)' : n \in InFlight' /\ msg'[n].channel = k
  <2>1. CASE k = c
    BY <1>7, <1>8, <2>1, Zenon DEF Awaited
  <2>2. CASE k # c
    <3>1. /\ \A n \in Awaited(k) : n \in InFlight /\ msg[n].channel = k
          /\ Awaited(k)' = Awaited(k)
      BY <1>7, <1>8, <2>2, Zenon DEF WakeInv, Awaited
    <3>2. \A n \in Awaited(k) : n \in Mcid /\ n # m
      BY <2>2, <3>1, Zenon DEF InFlight
    <3> QED BY <1>3, <1>5, <3>1, <3>2
  <2> QED BY <2>1, <2>2, Zenon
<1>9. WillRun'
  BY <1>5, Zenon DEF WillRun
<1> QED BY <1>1, <1>8, <1>9, Zenon DEF WakeInv

LEMMA MsgWaitCompleteWake ==
  ASSUME FundsInv, WakeInv, NEW m \in Mcid, MsgWaitComplete(m)
  PROVE  WakeInv'
<1>i. TypeOK
  BY Zenon DEF FundsInv
<1> USE <1>i
<1>1. /\ UNCHANGED <<queue, inactive, pq, info, crashes>> /\ pq.pc = "idle"
      /\ procs \in Nat /\ procs' = IF queue # {} THEN procs + 1 ELSE procs
      /\ msg \in [Mcid -> Message \cup {None}] /\ msg[m] # None /\ msg[m] \in Message
      /\ msg[m].wait # "waiting"
  BY Zenon DEF MsgWaitComplete, Unlocked, TypeOK
<1>2. /\ \A k \in Mcid : k # m => msg'[k] = msg[k]
      /\ msg'[m] = [msg[m] EXCEPT !.stored = msg[m].wait, !.wait = "done"]
  BY <1>1, Zenon DEF MsgWaitComplete
<1>3. \A n \in InFlight : n \in InFlight' /\ msg'[n].channel = msg[n].channel
  BY <1>1, <1>2, Zenon DEF InFlight, Pushed
<1>4. \A k \in Mcid : Awaited(k)' = Awaited(k)
  BY <1>1, Zenon DEF Awaited
<1>5. queue # {} => WillRun'
  BY <1>1 DEF WillRun
<1> QED BY <1>1, <1>3, <1>4, <1>5 DEF WakeInv

LEMMA NextWake == ASSUME FundsInv, WakeInv, [Next]_vars PROVE WakeInv'
<1>i. TypeOK
  BY Zenon DEF FundsInv
<1> USE <1>i
<1>1. ASSUME NEW r \in Req,
             GetChannel(r) \/ Enqueue(r) \/ Expire(r) \/ Cancel(r)
                \/ WaitForChannel(r) \/ StopListening(r)
      PROVE  WakeInv'
  BY <1>1, CallerWake, EnqueueWake, Zenon
<1>2. CASE ProcessQueue
  BY <1>2, StartWake, SumWake, TaskWaitWake, TaskPushWake, TaskFailWake, StoreMessageWake,
     CompleteWake, SendWake, ReturnWake, RestartWake DEF ProcessQueue, ReturnNil
<1>3. ASSUME NEW m \in Mcid,
             Exec(m) \/ WaitMsg(m) \/ WaitFails(m) \/ MsgWaitComplete(m)
                \/ CreateVoucher(m) \/ Settle(m)
      PROVE  WakeInv'
  BY <1>3, ExecWake, WaitMsgWake, WaitFailsWake, MsgWaitCompleteWake, ChannelWake, Zenon
<1>4. CASE Crash
  BY <1>4, RestartWake, Zenon DEF Crash
<1>5. CASE UNCHANGED vars
  <2>1. procs \in Nat
    BY Zenon DEF TypeOK
  <2> QED BY <1>5, <2>1, WakeKeep, SMTT(60) DEF vars, WakeInv
<1> QED BY <1>1, <1>2, <1>3, <1>4, <1>5, Zenon DEF Next

(* A node that has not crashed never leaves a request for funds in the     *)
(* queue with nobody to run it: processQueue, msgWaitComplete and the      *)
(* goroutines that wait for the chain hand the wake-up on, whatever        *)
(* requests are cancelled, messages fail and channels are settled.         *)
THEOREM NoRequestStranded == Spec => []NoStrandedRequest
<1>1. Init => WakeInv
  <2>1. Init => /\ pq.pc = "idle" /\ queue = {} /\ \A c \in Mcid : info[c] = None
    BY DEF Init, Idle
  <2> QED BY <2>1, Zenon DEF WakeInv
<1>2. FundsInv /\ WakeInv /\ [Next]_vars => WakeInv'
  BY NextWake, Zenon
<1>3. WakeInv => NoStrandedRequest
  BY Zenon DEF WakeInv, NoStrandedRequest, WillRun, Unlocked
<1> QED BY <1>1, <1>2, <1>3, FundsInvariant, PTL DEF Spec
-----------------------------------------------------------------------------
(* The store accounts for the balance of a channel.  At most one message   *)
(* per channel is pushed and not applied yet: the one processQueue is      *)
(* about to store, or the one the record of the channel waits for.         *)
OnItsWay(c) ==
  IF pq.pc = "store" /\ msg[pq.res].channel = c THEN pq.res
  ELSE IF info[c] = None THEN None
  ELSE IF info[c].CreateMsg # None THEN info[c].CreateMsg ELSE info[c].AddFundsMsg

Executed(m) == IF m # None /\ msg[m].chain = "ok" THEN msg[m].value ELSE 0
Booked(c) == IF info[c] = None THEN 0 ELSE info[c].Amount

RecordBooks(c) ==
  info[c] # None =>
    /\ info[c].CreateMsg \in {c, None} /\ info[c].AddFundsMsg # c
    /\ info[c].CreateMsg = c => info[c].Amount = 0 /\ info[c].Redeemed = 0
    /\ \A m \in {info[c].CreateMsg, info[c].AddFundsMsg} \ {None} :
         Pushed(m) /\ msg[m].channel = c /\ msg[m].value = info[c].PendingAmount

PoolBooks(m) == Pushed(m) /\ msg[m].chain = "pool" => m = OnItsWay(msg[m].channel)

BalanceBooks(c) ==
  /\ bal[c] <= Booked(c) + Executed(OnItsWay(c))
  /\ \/ info[c] # None /\ info[c].Redeemed > 0
     \/ bal[c] = Booked(c) + Executed(OnItsWay(c))

BooksInv ==
  crashes = 0 => \A c \in Mcid : RecordBooks(c) /\ PoolBooks(c) /\ BalanceBooks(c)

(* The record create writes for the channel that message m of value v asks for. *)
NewRecord(m, v) ==
  [Channel |-> FALSE, Amount |-> 0, PendingAmount |-> v, CreateMsg |-> m,
   AddFundsMsg |-> None, Settling |-> FALSE, Redeemed |-> 0]

(* That record is a channel record, and books nothing but the pending value. *)
LEMMA FreshRecord ==
  ASSUME NEW m \in Mcid, NEW v \in Nat
  PROVE  /\ NewRecord(m, v) \in ChannelInfo
         /\ NewRecord(m, v).PendingAmount = v /\ NewRecord(m, v).Amount = 0
         /\ NewRecord(m, v).CreateMsg = m /\ NewRecord(m, v).AddFundsMsg = None
         /\ NewRecord(m, v).Redeemed = 0
  BY DEF NewRecord, ChannelInfo

(* No message identifier is the missing value.                             *)
LEMMA McidNotNone == \A m \in Mcid : m # None
  BY NoneAssumption DEF Mcid

(* A record that books no less, with a voucher redeemed when it books more, *)
(* still covers the balance.                                               *)
LEMMA BalanceStays ==
  ASSUME NEW a \in Nat, NEW b \in Nat, NEW e \in Nat, NEW r \in Nat, NEW s \in Nat,
         NEW w \in Nat, w <= a + e, r > 0 \/ w = a + e,
         (s = r /\ b = a) \/ (s > 0 /\ b >= a)
  PROVE  w <= b + e /\ (s > 0 \/ w = b + e)
  OBVIOUS

(* A message on its way to a channel is a message for that channel. *)
LEMMA OnItsWayType ==
  ASSUME FundsInv, BooksInv, crashes = 0, NEW c \in Mcid, OnItsWay(c) # None
  PROVE  OnItsWay(c) \in Mcid /\ Pushed(OnItsWay(c)) /\ msg[OnItsWay(c)].channel = c
<1>j. \A k \in Mcid : RecordBooks(k) /\ PoolBooks(k) /\ BalanceBooks(k)
  BY Zenon DEF BooksInv
<1> USE <1>j
<1>i. TypeOK /\ StoreInv
  BY Zenon DEF FundsInv
<1> USE <1>i
<1>1. CASE pq.pc = "store" /\ msg[pq.res].channel = c
  BY <1>1, Zenon DEF OnItsWay, StoreInv, TypeOK, PqType
<1>2. CASE ~(pq.pc = "store" /\ msg[pq.res].channel = c)
  <2>1. info[c] # None /\ OnItsWay(c) \in {info[c].CreateMsg, info[c].AddFundsMsg} \ {None}
    BY <1>2, Zenon DEF OnItsWay
  <2>2. info[c] \in ChannelInfo
    BY <2>1, Zenon DEF TypeOK
  <2> QED BY <2>1, <2>2, SMTT(60) DEF RecordBooks, ChannelInfo
<1> QED BY <1>1, <1>2, Zenon

LEMMA RecordKeep ==
  ASSUME FundsInv, BooksInv, crashes = 0, NEW c \in Mcid, info'[c] = info[c],
         \A m \in Mcid : Pushed(m) /\ msg[m].channel = c =>
           msg'[m] # None /\ msg'[m].channel = c /\ msg'[m].value = msg[m].value
  PROVE  RecordBooks(c)'
<1>j. \A k \in Mcid : RecordBooks(k) /\ PoolBooks(k) /\ BalanceBooks(k)
  BY Zenon DEF BooksInv
<1> USE <1>j
<1>i. TypeOK
  BY Zenon DEF FundsInv
<1> USE <1>i
<1>1. info[c] # None => info[c] \in ChannelInfo
  BY Zenon DEF TypeOK
<1>2. info[c] # None => \A m \in {info[c].CreateMsg, info[c].AddFundsMsg} \ {None} : m \in Mcid
  BY <1>1, Zenon DEF ChannelInfo
<1> QED BY <1>2, SMTT(60) DEF RecordBooks, Pushed

(* A channel that a step leaves alone keeps its books. *)
LEMMA ChannelBooks ==
  ASSUME FundsInv, BooksInv, crashes = 0, NEW c \in Mcid,
         info'[c] = info[c], bal'[c] = bal[c], OnItsWay(c)' = OnItsWay(c),
         \A m \in Mcid : Pushed(m) /\ msg[m].channel = c =>
           /\ msg'[m] # None /\ msg'[m].channel = c /\ msg'[m].value = msg[m].value
           /\ msg'[m].chain = msg[m].chain
  PROVE  RecordBooks(c)' /\ BalanceBooks(c)'
<1>j. \A k \in Mcid : RecordBooks(k) /\ PoolBooks(k) /\ BalanceBooks(k)
  BY Zenon DEF BooksInv
<1> USE <1>j
<1>1. Executed(OnItsWay(c))' = Executed(OnItsWay(c))
  BY OnItsWayType, ZenonT(60) DEF Executed
<1>2. Booked(c)' = Booked(c)
  BY Zenon DEF Booked
<1>3. BalanceBooks(c)'
  BY <1>1, <1>2, Zenon DEF BalanceBooks
<1>4. RecordBooks(c)'
  BY RecordKeep, Zenon
<1> QED BY <1>3, <1>4, Zenon

(* Steps of which the books see nothing. *)
LEMMA BooksKeep ==
  ASSUME FundsInv, BooksInv, UNCHANGED <<info, bal, crashes>>,
         pq'.pc = "store" <=> pq.pc = "store",
         pq.pc = "store" => pq'.res = pq.res,
         \A m \in Mcid : /\ Pushed(m)' <=> Pushed(m)
                         /\ Pushed(m) => /\ msg'[m].channel = msg[m].channel
                                         /\ msg'[m].value = msg[m].value
                                         /\ msg'[m].chain = msg[m].chain
  PROVE  BooksInv'
<1>i. TypeOK /\ StoreInv
  BY Zenon DEF FundsInv
<1> USE <1>i
<1> SUFFICES ASSUME crashes = 0, NEW c \in Mcid
             PROVE  RecordBooks(c)' /\ PoolBooks(c)' /\ BalanceBooks(c)'
  BY Zenon DEF BooksInv
<1>j. \A k \in Mcid : RecordBooks(k) /\ PoolBooks(k) /\ BalanceBooks(k)
  BY Zenon DEF BooksInv
<1> USE <1>j
<1>1. \A k : OnItsWay(k)' = OnItsWay(k)
  <2>1. pq.pc = "store" => pq.res \in Mcid /\ msg'[pq.res].channel = msg[pq.res].channel
    BY ZenonT(60) DEF StoreInv, TypeOK, PqType
  <2> QED BY <2>1, Zenon DEF OnItsWay
<1>2. RecordBooks(c)' /\ BalanceBooks(c)'
  BY <1>1, ChannelBooks, Zenon DEF Pushed
<1>3. PoolBooks(c)'
  BY <1>1, Zenon DEF PoolBooks
<1> QED BY <1>2, <1>3, Zenon

LEMMA CallerBooks ==
  ASSUME FundsInv, BooksInv, NEW r \in Req,
         GetChannel(r) \/ Enqueue(r) \/ Expire(r) \/ Cancel(r)
           \/ WaitForChannel(r) \/ StopListening(r)
  PROVE  BooksInv'
<1>1. UNCHANGED <<pq, info, msg, bal, crashes>>
  BY Zenon DEF GetChannel, Enqueue, Expire, Cancel, WaitForChannel, StopListening
<1> QED BY <1>1, BooksKeep, Zenon DEF Pushed

LEMMA QueueBooks ==
  ASSUME FundsInv, BooksInv,
         \/ \E by \in Req \cup {None} : Start(by)
         \/ Sum \/ TaskWait \/ TaskFail \/ Complete \/ Send \/ SendExpired \/ Return
  PROVE  BooksInv'
<1>i. TypeOK
  BY Zenon DEF FundsInv
<1> USE <1>i
<1>1. UNCHANGED <<info, msg, bal, crashes>> /\ pq.pc # "store"
  BY Zenon DEF Start, Unlocked, Sum, TaskWait, TaskFail, Complete, Send, SendExpired, Return
<1>2. pq \in PqType
  BY DEF TypeOK
<1>3. pq'.pc # "store"
  <2>1. ASSUME NEW by \in Req \cup {None}, Start(by) PROVE pq'.pc # "store"
    BY <2>1, Zenon DEF Start, Idle
  <2>2. CASE Sum
    BY <1>2, <2>2, ZenonT(30) DEF Sum, PqType
  <2>3. CASE Complete
    BY <1>2, <2>3, ZenonT(30) DEF Complete, PqType
  <2>4. CASE TaskWait \/ TaskFail \/ Send \/ SendExpired
    BY <1>2, <2>4, ZenonT(30) DEF TaskWait, TaskFail, Send, SendExpired, PqType
  <2>5. CASE Return
    BY <2>5, ZenonT(60) DEF Return, Idle
  <2> QED BY <2>1, <2>2, <2>3, <2>4, <2>5
<1> QED BY <1>1, <1>3, BooksKeep, Zenon DEF Pushed

LEMMA RestartBooks ==
  ASSUME FundsInv, BooksInv, NEW stopped, Restart(stopped)
  PROVE  BooksInv'
<1>i. TypeOK
  BY Zenon DEF FundsInv
<1> USE <1>i
<1>1. crashes' # 0
  BY DEF Restart, TypeOK
<1> QED BY <1>1, Zenon DEF BooksInv

LEMMA WaitBooks ==
  ASSUME FundsInv, BooksInv, NEW m \in Mcid, WaitFails(m) \/ MsgWaitComplete(m)
  PROVE  BooksInv'
<1>i. TypeOK
  BY Zenon DEF FundsInv
<1> USE <1>i
<1>1. /\ UNCHANGED <<pq, info, bal, crashes>>
      /\ msg \in [Mcid -> Message \cup {None}] /\ msg[m] \in Message
  BY Zenon DEF WaitFails, MsgWaitComplete, TypeOK
<1>2. msg[m] # None /\ \A k \in Mcid : k # m => msg'[k] = msg[k]
  BY <1>1, Zenon DEF WaitFails, MsgWaitComplete
<1>3. /\ msg'[m] \in Message /\ msg'[m].channel = msg[m].channel
      /\ msg'[m].value = msg[m].value /\ msg'[m].chain = msg[m].chain
  <2>1. CASE WaitFails(m)
    <3>1. msg'[m] = [msg[m] EXCEPT !.wait = "err"]
      BY <1>1, <2>1, Zenon DEF WaitFails
    <3> QED BY <1>1, <3>1, Zenon DEF Message
  <2>2. CASE MsgWaitComplete(m)
    <3>1. /\ msg'[m] = [msg[m] EXCEPT !.stored = msg[m].wait, !.wait = "done"]
          /\ msg[m].wait \in {"ok", "err"}
      BY <1>1, <2>2, Zenon DEF MsgWaitComplete
    <3> QED BY <1>1, <3>1, Zenon DEF Message
  <2> QED BY <2>1, <2>2, Zenon
<1> QED BY <1>1, <1>2, <1>3, BooksKeep DEF Pushed

(* The balance and the executed message grow together. *)
LEMMA ExecBooks ==
  ASSUME FundsInv, BooksInv, NEW m \in Mcid, Exec(m)
  PROVE  BooksInv'
<1>i. TypeOK /\ StoreInv
  BY Zenon DEF FundsInv
<1> USE <1>i
<1> SUFFICES ASSUME crashes = 0
             PROVE  \A c \in Mcid : RecordBooks(c)' /\ PoolBooks(c)' /\ BalanceBooks(c)'
  BY Zenon DEF BooksInv, Exec
<1>j. \A k \in Mcid : RecordBooks(k) /\ PoolBooks(k) /\ BalanceBooks(k)
  BY Zenon DEF BooksInv
<1> USE <1>j
<1>1. /\ UNCHANGED <<pq, info, crashes>> /\ msg[m].chain = "pool"
      /\ msg \in [Mcid -> Message \cup {None}] /\ msg[m] \in Message /\ msg[m] # None
      /\ bal \in [Mcid -> Nat] /\ msg[m].channel \in Mcid /\ msg[m].value \in Nat
  BY Zenon DEF Exec, TypeOK, Message
<1>2. PICK d \in Mcid : d = msg[m].channel
  BY <1>1, Zenon
<1>3. PICK x \in {"ok", "failed"} :
        /\ msg' = [msg EXCEPT ![m].chain = x]
        /\ IF x = "ok" THEN bal' = [bal EXCEPT ![d] = @ + msg[m].value] ELSE bal' = bal
  BY <1>2, Zenon DEF Exec
<1>4. /\ \A k \in Mcid : k # m => msg'[k] = msg[k]
      /\ msg'[m] = [msg[m] EXCEPT !.chain = x]
  BY <1>1, <1>3, Zenon
<1>5. /\ msg'[m] \in Message /\ msg'[m].channel = d
      /\ msg'[m].value = msg[m].value /\ msg'[m].chain = x
  BY <1>1, <1>2, <1>4, ZenonT(30) DEF Message
<1>6. \A k : OnItsWay(k)' = OnItsWay(k)
  <2>1. pq.pc = "store" => pq.res \in Mcid /\ msg'[pq.res].channel = msg[pq.res].channel
    BY <1>2, <1>4, <1>5, ZenonT(30) DEF StoreInv, TypeOK, PqType
  <2> QED BY <1>1, <2>1, Zenon DEF OnItsWay
<1>7. OnItsWay(d) = m
  BY <1>1, <1>2 DEF PoolBooks, Pushed
<1>8. \A c \in Mcid : PoolBooks(c)'
  BY <1>1, <1>4, <1>5, <1>6, ZenonT(30) DEF PoolBooks, Pushed
<1>9. ASSUME NEW c \in Mcid, c # d PROVE RecordBooks(c)' /\ BalanceBooks(c)'
  <2>1. info'[c] = info[c] /\ bal'[c] = bal[c]
    BY <1>1, <1>3, <1>9, Zenon
  <2>2. \A k \in Mcid : Pushed(k) /\ msg[k].channel = c =>
           /\ msg'[k] # None /\ msg'[k].channel = c /\ msg'[k].value = msg[k].value
           /\ msg'[k].chain = msg[k].chain
    BY <1>2, <1>4, <1>9, Zenon DEF Pushed
  <2> QED BY <1>6, <2>1, <2>2, ChannelBooks, Zenon
<1>10. RecordBooks(d)'
  <2>1. \A k \in Mcid : Pushed(k) => msg'[k] # None /\ msg'[k].channel = msg[k].channel
                                     /\ msg'[k].value = msg[k].value
    BY <1>2, <1>4, <1>5, Zenon DEF Pushed
  <2> QED BY <1>1, <2>1, RecordKeep, Zenon
<1>11. BalanceBooks(d)'
  <2>1. Booked(d)' = Booked(d) /\ Booked(d) \in Nat
    BY <1>1, ZenonT(60) DEF Booked, TypeOK, ChannelInfo
  <2>2. Executed(OnItsWay(d)) = 0
    BY <1>1, <1>7, Zenon DEF Executed
  <2>3. Executed(OnItsWay(d))' = IF x = "ok" THEN msg[m].value ELSE 0
    BY <1>5, <1>6, <1>7 DEF Executed
  <2>0. BalanceBooks(d)
    BY Zenon
  <2> HIDE <1>i, <1>j
  <2>4. bal'[d] = bal[d] + (IF x = "ok" THEN msg[m].value ELSE 0) /\ bal[d] \in Nat
    BY <1>1, <1>3
  <2>5. bal[d] <= Booked(d) /\ (bal[d] = Booked(d) \/ (info[d] # None /\ info[d].Redeemed > 0))
    BY <1>1, <2>0, <2>1, <2>2 DEF BalanceBooks
  <2>6. PICK a \in Nat, w \in Nat, e \in Nat :
           a = Booked(d) /\ w = bal[d] /\ e = IF x = "ok" THEN msg[m].value ELSE 0
    <3>1. (IF x = "ok" THEN msg[m].value ELSE 0) \in Nat
      BY <1>1
    <3> QED BY <2>1, <2>4, <3>1, Zenon
  <2>7. w <= a /\ (w = a \/ (info[d] # None /\ info[d].Redeemed > 0))
    BY <2>5, <2>6, Zenon
  <2>8. w + e <= a + e /\ (w = a => w + e = a + e)
    BY <2>7
  <2>9. Booked(d)' = a /\ Executed(OnItsWay(d))' = e /\ bal'[d] = w + e /\ info'[d] = info[d]
    BY <1>1, <2>1, <2>3, <2>4, <2>6, Zenon
  <2> QED BY <2>7, <2>8, <2>9, Zenon DEF BalanceBooks
<1> QED BY <1>8, <1>9, <1>10, <1>11

(* The message processQueue has just pushed is on its way. *)
LEMMA TaskPushBooks ==
  ASSUME FundsInv, BooksInv, TaskPush
  PROVE  BooksInv'
<1>i. TypeOK /\ StoreInv
  BY Zenon DEF FundsInv
<1> USE <1>i
<1> SUFFICES ASSUME crashes = 0
             PROVE  \A c \in Mcid : RecordBooks(c)' /\ PoolBooks(c)' /\ BalanceBooks(c)'
  BY Zenon DEF BooksInv, TaskPush
<1>j. \A k \in Mcid : RecordBooks(k) /\ PoolBooks(k) /\ BalanceBooks(k)
  BY Zenon DEF BooksInv
<1> USE <1>j
<1>1. PICK n \in Mcid : n = nmsg + 1
  BY DEF TaskPush, TypeOK
<1>2. /\ UNCHANGED <<info, bal, crashes>> /\ pq.pc = "task"
      /\ msg[n] = None /\ info[n] = None
      /\ msg \in [Mcid -> Message \cup {None}]
  BY <1>1 DEF TaskPush, TypeOK, StoreInv
<1>3. pq'.pc = "store" /\ pq'.res = n
  BY <1>1, Zenon DEF TaskPush, TypeOK, PqType
<1>4. PICK d \in Mcid :
        /\ \/ d = n
           \/ info[d] # None /\ info[d].CreateMsg = None /\ info[d].AddFundsMsg = None
        /\ msg'[n].channel = d /\ msg'[n].chain = "pool" /\ msg'[n] # None
        /\ \A k \in Mcid : k # n => msg'[k] = msg[k]
  <2>1. PICK c \in Mcid \cup {None} :
           /\ Fundable(c)
           /\ msg' = [msg EXCEPT ![n] =
                [channel |-> IF c = None THEN n ELSE c, value |-> pq.sum,
                 covers |-> pq.covers, chain |-> "pool", stored |-> "no", wait |-> "none"]]
    BY <1>1, Zenon DEF TaskPush
  <2>2. PICK d \in Mcid : d = IF c = None THEN n ELSE c
    BY <2>1, Zenon
  <2>3. msg'[n] = [channel |-> d, value |-> pq.sum, covers |-> pq.covers, chain |-> "pool",
                   stored |-> "no", wait |-> "none"]
    BY <1>2, <2>1, <2>2, Zenon
  <2>4. msg'[n] \in Message
    <3>1. pq.sum \in Nat /\ pq.covers \subseteq Req
      BY Zenon DEF TypeOK, PqType
    <3> QED BY <2>3, <3>1 DEF Message
  <2> QED BY <1>2, <2>1, <2>2, <2>3, <2>4, Zenon DEF Fundable, Active
<1>5. OnItsWay(d) = None /\ OnItsWay(d)' = n
  BY <1>2, <1>3, <1>4, Zenon DEF OnItsWay
<1>6. \A k : k # d => OnItsWay(k)' = OnItsWay(k)
  BY <1>2, <1>3, <1>4, Zenon DEF OnItsWay
<1>7. ASSUME NEW c \in Mcid PROVE PoolBooks(c)'
  <2>1. CASE c = n
    BY <1>4, <1>5, <2>1, Zenon DEF PoolBooks
  <2>2. CASE c # n
    <3>1. Pushed(c) /\ msg[c].chain = "pool" => c = OnItsWay(msg[c].channel)
      BY Zenon DEF PoolBooks
    <3>2. Pushed(c) /\ msg[c].chain = "pool" => msg[c].channel # d
      BY <1>5, <3>1
    <3> QED BY <1>4, <1>6, <2>2, <3>1, <3>2, Zenon DEF PoolBooks, Pushed
  <2> QED BY <2>1, <2>2, Zenon
<1>8. ASSUME NEW c \in Mcid PROVE RecordBooks(c)'
  BY <1>2, <1>4, RecordKeep, Zenon DEF Pushed
<1>9. ASSUME NEW c \in Mcid PROVE BalanceBooks(c)'
  <2>1. CASE c = d
    <3>1. Executed(OnItsWay(c)) = 0 /\ Executed(OnItsWay(c))' = 0
      BY <1>4, <1>5, <2>1, Zenon DEF Executed
    <3> QED BY <1>2, <3>1, Zenon DEF BalanceBooks, Booked
  <2>2. CASE c # d
    BY <1>2, <1>4, <1>6, <2>2, ChannelBooks, Zenon DEF Pushed
  <2> QED BY <2>1, <2>2, Zenon
<1> QED BY <1>7, <1>8, <1>9, Zenon

(* The message is recorded and stays on its way. *)
LEMMA StoreMessageBooks ==
  ASSUME FundsInv, BooksInv, StoreMessage
  PROVE  BooksInv'
<1>i. TypeOK /\ StoreInv
  BY Zenon DEF FundsInv
<1> USE <1>i
<1> SUFFICES ASSUME crashes = 0
             PROVE  \A c \in Mcid : RecordBooks(c)' /\ PoolBooks(c)' /\ BalanceBooks(c)'
  BY DEF BooksInv, StoreMessage
<1>j. \A k \in Mcid : RecordBooks(k) /\ PoolBooks(k) /\ BalanceBooks(k)
  BY Zenon DEF BooksInv
<1> USE <1>j
<1>a. pq.res \in Mcid /\ msg[pq.res] \in Message /\ msg[pq.res].channel \in Mcid
  BY DEF StoreMessage, StoreInv, TypeOK, PqType, Message, Pushed
<1>b. PICK m \in Mcid, d \in Mcid : m = pq.res /\ d = msg[m].channel
  BY <1>a, Zenon
<1>0. /\ msg[m] # None /\ msg[m] \in Message /\ pq.pc = "store"
      /\ pq \in PqType /\ msg \in [Mcid -> Message \cup {None}]
      /\ info \in [Mcid -> ChannelInfo \cup {None}]
  BY <1>a, <1>b DEF TypeOK, StoreMessage
<1>1. UNCHANGED <<bal, crashes>> /\ pq'.pc = "complete"
  BY <1>0, Zenon DEF StoreMessage, PqType
<1>2. /\ \A k \in Mcid : k # m => msg'[k] = msg[k]
      /\ msg'[m] # None /\ msg'[m].channel = d
      /\ msg'[m].value = msg[m].value /\ msg'[m].chain = msg[m].chain
  <2>1. /\ \A k \in Mcid : k # m => msg'[k] = msg[k]
        /\ msg'[m] = [msg[m] EXCEPT !.stored = "sent", !.wait = "waiting"]
    BY <1>0, <1>b, Zenon DEF StoreMessage
  <2>2. /\ msg'[m] \in Message /\ msg'[m].channel = d
        /\ msg'[m].value = msg[m].value /\ msg'[m].chain = msg[m].chain
    BY <1>0, <1>b, <2>1, ZenonT(30) DEF Message
  <2> QED BY <2>1, <2>2, Zenon
<1>3. /\ \A k \in Mcid : k # d => info'[k] = info[k]
      /\ info'[d] # None /\ info'[d].PendingAmount = msg[m].value
      /\ info'[d].Amount = Booked(d)
      /\ IF d = m THEN /\ info'[d].CreateMsg = m /\ info'[d].AddFundsMsg = None
                      /\ info'[d].Redeemed = 0 /\ info'[d].Amount = 0 /\ info[d] = None
         ELSE /\ info'[d].CreateMsg = None /\ info'[d].AddFundsMsg = m
              /\ info[d] # None /\ info'[d].Redeemed = info[d].Redeemed
  <2>0. \A k \in Mcid : k # d => info'[k] = info[k]
    BY <1>0, <1>b, Zenon DEF StoreMessage
  <2>1. CASE d = m
    <3>1. info[d] = None
      BY <1>0, <1>b, <2>1 DEF StoreInv
    <3>2. info'[d] = NewRecord(m, msg[m].value)
      BY <1>0, <1>b, <2>1, Zenon DEF StoreMessage, NewRecord
    <3>v. PICK v \in Nat : v = msg[m].value
      BY <1>0, Zenon DEF Message
    <3> HIDE <1>i, <1>j
    <3>w. /\ NewRecord(m, v) \in ChannelInfo
          /\ NewRecord(m, v).PendingAmount = v /\ NewRecord(m, v).Amount = 0
          /\ NewRecord(m, v).CreateMsg = m /\ NewRecord(m, v).AddFundsMsg = None
          /\ NewRecord(m, v).Redeemed = 0
      BY FreshRecord, Zenon
    <3>x. info'[d] = NewRecord(m, v)
      BY <3>2, <3>v, Zenon
    <3>3. info'[d] \in ChannelInfo
      BY <3>w, <3>x, Zenon
    <3>4. /\ info'[d].PendingAmount = msg[m].value /\ info'[d].Amount = 0
          /\ info'[d].CreateMsg = m /\ info'[d].AddFundsMsg = None /\ info'[d].Redeemed = 0
      BY <3>v, <3>w, <3>x, Zenon
    <3>5. Booked(d) = 0 /\ info'[d] # None
      BY <3>1, <3>3, Zenon DEF Booked
    <3> QED BY <2>0, <2>1, <3>1, <3>4, <3>5, Zenon
  <2>2. CASE d # m
    <3>1. info[d] # None /\ info[d].CreateMsg = None /\ info[d] \in ChannelInfo
      BY <1>0, <1>b, <2>2, ZenonT(60) DEF StoreMessage, StoreInv
    <3>2. info'[d] = [info[d] EXCEPT !.PendingAmount = msg[m].value, !.AddFundsMsg = m]
      BY <1>0, <1>b, <2>2, Zenon DEF StoreMessage
    <3>3. info'[d] \in ChannelInfo
      BY <1>0, <3>1, <3>2, ZenonT(30) DEF ChannelInfo, Message
    <3> QED BY <2>0, <2>2, <3>1, <3>2, <3>3, ZenonT(30) DEF ChannelInfo, Booked
  <2> QED BY <2>1, <2>2, Zenon
<1>4. \A k \in Mcid : OnItsWay(k)' = OnItsWay(k)
  <2>1. OnItsWay(d) = m /\ OnItsWay(d)' = m
    BY <1>0, <1>1, <1>b, <1>3, ZenonT(30) DEF OnItsWay
  <2>2. \A k \in Mcid : k # d => OnItsWay(k)' = OnItsWay(k)
    BY <1>0, <1>1, <1>b, <1>3, ZenonT(60) DEF OnItsWay
  <2> QED BY <2>1, <2>2, Zenon
<1>5. \A k \in Mcid : Pushed(k) => /\ msg'[k] # None /\ msg'[k].channel = msg[k].channel
                                   /\ msg'[k].value = msg[k].value
                                   /\ msg'[k].chain = msg[k].chain
  BY <1>b, <1>2, Zenon DEF Pushed
<1>6. ASSUME NEW c \in Mcid PROVE PoolBooks(c)'
  <2>1. Pushed(c)' => Pushed(c) /\ msg[c].channel \in Mcid
    <3>1. Pushed(c)' => Pushed(c)
      BY <1>0, <1>2 DEF Pushed
    <3>2. Pushed(c) => msg[c] \in Message
      BY <1>0, Zenon DEF Pushed
    <3> QED BY <3>1, <3>2, Zenon DEF Message
  <2> QED BY <1>4, <1>5, <2>1 DEF PoolBooks
<1>7. ASSUME NEW c \in Mcid, c # d PROVE RecordBooks(c)' /\ BalanceBooks(c)'
  BY <1>1, <1>3, <1>4, <1>5, <1>7, ChannelBooks
<1>8. RecordBooks(d)'
  <2>0. d # None /\ info'[d].PendingAmount = msg'[m].value /\ msg'[m].channel = d
    BY <1>2, <1>3, McidNotNone, Zenon
  <2>1. CASE d = m
    <3>1. /\ info'[d].CreateMsg = d /\ info'[d].AddFundsMsg = None
          /\ info'[d].Amount = 0 /\ info'[d].Redeemed = 0
      BY <1>3, <2>1, Zenon
    <3>2. msg'[d] # None /\ msg'[d].channel = d /\ msg'[d].value = info'[d].PendingAmount
      BY <1>2, <2>0, <2>1, Zenon
    <3>3. \A k \in {info'[d].CreateMsg, info'[d].AddFundsMsg} \ {None} : k = d
      BY <3>1, Zenon
    <3> QED BY <2>0, <3>1, <3>2, <3>3, Zenon DEF RecordBooks, Pushed
  <2>2. CASE d # m
    <3>1. info'[d].CreateMsg = None /\ info'[d].AddFundsMsg = m
      BY <1>3, <2>2, Zenon
    <3> QED BY <1>2, <2>0, <2>2, <3>1, Zenon DEF RecordBooks, Pushed
  <2> QED BY <2>1, <2>2, Zenon
<1>9. BalanceBooks(d)'
  <2>1. Executed(OnItsWay(d))' = Executed(OnItsWay(d))
    BY <1>4, <1>5, OnItsWayType DEF Executed
  <2>2. Booked(d)' = Booked(d)
    BY <1>3, Zenon DEF Booked
  <2>3. (info[d] # None /\ info[d].Redeemed > 0) => (info'[d] # None /\ info'[d].Redeemed > 0)
    BY <1>3, Zenon
  <2> QED BY <1>1, <2>1, <2>2, <2>3, Zenon DEF BalanceBooks
<1> QED BY <1>6, <1>7, <1>8, <1>9, Zenon

(* Pending funds are booked when their message arrives. *)
LEMMA WaitMsgBooks ==
  ASSUME FundsInv, BooksInv, NEW m \in Mcid, WaitMsg(m)
  PROVE  BooksInv'
<1>i. TypeOK /\ StoreInv /\ PendingIsOwn
  BY Zenon DEF FundsInv
<1> USE <1>i
<1> SUFFICES ASSUME crashes = 0
             PROVE  \A c \in Mcid : RecordBooks(c)' /\ PoolBooks(c)' /\ BalanceBooks(c)'
  BY Zenon DEF BooksInv, WaitMsg
<1>j. \A k \in Mcid : RecordBooks(k) /\ PoolBooks(k) /\ BalanceBooks(k)
  BY Zenon DEF BooksInv
<1> USE <1>j
<1>1. /\ UNCHANGED <<bal, pq, crashes>> /\ pq.pc = "idle" /\ msg[m].chain # "pool"
      /\ msg \in [Mcid -> Message \cup {None}] /\ msg[m] # None /\ msg[m] \in Message
      /\ info \in [Mcid -> ChannelInfo \cup {None}] /\ msg[m].wait = "waiting"
      /\ msg[m].channel \in Mcid /\ msg[m].value \in Nat /\ bal \in [Mcid -> Nat]
  BY Zenon DEF WaitMsg, Unlocked, TypeOK, Message
<1>b. PICK d \in Mcid : d = msg[m].channel
  BY <1>1, Zenon
<1>2. PICK w \in {"ok", "err"} : msg' = [msg EXCEPT ![m].wait = w]
  BY Zenon DEF WaitMsg
<1>3. /\ \A k \in Mcid : k # m => msg'[k] = msg[k]
      /\ msg'[m] = [msg[m] EXCEPT !.wait = w]
  BY <1>1, <1>2, Zenon
<1>4. /\ msg'[m] \in Message /\ msg'[m].channel = d
      /\ msg'[m].value = msg[m].value /\ msg'[m].chain = msg[m].chain
  BY <1>b, <1>1, <1>3, Zenon DEF Message
<1>5. \A k \in Mcid : Pushed(k) => /\ msg'[k] # None /\ msg'[k].channel = msg[k].channel
                                   /\ msg'[k].value = msg[k].value
                                   /\ msg'[k].chain = msg[k].chain
  BY <1>b, <1>3, <1>4, Zenon DEF Pushed
<1>6. /\ info[d] # None /\ info[d] \in ChannelInfo /\ info[d].PendingAmount = msg[m].value
      /\ IF d = m THEN info[d].CreateMsg = m /\ info[d].AddFundsMsg = None
         ELSE info[d].AddFundsMsg = m /\ info[d].CreateMsg = None
  <2>1. /\ info[d] # None /\ info[d].PendingAmount = msg[m].value
        /\ IF d = m THEN info[d].CreateMsg = m ELSE info[d].AddFundsMsg = m
    BY <1>b, <1>1, Zenon DEF PendingIsOwn, Pushed
  <2>2. info[d].CreateMsg # None => info[d].AddFundsMsg = None
    BY <1>1, <2>1, Zenon DEF StoreInv
  <2> QED BY <1>1, <2>1, <2>2
<1>a. /\ info[d].PendingAmount \in Nat /\ 0 \in Nat
      /\ (IF Succeeded(m) THEN info[d].Amount + info[d].PendingAmount
          ELSE info[d].Amount) \in Nat
  BY <1>6 DEF ChannelInfo
<1>7. /\ \A k \in Mcid : k # d => info'[k] = info[k]
      /\ info'[d] # None => /\ info'[d].CreateMsg = None /\ info'[d].AddFundsMsg = None
                            /\ info'[d].Redeemed = info[d].Redeemed
      /\ info'[d] = None => d = m /\ msg[m].chain # "ok"
      /\ info'[d] # None /\ d = m =>
           msg[m].chain = "ok" /\ info'[d].Amount = info[d].PendingAmount
      /\ d # m => info'[d].Amount = IF msg[m].chain = "ok" THEN info[d].Amount + info[d].PendingAmount
                                   ELSE info[d].Amount
  <2>1. \A k \in Mcid : k # d => info'[k] = info[k]
    BY <1>b, <1>1, Zenon DEF WaitMsg
  <2>2. CASE d = m /\ Succeeded(m)
    <3>1. info'[d] = [info[d] EXCEPT !.Channel = TRUE, !.Amount = info[d].PendingAmount,
                               !.PendingAmount = 0, !.CreateMsg = None]
      BY <1>b, <1>1, <1>6, <2>2, Zenon DEF WaitMsg
    <3>2. /\ info'[d].CreateMsg = None /\ info'[d].AddFundsMsg = info[d].AddFundsMsg
          /\ info'[d].Redeemed = info[d].Redeemed /\ info'[d].Amount = info[d].PendingAmount
      BY <1>6, <3>1, Zenon DEF ChannelInfo
    <3>3. info'[d] \in ChannelInfo
      BY <1>6, <1>a, <3>1, Zenon DEF ChannelInfo
    <3> QED BY <1>6, <2>1, <2>2, <3>2, <3>3
  <2>3. CASE d = m /\ ~Succeeded(m)
    <3>1. info'[d] = None
      BY <1>b, <1>1, <1>6, <2>3 DEF WaitMsg
    <3> QED BY <2>1, <2>3, <3>1, Zenon
  <2>4. CASE d # m
    <3>1. info'[d] = [info[d] EXCEPT
                        !.Amount = IF Succeeded(m) THEN info[d].Amount + info[d].PendingAmount
                                   ELSE info[d].Amount,
                        !.PendingAmount = 0, !.AddFundsMsg = None]
      BY <1>b, <1>1, <1>6, <2>4, ZenonT(30) DEF WaitMsg
    <3>2. /\ info'[d].CreateMsg = info[d].CreateMsg /\ info'[d].AddFundsMsg = None
          /\ info'[d].Redeemed = info[d].Redeemed
          /\ info'[d].Amount = IF Succeeded(m) THEN info[d].Amount + info[d].PendingAmount
                               ELSE info[d].Amount
      BY <1>6, <3>1, Zenon DEF ChannelInfo
    <3>3. info'[d] \in ChannelInfo
      BY <1>6, <1>a, <3>1, Zenon DEF ChannelInfo
    <3> QED BY <1>6, <2>1, <2>4, <3>2, <3>3, Zenon
  <2> QED BY <2>2, <2>3, <2>4, Zenon
<1>8. OnItsWay(d) = m /\ OnItsWay(d)' = None
  BY <1>1, <1>6, <1>7, Zenon DEF OnItsWay
<1>9. \A k \in Mcid : k # d => OnItsWay(k)' = OnItsWay(k)
  BY <1>1, <1>7, Zenon DEF OnItsWay
<1>10. ASSUME NEW c \in Mcid PROVE PoolBooks(c)'
  <2>1. CASE Pushed(c) /\ msg[c].chain = "pool"
    <3>1. c = OnItsWay(msg[c].channel) /\ msg[c].channel # d /\ msg[c].channel \in Mcid
      <4>1. c = OnItsWay(msg[c].channel) /\ c # m
        BY <1>1, <2>1, Zenon DEF PoolBooks
      <4>2. msg[c] \in Message
        BY <1>1, <2>1 DEF Pushed
      <4> QED BY <1>8, <4>1, <4>2 DEF Message
    <3> QED BY <1>5, <1>9, <2>1, <3>1, ZenonT(60) DEF PoolBooks
  <2>2. CASE ~(Pushed(c) /\ msg[c].chain = "pool")
    <3>1. Pushed(c)' => Pushed(c)
      BY <1>1, <1>3, Zenon DEF Pushed
    <3> QED BY <1>5, <2>2, <3>1 DEF PoolBooks
  <2> QED BY <2>1, <2>2, Zenon
<1>11. ASSUME NEW c \in Mcid, c # d PROVE RecordBooks(c)' /\ BalanceBooks(c)'
  BY <1>1, <1>5, <1>7, <1>9, <1>11, ChannelBooks, ZenonT(30)
<1>12. RecordBooks(d)'
  <2>1. d # None
    BY McidNotNone, Zenon
  <2>2. info'[d] # None => info'[d].CreateMsg = None /\ info'[d].AddFundsMsg = None
    BY <1>7, Zenon
  <2> QED BY <2>1, <2>2, Zenon DEF RecordBooks
<1>13. BalanceBooks(d)'
  <2>1. Executed(OnItsWay(d)) = (IF msg[m].chain = "ok" THEN msg[m].value ELSE 0)
        /\ Executed(OnItsWay(d))' = 0
    BY <1>8 DEF Executed
  <2>2. Booked(d) \in Nat /\ Booked(d) = info[d].Amount
    BY <1>6, Zenon DEF Booked, ChannelInfo
  <2>3. d = m => Booked(d) = 0 /\ info[d].Redeemed = 0
    BY <1>6, <2>2, Zenon DEF RecordBooks
  <2>0. BalanceBooks(d)
    BY Zenon
  <2> HIDE <1>i, <1>j
  <2>4. Booked(d)' = Booked(d) + (IF msg[m].chain = "ok" THEN msg[m].value ELSE 0)
    BY <1>1, <1>6, <1>7, <2>2, <2>3, SMTT(60) DEF Booked
  <2>5. /\ bal[d] <= Booked(d)' /\ bal[d] \in Nat
        /\ bal[d] = Booked(d)' \/ info[d].Redeemed > 0
    BY <1>1, <2>0, <2>1, <2>4 DEF BalanceBooks
  <2>6. Booked(d)' \in Nat
    BY <1>1, <2>2, <2>4, SMTT(60)
  <2>7. info[d].Redeemed > 0 => info'[d] # None /\ info'[d].Redeemed > 0
    BY <1>7, <2>3
  <2> QED BY <1>1, <2>1, <2>5, <2>6, <2>7, SMTT(60) DEF BalanceBooks
<1> QED BY <1>10, <1>11, <1>12, <1>13, Zenon

LEMMA ChannelStepBooks ==
  ASSUME FundsInv, BooksInv, NEW c \in Mcid, CreateVoucher(c) \/ Settle(c)
  PROVE  BooksInv'
<1>i. TypeOK /\ StoreInv
  BY Zenon DEF FundsInv
<1> USE <1>i
<1> SUFFICES ASSUME crashes = 0
             PROVE  \A k \in Mcid : RecordBooks(k)' /\ PoolBooks(k)' /\ BalanceBooks(k)'
  BY Zenon DEF BooksInv, CreateVoucher, Settle
<1>j. \A k \in Mcid : RecordBooks(k) /\ PoolBooks(k) /\ BalanceBooks(k)
  BY Zenon DEF BooksInv
<1> USE <1>j
<1>1. UNCHANGED <<pq, msg, bal, crashes>> /\ pq.pc = "idle" /\ bal[c] \in Nat
  BY Zenon DEF CreateVoucher, Settle, Unlocked, TypeOK
<1>2. /\ info[c] \in ChannelInfo /\ info[c] # None /\ info[c].CreateMsg = None
      /\ info \in [Mcid -> ChannelInfo \cup {None}]
  BY Zenon DEF CreateVoucher, Settle, TypeOK, StoreInv
<1>3. /\ \A k \in Mcid : k # c => info'[k] = info[k]
      /\ info'[c] \in ChannelInfo /\ info'[c] # None
      /\ info'[c].CreateMsg = info[c].CreateMsg
      /\ info'[c].AddFundsMsg = info[c].AddFundsMsg
      /\ info'[c].PendingAmount = info[c].PendingAmount
      /\ \/ info'[c].Redeemed = info[c].Redeemed /\ info'[c].Amount = info[c].Amount
         \/ info'[c].Redeemed > 0 /\ info'[c].Amount >= info[c].Amount
  <2>1. CASE Settle(c)
    <3>1. /\ \A k \in Mcid : k # c => info'[k] = info[k]
          /\ info'[c] = [info[c] EXCEPT !.Settling = TRUE]
      BY <1>2, <2>1, Zenon DEF Settle
    <3>2. info'[c] \in ChannelInfo
      BY <1>2, <3>1, Zenon DEF ChannelInfo
    <3> QED BY <1>2, <3>1, <3>2, Zenon DEF ChannelInfo
  <2>2. CASE CreateVoucher(c)
    <3>1. PICK total \in info[c].Redeemed + 1 .. bal[c] :
            info' = [info EXCEPT ![c].Redeemed = total,
                                 ![c].Amount = IF @ < bal[c] THEN bal[c] ELSE @]
      BY <2>2, Zenon DEF CreateVoucher
    <3>2. PICK am : am = IF info[c].Amount < bal[c] THEN bal[c] ELSE info[c].Amount
      OBVIOUS
    <3>3. info' = [info EXCEPT ![c] = [info[c] EXCEPT !.Redeemed = total, !.Amount = am]]
      BY <1>2, <3>1, <3>2, Zenon DEF ChannelInfo
    <3>4. info[c].Amount \in Nat /\ info[c].Redeemed \in Nat
      BY <1>2 DEF ChannelInfo
    <3>5. total \in Nat /\ total > 0 /\ am \in Nat /\ am >= info[c].Amount
      BY <1>1, <3>1, <3>2, <3>4
    <3>6. /\ \A k \in Mcid : k # c => info'[k] = info[k]
          /\ info'[c] = [info[c] EXCEPT !.Redeemed = total, !.Amount = am]
      BY <1>2, <3>3, Zenon
    <3>7. info'[c] \in ChannelInfo
      BY <1>2, <3>5, <3>6, Zenon DEF ChannelInfo
    <3>8. /\ info'[c].CreateMsg = info[c].CreateMsg /\ info'[c].AddFundsMsg = info[c].AddFundsMsg
          /\ info'[c].PendingAmount = info[c].PendingAmount
          /\ info'[c].Redeemed = total /\ info'[c].Amount = am
      BY <1>2, <3>6, Zenon DEF ChannelInfo
    <3> QED BY <3>5, <3>6, <3>7, <3>8, Zenon
  <2> QED BY <2>1, <2>2, Zenon
<1>4. \A k \in Mcid : OnItsWay(k)' = OnItsWay(k)
  BY <1>1, <1>2, <1>3, Zenon DEF OnItsWay
<1>5. ASSUME NEW k \in Mcid PROVE PoolBooks(k)'
  <2>1. Pushed(k) => msg[k].channel \in Mcid
    BY DEF Pushed, TypeOK, Message
  <2> QED BY <1>1, <1>4, <2>1, Zenon DEF PoolBooks, Pushed
<1>6. ASSUME NEW k \in Mcid, k # c PROVE RecordBooks(k)' /\ BalanceBooks(k)'
  BY <1>1, <1>3, <1>4, <1>6, ChannelBooks, Zenon DEF Pushed
<1>7. RecordBooks(c)'
  <2>1. RecordBooks(c)
    BY Zenon
  <2> QED BY <1>1, <1>2, <1>3, <2>1 DEF RecordBooks, Pushed
<1>8. BalanceBooks(c)'
  <2>1. Executed(OnItsWay(c))' = Executed(OnItsWay(c)) /\ Executed(OnItsWay(c)) \in Nat
    <3>1. OnItsWay(c) # None => msg[OnItsWay(c)] \in Message
      BY OnItsWayType DEF Pushed, TypeOK
    <3> QED BY <1>1, <1>4, <3>1, Zenon DEF Executed, Message
  <2>2. Booked(c)' = info'[c].Amount /\ Booked(c) = info[c].Amount
    BY <1>2, <1>3, Zenon DEF Booked
  <2>3. info[c].Amount \in Nat /\ info'[c].Amount \in Nat
    BY <1>2, <1>3, Zenon DEF ChannelInfo
  <2>4. BalanceBooks(c)
    BY Zenon
  <2>5. PICK a \in Nat, b \in Nat, e \in Nat, r \in Nat, s \in Nat, w \in Nat :
           /\ a = info[c].Amount /\ b = info'[c].Amount
           /\ e = Executed(OnItsWay(c)) /\ w = bal[c]
           /\ r = info[c].Redeemed /\ s = info'[c].Redeemed
    <3>1. info[c].Redeemed \in Nat /\ info'[c].Redeemed \in Nat
      BY <1>2, <1>3, Zenon DEF ChannelInfo
    <3> QED BY <1>1, <2>1, <2>3, <3>1, Zenon
  <2>6. /\ w <= a + e /\ (r > 0 \/ w = a + e)
        /\ (s = r /\ b = a) \/ (s > 0 /\ b >= a)
    BY <1>3, <2>2, <2>4, <2>5, Zenon DEF BalanceBooks
  <2>7. w <= b + e /\ (s > 0 \/ w = b + e)
    BY <2>6, BalanceStays, Zenon
  <2>8. /\ Booked(c)' = b /\ Executed(OnItsWay(c))' = e /\ bal'[c] = w
        /\ info'[c].Redeemed = s /\ info'[c] # None
    BY <1>1, <1>3, <2>1, <2>2, <2>5, Zenon
  <2> QED BY <2>7, <2>8, Zenon DEF BalanceBooks
<1> QED BY <1>5, <1>6, <1>7, <1>8, Zenon

LEMMA NextBooks == ASSUME FundsInv, BooksInv, [Next]_vars PROVE BooksInv'
<1>1. ASSUME NEW r \in Req,
             GetChannel(r) \/ Enqueue(r) \/ Expire(r) \/ Cancel(r)
                \/ WaitForChannel(r) \/ StopListening(r)
      PROVE  BooksInv'
  BY <1>1, CallerBooks, Zenon
<1>2. CASE ProcessQueue
  BY <1>2, QueueBooks, TaskPushBooks, StoreMessageBooks, RestartBooks, Zenon DEF ProcessQueue, ReturnNil
<1>3. ASSUME NEW m \in Mcid,
             Exec(m) \/ WaitMsg(m) \/ WaitFails(m) \/ MsgWaitComplete(m)
                \/ CreateVoucher(m) \/ Settle(m)
      PROVE  BooksInv'
  BY <1>3, ExecBooks, WaitMsgBooks, WaitBooks, ChannelStepBooks, Zenon
<1>4. CASE Crash
  BY <1>4, RestartBooks, Zenon DEF Crash
<1>5. CASE UNCHANGED vars
  BY <1>5, BooksKeep, Zenon DEF vars, Pushed
<1> QED BY <1>1, <1>2, <1>3, <1>4, <1>5, Zenon DEF Next

(* As long as the node does not crash, whoever takes the accessor lock     *)
(* finds a ChannelInfo whose Amount, with the message in flight once it is *)
(* executed, covers the balance of the channel actor: create, addFunds and *)
(* the goroutines that apply their receipts lose and invent nothing.       *)
THEOREM BooksAreKept == Spec => []BooksCoverBalance
<1>1. Init => BooksInv
  <2> SUFFICES ASSUME Init, NEW c \in Mcid PROVE RecordBooks(c) /\ PoolBooks(c) /\ BalanceBooks(c)
    BY Zenon DEF BooksInv
  <2>1. info[c] = None /\ msg[c] = None /\ bal[c] = 0 /\ pq.pc = "idle"
    BY Zenon DEF Init, Idle
  <2> QED BY <2>1 DEF RecordBooks, PoolBooks, BalanceBooks, Pushed, OnItsWay, Executed, Booked
<1>2. FundsInv /\ BooksInv /\ [Next]_vars => BooksInv'
  BY NextBooks, Zenon
<1>3. FundsInv /\ BooksInv => BooksCoverBalance
  <2> SUFFICES ASSUME FundsInv, BooksInv, crashes = 0, pq.pc = "idle",
                      NEW c \in Mcid, info[c] # None, info[c].Channel
               PROVE  /\ bal[c] <= info[c].Amount + Unapplied(c)
                      /\ info[c].Redeemed = 0 => bal[c] = info[c].Amount + Unapplied(c)
    BY Zenon DEF BooksCoverBalance, Unlocked
  <2>1. info[c].CreateMsg = None
    BY Zenon DEF FundsInv, StoreInv
  <2>2. OnItsWay(c) = info[c].AddFundsMsg /\ Booked(c) = info[c].Amount
    BY <2>1, Zenon DEF OnItsWay, Booked
  <2>3. Executed(OnItsWay(c)) = Unapplied(c)
    <3>1. info[c].AddFundsMsg # None => msg[info[c].AddFundsMsg].value = info[c].PendingAmount
      BY DEF BooksInv, RecordBooks
    <3> QED BY <2>2, <3>1, Zenon DEF Executed, Unapplied
  <2>4. BalanceBooks(c)
    BY Zenon DEF BooksInv
  <2> QED BY <2>2, <2>3, <2>4 DEF BalanceBooks
<1> QED BY <1>1, <1>2, <1>3, FundsInvariant, PTL DEF Spec
=============================================================================
