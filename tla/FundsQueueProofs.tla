-------------------------- MODULE FundsQueueProofs --------------------------
(***************************************************************************)
(* Proofs about FundsQueue: FundsInv is an inductive invariant, and the    *)
(* safety properties follow from it.                                       *)
(***************************************************************************)
EXTENDS FundsQueue, TLAPS

USE AmtAssumption, BoundAssumption, NoneAssumption
USE DEF Mcid, Err, QueueCleared, RunAgain, Succeeded
-----------------------------------------------------------------------------
(* The callers.  They leave the store and the messages alone. *)

LEMMA StoreFrame ==
  ASSUME FundsInv, UNCHANGED <<pq, info, msg, nmsg>>
  PROVE  StoreInv' /\ MessageInv' /\ PendingIsOwn'
BY DEF FundsInv, StoreInv, MessageInv, PendingIsOwn, Pushed

LEMMA GetChannelInv ==
  ASSUME FundsInv, NEW r \in Req, GetChannel(r)
  PROVE  FundsInv'
<1>i. /\ TypeOK /\ CallerInv /\ MergeInv /\ CompleteInv
      /\ StoreInv /\ MessageInv /\ PaidOnce /\ PendingIsOwn
  BY Zenon DEF FundsInv
<1> USE <1>i
<1>1. PICK x \in {"checking", "asking"} : caller' = [caller EXCEPT ![r] = x]
  BY Zenon DEF GetChannel
<1>a. /\ caller[r] = "idle"
      /\ \A q \in Req : q # r => seen'[q] = seen[q]
      /\ UNCHANGED <<reply, inactive, queue, pq, info, msg, nmsg>>
  BY Zenon DEF TypeOK, GetChannel
<1>2. seen' \in [Req -> Seen] /\ (caller'[r] = "checking" => seen'[r].id # None)
  <2>1. CASE UNCHANGED seen /\ caller' = [caller EXCEPT ![r] = "asking"]
    BY <2>1, Zenon DEF TypeOK
  <2>2. ASSUME NEW c \in Active,
               seen' = [seen EXCEPT ![r] = [id |-> c, Channel |-> info[c].Channel]]
        PROVE  seen' \in [Req -> Seen] /\ seen'[r].id # None
    <3>1. c \in Mcid /\ info[c] \in ChannelInfo
      BY Zenon DEF Active, TypeOK
    <3>2. [id |-> c, Channel |-> info[c].Channel] \in Seen
      BY <3>1, Zenon DEF Seen, ChannelInfo
    <3> QED BY <2>2, <3>1, <3>2 DEF TypeOK
  <2> QED BY <2>1, <2>2, Zenon DEF GetChannel
<1>3. TypeOK'
  BY <1>2, Zenon DEF TypeOK, GetChannel, Callers
<1>4. CallerInv'
  BY <1>1, <1>a, <1>2 DEF CallerInv, Paid, Pushed, TypeOK
<1>5. MergeInv'
  BY <1>1, <1>a DEF MergeInv, TypeOK, PqType, Waiting, Paid, Pushed
<1>6. CompleteInv'
  BY <1>1, <1>a DEF CompleteInv, ToAnswer, TypeOK, PqType, Waiting, Paid, Pushed
<1>7. PaidOnce'
  BY <1>a, Zenon DEF PaidOnce, Pushed
<1>8. StoreInv' /\ MessageInv' /\ PendingIsOwn'
  BY <1>a, StoreFrame, Zenon
<1> QED BY <1>3, <1>4, <1>5, <1>6, <1>7, <1>8, Zenon DEF FundsInv

LEMMA EnqueueInv ==
  ASSUME FundsInv, NEW r \in Req, Enqueue(r)
  PROVE  FundsInv'
<1>i. /\ TypeOK /\ CallerInv /\ MergeInv /\ CompleteInv
      /\ StoreInv /\ MessageInv /\ PaidOnce /\ PendingIsOwn
  BY Zenon DEF FundsInv
<1> USE <1>i
<1>1. TypeOK'
  BY DEF TypeOK, Enqueue, Callers
<1>2. CallerInv'
  BY DEF CallerInv, Enqueue, TypeOK, Paid, Pushed
<1>3. MergeInv'
  <2>1. /\ caller'[r] = "queued" /\ caller[r] = "asking" /\ reply[r] = None
        /\ \A q \in Req \ {r} : caller'[q] = caller[q]
        /\ \A m \in Mcid : ~Paid(r, m)
        /\ pq.pc = "idle" /\ queue' = queue \cup {r}
        /\ UNCHANGED <<reply, inactive, pq, msg>>
    BY Zenon DEF Enqueue, TypeOK, CallerInv, Unlocked
  <2>2. pq.by # None => pq.by \in Req /\ caller'[pq.by] = caller[pq.by]
    BY <2>1, Zenon DEF MergeInv, TypeOK, PqType
  <2>3. \A q \in queue' : Waiting(q)' /\ \A m \in Mcid : ~Paid(q, m)'
    BY <2>1 DEF MergeInv, TypeOK, Waiting, Paid, Pushed
  <2> QED BY <2>1, <2>2, <2>3, Zenon DEF MergeInv
<1>4. CompleteInv'
  BY Zenon DEF CompleteInv, Enqueue, Unlocked
<1>5. PaidOnce'
  BY Zenon DEF PaidOnce, Enqueue, Pushed
<1>6. StoreInv' /\ MessageInv' /\ PendingIsOwn'
  BY StoreFrame, Zenon DEF Enqueue
<1> QED BY <1>1, <1>2, <1>3, <1>4, <1>5, <1>6, Zenon DEF FundsInv

LEMMA ExpireInv ==
  ASSUME FundsInv, NEW r \in Req, Expire(r)
  PROVE  FundsInv'
<1>i. /\ TypeOK /\ CallerInv /\ MergeInv /\ CompleteInv
      /\ StoreInv /\ MessageInv /\ PaidOnce /\ PendingIsOwn
  BY Zenon DEF FundsInv
<1> USE <1>i
<1>1. TypeOK'
  BY Zenon DEF TypeOK, Expire
<1>2. CallerInv' /\ MergeInv' /\ CompleteInv' /\ PaidOnce'
  BY DEF CallerInv, MergeInv, CompleteInv, ToAnswer, PaidOnce, Expire, Paid,
         Pushed, Waiting
<1>3. StoreInv' /\ MessageInv' /\ PendingIsOwn'
  BY StoreFrame, Zenon DEF Expire
<1> QED BY <1>1, <1>2, <1>3, Zenon DEF FundsInv

LEMMA CancelInv ==
  ASSUME FundsInv, NEW r \in Req, Cancel(r)
  PROVE  FundsInv'
<1>i. /\ TypeOK /\ CallerInv /\ MergeInv /\ CompleteInv
      /\ StoreInv /\ MessageInv /\ PaidOnce /\ PendingIsOwn
  BY Zenon DEF FundsInv
<1> USE <1>i
<1>1. TypeOK'
  BY Zenon DEF TypeOK, Cancel, Callers
<1>2. CallerInv'
  BY Zenon DEF CallerInv, Cancel, TypeOK, Paid, Pushed
<1>3. MergeInv'
  BY DEF MergeInv, Cancel, TypeOK, Waiting, Paid, Pushed
<1>4. CompleteInv'
  BY DEF CompleteInv, ToAnswer, Cancel, TypeOK, PqType, Waiting, Paid, Pushed
<1>5. PaidOnce'
  BY Zenon DEF PaidOnce, Cancel, Pushed
<1>6. StoreInv' /\ MessageInv' /\ PendingIsOwn'
  BY StoreFrame, Zenon DEF Cancel
<1> QED BY <1>1, <1>2, <1>3, <1>4, <1>5, <1>6, Zenon DEF FundsInv

LEMMA WaitForChannelInv ==
  ASSUME FundsInv, NEW r \in Req, WaitForChannel(r)
  PROVE  FundsInv'
<1>i. /\ TypeOK /\ CallerInv /\ MergeInv /\ CompleteInv
      /\ StoreInv /\ MessageInv /\ PaidOnce /\ PendingIsOwn
  BY Zenon DEF FundsInv
<1> USE <1>i
<1>0. reply[r] \in Mcid /\ Pushed(reply[r]) /\ msg[reply[r]] \in Message
  BY DEF WaitForChannel, CallerInv, PaidOnce, Pushed, TypeOK
<1>1. /\ caller'[r] \in {"failed", "ready", "listening"}
      /\ caller'[r] = "ready" => msg[reply[r]].stored = "ok"
      /\ caller'[r] = "listening" => msg[reply[r]].stored \notin {"ok", "err"}
      /\ \A q \in Req \ {r} : caller'[q] = caller[q]
      /\ caller' \in [Req -> Callers]
  BY <1>0, Zenon DEF WaitForChannel, TypeOK, Callers
<1>w. /\ caller[r] = "got" /\ pq.by \in Req \cup {None} /\ queue \subseteq Req
      /\ UNCHANGED <<seen, reply, expired, inactive, queue, pq, msg>>
  BY Zenon DEF WaitForChannel, TypeOK, PqType
<1>2. TypeOK'
  BY <1>1, Zenon DEF TypeOK, WaitForChannel
<1>3. CallerInv'
  <2>1. caller'[r] = "listening" => msg[reply[r]].wait # "done"
    BY <1>0, <1>1 DEF MessageInv, Message
  <2> QED BY <1>1, <1>w, <2>1, ZenonT(30) DEF CallerInv, Paid, Pushed
<1>4. MergeInv'
  BY <1>0, <1>1, <1>w, ZenonT(30) DEF MergeInv, Waiting, Paid, Pushed
<1>5. CompleteInv'
  BY <1>0, <1>1, Zenon DEF CompleteInv, WaitForChannel, Unlocked
<1>6. PaidOnce'
  BY Zenon DEF PaidOnce, WaitForChannel, Pushed
<1>7. StoreInv' /\ MessageInv' /\ PendingIsOwn'
  BY StoreFrame, Zenon DEF WaitForChannel
<1> QED BY <1>2, <1>3, <1>4, <1>5, <1>6, <1>7, Zenon DEF FundsInv

LEMMA StopListeningInv ==
  ASSUME FundsInv, NEW r \in Req, StopListening(r)
  PROVE  FundsInv'
<1>i. /\ TypeOK /\ CallerInv /\ MergeInv /\ CompleteInv
      /\ StoreInv /\ MessageInv /\ PaidOnce /\ PendingIsOwn
  BY Zenon DEF FundsInv
<1> USE <1>i
<1>1. TypeOK'
  BY Zenon DEF TypeOK, StopListening, Callers
<1>2. CallerInv'
  BY DEF CallerInv, StopListening, TypeOK, Paid, Pushed
<1>3. MergeInv'
  BY DEF MergeInv, CallerInv, StopListening, TypeOK, Waiting, Paid, Pushed
<1>4. CompleteInv'
  BY DEF CompleteInv, CallerInv, ToAnswer, StopListening, TypeOK, PqType,
         Waiting, Paid, Pushed
<1>5. PaidOnce'
  BY Zenon DEF PaidOnce, StopListening, Pushed
<1>6. StoreInv' /\ MessageInv' /\ PendingIsOwn'
  BY StoreFrame, Zenon DEF StopListening
<1> QED BY <1>1, <1>2, <1>3, <1>4, <1>5, <1>6, Zenon DEF FundsInv
-----------------------------------------------------------------------------
(* processQueue.  Its steps up to the push, and those of onComplete, leave *)
(* the store and the messages alone.                                       *)

LEMMA PqFrame ==
  ASSUME FundsInv, UNCHANGED <<info, msg, nmsg>>, pq'.pc # "store"
  PROVE  StoreInv' /\ MessageInv' /\ PendingIsOwn'
BY DEF FundsInv, StoreInv, MessageInv, PendingIsOwn, Pushed

LEMMA CallsFrame ==
  ASSUME FundsInv, UNCHANGED <<calls, msg>>
  PROVE  CallerInv' /\ PaidOnce'
BY Zenon DEF FundsInv, calls, CallerInv, PaidOnce, Paid, Pushed

LEMMA StartInv ==
  ASSUME FundsInv, NEW by \in Req \cup {None}, Start(by)
  PROVE  FundsInv'
<1>i. /\ TypeOK /\ CallerInv /\ MergeInv /\ CompleteInv
      /\ StoreInv /\ MessageInv /\ PaidOnce /\ PendingIsOwn
  BY Zenon DEF FundsInv
<1> USE <1>i
<1>1. /\ pq'.pc \in {"return", "sum"} /\ pq'.by = by
      /\ pq'.reqs = queue' /\ pq'.todo = queue'
      /\ pq'.covers = {} /\ pq'.sum = 0 /\ pq'.res = Err /\ pq'.cur = None
      /\ by # None => caller[by] = "checking"
      /\ queue' \subseteq queue /\ UNCHANGED <<calls, info, msg, nmsg>>
  BY Zenon DEF Start, Idle
<1>2. pq' \in PqType
  <2>1. pq' = [pc |-> pq'.pc, by |-> by, reqs |-> queue', todo |-> queue',
               cur |-> None, sum |-> 0, covers |-> {}, res |-> 0]
    BY ZenonT(60) DEF Start, Idle
  <2>2. queue' \in SUBSET Req
    BY <1>1, Zenon DEF TypeOK
  <2> QED BY <1>1, <2>1, <2>2 DEF PqType
<1>3. TypeOK'
  BY <1>1, <1>2 DEF TypeOK, Start, calls
<1>4. MergeInv'
  BY <1>1 DEF MergeInv, Start, Unlocked, calls, TypeOK, Waiting, Paid, Pushed
<1>5. CompleteInv'
  BY <1>1, Zenon DEF CompleteInv
<1> QED BY <1>1, <1>3, <1>4, <1>5, PqFrame, CallsFrame, Zenon DEF FundsInv

LEMMA SumInv ==
  ASSUME FundsInv, Sum
  PROVE  FundsInv'
<1>i. /\ TypeOK /\ CallerInv /\ MergeInv /\ CompleteInv
      /\ StoreInv /\ MessageInv /\ PaidOnce /\ PendingIsOwn
  BY Zenon DEF FundsInv
<1> USE <1>i
<1>0. pq \in PqType /\ pq.pc = "sum" /\ UNCHANGED <<calls, queue, info, msg, nmsg>>
  BY Zenon DEF Sum, TypeOK
<1>1. ASSUME NEW r \in pq.todo, IsActive(r),
             pq' = [pq EXCEPT !.todo = @ \ {r}, !.sum = @ + Amt[r],
                              !.covers = @ \cup {r}]
      PROVE  FundsInv'
  <2>1. /\ pq' \in PqType /\ pq'.pc = "sum" /\ pq'.by = pq.by /\ pq'.cur = pq.cur
        /\ pq'.reqs = pq.reqs /\ pq'.todo = pq.todo \ {r}
        /\ pq'.covers = pq.covers \cup {r} /\ pq'.res = pq.res
    <3>1. r \in Req /\ pq.sum \in Nat /\ pq.todo \in SUBSET Req /\ pq.covers \in SUBSET Req
      BY <1>0, Zenon DEF PqType
    <3>2. /\ pq.sum + Amt[r] \in Nat
          /\ pq.todo \ {r} \in SUBSET Req /\ pq.covers \cup {r} \in SUBSET Req
      BY <3>1
    <3>3. pq' = [pq EXCEPT !.todo = pq.todo \ {r}, !.sum = pq.sum + Amt[r],
                           !.covers = pq.covers \cup {r}]
      BY <1>1, Zenon
    <3> HIDE DEF Mcid, Err
    <3> QED BY <1>0, <3>2, <3>3, Zenon DEF PqType
  <2>2. TypeOK'
    BY <1>0, <2>1, Zenon DEF TypeOK, Sum, calls
  <2>3. MergeInv'
    BY <1>0, <2>1 DEF MergeInv, calls, Waiting, Paid, Pushed
  <2>4. CompleteInv'
    BY <2>1, Zenon DEF CompleteInv
  <2> QED BY <1>0, <2>1, <2>2, <2>3, <2>4, PqFrame, CallsFrame, Zenon DEF FundsInv
<1>2. ASSUME NEW r \in pq.todo, ~IsActive(r),
             pq' = [pq EXCEPT !.todo = @ \ {r}]
      PROVE  FundsInv'
  <2>1. /\ pq' \in PqType /\ pq'.pc = "sum" /\ pq'.by = pq.by
        /\ pq'.reqs = pq.reqs /\ pq'.todo = pq.todo \ {r} /\ pq'.sum = pq.sum
        /\ pq'.covers = pq.covers /\ pq'.res = pq.res /\ pq'.cur = pq.cur
    BY <1>0, <1>2, Zenon DEF PqType
  <2>2. TypeOK'
    BY <1>0, <2>1, Zenon DEF TypeOK, Sum, calls
  <2>3. MergeInv'
    BY <1>0, <1>2, <2>1 DEF MergeInv, calls, Waiting, Paid, Pushed, IsActive
  <2>4. CompleteInv'
    BY <2>1, Zenon DEF CompleteInv
  <2> QED BY <1>0, <2>1, <2>2, <2>3, <2>4, PqFrame, CallsFrame, Zenon DEF FundsInv
<1>3. ASSUME pq.todo = {},
             pq' = [pq EXCEPT !.pc = IF pq.sum = 0 THEN "return" ELSE "task"]
      PROVE  FundsInv'
  <2>1. /\ pq' \in PqType /\ pq'.pc \in {"return", "task"} /\ pq'.by = pq.by
        /\ pq'.pc = "task" => pq.sum # 0
        /\ pq'.reqs = pq.reqs /\ pq'.todo = pq.todo /\ pq'.sum = pq.sum
        /\ pq'.covers = pq.covers /\ pq'.res = pq.res /\ pq'.cur = pq.cur
    BY <1>0, <1>3, Zenon DEF PqType
  <2>2. TypeOK'
    BY <1>0, <2>1, Zenon DEF TypeOK, Sum, calls
  <2>3. MergeInv'
    BY <1>0, <1>3, <2>1 DEF MergeInv, calls, Waiting, Paid, Pushed
  <2>4. CompleteInv'
    BY <2>1, Zenon DEF CompleteInv
  <2> QED BY <1>0, <2>1, <2>2, <2>3, <2>4, PqFrame, CallsFrame, Zenon DEF FundsInv
<1> QED BY <1>1, <1>2, <1>3, Zenon DEF Sum, FundsInv

LEMMA TaskWaitInv ==
  ASSUME FundsInv, TaskWait
  PROVE  FundsInv'
<1>i. /\ TypeOK /\ CallerInv /\ MergeInv /\ CompleteInv
      /\ StoreInv /\ MessageInv /\ PaidOnce /\ PendingIsOwn
  BY Zenon DEF FundsInv
<1> USE <1>i
<1>1. /\ pq' \in PqType /\ pq'.pc = "return" /\ pq'.by = pq.by
      /\ pq.pc = "task" /\ UNCHANGED <<calls, queue, info, msg, nmsg>>
  BY Zenon DEF TaskWait, TypeOK, PqType
<1>2. TypeOK'
  BY <1>1, Zenon DEF TypeOK, TaskWait, calls
<1>3. MergeInv'
  BY <1>1, Zenon DEF MergeInv, calls, Waiting, Paid, Pushed
<1>4. CompleteInv'
  BY <1>1, Zenon DEF CompleteInv
<1> QED BY <1>1, <1>2, <1>3, <1>4, PqFrame, CallsFrame, Zenon DEF FundsInv

LEMMA TaskFailInv ==
  ASSUME FundsInv, TaskFail
  PROVE  FundsInv'
<1>i. /\ TypeOK /\ CallerInv /\ MergeInv /\ CompleteInv
      /\ StoreInv /\ MessageInv /\ PaidOnce /\ PendingIsOwn
  BY Zenon DEF FundsInv
<1> USE <1>i
<1>1. /\ pq' \in PqType /\ pq'.pc = "complete" /\ pq'.by = pq.by
      /\ pq'.todo = pq.reqs /\ pq'.cur = pq.cur /\ pq'.res = pq.res
      /\ pq.pc = "task" /\ queue' = {} /\ UNCHANGED <<calls, info, msg, nmsg>>
  BY ZenonT(60) DEF TaskFail, TypeOK, PqType
<1>2. TypeOK'
  BY <1>1, Zenon DEF TypeOK, TaskFail, calls
<1>3. MergeInv'
  BY <1>1, Zenon DEF MergeInv, calls
<1>4. CompleteInv'
  BY <1>1, Zenon DEF CompleteInv, MergeInv, ToAnswer, calls, Waiting, Paid, Pushed
<1> QED BY <1>1, <1>2, <1>3, <1>4, PqFrame, CallsFrame, Zenon DEF FundsInv

LEMMA CompleteStepInv ==
  ASSUME FundsInv, Complete
  PROVE  FundsInv'
<1>i. /\ TypeOK /\ CallerInv /\ MergeInv /\ CompleteInv
      /\ StoreInv /\ MessageInv /\ PaidOnce /\ PendingIsOwn
  BY Zenon DEF FundsInv
<1> USE <1>i
<1>0. pq \in PqType /\ pq.pc = "complete" /\ UNCHANGED <<calls, queue, info, msg, nmsg>>
  BY Zenon DEF Complete, TypeOK
<1>1. ASSUME pq.todo = {}, pq' = [pq EXCEPT !.pc = "return"]
      PROVE  FundsInv'
  <2>1. pq' \in PqType /\ pq'.pc = "return" /\ pq'.by = pq.by
    BY <1>0, <1>1, Zenon DEF PqType
  <2>2. TypeOK'
    BY <1>0, <2>1, Zenon DEF TypeOK, Complete, calls
  <2>3. MergeInv'
    BY <1>0, <2>1, Zenon DEF MergeInv, calls, Waiting, Paid, Pushed
  <2>4. CompleteInv'
    BY <2>1, Zenon DEF CompleteInv
  <2> QED BY <1>0, <2>1, <2>2, <2>3, <2>4, PqFrame, CallsFrame, Zenon DEF FundsInv
<1>2. ASSUME NEW r \in pq.todo, IsActive(r),
             pq' = [pq EXCEPT !.todo = @ \ {r}, !.pc = "send", !.cur = r]
      PROVE  FundsInv'
  <2>1. /\ pq' \in PqType /\ pq'.pc = "send" /\ pq'.by = pq.by
        /\ pq'.todo = pq.todo \ {r} /\ pq'.cur = r /\ pq'.res = pq.res
    <3>1. r \in Req
      BY <1>0, Zenon DEF PqType
    <3> QED BY <1>0, <1>2, <3>1, Zenon DEF PqType
  <2>2. TypeOK'
    BY <1>0, <2>1, Zenon DEF TypeOK, Complete, calls
  <2>3. MergeInv'
    BY <1>0, <2>1, Zenon DEF MergeInv, calls, Waiting, Paid, Pushed
  <2>4. CompleteInv'
    <3>1. ToAnswer' = ToAnswer /\ r \in Req
      BY <1>0, <2>1 DEF ToAnswer, CompleteInv, PqType
    <3> QED BY <1>0, <2>1, <3>1 DEF CompleteInv, calls, Waiting, Paid, Pushed
  <2> QED BY <1>0, <2>1, <2>2, <2>3, <2>4, PqFrame, CallsFrame, Zenon DEF FundsInv
<1>3. ASSUME NEW r \in pq.todo, ~IsActive(r), pq' = [pq EXCEPT !.todo = @ \ {r}]
      PROVE  FundsInv'
  <2>1. /\ pq' \in PqType /\ pq'.pc = "complete" /\ pq'.by = pq.by
        /\ pq'.todo = pq.todo \ {r} /\ pq'.cur = pq.cur /\ pq'.res = pq.res
    BY <1>0, <1>3, Zenon DEF PqType
  <2>2. TypeOK'
    BY <1>0, <2>1, Zenon DEF TypeOK, Complete, calls
  <2>3. MergeInv'
    BY <1>0, <2>1, Zenon DEF MergeInv, calls, Waiting, Paid, Pushed
  <2>4. CompleteInv'
    <3>1. ToAnswer' \subseteq ToAnswer
      BY <2>1, Zenon DEF ToAnswer
    <3> QED BY <1>0, <2>1, <3>1, Zenon DEF CompleteInv, calls, Waiting, Paid, Pushed
  <2> QED BY <1>0, <2>1, <2>2, <2>3, <2>4, PqFrame, CallsFrame, Zenon DEF FundsInv
<1> QED BY <1>1, <1>2, <1>3, Zenon DEF Complete, FundsInv

LEMMA SendInv ==
  ASSUME FundsInv, Send
  PROVE  FundsInv'
<1>i. /\ TypeOK /\ CallerInv /\ MergeInv /\ CompleteInv
      /\ StoreInv /\ MessageInv /\ PaidOnce /\ PendingIsOwn
  BY Zenon DEF FundsInv
<1> USE <1>i
<1> DEFINE r == pq.cur
<1>1. /\ pq \in PqType /\ pq.pc = "send" /\ r \in Req /\ r \in ToAnswer
      /\ caller[r] = "queued" /\ r \notin pq.todo
      /\ UNCHANGED <<seen, expired, inactive, queue, procs, info, msg, nmsg, bal, crashes>>
  BY Zenon DEF Send, TypeOK, PqType, CompleteInv, ToAnswer
<1>2. /\ pq' \in PqType /\ pq'.pc = "complete" /\ pq'.by = pq.by
      /\ pq'.todo = pq.todo /\ pq'.cur = None /\ pq'.res = pq.res
  BY <1>1, Zenon DEF Send, PqType
<1>3. PICK x \in {"refused", "got"}, y \in Mcid \cup {None} :
        /\ caller' = [caller EXCEPT ![r] = x] /\ reply' = [reply EXCEPT ![r] = y]
        /\ x = "refused" => pq.res = Err /\ y = None
        /\ x = "got" => pq.res # Err /\ y = pq.res
  BY <1>1, Zenon DEF Send, PqType
<1>4. /\ r \notin inactive
      /\ pq.res = Err => \A m \in Mcid : ~Paid(r, m)
      /\ pq.res # Err => /\ pq.res \in Mcid /\ Pushed(pq.res)
                         /\ msg[pq.res].wait # "none" /\ r \in msg[pq.res].covers
  BY <1>1 DEF CallerInv, CompleteInv, PqType
<1> HIDE DEF r
<1>5. TypeOK'
  BY <1>1, <1>2, <1>3, Zenon DEF TypeOK, Callers
<1>6. CallerInv'
  BY <1>1, <1>3, <1>4, SMTT(60) DEF CallerInv, TypeOK, Paid, Pushed
<1>7. MergeInv'
  <2>1. queue = {} /\ (pq.by # None => pq.by # r)
    BY <1>1, Zenon DEF CompleteInv, MergeInv
  <2> QED BY <1>1, <1>2, <1>3, <2>1, Zenon DEF MergeInv, TypeOK, PqType
<1>8. CompleteInv'
  <2>1. ToAnswer' \subseteq ToAnswer /\ r \notin ToAnswer' /\ ToAnswer \subseteq Req
    BY <1>1, <1>2 DEF ToAnswer, PqType
  <2> QED BY <1>1, <1>2, <1>3, <2>1
          DEF CompleteInv, TypeOK, Waiting, Paid, Pushed
<1>9. PaidOnce'
  BY <1>1, <1>3, <1>4, Zenon DEF PaidOnce, Pushed, TypeOK
<1> QED BY <1>1, <1>2, <1>5, <1>6, <1>7, <1>8, <1>9, PqFrame, Zenon DEF FundsInv

LEMMA SendExpiredInv ==
  ASSUME FundsInv, SendExpired
  PROVE  FundsInv'
<1>i. /\ TypeOK /\ CallerInv /\ MergeInv /\ CompleteInv
      /\ StoreInv /\ MessageInv /\ PaidOnce /\ PendingIsOwn
  BY Zenon DEF FundsInv
<1> USE <1>i
<1>1. /\ pq' \in PqType /\ pq'.pc = "complete" /\ pq'.by = pq.by
      /\ pq'.todo = pq.todo /\ pq'.cur = None /\ pq'.res = pq.res
      /\ pq.pc = "send" /\ UNCHANGED <<calls, queue, info, msg, nmsg>>
  BY Zenon DEF SendExpired, TypeOK, PqType
<1>2. TypeOK'
  BY <1>1 DEF TypeOK, SendExpired, calls
<1>3. MergeInv'
  BY <1>1, Zenon DEF MergeInv, calls, Waiting, Paid, Pushed
<1>4. CompleteInv'
  <2>1. ToAnswer' \subseteq ToAnswer
    BY <1>1, Zenon DEF ToAnswer
  <2> QED BY <1>1, <2>1 DEF CompleteInv, calls, Waiting, Paid, Pushed
<1> QED BY <1>1, <1>2, <1>3, <1>4, PqFrame, CallsFrame, Zenon DEF FundsInv

LEMMA ReturnInv ==
  ASSUME FundsInv, Return
  PROVE  FundsInv'
<1>i. /\ TypeOK /\ CallerInv /\ MergeInv /\ CompleteInv
      /\ StoreInv /\ MessageInv /\ PaidOnce /\ PendingIsOwn
  BY Zenon DEF FundsInv
<1> USE <1>i
<1>1. /\ pq.pc = "return" /\ pq' = Idle
      /\ UNCHANGED <<seen, reply, expired, inactive, queue, procs, info, msg, nmsg, bal, crashes>>
  BY DEF Return
<1>2. CASE UNCHANGED caller
  <2>1. TypeOK'
    BY <1>1, <1>2, Zenon DEF TypeOK, PqType, Idle
  <2>2. MergeInv' /\ CompleteInv'
    BY <1>1, <1>2 DEF MergeInv, CompleteInv, Idle, Waiting, Paid, Pushed
  <2> QED BY <1>1, <1>2, <2>1, <2>2, PqFrame, CallsFrame DEF Idle, calls, FundsInv
<1>3. ASSUME NEW x \in {"ready", "asking", "failed"}, pq.by # None,
             caller' = [caller EXCEPT ![pq.by] = x]
      PROVE  FundsInv'
  <2> DEFINE r == pq.by
  <2>1. r \in Req /\ caller[r] = "checking" /\ reply[r] = None /\ r \notin inactive
    BY <1>3 DEF TypeOK, PqType, MergeInv, CallerInv
  <2> HIDE DEF r
  <2>2. caller' = [caller EXCEPT ![r] = x]
    BY <1>3, Zenon DEF r
  <2>3. TypeOK'
    BY <1>1, <2>1, <2>2, Zenon DEF TypeOK, PqType, Idle, Callers
  <2>4. CallerInv'
    BY <1>1, <2>1, <2>2, Zenon DEF CallerInv, TypeOK, Paid, Pushed
  <2>5. MergeInv'
    BY <1>1, <2>1, <2>2, Zenon DEF MergeInv, Idle, TypeOK, Waiting, Paid, Pushed
  <2>6. CompleteInv' /\ PaidOnce'
    BY <1>1, Zenon DEF CompleteInv, PaidOnce, Idle, Pushed
  <2> QED BY <1>1, <2>3, <2>4, <2>5, <2>6, PqFrame, Zenon DEF Idle, FundsInv
<1> QED BY <1>2, <1>3, Zenon DEF Return, FundsInv
-----------------------------------------------------------------------------
(* A step that sends no message and answers nobody keeps PaidOnce. *)
LEMMA PaidFrame ==
  ASSUME TypeOK, PaidOnce, UNCHANGED reply,
         \A k \in Mcid : /\ msg'[k] # None <=> msg[k] # None
                         /\ msg[k] # None => msg'[k].covers = msg[k].covers
  PROVE  PaidOnce'
<1>1. ASSUME NEW m \in Mcid, NEW n \in Mcid, msg'[m] # None, msg'[n] # None, m # n
      PROVE  msg'[m].covers \cap msg'[n].covers = {}
  BY <1>1, Zenon DEF PaidOnce, Pushed
<1>2. ASSUME NEW r \in Req, reply[r] # None
      PROVE  msg'[reply[r]] # None /\ r \in msg'[reply[r]].covers
  BY <1>2, ZenonT(60) DEF PaidOnce, Pushed, TypeOK
<1> QED BY <1>1, <1>2 DEF PaidOnce, Pushed

(* The push of a message, and its record in the store. *)

LEMMA TaskPushInv ==
  ASSUME FundsInv, TaskPush
  PROVE  FundsInv'
<1>i. /\ TypeOK /\ CallerInv /\ MergeInv /\ CompleteInv
      /\ StoreInv /\ MessageInv /\ PaidOnce /\ PendingIsOwn
  BY Zenon DEF FundsInv
<1> USE <1>i
<1> DEFINE n == nmsg + 1
<1>1. /\ pq \in PqType /\ pq.pc = "task" /\ n \in Mcid /\ nmsg' = n
      /\ msg[n] = None /\ info[n] = None
      /\ pq.covers \subseteq queue
      /\ \A r \in queue, m \in Mcid : ~Paid(r, m)
      /\ UNCHANGED <<caller, seen, reply, expired, inactive, queue, procs, info, bal, crashes>>
  BY DEF TaskPush, TypeOK, StoreInv, MergeInv, calls
<1>2. PICK new \in Message :
        /\ msg' = [msg EXCEPT ![n] = new]
        /\ new.covers = pq.covers /\ new.stored = "no" /\ new.wait = "none"
        /\ new.channel # n => /\ info[new.channel] # None
                              /\ info[new.channel].CreateMsg = None
                              /\ info[new.channel].AddFundsMsg = None
  <2>1. PICK c \in Mcid \cup {None} :
          /\ Fundable(c)
          /\ msg' = [msg EXCEPT ![n] =
               [channel |-> IF c = None THEN n ELSE c, value |-> pq.sum,
                covers |-> pq.covers, chain |-> "pool", stored |-> "no",
                wait |-> "none"]]
    BY Zenon DEF TaskPush
  <2>2. PICK ch \in Mcid :
          /\ msg' = [msg EXCEPT ![n] =
               [channel |-> ch, value |-> pq.sum, covers |-> pq.covers,
                chain |-> "pool", stored |-> "no", wait |-> "none"]]
          /\ ch # n => /\ info[ch] # None /\ info[ch].CreateMsg = None
                       /\ info[ch].AddFundsMsg = None
    BY <1>1, <2>1, Zenon DEF Fundable, Active
  <2>3. pq.sum \in Nat /\ pq.covers \in SUBSET Req
    BY <1>1, Zenon DEF PqType
  <2> HIDE DEF Mcid, n
  <2>4. [channel |-> ch, value |-> pq.sum, covers |-> pq.covers,
         chain |-> "pool", stored |-> "no", wait |-> "none"] \in Message
    BY <2>2, <2>3, Zenon DEF Message
  <2> QED BY <2>2, <2>4, Zenon
<1>3. /\ pq' \in PqType /\ pq'.pc = "store" /\ pq'.res = n /\ pq'.by = pq.by
      /\ pq'.reqs = pq.reqs /\ pq'.todo = pq.todo /\ pq'.cur = pq.cur
      /\ pq'.sum = pq.sum /\ pq'.covers = pq.covers
  BY <1>1, ZenonT(60) DEF TaskPush, PqType
<1> HIDE DEF n
<1>4. msg'[n] = new /\ \A m \in Mcid : m # n => msg'[m] = msg[m]
  BY <1>1, <1>2, Zenon DEF TypeOK
<1>5. TypeOK'
  BY <1>1, <1>2, <1>3 DEF TypeOK
<1>6. CallerInv'
  <2>1. \A r \in Req : reply[r] # None => reply[r] \in Mcid /\ msg'[reply[r]] = msg[reply[r]]
    BY <1>1, <1>4, SMTT(60) DEF PaidOnce, Pushed, TypeOK
  <2>2. \A r \in Req, m \in Mcid : Paid(r, m)' => Paid(r, m) \/ r \in queue
    BY <1>1, <1>2, <1>4, ZenonT(60) DEF Paid, Pushed
  <2> QED BY <1>1, <2>1, <2>2, SMTT(60) DEF CallerInv, MergeInv, Waiting
<1>7. MergeInv'
  BY <1>1, <1>3, <1>4 DEF MergeInv, Waiting, Paid, Pushed
<1>8. CompleteInv'
  BY <1>3, Zenon DEF CompleteInv
<1>9. StoreInv'
  <2>1. \A m \in Mcid : m > n => msg'[m] = None /\ info'[m] = None
    BY <1>1, <1>4 DEF StoreInv, n, TypeOK
  <2>2. new # None /\ new.channel \in Mcid
    BY Zenon DEF Message
  <2> QED BY <1>1, <1>2, <1>3, <1>4, <2>1, <2>2, SMTT(60) DEF StoreInv, Pushed
<1>10. MessageInv' /\ PendingIsOwn'
  BY <1>1, <1>2, <1>4, SMTT(60) DEF MessageInv, PendingIsOwn, Pushed
<1>11. PaidOnce'
  <2>1. \A r \in Req : reply[r] # None => reply[r] \in Mcid /\ msg'[reply[r]] = msg[reply[r]]
    BY <1>1, <1>4, SMTT(60) DEF PaidOnce, Pushed, TypeOK
  <2>2. \A m \in Mcid : Pushed(m)' /\ m # n => Pushed(m) /\ msg[m].covers \cap pq.covers = {}
    BY <1>1, <1>4, Zenon DEF Paid, Pushed
  <2> QED BY <1>1, <1>2, <1>4, <2>1, <2>2, SMTT(60) DEF PaidOnce, Pushed
<1> QED BY <1>5, <1>6, <1>7, <1>8, <1>9, <1>10, <1>11, Zenon DEF FundsInv

LEMMA StoreMessageInv ==
  ASSUME FundsInv, StoreMessage
  PROVE  FundsInv'
<1>i. /\ TypeOK /\ CallerInv /\ MergeInv /\ CompleteInv
      /\ StoreInv /\ MessageInv /\ PaidOnce /\ PendingIsOwn
  BY Zenon DEF FundsInv
<1> USE <1>i
<1> DEFINE m == pq.res
           c == msg[m].channel
<1>1. /\ pq \in PqType /\ pq.pc = "store" /\ m \in Mcid /\ Pushed(m)
      /\ msg[m] \in Message /\ c \in Mcid /\ msg[m].covers = pq.covers
      /\ msg[m].stored = "no" /\ msg[m].wait = "none"
      /\ IF c = m THEN info[c] = None
         ELSE info[c] \in ChannelInfo /\ info[c] # None
              /\ info[c].CreateMsg = None /\ info[c].AddFundsMsg = None
      /\ queue' = {}
      /\ UNCHANGED <<caller, seen, reply, expired, inactive, procs, nmsg, bal, crashes>>
  BY SMTT(60) DEF StoreMessage, TypeOK, PqType, StoreInv, MessageInv, Message, Pushed, calls
<1>2. /\ pq' \in PqType /\ pq'.pc = "complete" /\ pq'.by = pq.by /\ pq'.res = m
      /\ pq'.todo = pq.reqs /\ pq'.cur = pq.cur
  BY <1>1, Zenon DEF StoreMessage, PqType
<1>3. PICK new \in Message :
        /\ msg' = [msg EXCEPT ![m] = new]
        /\ new.channel = c /\ new.value = msg[m].value /\ new.covers = msg[m].covers
        /\ new.chain = msg[m].chain /\ new.stored = "sent" /\ new.wait = "waiting"
  <2>1. msg' = [msg EXCEPT ![m] = [msg[m] EXCEPT !.stored = "sent", !.wait = "waiting"]]
    BY <1>1, Zenon DEF StoreMessage, TypeOK
  <2>2. \A x \in Message :
          LET y == [x EXCEPT !.stored = "sent", !.wait = "waiting"]
          IN /\ y \in Message /\ y.channel = x.channel /\ y.value = x.value
             /\ y.covers = x.covers /\ y.chain = x.chain /\ y.stored = "sent"
             /\ y.wait = "waiting"
    BY Zenon DEF Message
  <2> QED BY <1>1, <2>1, <2>2, Zenon
<1>4. PICK ci \in ChannelInfo :
        /\ info' = [info EXCEPT ![c] = ci]
        /\ ci.PendingAmount = msg[m].value
        /\ ci.Channel = (ci.CreateMsg = None)
        /\ ci.CreateMsg # None => ci.AddFundsMsg = None
        /\ IF c = m THEN ci.CreateMsg = m ELSE ci.AddFundsMsg = m
        /\ c # m => ci.Channel
  <2>1. CASE c = m
    <3> DEFINE ci == [Channel |-> FALSE, Amount |-> 0,
                   PendingAmount |-> msg[m].value, CreateMsg |-> m,
                   AddFundsMsg |-> None, Settling |-> FALSE, Redeemed |-> 0]
    <3>1. info' = [info EXCEPT ![c] = ci]
      BY <2>1, Zenon DEF StoreMessage
    <3>2. ci \in ChannelInfo /\ m # None
      BY <1>1 DEF ChannelInfo, Message
    <3> QED BY <2>1, <3>1, <3>2, Zenon
  <2>2. CASE c # m
    <3>1. info' = [info EXCEPT ![c] =
              [info[c] EXCEPT !.PendingAmount = msg[m].value, !.AddFundsMsg = m]]
      BY <1>1, <2>2, Zenon DEF StoreMessage, TypeOK
    <3>2. msg[m].value \in Nat
      BY <1>1, Zenon DEF Message
    <3>4. info[c].Channel = TRUE
      BY <1>1, <2>2, Zenon DEF StoreInv
    <3> HIDE DEF m, c
    <3> DEFINE v == msg[m].value
               y == [info[c] EXCEPT !.PendingAmount = v, !.AddFundsMsg = m]
    <3>5. /\ y \in ChannelInfo /\ y.PendingAmount = v /\ y.AddFundsMsg = m
          /\ y.Channel = TRUE /\ y.CreateMsg = None
      <4>1. info[c] \in ChannelInfo /\ v \in Nat /\ m \in Mcid /\ info[c].CreateMsg = None
        BY <1>1, <2>2, <3>2, Zenon
      <4> DEFINE x == info[c]
      <4> HIDE DEF v, x
      <4>2. /\ x \in ChannelInfo /\ v \in Nat /\ m \in Mcid /\ x.CreateMsg = None
            /\ x.Channel = TRUE /\ y = [x EXCEPT !.PendingAmount = v, !.AddFundsMsg = m]
        BY <3>4, <4>1, Zenon DEF x
      <4> HIDE DEF y
      <4> QED BY <4>2, Zenon DEF ChannelInfo
    <3>6. info' = [info EXCEPT ![c] = y]
      BY <3>1, Zenon
    <3> HIDE DEF y
    <3>7. y.Channel = (y.CreateMsg = None)
      BY <3>5, Zenon
    <3> QED BY <2>2, <3>5, <3>6, <3>7, ZenonT(60)
  <2> QED BY <2>1, <2>2, Zenon
<1> HIDE DEF m, c
<1>5. /\ msg'[m] = new /\ \A k \in Mcid : k # m => msg'[k] = msg[k]
      /\ info'[c] = ci /\ \A k \in Mcid : k # c => info'[k] = info[k]
      /\ new # None /\ ci # None
  BY <1>1, <1>3, <1>4, Zenon DEF TypeOK
<1>6. TypeOK'
  BY <1>1, <1>2, <1>3, <1>4, Zenon DEF TypeOK
<1>7. CallerInv'
  <2>1. \A k \in Mcid : Pushed(k)' => /\ Pushed(k) /\ msg'[k].covers = msg[k].covers
                                      /\ msg[k].wait # "none" => msg'[k] = msg[k]
                                      /\ msg[k].stored = "ok" => msg'[k] = msg[k]
    BY <1>1, <1>3, <1>5, SMTT(60) DEF Pushed
  <2>2. \A r \in Req : reply[r] # None => reply[r] \in Mcid /\ Pushed(reply[r])'
    BY <1>1, <1>5, SMTT(60) DEF PaidOnce, Pushed, TypeOK
  <2> QED BY <1>1, <2>1, <2>2, SMTT(60) DEF CallerInv, Paid, Pushed
<1>8. MergeInv'
  <2>1. pq'.by # None => caller'[pq'.by] = "checking"
    BY <1>1, <1>2, Zenon DEF MergeInv
  <2>2. pq'.pc \notin {"sum", "task", "store"} /\ queue' = {}
    BY <1>1, <1>2, Zenon
  <2> QED BY <2>1, <2>2, Zenon DEF MergeInv
<1>9. CompleteInv'
  <2>1. pq.cur = None /\ pq.reqs = queue /\ ToAnswer' = queue
    BY <1>1, <1>2, Zenon DEF MergeInv, ToAnswer
  <2>2. \A r \in queue : r \in inactive \/ r \in new.covers
    BY <1>1, <1>3, Zenon DEF MergeInv
  <2>3. pq'.res # Err /\ msg'[pq'.res] # None /\ msg'[pq'.res] = new
    BY <1>1, <1>2, <1>5
  <2>4. \A r \in queue : Waiting(r)
    BY Zenon DEF MergeInv
  <2> QED BY <1>1, <1>2, <1>3, <2>1, <2>2, <2>3, <2>4, Zenon DEF CompleteInv, Waiting, Pushed
<1>10. StoreInv'
  <2>1. \A k \in Mcid : k > nmsg => k # m /\ k # c
    <3>1. \A k \in Mcid : k > nmsg => k # m
      BY <1>1, Zenon DEF StoreInv, Pushed
    <3>2. \A k \in Mcid : k > nmsg => k # c
      BY <1>1, <3>1, Zenon DEF StoreInv
    <3> QED BY <3>1, <3>2, Zenon
  <2> QED BY <1>1, <1>2, <1>4, <1>5, <2>1, SMTT(60) DEF StoreInv
<1>11. MessageInv'
  <2>1. \A k \in Mcid : info[k] # None /\ info[k].Channel => info'[k] # None /\ info'[k].Channel
    BY <1>1, <1>4, <1>5
  <2>2. \A k \in Mcid : Pushed(k) => msg[k].channel \in Mcid
    BY Zenon DEF TypeOK, Message, Pushed
  <2> QED BY <1>1, <1>3, <1>5, <2>1, <2>2, SMTT(60) DEF MessageInv, Pushed
<1>12. PendingIsOwn'
  <2>1. ASSUME NEW k \in Mcid, k # m, Pushed(k), msg[k].wait = "waiting"
        PROVE  msg[k].channel # c /\ msg[k].channel \in Mcid
    <3>1. msg[k].channel \in Mcid
      BY <2>1 DEF TypeOK, Message, Pushed
    <3>2. /\ info[msg[k].channel] # None
          /\ \/ info[msg[k].channel].CreateMsg = k
             \/ info[msg[k].channel].AddFundsMsg = k
      BY <2>1, Zenon DEF PendingIsOwn
    <3> QED BY <1>1, <2>1, <3>1, <3>2, SMTT(60)
  <2> QED BY <1>1, <1>3, <1>4, <1>5, <2>1, SMTT(60) DEF PendingIsOwn, Pushed
<1>13. PaidOnce'
  <2>1. \A k \in Mcid : /\ msg'[k] # None <=> msg[k] # None
                        /\ msg[k] # None => msg'[k].covers = msg[k].covers
    BY <1>1, <1>3, <1>5 DEF Pushed
  <2> QED BY <1>1, <2>1, PaidFrame, Zenon
<1> QED BY <1>6, <1>7, <1>8, <1>9, <1>10, <1>11, <1>12, <1>13, Zenon DEF FundsInv
-----------------------------------------------------------------------------
(* The chain and the goroutines that wait for it. *)

(* What MessageInv says of one message: the wait for it, what of it is     *)
(* stored, and the chain agree.                                            *)
Consistent(y) ==
  /\ y.wait \in {"waiting", "ok", "err"} => y.stored = "sent"
  /\ y.wait = "done" => y.stored \in {"ok", "err"}
  /\ (y.wait = "ok" \/ y.stored = "ok") =>
       y.chain = "ok" /\ info[y.channel] # None /\ info[y.channel].Channel

(* A message goes on: it pays for the same and is waited for no more than  *)
(* before.                                                                 *)
Continues(new, old) ==
  /\ new.channel = old.channel /\ new.value = old.value /\ new.covers = old.covers
  /\ new.stored = "no" <=> old.stored = "no"
  /\ new.wait = "none" <=> old.wait = "none"
  /\ new.wait = "waiting" => old.wait = "waiting"

(* Steps of the chain and of the goroutines that change one message. *)
MessageMoves(m, new) ==
  /\ new \in Message /\ msg[m] # None
  /\ msg' = [msg EXCEPT ![m] = new]
  /\ Continues(new, msg[m]) /\ Consistent(new)
  /\ \A r \in Req : caller'[r] = caller[r] \/ caller[r] = "listening"
  /\ UNCHANGED <<reply, inactive, queue, pq, info, nmsg>>

LEMMA MessageFrame ==
  ASSUME FundsInv, NEW m \in Mcid, NEW new, MessageMoves(m, new), TypeOK', CallerInv'
  PROVE  FundsInv'
<1>i. /\ TypeOK /\ CallerInv /\ MergeInv /\ CompleteInv
      /\ StoreInv /\ MessageInv /\ PaidOnce /\ PendingIsOwn
  BY Zenon DEF FundsInv
<1> USE <1>i
<1>0. /\ \A r \in Req : caller'[r] = caller[r] \/ caller[r] = "listening"
      /\ UNCHANGED <<reply, inactive, queue, pq, info, nmsg>>
  BY Zenon DEF MessageMoves
<1>1. /\ msg'[m] = new /\ \A k \in Mcid : k # m => msg'[k] = msg[k]
      /\ new # None /\ msg[m] # None
      /\ Continues(new, msg[m]) /\ Consistent(new)
  BY NoneAssumption, Zenon DEF MessageMoves, TypeOK
<1>2. \A k \in Mcid : msg'[k] # None <=> msg[k] # None
  BY <1>1, Zenon
<1>3. ASSUME NEW k \in Mcid, msg[k] # None PROVE Continues(msg'[k], msg[k])
  <2>1. CASE k = m
    BY <1>1, <2>1, Zenon
  <2>2. CASE k # m
    BY <1>1, <2>2, Zenon DEF Continues
  <2> QED BY <2>1, <2>2, Zenon
<1>4. ASSUME NEW r \in Req, NEW k \in Mcid PROVE Paid(r, k)' <=> Paid(r, k)
  BY <1>2, <1>3, Zenon DEF Paid, Pushed, Continues
<1>5. \A r \in Req : Waiting(r) => Waiting(r)'
  BY <1>0, Zenon DEF Waiting
<1>6. /\ ToAnswer \subseteq Req /\ ToAnswer' = ToAnswer /\ queue \subseteq Req
      /\ pq.res # Err => pq.res \in Mcid
      /\ pq.by # None => pq.by \in Req
  BY <1>0, Zenon DEF ToAnswer, TypeOK, PqType
<1>7. MergeInv'
  <2>1. pq.by # None => caller'[pq.by] = caller[pq.by]
    BY <1>0, <1>6, Zenon DEF MergeInv
  <2> QED BY <1>0, <1>4, <1>5, <1>6, <2>1, Zenon DEF MergeInv
<1>8. CompleteInv'
  BY <1>0, <1>2, <1>3, <1>4, <1>5, <1>6, Zenon DEF CompleteInv, Pushed, Continues
<1>9. StoreInv'
  BY <1>0, <1>2, <1>3, <1>6 DEF StoreInv, Pushed, Continues
<1>10. MessageInv'
  <2>1. \A k \in Mcid : msg[k] # None => Consistent(msg[k])
    BY Zenon DEF MessageInv, Pushed, Consistent
  <2>2. \A k \in Mcid : msg'[k] # None => Consistent(msg'[k])
    BY <1>1, <2>1, Zenon
  <2> QED BY <1>0, <2>2, Zenon DEF MessageInv, Pushed, Consistent
<1>11. PendingIsOwn'
  BY <1>0, <1>2, <1>3 DEF PendingIsOwn, Pushed, Continues
<1>12. PaidOnce'
  <2>1. \A k \in Mcid : /\ msg'[k] # None <=> msg[k] # None
                        /\ msg[k] # None => msg'[k].covers = msg[k].covers
    BY <1>2, <1>3, Zenon DEF Continues
  <2>2. UNCHANGED reply
    BY <1>0, Zenon
  <2> QED BY <2>1, <2>2, PaidFrame, Zenon
<1> QED BY <1>7, <1>8, <1>9, <1>10, <1>11, <1>12, Zenon DEF FundsInv

LEMMA ExecInv ==
  ASSUME FundsInv, NEW m \in Mcid, Exec(m)
  PROVE  FundsInv'
<1>i. /\ TypeOK /\ CallerInv /\ MergeInv /\ CompleteInv
      /\ StoreInv /\ MessageInv /\ PaidOnce /\ PendingIsOwn
  BY Zenon DEF FundsInv
<1> USE <1>i
<1>1. /\ msg[m] \in Message /\ msg[m] # None /\ msg[m].chain = "pool"
      /\ UNCHANGED <<caller, seen, reply, expired, inactive, queue, procs, pq,
                     info, nmsg, crashes>>
  BY Zenon DEF Exec, TypeOK, calls
<1>2. PICK ch \in {"ok", "failed"} : msg' = [msg EXCEPT ![m] = [msg[m] EXCEPT !.chain = ch]]
  BY Zenon DEF Exec, TypeOK
<1> DEFINE new == [msg[m] EXCEPT !.chain = ch]
<1>3. /\ new \in Message /\ new.channel = msg[m].channel /\ new.value = msg[m].value
      /\ new.covers = msg[m].covers /\ new.stored = msg[m].stored
      /\ new.wait = msg[m].wait /\ new # None
  BY <1>1 DEF Message
<1>4. bal' \in [Mcid -> Nat]
  <2>1. msg[m].channel \in Mcid /\ msg[m].value \in Nat
    BY <1>1, Zenon DEF Message
  <2>2. \/ bal' = [bal EXCEPT ![msg[m].channel] = bal[msg[m].channel] + msg[m].value]
        \/ bal' = bal
    BY Zenon DEF Exec
  <2>3. bal[msg[m].channel] + msg[m].value \in Nat
    BY <2>1, SMTT(60) DEF TypeOK
  <2> QED BY <2>1, <2>2, <2>3, Zenon DEF TypeOK
<1> HIDE DEF new
<1>5. msg' = [msg EXCEPT ![m] = new]
  BY <1>2 DEF new
<1>6. TypeOK'
  BY <1>1, <1>3, <1>4, <1>5, Zenon DEF TypeOK
<1>7. CallerInv'
  <2>1. \A k \in Mcid : /\ msg'[k] # None <=> msg[k] # None
                        /\ msg[k] # None => /\ msg'[k].covers = msg[k].covers
                                            /\ msg'[k].stored = msg[k].stored
                                            /\ msg'[k].wait = msg[k].wait
    BY <1>1, <1>3, <1>5, Zenon DEF TypeOK
  <2>2. \A r \in Req : reply[r] # None => reply[r] \in Mcid /\ msg[reply[r]] # None
    BY Zenon DEF PaidOnce, Pushed, TypeOK
  <2> QED BY <1>1, <2>1, <2>2, SMTT(60) DEF CallerInv, Paid, Pushed
<1>8. /\ new.wait = "ok" \/ new.stored = "ok" => FALSE
      /\ new.wait \in {"waiting", "ok", "err"} => new.stored = "sent"
      /\ new.wait = "done" => new.stored \in {"ok", "err"}
  BY <1>1, <1>3 DEF MessageInv, Pushed
<1>9. MessageMoves(m, new)
  BY <1>1, <1>3, <1>5, <1>8, Zenon DEF MessageMoves, Continues, Consistent
<1> QED BY <1>6, <1>7, <1>9, MessageFrame, Zenon

LEMMA WaitFailsInv ==
  ASSUME FundsInv, NEW m \in Mcid, WaitFails(m)
  PROVE  FundsInv'
<1>i. /\ TypeOK /\ CallerInv /\ MergeInv /\ CompleteInv
      /\ StoreInv /\ MessageInv /\ PaidOnce /\ PendingIsOwn
  BY Zenon DEF FundsInv
<1> USE <1>i
<1>1. /\ msg[m] \in Message /\ msg[m] # None /\ msg[m].wait = "waiting"
      /\ msg' = [msg EXCEPT ![m] = [msg[m] EXCEPT !.wait = "err"]]
      /\ UNCHANGED <<caller, seen, reply, expired, inactive, queue, procs, pq,
                     info, nmsg, bal, crashes>>
  BY Zenon DEF WaitFails, TypeOK, calls
<1> DEFINE new == [msg[m] EXCEPT !.wait = "err"]
<1>2. /\ new \in Message /\ new.channel = msg[m].channel /\ new.value = msg[m].value
      /\ new.covers = msg[m].covers /\ new.stored = msg[m].stored
      /\ new.chain = msg[m].chain /\ new.wait = "err" /\ new # None
  BY <1>1 DEF Message
<1> HIDE DEF new
<1>3. msg' = [msg EXCEPT ![m] = new]
  BY <1>1 DEF new
<1>4. TypeOK'
  BY <1>1, <1>2, <1>3, Zenon DEF TypeOK
<1>5. CallerInv'
  <2>1. \A k \in Mcid : /\ msg'[k] # None <=> msg[k] # None
                        /\ msg[k] # None => /\ msg'[k].covers = msg[k].covers
                                            /\ msg'[k].stored = msg[k].stored
                                            /\ msg'[k].wait = "none" <=> msg[k].wait = "none"
                                            /\ msg'[k].wait = "done" <=> msg[k].wait = "done"
    BY <1>1, <1>2, <1>3, Zenon DEF TypeOK
  <2>2. \A r \in Req : reply[r] # None => reply[r] \in Mcid /\ msg[reply[r]] # None
    BY Zenon DEF PaidOnce, Pushed, TypeOK
  <2> QED BY <1>1, <2>1, <2>2 DEF CallerInv, Paid, Pushed
<1>6. msg[m].stored = "sent"
  BY <1>1, <1>2, Zenon DEF MessageInv, Pushed
<1>7. /\ new.stored = "sent" /\ new.stored # "ok" /\ new.wait # "ok"
      /\ new.wait # "none" /\ msg[m].wait # "none"
  BY <1>1, <1>2, <1>6, Zenon
<1>8. MessageMoves(m, new)
  BY <1>1, <1>2, <1>3, <1>6, <1>7, Zenon DEF MessageMoves, Continues, Consistent
<1> QED BY <1>4, <1>5, <1>8, MessageFrame, Zenon

LEMMA MsgWaitCompleteInv ==
  ASSUME FundsInv, NEW m \in Mcid, MsgWaitComplete(m)
  PROVE  FundsInv'
<1>i. /\ TypeOK /\ CallerInv /\ MergeInv /\ CompleteInv
      /\ StoreInv /\ MessageInv /\ PaidOnce /\ PendingIsOwn
  BY Zenon DEF FundsInv
<1> USE <1>i
<1>1. /\ msg[m] \in Message /\ msg[m] # None /\ msg[m].wait \in {"ok", "err"}
      /\ msg' = [msg EXCEPT ![m] = [msg[m] EXCEPT !.stored = msg[m].wait, !.wait = "done"]]
      /\ UNCHANGED <<seen, reply, expired, inactive, queue, pq, info, nmsg, bal, crashes>>
  BY Zenon DEF MsgWaitComplete, TypeOK
<1> DEFINE new == [msg[m] EXCEPT !.stored = msg[m].wait, !.wait = "done"]
<1>2. /\ new \in Message /\ new.channel = msg[m].channel /\ new.value = msg[m].value
      /\ new.covers = msg[m].covers /\ new.stored = msg[m].wait
      /\ new.chain = msg[m].chain /\ new.wait = "done" /\ new # None
  BY <1>1, Zenon DEF Message
<1> HIDE DEF new
<1>3. msg' = [msg EXCEPT ![m] = new]
  BY <1>1, Zenon DEF new
<1>4. /\ caller' \in [Req -> Callers] /\ procs' \in Nat
      /\ \A r \in Req : \/ caller'[r] = caller[r]
                        \/ /\ caller[r] = "listening" /\ reply[r] = m
                           /\ IF msg[m].wait = "ok" THEN caller'[r] = "ready"
                              ELSE caller'[r] = "failed"
      /\ \A r \in Req : caller[r] = "listening" /\ reply[r] = m => caller'[r] # "listening"
  BY DEF MsgWaitComplete, TypeOK, Callers
<1>5. TypeOK'
  BY <1>1, <1>2, <1>3, <1>4 DEF TypeOK
<1>6. CallerInv'
  <2>1. \A k \in Mcid : /\ msg'[k] # None <=> msg[k] # None
                        /\ msg[k] # None => /\ msg'[k].covers = msg[k].covers
                                            /\ k = m \/ msg'[k] = msg[k]
    BY <1>1, <1>2, <1>3, Zenon DEF TypeOK
  <2>2. msg'[m] = new
    BY <1>3, Zenon DEF TypeOK
  <2>3. \A r \in Req : reply[r] # None => reply[r] \in Mcid /\ msg[reply[r]] # None
    BY Zenon DEF PaidOnce, Pushed, TypeOK
  <2>4. msg[m].stored = "sent"
    BY <1>1, Zenon DEF MessageInv, Pushed
  <2> QED BY <1>1, <1>2, <1>4, <2>1, <2>2, <2>3, <2>4 DEF CallerInv, Paid, Pushed
<1>7. /\ new.stored \in {"ok", "err"} /\ msg[m].stored = "sent"
      /\ new.stored = "ok" =>
        new.chain = "ok" /\ info[new.channel] # None /\ info[new.channel].Channel
  BY <1>1, <1>2 DEF MessageInv, Pushed
<1>8. /\ new.stored # "no" /\ new.wait \notin {"none", "waiting", "ok", "err"}
      /\ msg[m].wait # "none"
  BY <1>1, <1>2, <1>7, Zenon
<1>9. \A r \in Req : caller'[r] = caller[r] \/ caller[r] = "listening"
  BY <1>4, Zenon
<1>10. MessageMoves(m, new)
  BY <1>1, <1>2, <1>3, <1>7, <1>8, <1>9, Zenon DEF MessageMoves, Continues, Consistent
<1> QED BY <1>5, <1>6, <1>10, MessageFrame, Zenon
-----------------------------------------------------------------------------
(* The goroutines that wait for a message, and the record of a channel. *)

LEMMA WaitMsgInv ==
  ASSUME FundsInv, NEW m \in Mcid, WaitMsg(m)
  PROVE  FundsInv'
<1>i. /\ TypeOK /\ CallerInv /\ MergeInv /\ CompleteInv
      /\ StoreInv /\ MessageInv /\ PaidOnce /\ PendingIsOwn
  BY Zenon DEF FundsInv
<1> USE <1>i
<1> DEFINE c == msg[m].channel
           ok == msg[m].chain = "ok"
<1>1. /\ msg[m] \in Message /\ msg[m] # None /\ msg[m].wait = "waiting"
      /\ c \in Mcid /\ msg[m].stored = "sent" /\ pq.pc = "idle"
      /\ UNCHANGED <<caller, seen, reply, expired, inactive, queue, procs, pq,
                     nmsg, bal, crashes>>
  BY Zenon DEF WaitMsg, Unlocked, TypeOK, Message, MessageInv, Pushed, calls
<1>2. /\ info[c] \in ChannelInfo /\ info[c] # None
      /\ IF c = m THEN info[c].CreateMsg = m ELSE info[c].AddFundsMsg = m
      /\ c = m => ~info[c].Channel /\ info[c].AddFundsMsg = None
      /\ c # m => info[c].CreateMsg = None /\ info[c].Channel
  <2>1. /\ info[c] # None
        /\ IF c = m THEN info[c].CreateMsg = m ELSE info[c].AddFundsMsg = m
    BY <1>1, Zenon DEF PendingIsOwn, Pushed
  <2> HIDE DEF c
  <2>2. /\ info[c] \in ChannelInfo /\ info[c].Channel = (info[c].CreateMsg = None)
        /\ info[c].CreateMsg # None => info[c].AddFundsMsg = None
    BY <1>1, <2>1, SMTT(60) DEF StoreInv, TypeOK
  <2>3. m # None
    OBVIOUS
  <2>4. CASE c = m
    BY <2>1, <2>2, <2>3, <2>4, Zenon
  <2>5. CASE c # m
    BY <2>1, <2>2, <2>3, <2>5, Zenon
  <2> QED BY <2>1, <2>2, <2>4, <2>5, Zenon
<1>3. PICK w \in {"ok", "err"} :
        /\ msg' = [msg EXCEPT ![m] = [msg[m] EXCEPT !.wait = w]]
        /\ w = "ok" <=> ok
  BY Zenon DEF WaitMsg, TypeOK
<1> DEFINE new == [msg[m] EXCEPT !.wait = w]
<1>4. /\ new \in Message /\ new.channel = c /\ new.value = msg[m].value
      /\ new.covers = msg[m].covers /\ new.stored = "sent"
      /\ new.chain = msg[m].chain /\ new.wait = w /\ new # None
  BY <1>1 DEF Message
<1>5. PICK x \in ChannelInfo \cup {None} :
        /\ info' = [info EXCEPT ![c] = x]
        /\ x = None => c = m /\ ~ok
        /\ x # None => x.Channel = TRUE /\ x.CreateMsg = None
  <2>1. CASE c = m /\ ok
    <3> DEFINE x == [info[c] EXCEPT !.Channel = TRUE, !.Amount = info[c].PendingAmount,
                               !.PendingAmount = 0, !.CreateMsg = None]
    <3>1. info' = [info EXCEPT ![c] = x]
      BY <1>2, <2>1, Zenon DEF WaitMsg
    <3>2. x \in ChannelInfo /\ x.Channel = TRUE /\ x.CreateMsg = None
      BY <1>2, Zenon DEF ChannelInfo
    <3> HIDE DEF x
    <3> QED BY <3>1, <3>2, Zenon
  <2>2. CASE c = m /\ ~ok
    BY <1>2, <2>2, Zenon DEF WaitMsg
  <2>3. CASE c # m
    <3>1. PICK am \in Nat : info' = [info EXCEPT ![c] =
             [info[c] EXCEPT !.Amount = am, !.PendingAmount = 0, !.AddFundsMsg = None]]
      <4>1. info[c].Amount \in Nat /\ info[c].Amount + info[c].PendingAmount \in Nat
        BY <1>2, SMTT(60) DEF ChannelInfo
      <4> QED BY <1>2, <2>3, <4>1, Zenon DEF WaitMsg
    <3> DEFINE x == [info[c] EXCEPT !.Amount = am, !.PendingAmount = 0, !.AddFundsMsg = None]
    <3>2. info[c].Channel = TRUE
      BY <1>2, <2>3, Zenon DEF ChannelInfo
    <3>3. x \in ChannelInfo /\ x.Channel = TRUE /\ x.CreateMsg = None
      BY <1>2, <2>3, <3>2, Zenon DEF ChannelInfo
    <3> HIDE DEF x
    <3>4. info' = [info EXCEPT ![c] = x]
      BY <3>1 DEF x
    <3> QED BY <2>3, <3>3, <3>4, Zenon
  <2> QED BY <2>1, <2>2, <2>3, Zenon
<1>6. msg' = [msg EXCEPT ![m] = new]
  BY <1>3, Zenon
<1> HIDE DEF new, c, ok
<1>7. /\ msg'[m] = new /\ \A k \in Mcid : k # m => msg'[k] = msg[k]
      /\ info'[c] = x /\ \A k \in Mcid : k # c => info'[k] = info[k]
  BY <1>1, <1>5, <1>6, Zenon DEF TypeOK
<1>8. \A k \in Mcid :
        /\ msg'[k] # None <=> msg[k] # None
        /\ msg[k] # None => /\ msg'[k].covers = msg[k].covers
                            /\ msg'[k].stored = msg[k].stored
                            /\ msg'[k].wait # "none" <=> msg[k].wait # "none"
                            /\ msg'[k].wait = "done" <=> msg[k].wait = "done"
  BY <1>1, <1>4, <1>7, Zenon
<1>9. TypeOK'
  BY <1>1, <1>4, <1>5, <1>6, Zenon DEF TypeOK
<1>10. CallerInv'
  <2>1. \A r \in Req : reply[r] # None => reply[r] \in Mcid /\ msg[reply[r]] # None
    BY Zenon DEF PaidOnce, Pushed, TypeOK
  <2> QED BY <1>1, <1>8, <2>1, SMTT(60) DEF CallerInv, Paid, Pushed
<1>11. MergeInv'
  <2>1. queue \subseteq Req
    BY Zenon DEF TypeOK
  <2>2. \A r \in Req, k \in Mcid : Paid(r, k)' <=> Paid(r, k)
    BY <1>8, Zenon DEF Paid, Pushed
  <2>3. UNCHANGED <<caller, reply, inactive, queue, pq>>
    BY <1>1, Zenon
  <2> QED BY <1>1, <2>1, <2>2, <2>3, Zenon DEF MergeInv, Waiting
<1>12. CompleteInv'
  <2>1. pq'.pc = "idle" /\ "idle" # "complete"
    BY <1>1, Zenon
  <2> QED BY <2>1, Zenon DEF CompleteInv
<1>13. StoreInv'
  <2>1. \A k \in Mcid : k > nmsg => k # m /\ k # c
    BY <1>1, <1>2, Zenon DEF StoreInv
  <2>2. x # None => x.Channel = (x.CreateMsg = None)
    BY <1>5, Zenon
  <2>3. \A k \in Mcid : k > nmsg => msg[k] = None /\ info[k] = None
    BY Zenon DEF StoreInv
  <2>4. \A k \in Mcid : k > nmsg' => msg'[k] = None /\ info'[k] = None
    BY <1>1, <1>7, <2>1, <2>3
  <2> DEFINE Good(y) == /\ y.Channel = (y.CreateMsg = None)
                        /\ y.CreateMsg # None => y.AddFundsMsg = None
  <2>5. \A k \in Mcid : info[k] # None => Good(info[k])
    BY Zenon DEF StoreInv
  <2>6. x # None => Good(x)
    BY <1>5, <2>2, Zenon
  <2> HIDE DEF Good
  <2>7. \A k \in Mcid : info'[k] # None => Good(info'[k])
    <3>1. ASSUME NEW k \in Mcid, info'[k] # None, k = c PROVE Good(info'[k])
      BY <1>7, <2>6, <3>1, Zenon
    <3>2. ASSUME NEW k \in Mcid, info'[k] # None, k # c PROVE Good(info'[k])
      BY <1>7, <2>5, <3>2, Zenon
    <3> QED BY <3>1, <3>2, Zenon
  <2>8. pq'.pc # "store"
    BY <1>1, Zenon
  <2> QED BY <2>4, <2>7, <2>8, Zenon DEF StoreInv, Good
<1>14. MessageInv'
  <2>1. ASSUME NEW k \in Mcid, k # m, Pushed(k), msg[k].wait = "ok" \/ msg[k].stored = "ok"
        PROVE  info'[msg[k].channel] # None /\ info'[msg[k].channel].Channel
    <3>1. msg[k].channel \in Mcid
      BY <2>1, Zenon DEF TypeOK, Message, Pushed
    <3>2. info[msg[k].channel] # None /\ info[msg[k].channel].Channel
      BY <2>1 DEF MessageInv
    <3> QED BY <1>2, <1>5, <1>7, <3>1, <3>2, Zenon
  <2>2. w = "ok" => new.chain = "ok" /\ x # None /\ x.Channel
    BY <1>3, <1>4, <1>5 DEF ok
  <2> DEFINE Good(k, y) == /\ y.wait \in {"waiting", "ok", "err"} => y.stored = "sent"
                           /\ y.wait = "done" => y.stored \in {"ok", "err"}
                           /\ (y.wait = "ok" \/ y.stored = "ok") =>
                                /\ y.chain = "ok" /\ info'[y.channel] # None
                                /\ info'[y.channel].Channel
  <2>3. Good(m, new)
    BY <1>3, <1>4, <1>7, <2>2, Zenon
  <2>4. ASSUME NEW k \in Mcid, k # m, Pushed(k) PROVE Good(k, msg[k])
    BY <2>1, <2>4, Zenon DEF MessageInv
  <2>5. \A k \in Mcid : msg'[k] # None => Good(k, msg'[k])
    BY <1>7, <2>3, <2>4 DEF Pushed
  <2> QED BY <2>5, Zenon DEF MessageInv, Pushed
<1>15. PendingIsOwn'
  <2>1. ASSUME NEW k \in Mcid, k # m, Pushed(k), msg[k].wait = "waiting"
        PROVE  msg[k].channel # c /\ msg[k].channel \in Mcid
    <3>1. msg[k].channel \in Mcid /\ k # None
      BY <2>1, SMTT(60) DEF TypeOK, Message, Pushed
    <3>2. /\ info[msg[k].channel] # None
          /\ IF msg[k].channel = k THEN info[msg[k].channel].CreateMsg = k
             ELSE info[msg[k].channel].AddFundsMsg = k
      BY <2>1, Zenon DEF PendingIsOwn
    <3> QED BY <1>2, <2>1, <3>1, <3>2, Zenon
  <2> QED BY <1>3, <1>4, <1>7, <2>1, SMTT(60) DEF PendingIsOwn, Pushed
<1>16. PaidOnce'
  BY <1>1, <1>8, PaidFrame
<1> QED BY <1>9, <1>10, <1>11, <1>12, <1>13, <1>14, <1>15, <1>16, Zenon DEF FundsInv

(* Two records of a channel agree on the funds that are on their way. *)
SameFunding(x, y) ==
  /\ x.Channel = y.Channel /\ x.PendingAmount = y.PendingAmount
  /\ x.CreateMsg = y.CreateMsg /\ x.AddFundsMsg = y.AddFundsMsg

(* Steps that change one record and leave its pending funds alone. *)
InfoMoves(c, x) ==
  /\ x \in ChannelInfo /\ info[c] # None
  /\ info' = [info EXCEPT ![c] = x]
  /\ SameFunding(x, info[c])
  /\ UNCHANGED <<calls, queue, procs, pq, msg, nmsg, bal, crashes>>

LEMMA InfoFrame ==
  ASSUME FundsInv, NEW c \in Mcid, NEW x, InfoMoves(c, x)
  PROVE  FundsInv'
<1>i. /\ TypeOK /\ CallerInv /\ MergeInv /\ CompleteInv
      /\ StoreInv /\ MessageInv /\ PaidOnce /\ PendingIsOwn
  BY Zenon DEF FundsInv
<1> USE <1>i
<1>0. UNCHANGED <<caller, seen, reply, inactive, queue, pq, msg, nmsg>>
  BY Zenon DEF InfoMoves, calls
<1>1. \A k \in Mcid : /\ info'[k] # None <=> info[k] # None
                      /\ info[k] # None => SameFunding(info'[k], info[k])
  <2>1. /\ info'[c] = x /\ \A k \in Mcid : k # c => info'[k] = info[k]
        /\ x # None /\ info[c] # None /\ SameFunding(x, info[c])
    BY NoneAssumption, Zenon DEF InfoMoves, TypeOK
  <2>2. \A y : SameFunding(y, y)
    BY Zenon DEF SameFunding
  <2> QED BY <2>1, <2>2, Zenon
<1>2. TypeOK'
  BY Zenon DEF InfoMoves, TypeOK, calls
<1>3. CallerInv' /\ MergeInv' /\ CompleteInv' /\ PaidOnce'
  <2>1. CallerInv'
    BY <1>0, Zenon DEF CallerInv, Paid, Pushed
  <2>2. MergeInv'
    BY <1>0, Zenon DEF MergeInv, Paid, Pushed, Waiting
  <2>3. CompleteInv'
    BY <1>0, Zenon DEF CompleteInv, Paid, Pushed, Waiting, ToAnswer
  <2>4. PaidOnce'
    BY <1>0, Zenon DEF PaidOnce, Pushed
  <2> QED BY <2>1, <2>2, <2>3, <2>4, Zenon
<1>4. \A k \in Mcid : Pushed(k) => msg[k].channel \in Mcid
  BY Zenon DEF TypeOK, Message, Pushed
<1>5. StoreInv'
  <2>1. pq.res \in Mcid \cup {Err}
    BY Zenon DEF TypeOK, PqType
  <2>2. pq.pc = "store" /\ pq.res # Err /\ Pushed(pq.res) => msg[pq.res].channel \in Mcid
    BY <1>4, <2>1, Zenon
  <2> QED BY <1>0, <1>1, <2>2 DEF StoreInv, Pushed, SameFunding
<1>6. MessageInv'
  BY <1>0, <1>1, <1>4, Zenon DEF MessageInv, Pushed, SameFunding
<1>7. PendingIsOwn'
  BY <1>0, <1>1, <1>4 DEF PendingIsOwn, Pushed, SameFunding
<1> QED BY <1>2, <1>3, <1>5, <1>6, <1>7, Zenon DEF FundsInv

LEMMA CreateVoucherInv ==
  ASSUME FundsInv, NEW c \in Mcid, CreateVoucher(c)
  PROVE  FundsInv'
<1>i. /\ TypeOK /\ CallerInv /\ MergeInv /\ CompleteInv
      /\ StoreInv /\ MessageInv /\ PaidOnce /\ PendingIsOwn
  BY Zenon DEF FundsInv
<1> USE <1>i
<1>1. info[c] \in ChannelInfo /\ info[c] # None /\ bal[c] \in Nat
      /\ UNCHANGED <<calls, queue, procs, pq, msg, nmsg, bal, crashes>>
  BY Zenon DEF CreateVoucher, TypeOK
<1>2. PICK total \in Nat, am \in Nat :
        info' = [info EXCEPT ![c] = [info[c] EXCEPT !.Redeemed = total, !.Amount = am]]
  <2>1. info[c].Amount \in Nat /\ info[c].Redeemed \in Nat
    BY <1>1, Zenon DEF ChannelInfo
  <2>2. PICK total \in info[c].Redeemed + 1 .. bal[c] :
          info' = [info EXCEPT ![c].Redeemed = total,
                               ![c].Amount = IF @ < bal[c] THEN bal[c] ELSE @]
    BY Zenon DEF CreateVoucher
  <2>3. total \in Nat
    <3>1. \A x, y \in Nat : x + 1 .. y \subseteq Nat
      OBVIOUS
    <3> QED BY <1>1, <2>1, <3>1, Zenon
  <2>4. info' = [info EXCEPT ![c] = [info[c] EXCEPT !.Redeemed = total,
                    !.Amount = IF info[c].Amount < bal[c] THEN bal[c] ELSE info[c].Amount]]
    BY <1>1, <2>2, Zenon DEF TypeOK, ChannelInfo
  <2> QED BY <1>1, <2>1, <2>3, <2>4, Zenon
<1> DEFINE x == [info[c] EXCEPT !.Redeemed = total, !.Amount = am]
<1>3. /\ x \in ChannelInfo
      /\ x.Channel = info[c].Channel /\ x.PendingAmount = info[c].PendingAmount
      /\ x.CreateMsg = info[c].CreateMsg /\ x.AddFundsMsg = info[c].AddFundsMsg
  BY <1>1, Zenon DEF ChannelInfo
<1>4. info' = [info EXCEPT ![c] = x]
  BY <1>2, Zenon
<1> HIDE DEF x
<1>5. InfoMoves(c, x)
  BY <1>1, <1>3, <1>4, Zenon DEF InfoMoves, SameFunding
<1> QED BY <1>5, InfoFrame, Zenon

LEMMA SettleInv ==
  ASSUME FundsInv, NEW c \in Mcid, Settle(c)
  PROVE  FundsInv'
<1>i. /\ TypeOK /\ CallerInv /\ MergeInv /\ CompleteInv
      /\ StoreInv /\ MessageInv /\ PaidOnce /\ PendingIsOwn
  BY Zenon DEF FundsInv
<1> USE <1>i
<1> DEFINE x == [info[c] EXCEPT !.Settling = TRUE]
<1>1. /\ info[c] \in ChannelInfo /\ info[c] # None /\ info' = [info EXCEPT ![c] = x]
      /\ UNCHANGED <<calls, queue, procs, pq, msg, nmsg, bal, crashes>>
  BY DEF Settle, TypeOK
<1>2. /\ x \in ChannelInfo
      /\ x.Channel = info[c].Channel /\ x.PendingAmount = info[c].PendingAmount
      /\ x.CreateMsg = info[c].CreateMsg /\ x.AddFundsMsg = info[c].AddFundsMsg
  BY <1>1, Zenon DEF ChannelInfo
<1> HIDE DEF x
<1>3. InfoMoves(c, x)
  BY <1>1, <1>2, Zenon DEF InfoMoves, SameFunding
<1> QED BY <1>3, InfoFrame, Zenon

(* The process stops and starts again. *)
LEMMA RestartInv ==
  ASSUME FundsInv, NEW stopped \in [Req -> Callers], Restart(stopped),
         \A r \in Req : stopped[r] # caller[r] =>
                        stopped[r] = "panic" /\ caller[r] = "checking"
  PROVE  FundsInv'
<1>i. /\ TypeOK /\ CallerInv /\ MergeInv /\ CompleteInv
      /\ StoreInv /\ MessageInv /\ PaidOnce /\ PendingIsOwn
  BY Zenon DEF FundsInv
<1> USE <1>i
<1>1. /\ caller' \in [Req -> Callers]
      /\ \A r \in Req : \/ caller'[r] = caller[r] /\ caller[r] \in Returned \cup {"idle"}
                        \/ caller'[r] = "gone"
                        \/ caller'[r] = "panic" /\ caller[r] = "checking"
  BY Zenon DEF Restart, Returned, Callers
<1>2. /\ UNCHANGED <<seen, reply, expired, inactive, info, nmsg, bal>>
      /\ queue' = {} /\ procs' = 0 /\ pq' = Idle /\ crashes' \in Nat
  BY DEF Restart, TypeOK
<1>3. \A y \in Message : LET z == [y EXCEPT !.wait = "none"]
        IN /\ z \in Message /\ z.channel = y.channel /\ z.covers = y.covers
           /\ z.stored = y.stored /\ z.chain = y.chain /\ z.wait = "none"
  BY Zenon DEF Message
<1>4. ASSUME NEW k \in Mcid
      PROVE  /\ msg'[k] # None <=> msg[k] # None
             /\ msg[k] # None => /\ msg'[k] \in Message
                                 /\ msg'[k].channel = msg[k].channel
                                 /\ msg'[k].covers = msg[k].covers
                                 /\ msg'[k].stored = msg[k].stored
                                 /\ msg'[k].chain = msg[k].chain
                                 /\ msg'[k].wait = "none"
  <2>1. CASE msg[k] = None
    BY <2>1, Zenon DEF Restart
  <2>2. CASE msg[k] # None
    <3>1. msg[k] \in Message /\ msg'[k] = [msg[k] EXCEPT !.wait = "none"]
      BY <2>2, Zenon DEF Restart, TypeOK
    <3> DEFINE y == msg[k]
    <3>2. y \in Message /\ msg'[k] = [y EXCEPT !.wait = "none"]
      BY <3>1, Zenon
    <3> HIDE DEF y
    <3>3. /\ msg'[k] \in Message /\ msg'[k].channel = y.channel
          /\ msg'[k].covers = y.covers /\ msg'[k].stored = y.stored
          /\ msg'[k].chain = y.chain /\ msg'[k].wait = "none"
      BY <1>3, <3>2, SMTT(60)
    <3> QED BY <2>2, <3>3 DEF y
  <2> QED BY <2>1, <2>2, Zenon
<1>5. TypeOK'
  <2>1. msg' \in [Mcid -> Message \cup {None}]
    <3>1. msg' = [k \in Mcid |-> msg'[k]]
      BY DEF Restart
    <3>2. \A k \in Mcid : msg'[k] \in Message \cup {None}
      BY <1>4, Zenon
    <3> QED BY <3>1, <3>2
  <2>2. Idle \in PqType
    BY Zenon DEF Idle, PqType
  <2> QED BY <1>1, <1>2, <2>1, <2>2, Zenon DEF TypeOK
<1>6. CallerInv'
  <2>1. \A r \in Req : reply[r] # None => reply[r] \in Mcid /\ msg[reply[r]] # None
    BY SMTT(60) DEF PaidOnce, Pushed, TypeOK
  <2> QED BY <1>1, <1>2, <1>4, <2>1, SMTT(60) DEF CallerInv, Returned, Paid, Pushed
<1>7. MergeInv' /\ CompleteInv' /\ StoreInv'
  BY <1>2, <1>4, ZenonT(60) DEF MergeInv, CompleteInv, StoreInv, Idle
<1>8. MessageInv'
  <2>1. \A k \in Mcid : msg[k] # None => msg[k].channel \in Mcid
    BY Zenon DEF TypeOK, Message
  <2> QED BY <1>2, <1>4, <2>1, SMTT(60) DEF MessageInv, Pushed
<1>9. PendingIsOwn'
  BY <1>4, Zenon DEF PendingIsOwn, Pushed
<1>10. PaidOnce'
  BY <1>2, <1>4, PaidFrame
<1> QED BY <1>5, <1>6, <1>7, <1>8, <1>9, <1>10, Zenon DEF FundsInv
-----------------------------------------------------------------------------
(* The invariant, and the safety properties that follow from it. *)

LEMMA InitInv == ASSUME Init PROVE FundsInv
<1>1. TypeOK
  <2>1. Idle \in PqType
    BY DEF Idle, PqType
  <2>2. [id |-> None, Channel |-> FALSE] \in Seen
    BY DEF Seen
  <2> QED BY <2>1, <2>2, SMTT(60) DEF Init, TypeOK, Callers
<1>2. \A m \in Mcid : msg[m] = None /\ info[m] = None
  BY Zenon DEF Init
<1>3. CallerInv /\ PaidOnce /\ PendingIsOwn /\ MessageInv
  BY <1>2, Zenon DEF Init, CallerInv, PaidOnce, PendingIsOwn, MessageInv, Paid, Pushed
<1>4. MergeInv /\ CompleteInv /\ StoreInv
  BY <1>2 DEF Init, Idle, MergeInv, CompleteInv, StoreInv
<1> QED BY <1>1, <1>3, <1>4 DEF FundsInv

LEMMA ReturnNilInv == ASSUME FundsInv, ReturnNil PROVE FundsInv'
<1> DEFINE stopped == [caller EXCEPT ![pq.by] = "panic"]
<1>1. pq.by \in Req /\ caller[pq.by] = "checking" /\ caller \in [Req -> Callers]
  BY DEF FundsInv, MergeInv, ReturnNil, TypeOK, PqType
<1>2. /\ stopped \in [Req -> Callers]
      /\ \A r \in Req : stopped[r] # caller[r] =>
                          stopped[r] = "panic" /\ caller[r] = "checking"
  BY <1>1, Zenon DEF Callers
<1>3. Restart(stopped)
  BY Zenon DEF ReturnNil
<1> HIDE DEF stopped
<1> QED BY <1>2, <1>3, RestartInv, Zenon

LEMMA CrashInv == ASSUME FundsInv, Crash PROVE FundsInv'
<1>1. caller \in [Req -> Callers] /\ Restart(caller)
  BY DEF FundsInv, TypeOK, Crash
<1> QED BY <1>1, RestartInv

LEMMA StutterInv == ASSUME FundsInv, UNCHANGED vars PROVE FundsInv'
<1>i. /\ TypeOK /\ CallerInv /\ MergeInv /\ CompleteInv
      /\ StoreInv /\ MessageInv /\ PaidOnce /\ PendingIsOwn
  BY Zenon DEF FundsInv
<1> USE <1>i
<1>1. TypeOK'
  BY Zenon DEF TypeOK, vars
<1>2. CallerInv'
  BY Zenon DEF CallerInv, Paid, Pushed, vars
<1>3. MergeInv'
  BY Zenon DEF MergeInv, Paid, Pushed, Waiting, vars
<1>4. CompleteInv'
  BY Zenon DEF CompleteInv, Paid, Pushed, Waiting, ToAnswer, vars
<1>5. StoreInv' /\ MessageInv' /\ PendingIsOwn'
  BY StoreFrame, Zenon DEF vars
<1>6. PaidOnce'
  BY PaidFrame, Zenon DEF vars
<1> QED BY <1>1, <1>2, <1>3, <1>4, <1>5, <1>6, Zenon DEF FundsInv

(* Every step of the payments manager preserves the invariant. *)
LEMMA NextInv == ASSUME FundsInv, [Next]_vars PROVE FundsInv'
<1>1. ASSUME NEW r \in Req,
             GetChannel(r) \/ Enqueue(r) \/ Expire(r) \/ Cancel(r)
                \/ WaitForChannel(r) \/ StopListening(r)
      PROVE  FundsInv'
  BY <1>1, GetChannelInv, EnqueueInv, ExpireInv, CancelInv, WaitForChannelInv,
     StopListeningInv, Zenon
<1>2. CASE ProcessQueue
  BY <1>2, StartInv, SumInv, TaskWaitInv, TaskPushInv, TaskFailInv, StoreMessageInv,
     CompleteStepInv, SendInv, SendExpiredInv, ReturnInv, ReturnNilInv DEF ProcessQueue
<1>3. ASSUME NEW m \in Mcid,
             Exec(m) \/ WaitMsg(m) \/ WaitFails(m) \/ MsgWaitComplete(m)
                \/ CreateVoucher(m) \/ Settle(m)
      PROVE  FundsInv'
  BY <1>3, ExecInv, WaitMsgInv, WaitFailsInv, MsgWaitCompleteInv, CreateVoucherInv, SettleInv, Zenon
<1>4. CASE Crash
  BY <1>4, CrashInv, Zenon
<1>5. CASE UNCHANGED vars
  BY <1>5, StutterInv, Zenon
<1> QED BY <1>1, <1>2, <1>3, <1>4, <1>5, Zenon DEF Next

(* FundsInv is an invariant of the payments manager for any set of         *)
(* requests, any amounts, any number of messages and any of the faults.    *)
THEOREM FundsInvariant == Spec => []FundsInv
<1>1. Init => FundsInv
  BY InitInv, Zenon
<1>2. FundsInv /\ [Next]_vars => FundsInv'
  BY NextInv, Zenon
<1> QED BY <1>1, <1>2, PTL DEF Spec

(* The state of the funding queue is always well formed. *)
THEOREM TypeCorrect == Spec => []TypeOK
<1>1. FundsInv => TypeOK
  BY Zenon DEF FundsInv
<1> QED BY <1>1, FundsInvariant, PTL

(* Every amount is sent at most once, and a caller of get only ever holds  *)
(* the message that carries its own amount.                                *)
THEOREM PaidAtMostOnce == Spec => []PaidOnce
<1>1. FundsInv => PaidOnce
  BY Zenon DEF FundsInv
<1> QED BY <1>1, FundsInvariant, PTL

(* waitPaychCreateMsg and waitAddFundsMsg only ever apply PendingAmount    *)
(* for the message they waited for.                                        *)
THEOREM PendingAmountIsOwn == Spec => []PendingIsOwn
<1>1. FundsInv => PendingIsOwn
  BY Zenon DEF FundsInv
<1> QED BY <1>1, FundsInvariant, PTL

(* getWaitReady never subscribes to a completion it has already missed.    *)
THEOREM NoMissedCompletion == Spec => []ListensInTime
<1>1. ASSUME FundsInv PROVE ListensInTime
  <2>1. TypeOK /\ CallerInv /\ PaidOnce
    BY <1>1, Zenon DEF FundsInv
  <2>2. ASSUME NEW r \in Req, caller[r] = "listening"
        PROVE  Pushed(reply[r]) /\ msg[reply[r]].wait \in {"waiting", "ok", "err"}
    <3>1. /\ reply[r] \in Mcid /\ Pushed(reply[r])
          /\ msg[reply[r]].wait # "none" /\ msg[reply[r]].wait # "done"
      BY <2>1, <2>2, Zenon DEF CallerInv, PaidOnce, TypeOK
    <3>2. msg[reply[r]] \in Message
      BY <2>1, <3>1, Zenon DEF TypeOK, Pushed
    <3>3. msg[reply[r]].wait \in {"none", "waiting", "ok", "err", "done"}
      BY <3>2, Zenon DEF Message
    <3> QED BY <3>1, <3>3, Zenon
  <2> QED BY <2>2, Zenon DEF ListensInTime
<1> QED BY <1>1, FundsInvariant, PTL

(* A caller of getWaitReady that is told its message succeeded finds the   *)
(* channel on chain and its address in the store.                          *)
THEOREM ReadyChannelIsOnChain == Spec => []ReadyIsOnChain
<1>1. ASSUME FundsInv PROVE ReadyIsOnChain
  <2>1. TypeOK /\ CallerInv /\ PaidOnce /\ MessageInv
    BY <1>1, Zenon DEF FundsInv
  <2>2. ASSUME NEW r \in Req, caller[r] = "ready", reply[r] # None
        PROVE  LET m == msg[reply[r]] IN
                 m.chain = "ok" /\ info[m.channel] # None /\ info[m.channel].Channel
    <3>1. reply[r] \in Mcid /\ Pushed(reply[r]) /\ msg[reply[r]].stored = "ok"
      BY <2>1, <2>2, Zenon DEF CallerInv, PaidOnce, TypeOK
    <3> QED BY <2>1, <3>1, Zenon DEF MessageInv
  <2> QED BY <2>2, Zenon DEF ReadyIsOnChain
<1> QED BY <1>1, FundsInvariant, PTL
=============================================================================
