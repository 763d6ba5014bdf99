----------------------------- MODULE FundsQueue -----------------------------
(***************************************************************************)
(* Funding of the outbound payment channel between one pair of addresses   *)
(* (payments/channel.go, payments/manager.go).                             *)
(*                                                                         *)
(* Calls of GetChannel queue a request for funds on the channel accessor.  *)
(* processQueue merges the queued requests into one create or add-funds    *)
(* message, a goroutine per message waits for the chain, stores the        *)
(* outcome, wakes the callers of WaitForChannel and runs the queue again.  *)
(*                                                                         *)
(* The accessor lock (channel.lk) is held exactly while pq.pc # "idle":    *)
(* processQueue is the only critical section here that spans several       *)
(* steps.  Contexts expire and cancel requests outside that lock.          *)
(***************************************************************************)
EXTENDS Integers

CONSTANTS
  Req,        \* the calls of GetChannel, one request for funds each
  Amt,        \* Amt[r]: the amount request r asks for
  MaxMsgs,    \* how many messages may be pushed to the chain
  Faults,     \* which failures of the environment occur, see AllFaults
  MaxCrashes, \* how often the node stops and starts again
  None

(* "api": a call of the Filecoin node fails; "exec": a message fails on    *)
(* chain; "wait": StateWaitMsg returns an error; "expire": the context of  *)
(* a caller ends; "settle": the channel is settled by its owner.           *)
AllFaults == {"api", "exec", "wait", "expire", "settle"}

ASSUME AmtAssumption == Amt \in [Req -> Nat \ {0}]
ASSUME BoundAssumption == MaxMsgs \in Nat /\ MaxCrashes \in Nat
ASSUME FaultAssumption == Faults \subseteq AllFaults

(* Message CIDs in the order of their creation.  A channel is identified   *)
(* by the message that creates it, as its ChannelID is made with it.       *)
Mcid == 1..MaxMsgs
Err == 0

VARIABLES
  caller,   \* caller[r]: where the call for r is
  seen,     \* seen[r]: the ChannelID and Channel that GetChannel read
  reply,    \* reply[r]: the message CID the call received from get, or None
  expired,  \* the requests whose context is done
  inactive, \* the requests with active = false
  queue,    \* fundsReqQueue; all of it is merged, so its order is left out
  procs,    \* processQueue goroutines that are started and not yet running
  pq,       \* locals of the processQueue that holds the lock
  info,     \* the ChannelInfo records of the datastore
  msg,      \* the messages: on chain, in the datastore, and their goroutines
  nmsg,     \* how many messages were pushed
  bal,      \* bal[c]: balance of the channel actor on chain
  crashes   \* how often the node has crashed

calls == <<caller, seen, reply, expired, inactive>>
vars == <<caller, seen, reply, expired, inactive, queue, procs, pq, info, msg,
          nmsg, bal, crashes>>

Callers == {"idle", "checking", "asking", "queued", "got", "listening",
            "ready", "refused", "failed", "cancelled", "gone", "panic"}
Returned == {"ready", "refused", "failed", "cancelled", "gone", "panic"}
Seen == [id : Mcid \cup {None}, Channel : BOOLEAN]

ChannelInfo ==
  [Channel : BOOLEAN, Amount : Nat, PendingAmount : Nat,
   CreateMsg : Mcid \cup {None}, AddFundsMsg : Mcid \cup {None},
   Settling : BOOLEAN, Redeemed : Nat]

(* chain: the state of the message on chain; stored: its MsgInfo record;   *)
(* wait: the goroutine waiting for it.  "ok" and "err" are its result, not *)
(* yet passed to msgWaitComplete.  covers: the requests whose amounts were *)
(* added up in value.                                                      *)
Message ==
  [channel : Mcid, value : Nat, covers : SUBSET Req,
   chain : {"pool", "ok", "failed"},
   stored : {"no", "sent", "ok", "err"},
   wait : {"none", "waiting", "ok", "err", "done"}]

ASSUME NoneAssumption ==
  None \notin Nat /\ None \notin Req /\ None \notin ChannelInfo /\ None \notin Message

(* reqs: the merged requests; todo: those a loop over them has still to    *)
(* visit; cur: the one whose promise onComplete is sending to; covers: the *)
(* requests that sum has added up; res: the message sent, or Err.          *)
Idle == [pc |-> "idle", by |-> None, reqs |-> {}, todo |-> {}, cur |-> None,
         sum |-> 0, covers |-> {}, res |-> Err]

Init ==
  /\ caller = [r \in Req |-> "idle"]
  /\ seen = [r \in Req |-> [id |-> None, Channel |-> FALSE]]
  /\ reply = [r \in Req |-> None]
  /\ expired = {} /\ inactive = {}
  /\ queue = {} /\ procs = 0 /\ pq = Idle
  /\ info = [c \in Mcid |-> None]
  /\ msg = [m \in Mcid |-> None]
  /\ nmsg = 0
  /\ bal = [c \in Mcid |-> 0]
  /\ crashes = 0

Unlocked == pq.pc = "idle"

(* OutboundActiveByFromTo: the channels that are tracked and not settling. *)
Active == {c \in Mcid : info[c] # None /\ ~info[c].Settling}
-----------------------------------------------------------------------------
(* The callers: GetChannel, get, and then WaitForChannel. *)

GetChannel(r) ==
  /\ caller[r] = "idle"
  /\ \/ /\ Active = {}
        /\ caller' = [caller EXCEPT ![r] = "asking"]
        /\ UNCHANGED seen
     \/ \E c \in Active :
          /\ caller' = [caller EXCEPT ![r] = "checking"]
          /\ seen' = [seen EXCEPT ![r] = [id |-> c, Channel |-> info[c].Channel]]
  /\ UNCHANGED <<reply, expired, inactive, queue, procs, pq, info, msg, nmsg,
                 bal, crashes>>

(* Mutant: the request is queued and nobody is told. *)
EnqueueOnly(r) ==
  /\ caller[r] = "asking" /\ Unlocked
  /\ caller' = [caller EXCEPT ![r] = "queued"]
  /\ queue' = queue \cup {r}
  /\ UNCHANGED <<procs, seen, reply, expired, inactive, pq, info, msg, nmsg, bal,
                 crashes>>

Enqueue(r) ==
  /\ caller[r] = "asking" /\ Unlocked
  /\ caller' = [caller EXCEPT ![r] = "queued"]
  /\ queue' = queue \cup {r}
  /\ procs' = procs + 1
  /\ UNCHANGED <<seen, reply, expired, inactive, pq, info, msg, nmsg, bal,
                 crashes>>

(* The context of a call ends while get or getWaitReady is waiting. *)
Expire(r) ==
  /\ "expire" \in Faults
  /\ caller[r] \in {"queued", "listening"} /\ r \notin expired
  /\ expired' = expired \cup {r}
  /\ UNCHANGED <<caller, seen, reply, inactive, queue, procs, pq, info, msg,
                 nmsg, bal, crashes>>

(* get takes the ctx.Done branch: the request is no longer active. *)
Cancel(r) ==
  /\ caller[r] = "queued" /\ r \in expired
  /\ caller' = [caller EXCEPT ![r] = "cancelled"]
  /\ inactive' = inactive \cup {r}
  /\ UNCHANGED <<seen, reply, expired, queue, procs, pq, info, msg, nmsg, bal,
                 crashes>>

(* Mutant: subscribe without a look at the result in the store. *)
WaitForChannelLate(r) ==
  /\ caller[r] = "got" /\ Unlocked
  /\ caller' = [caller EXCEPT ![r] =
       IF info[msg[reply[r]].channel] = None THEN "failed" ELSE "listening"]
  /\ UNCHANGED <<seen, reply, expired, inactive, queue, procs, pq, info, msg,
                 nmsg, bal, crashes>>

(* WaitForChannel looks the message up and, unless it is already complete, *)
(* subscribes to its completion before it releases the lock.               *)
WaitForChannel(r) ==
  /\ caller[r] = "got" /\ Unlocked
  /\ LET m == msg[reply[r]] IN
       caller' = [caller EXCEPT ![r] =
         CASE m.stored = "err" \/ info[m.channel] = None -> "failed"
           [] m.stored = "ok" /\ info[m.channel] # None -> "ready"
           [] OTHER -> "listening"]
  /\ UNCHANGED <<seen, reply, expired, inactive, queue, procs, pq, info, msg,
                 nmsg, bal, crashes>>

StopListening(r) ==
  /\ caller[r] = "listening" /\ r \in expired
  /\ caller' = [caller EXCEPT ![r] = "cancelled"]
  /\ UNCHANGED <<seen, reply, expired, inactive, queue, procs, pq, info, msg,
                 nmsg, bal, crashes>>
-----------------------------------------------------------------------------
(* processQueue, run by a goroutine of its own or by a call of GetChannel. *)

IsActive(r) == r \notin inactive

(* Take the lock, drop the cancelled requests, merge the others. *)
Start(by) ==
  /\ Unlocked
  /\ \/ by = None /\ procs > 0 /\ procs' = procs - 1
     \/ by \in Req /\ caller[by] = "checking" /\ UNCHANGED procs
  /\ queue' = {r \in queue : IsActive(r)}
  /\ pq' = [Idle EXCEPT !.pc = IF queue' = {} THEN "return" ELSE "sum",
                        !.by = by, !.reqs = queue', !.todo = queue']
  /\ UNCHANGED <<calls, info, msg, nmsg, bal, crashes>>

(* One turn of the loop in mergedFundsReq.sum. *)
Sum ==
  /\ pq.pc = "sum"
  /\ \/ \E r \in pq.todo :
          /\ IsActive(r)
          /\ pq' = [pq EXCEPT !.todo = @ \ {r}, !.sum = @ + Amt[r],
                              !.covers = @ \cup {r}]
     \/ \E r \in pq.todo :
          /\ ~IsActive(r)
          /\ pq' = [pq EXCEPT !.todo = @ \ {r}]
     \/ /\ pq.todo = {}
        /\ pq' = [pq EXCEPT !.pc = IF pq.sum = 0 THEN "return" ELSE "task"]
  /\ UNCHANGED <<calls, queue, procs, info, msg, nmsg, bal, crashes>>

(* processTask: a message is in flight for the channel, wait for it. *)
TaskWait ==
  /\ pq.pc = "task"
  /\ \E c \in Active : info[c].CreateMsg # None \/ info[c].AddFundsMsg # None
  /\ pq' = [pq EXCEPT !.pc = "return"]
  /\ UNCHANGED <<calls, queue, procs, info, msg, nmsg, bal, crashes>>

(* Mutant: a message in flight does not hold the next one back. *)
FundableAnyTime(c) == IF Active = {} THEN c = None ELSE c \in Active

(* The channel a new message is for: the active one, or none. *)
Fundable(c) ==
  IF Active = {} THEN c = None
  ELSE c \in Active /\ info[c].CreateMsg = None /\ info[c].AddFundsMsg = None

(* processTask: mpoolPush of the create or add-funds message succeeds. *)
TaskPush ==
  /\ pq.pc = "task" /\ nmsg < MaxMsgs
  /\ \E c \in Mcid \cup {None} :
       /\ Fundable(c)
       /\ msg' = [msg EXCEPT ![nmsg + 1] =
            [channel |-> IF c = None THEN nmsg + 1 ELSE c, value |-> pq.sum,
             covers |-> pq.covers, chain |-> "pool", stored |-> "no",
             wait |-> "none"]]
  /\ nmsg' = nmsg + 1
  /\ pq' = [pq EXCEPT !.pc = "store", !.res = nmsg + 1]
  /\ UNCHANGED <<calls, queue, procs, info, bal, crashes>>

(* What is left in fundsReqQueue once the merged requests are dealt with.  *)
(* Mutant: the requests stay in it.                                        *)
QueueKept == queue
QueueCleared == {}

(* processTask: mpoolPush fails and every merged request gets its error. *)
TaskFail ==
  /\ pq.pc = "task" /\ "api" \in Faults
  /\ \E c \in Mcid \cup {None} : Fundable(c)
  /\ queue' = QueueCleared
  /\ pq' = [pq EXCEPT !.pc = "complete", !.todo = pq.reqs]
  /\ UNCHANGED <<calls, procs, info, msg, nmsg, bal, crashes>>

(* The tail of create and addFunds: record the message and wait for it. *)
StoreMessage ==
  /\ pq.pc = "store"
  /\ LET m == pq.res
         c == msg[m].channel
     IN /\ info' = [info EXCEPT ![c] =
             IF c = m
             THEN [Channel |-> FALSE, Amount |-> 0,
                   PendingAmount |-> msg[m].value, CreateMsg |-> m,
                   AddFundsMsg |-> None, Settling |-> FALSE, Redeemed |-> 0]
             ELSE [@ EXCEPT !.PendingAmount = msg[m].value,
                            !.AddFundsMsg = m]]
        /\ msg' = [msg EXCEPT ![m].stored = "sent", ![m].wait = "waiting"]
  /\ queue' = QueueCleared
  /\ pq' = [pq EXCEPT !.pc = "complete", !.todo = pq.reqs]
  /\ UNCHANGED <<calls, procs, nmsg, bal, crashes>>

(* mergedFundsReq.onComplete: the next request, if it is still active. *)
Complete ==
  /\ pq.pc = "complete"
  /\ \/ pq.todo = {} /\ pq' = [pq EXCEPT !.pc = "return"]
     \/ \E r \in pq.todo :
          /\ IsActive(r)
          /\ pq' = [pq EXCEPT !.todo = @ \ {r}, !.pc = "send", !.cur = r]
     \/ \E r \in pq.todo :
          /\ ~IsActive(r)
          /\ pq' = [pq EXCEPT !.todo = @ \ {r}]
  /\ UNCHANGED <<calls, queue, procs, info, msg, nmsg, bal, crashes>>

(* Mutant: the error of the merged request is not passed on. *)
SendDropsError ==
  /\ pq.pc = "send"
  /\ caller[pq.cur] = "queued"
  /\ caller' = [caller EXCEPT ![pq.cur] = "got"]
  /\ reply' = [reply EXCEPT ![pq.cur] = IF pq.res = Err THEN None ELSE pq.res]
  /\ pq' = [pq EXCEPT !.pc = "complete", !.cur = None]
  /\ UNCHANGED <<seen, expired, inactive, queue, procs, info, msg, nmsg, bal,
                 crashes>>

(* fundsReq.onComplete: the caller takes the result from its promise ... *)
Send ==
  /\ pq.pc = "send"
  /\ caller[pq.cur] = "queued"
  /\ caller' = [caller EXCEPT ![pq.cur] = IF pq.res = Err THEN "refused" ELSE "got"]
  /\ reply' = [reply EXCEPT ![pq.cur] = IF pq.res = Err THEN None ELSE pq.res]
  /\ pq' = [pq EXCEPT !.pc = "complete", !.cur = None]
  /\ UNCHANGED <<seen, expired, inactive, queue, procs, info, msg, nmsg, bal,
                 crashes>>

(* ... or its context is done. *)
SendExpired ==
  /\ pq.pc = "send" /\ pq.cur \in expired
  /\ pq' = [pq EXCEPT !.pc = "complete", !.cur = None]
  /\ UNCHANGED <<calls, queue, procs, info, msg, nmsg, bal, crashes>>

(* What is left when the process stops and New starts it again on the same *)
(* datastore: the calls and the goroutines are lost, and no goroutine is   *)
(* started for the messages that are pending in the store.                 *)
Restart(stopped) ==
  /\ caller' = [r \in Req |-> IF stopped[r] \in Returned \cup {"idle"}
                              THEN stopped[r] ELSE "gone"]
  /\ queue' = {} /\ procs' = 0 /\ pq' = Idle
  /\ msg' = [m \in Mcid |-> IF msg[m] = None THEN None
                             ELSE [msg[m] EXCEPT !.wait = "none"]]
  /\ crashes' = crashes + 1
  /\ UNCHANGED <<seen, reply, expired, inactive, info, nmsg, bal>>

(* The available funds of the channel that GetChannel saw cover amt. *)
Covered(ci, amt) == ci # None /\ ci.Amount - ci.Redeemed >= amt

(* Release the lock.  A call of GetChannel goes on with the available      *)
(* funds of the channel it saw, and cannot when that channel was removed.  *)
Return ==
  /\ pq.pc = "return"
  /\ \/ pq.by = None /\ UNCHANGED caller
     \/ /\ pq.by # None
        /\ LET s == seen[pq.by]
               ci == info[s.id]
           IN \/ /\ ci # None /\ (Covered(ci, Amt[pq.by]) => s.Channel)
                 /\ caller' = [caller EXCEPT ![pq.by] =
                      IF Covered(ci, Amt[pq.by]) THEN "ready" ELSE "asking"]
              \/ /\ ci # None => ("api" \in Faults /\ ci.Channel)
                 /\ caller' = [caller EXCEPT ![pq.by] = "failed"]
  /\ pq' = Idle
  /\ UNCHANGED <<seen, reply, expired, inactive, queue, procs, info, msg, nmsg,
                 bal, crashes>>

(* GetChannel returns the address it read before it took the lock: when    *)
(* that was nil the process panics.                                        *)
ReturnNil ==
  /\ pq.pc = "return" /\ pq.by # None
  /\ Covered(info[seen[pq.by].id], Amt[pq.by]) /\ ~seen[pq.by].Channel
  /\ Restart([caller EXCEPT ![pq.by] = "panic"])
-----------------------------------------------------------------------------
(* The chain and the goroutines that wait for it. *)

(* External: a pushed message is executed, with exit code 0 or another. *)
Exec(m) ==
  /\ msg[m] # None /\ msg[m].chain = "pool"
  /\ \/ /\ msg' = [msg EXCEPT ![m].chain = "ok"]
        /\ bal' = [bal EXCEPT ![msg[m].channel] = @ + msg[m].value]
     \/ /\ "exec" \in Faults
        /\ msg' = [msg EXCEPT ![m].chain = "failed"]
        /\ UNCHANGED bal
  /\ UNCHANGED <<calls, queue, procs, pq, info, nmsg, crashes>>

(* The exit code of the receipt is 0.  Mutants: it is not looked at, or    *)
(* the test is the wrong way round.                                        *)
SucceededAnyway(m) == TRUE
SucceededInverted(m) == msg[m].chain # "ok"
Succeeded(m) == msg[m].chain = "ok"

(* waitPaychCreateMsg and waitAddFundsMsg: apply the receipt to the store. *)
WaitMsg(m) ==
  /\ msg[m] # None /\ msg[m].wait = "waiting" /\ msg[m].chain # "pool"
  /\ Unlocked
  /\ LET c == msg[m].channel
         ok == Succeeded(m)
         ci == info[c]
     IN /\ info' = [info EXCEPT ![c] =
             CASE ci = None -> None
               [] ci # None /\ c = m /\ ok ->
                    [ci EXCEPT !.Channel = TRUE, !.Amount = ci.PendingAmount,
                               !.PendingAmount = 0, !.CreateMsg = None]
               [] ci # None /\ c = m /\ ~ok -> None
               [] ci # None /\ c # m ->
                    [ci EXCEPT !.Amount = IF ok THEN @ + ci.PendingAmount ELSE @,
                               !.PendingAmount = 0, !.AddFundsMsg = None]]
        /\ msg' = [msg EXCEPT ![m].wait = IF ok THEN "ok" ELSE "err"]
  /\ UNCHANGED <<calls, queue, procs, pq, nmsg, bal, crashes>>

(* StateWaitMsg returns an error: nothing is applied to the store. *)
WaitFails(m) ==
  /\ "wait" \in Faults
  /\ msg[m] # None /\ msg[m].wait = "waiting"
  /\ msg' = [msg EXCEPT ![m].wait = "err"]
  /\ UNCHANGED <<calls, queue, procs, pq, info, nmsg, bal, crashes>>

(* The queue runs again if it is not empty.  Mutant: it does not.          *)
NotRunAgain == procs
RunAgain == IF queue # {} THEN procs + 1 ELSE procs

(* Save the result, wake the listeners, run the queue if it is not empty. *)
MsgWaitComplete(m) ==
  /\ msg[m] # None /\ msg[m].wait \in {"ok", "err"} /\ Unlocked
  /\ msg' = [msg EXCEPT ![m].stored = msg[m].wait, ![m].wait = "done"]
  /\ caller' = [r \in Req |->
       IF caller[r] = "listening" /\ reply[r] = m
       THEN IF msg[m].wait = "ok" THEN "ready" ELSE "failed"
       ELSE caller[r]]
  /\ procs' = RunAgain
  /\ UNCHANGED <<seen, reply, expired, inactive, queue, pq, info, nmsg, bal,
                 crashes>>

(* createVoucher, seen from the amounts of the channel: the total of the   *)
(* vouchers grows within the balance, and Amount is raised to the balance. *)
CreateVoucher(c) ==
  /\ Unlocked /\ info[c] # None /\ info[c].Channel
  /\ \E total \in info[c].Redeemed + 1 .. bal[c] :
       info' = [info EXCEPT ![c].Redeemed = total,
                            ![c].Amount = IF @ < bal[c] THEN bal[c] ELSE @]
  /\ UNCHANGED <<calls, queue, procs, pq, msg, nmsg, bal, crashes>>

(* settle: the channel is no longer active. *)
Settle(c) ==
  /\ "settle" \in Faults
  /\ Unlocked /\ info[c] # None /\ info[c].Channel /\ ~info[c].Settling
  /\ info' = [info EXCEPT ![c].Settling = TRUE]
  /\ UNCHANGED <<calls, queue, procs, pq, msg, nmsg, bal, crashes>>

Crash == crashes < MaxCrashes /\ Restart(caller)
-----------------------------------------------------------------------------
ProcessQueue ==
  \/ \E by \in Req \cup {None} : Start(by)
  \/ Sum \/ TaskWait \/ TaskPush \/ TaskFail \/ StoreMessage
  \/ Complete \/ Send \/ SendExpired \/ Return \/ ReturnNil

Next ==
  \/ \E r \in Req : GetChannel(r) \/ Enqueue(r) \/ Expire(r) \/ Cancel(r)
                    \/ WaitForChannel(r) \/ StopListening(r)
  \/ ProcessQueue
  \/ \E m \in Mcid : Exec(m) \/ WaitMsg(m) \/ WaitFails(m) \/ MsgWaitComplete(m)
                     \/ CreateVoucher(m) \/ Settle(m)
  \/ Crash

Spec == Init /\ [][Next]_vars

(* The Go scheduler runs every goroutine that can run, and the chain       *)
(* executes every message.  Nobody has to call, to give up or to settle.   *)
Fairness ==
  /\ WF_vars(ProcessQueue)
  /\ \A r \in Req : WF_vars(Enqueue(r)) /\ WF_vars(Cancel(r))
                    /\ WF_vars(WaitForChannel(r)) /\ WF_vars(StopListening(r))
                    /\ WF_vars(Start(r))
  /\ \A m \in Mcid : WF_vars(Exec(m)) /\ WF_vars(WaitMsg(m))
                     /\ WF_vars(MsgWaitComplete(m))

FairSpec == Spec /\ Fairness
-----------------------------------------------------------------------------
PqType ==
  [pc : {"idle", "sum", "task", "store", "complete", "send", "return"},
   by : Req \cup {None}, reqs : SUBSET Req, todo : SUBSET Req,
   cur : Req \cup {None}, sum : Nat, covers : SUBSET Req,
   res : Mcid \cup {Err}]

(* Type correctness of the queue, the store and the chain. *)
TypeOK ==
  /\ caller \in [Req -> Callers]
  /\ seen \in [Req -> Seen]
  /\ reply \in [Req -> Mcid \cup {None}]
  /\ expired \subseteq Req /\ inactive \subseteq Req
  /\ queue \subseteq Req /\ procs \in Nat /\ pq \in PqType
  /\ info \in [Mcid -> ChannelInfo \cup {None}]
  /\ msg \in [Mcid -> Message \cup {None}]
  /\ nmsg \in 0..MaxMsgs
  /\ bal \in [Mcid -> Nat]
  /\ crashes \in Nat

Pushed(m) == msg[m] # None

(* A message pays for a request at most once, and what get returns to a    *)
(* caller is the message its own amount was added to: requests cancelled   *)
(* while processQueue merges them are neither answered with a message that *)
(* does not pay for them nor paid for by two messages.                     *)
PaidOnce ==
  /\ \A m, n \in Mcid : Pushed(m) /\ Pushed(n) /\ m # n
                        => msg[m].covers \cap msg[n].covers = {}
  /\ \A r \in Req : reply[r] # None
                    => Pushed(reply[r]) /\ r \in msg[reply[r]].covers

(* PendingAmount is one field for all messages of a channel: whenever a    *)
(* goroutine is about to add it to Amount (or to clear it), it is the      *)
(* value of that goroutine's own message.                                  *)
PendingIsOwn ==
  \A m \in Mcid : Pushed(m) /\ msg[m].wait = "waiting" =>
    LET ci == info[msg[m].channel] IN
      /\ ci # None /\ ci.PendingAmount = msg[m].value
      /\ IF msg[m].channel = m THEN ci.CreateMsg = m ELSE ci.AddFundsMsg = m

(* getWaitReady subscribes under the lock under which msgWaitComplete      *)
(* publishes: a caller only listens for a message that has yet to complete *)
(* (a missed completion would leave it waiting for ever).                  *)
ListensInTime ==
  \A r \in Req : caller[r] = "listening" =>
    Pushed(reply[r]) /\ msg[reply[r]].wait \in {"waiting", "ok", "err"}

(* A caller that is told its message succeeded finds the channel on chain  *)
(* and its address in the store (the panic in getWaitReady, channel.go 95, *)
(* is never reached).                                                      *)
ReadyIsOnChain ==
  \A r \in Req : caller[r] = "ready" /\ reply[r] # None =>
    LET m == msg[reply[r]] IN
      m.chain = "ok" /\ info[m.channel] # None /\ info[m.channel].Channel

(* A message in flight for channel c that has been executed on chain and   *)
(* is still pending in the store.                                          *)
Unapplied(c) ==
  LET m == info[c].AddFundsMsg IN
    IF m # None /\ msg[m].chain = "ok" THEN info[c].PendingAmount ELSE 0

(* While the node does not crash, whoever takes the lock finds a store     *)
(* that accounts for all that is on chain: the balance of a channel is at  *)
(* most Amount plus what is executed and pending, and exactly that until a *)
(* voucher is created on it.                                               *)
BooksCoverBalance ==
  (crashes = 0 /\ Unlocked) =>
    \A c \in Mcid : info[c] # None /\ info[c].Channel =>
      /\ bal[c] <= info[c].Amount + Unapplied(c)
      /\ info[c].Redeemed = 0 => bal[c] = info[c].Amount + Unapplied(c)

InFlight == {m \in Mcid : Pushed(m) /\ msg[m].wait = "waiting"}
Completing == {m \in Mcid : Pushed(m) /\ msg[m].wait \in {"ok", "err"}}

(* No lost wake-up: a request that waits in the queue of a node that has   *)
(* not crashed has a processQueue coming, or a message in flight whose     *)
(* completion will start one, even when its channel is settled meanwhile.  *)
NoStrandedRequest ==
  ("wait" \notin Faults /\ crashes = 0) =>
    \A r \in queue : IsActive(r) =>
      \/ procs > 0 \/ ~Unlocked
      \/ Completing # {} \/ InFlight # {}

(* As long as nothing panics, every call of GetChannel that has reached    *)
(* the queue or the wait for its message returns: with the message, with   *)
(* an error or because its context ended.                                  *)
CallsReturn ==
  [](crashes = 0) =>
    \A r \in Req : caller[r] \in {"checking", "asking", "queued", "listening"}
                     ~> caller[r] \in Returned
-----------------------------------------------------------------------------
(* The inductive invariant behind the properties above. *)

Paid(r, m) == Pushed(m) /\ r \in msg[m].covers
Waiting(r) == caller[r] \in {"queued", "cancelled"} /\ reply[r] = None

(* The calls and the messages they are answered with. *)
CallerInv ==
  \A r \in Req :
    /\ caller[r] \in {"idle", "checking", "asking", "queued"} => r \notin inactive
    /\ caller[r] \in {"idle", "checking", "asking", "queued", "refused", "panic"}
         => reply[r] = None
    /\ caller[r] \in {"got", "listening"} =>
         reply[r] # None /\ msg[reply[r]].wait # "none"
    /\ caller[r] = "listening" => msg[reply[r]].wait # "done"
    /\ caller[r] = "checking" => seen[r].id # None
    /\ caller[r] = "ready" /\ reply[r] # None => msg[reply[r]].stored = "ok"
    /\ \A m \in Mcid :
         Paid(r, m) => caller[r] \notin {"idle", "checking", "asking", "refused", "panic"}

(* The requests in the queue and in the merge, until the message is sent:  *)
(* every request that is still active when sum is done was added up.       *)
MergeInv ==
  /\ pq.by # None => caller[pq.by] = "checking"
  /\ \A r \in queue : Waiting(r)
  /\ \A r \in queue, m \in Mcid : Paid(r, m) => pq.pc = "store" /\ m = pq.res
  /\ pq.pc \in {"sum", "task", "store"} =>
       /\ pq.cur = None
       /\ pq.reqs = queue /\ pq.todo \subseteq queue /\ pq.covers \subseteq queue
       /\ pq.covers = {} => pq.sum = 0
       /\ \A r \in queue : r \in pq.todo \/ r \in inactive \/ r \in pq.covers
  /\ pq.pc \in {"sum", "task"} => pq.res = Err
  /\ pq.pc \in {"task", "store"} => pq.todo = {} /\ pq.sum # 0

(* The requests that onComplete has still to answer. *)
ToAnswer == pq.todo \cup ({pq.cur} \ {None})

CompleteInv ==
  /\ pq.pc \in {"complete", "send"} =>
       /\ queue = {}
       /\ pq.res # Err => Pushed(pq.res) /\ msg[pq.res].wait # "none"
       /\ \A r \in ToAnswer :
            /\ Waiting(r)
            /\ pq.res = Err => \A m \in Mcid : ~Paid(r, m)
            /\ pq.res # Err => r \in inactive \/ r \in msg[pq.res].covers
  /\ pq.pc = "send" => pq.cur # None /\ pq.cur \notin pq.todo
  /\ pq.pc = "complete" => pq.cur = None

(* The record of a channel, and the message processQueue has just pushed. *)
StoreInv ==
  /\ \A m \in Mcid : m > nmsg => msg[m] = None /\ info[m] = None
  /\ \A c \in Mcid : info[c] # None =>
       /\ info[c].Channel = (info[c].CreateMsg = None)
       /\ info[c].CreateMsg # None => info[c].AddFundsMsg = None
  /\ pq.pc = "store" =>
       /\ pq.res # Err /\ Pushed(pq.res)
       /\ LET m == msg[pq.res]
              ci == info[m.channel]
          IN /\ m.covers = pq.covers /\ m.stored = "no"
             /\ IF m.channel = pq.res THEN ci = None
                ELSE ci # None /\ ci.CreateMsg = None /\ ci.AddFundsMsg = None

(* A message, its record in the store and the goroutine waiting for it. *)
MessageInv ==
  \A m \in Mcid : Pushed(m) =>
    /\ msg[m].wait \in {"waiting", "ok", "err"} => msg[m].stored = "sent"
    /\ msg[m].wait = "done" => msg[m].stored \in {"ok", "err"}
    /\ (msg[m].wait = "ok" \/ msg[m].stored = "ok") =>
         /\ msg[m].chain = "ok"
         /\ info[msg[m].channel] # None /\ info[msg[m].channel].Channel

FundsInv ==
  /\ TypeOK /\ CallerInv /\ MergeInv /\ CompleteInv /\ StoreInv /\ MessageInv
  /\ PaidOnce /\ PendingIsOwn
-----------------------------------------------------------------------------
(* The queue implements FundsRequests: get is between Enqueue and Send. *)
Known == [r \in Req |->
  IF reply[r] # None THEN "answered"
  ELSE IF caller[r] = "queued" THEN "waiting"
  ELSE IF caller[r] \in {"refused", "cancelled"} THEN caller[r]
  ELSE IF caller[r] \in {"gone", "panic"} THEN "gone"
  ELSE "idle"]

Batch == [m \in Mcid |-> IF msg[m] = None THEN {} ELSE msg[m].covers]

Requests == INSTANCE FundsRequests WITH Msg <- Mcid, status <- Known, batch <- Batch

(* Every step of the queue is a step of FundsRequests or changes nothing   *)
(* that the callers of get can tell.                                       *)
ImplementsRequests == Requests!Spec
=============================================================================
