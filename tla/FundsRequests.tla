--------------------------- MODULE FundsRequests ---------------------------
(***************************************************************************)
(* What channel.get promises to the callers that ask for funds, whatever   *)
(* queueing and merging stands behind it (the comment on get in            *)
(* payments/channel.go): a request is answered once, with a message that   *)
(* carries its amount or with an error; no amount is sent twice; and a     *)
(* request that is refused with an error was not sent at all.              *)
(***************************************************************************)
CONSTANTS Req, Msg

VARIABLES
  status, \* status[r]: what the caller of request r knows
  batch   \* batch[m]: the requests whose amounts message m carries

Status == {"idle", "waiting", "answered", "refused", "cancelled", "gone"}

Sent == UNION {batch[m] : m \in Msg}

Init ==
  /\ status = [r \in Req |-> "idle"]
  /\ batch = [m \in Msg |-> {}]

Ask(r) ==
  /\ status[r] = "idle"
  /\ status' = [status EXCEPT ![r] = "waiting"]
  /\ UNCHANGED batch

(* One message for any of the requests that wait, and for requests that    *)
(* were cancelled too late to be left out.                                 *)
Send(m, S) ==
  /\ batch[m] = {} /\ S # {}
  /\ \A r \in S : status[r] \in {"waiting", "cancelled"} /\ r \notin Sent
  /\ batch' = [batch EXCEPT ![m] = S]
  /\ UNCHANGED status

Answer(r) ==
  /\ status[r] = "waiting" /\ r \in Sent
  /\ status' = [status EXCEPT ![r] = "answered"]
  /\ UNCHANGED batch

Refuse(r) ==
  /\ status[r] = "waiting" /\ r \notin Sent
  /\ status' = [status EXCEPT ![r] = "refused"]
  /\ UNCHANGED batch

Cancel(r) ==
  /\ status[r] = "waiting"
  /\ status' = [status EXCEPT ![r] = "cancelled"]
  /\ UNCHANGED batch

(* The node stops: the calls in S that have no answer get none. *)
Lose(S) ==
  /\ \A r \in S : status[r] \in {"idle", "waiting"}
  /\ status' = [r \in Req |-> IF r \in S THEN "gone" ELSE status[r]]
  /\ UNCHANGED batch

Next ==
  \/ \E r \in Req : Ask(r) \/ Answer(r) \/ Refuse(r) \/ Cancel(r)
  \/ \E m \in Msg, S \in SUBSET Req : Send(m, S)
  \/ \E S \in SUBSET Req : Lose(S)

Spec == Init /\ [][Next]_<<status, batch>>
=============================================================================
