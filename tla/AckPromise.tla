------------------------------ MODULE AckPromise ------------------------------
(***************************************************************************)
(* What PublishWithAck promises (delivery/publisher.go): a call that       *)
(* returns a successful result has been received by the peers it required, *)
(* all of them or any; what a peer has received it keeps.  AckedPublish    *)
(* implements it.                                                          *)
(***************************************************************************)
CONSTANTS
  Calls,        \* calls of PublishWithAck
  Critical,     \* the peers whose acknowledgement counts
  RequireAll    \* whether all of them are required

VARIABLES
  reached,      \* the critical peers that have received each call's message
  outcome       \* "none", or what the call has returned

Outcomes == {"none", "success", "failure"}

Enough(peers) == IF RequireAll THEN peers = Critical ELSE peers # {}

Init ==
  /\ reached = [c \in Calls |-> {}]
  /\ outcome = [c \in Calls |-> "none"]

Reach(c, p) ==
  /\ reached' = [reached EXCEPT ![c] = @ \cup {p}]
  /\ UNCHANGED outcome

Return(c, result) ==
  /\ outcome[c] = "none"
  /\ result = "success" => Enough(reached[c])
  /\ outcome' = [outcome EXCEPT ![c] = result]
  /\ UNCHANGED reached

Next ==
  \E c \in Calls :
    \/ \E p \in Critical : Reach(c, p)
    \/ \E result \in {"success", "failure"} : Return(c, result)

Spec == Init /\ [][Next]_<<reached, outcome>>
===============================================================================
