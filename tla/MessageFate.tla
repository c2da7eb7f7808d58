----------------------------- MODULE MessageFate -----------------------------
(***************************************************************************)
(* What the reliable publisher promises for each message: once accepted it *)
(* is sent, given up, or lost from the queue, and whatever has become of   *)
(* it is final (delivery/publisher.go, DeliveryStatus).  DeliveryQueue     *)
(* implements it.                                                          *)
(***************************************************************************)
CONSTANT Msgs

VARIABLE fate         \* what has become of each message

Final == {"sent", "dropped", "lost"}

Init == fate = [m \in Msgs |-> "new"]

(* What one message may do in a step; several may be lost at once. *)
Moves(from, to) ==
  \/ to = from
  \/ from = "new" /\ to \in {"accepted", "sent"}
  \/ from = "accepted" /\ to \in Final

Next ==
  /\ fate' \in [Msgs -> {"new", "accepted"} \cup Final]
  /\ \A m \in Msgs : Moves(fate[m], fate'[m])

Spec == Init /\ [][Next]_fate
==============================================================================
