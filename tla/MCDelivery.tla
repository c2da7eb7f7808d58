------------------------------ MODULE MCDelivery ------------------------------
(* The two halves of the reliable publisher share no state, so their       *)
(* behaviours are explored one after the other and not side by side: a     *)
(* half moves while the other is where it started.                         *)
EXTENDS DeliveryQueue, AckedPublish

CONSTANTS m1, c1, c2, o1, h1, h2, nil

Init == InitQueue /\ InitAcks

Next ==
  \/ QueueNext /\ InitAcks /\ UNCHANGED avars
  \/ AckNext /\ InitQueue /\ UNCHANGED qvars

(* What is fair in a half is not enabled where that half starts. *)
FairSpec == Init /\ [][Next]_<<qvars, avars>> /\ QueueFairness /\ AckFairness
===============================================================================
