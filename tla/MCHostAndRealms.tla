--------------------------- MODULE MCHostAndRealms ---------------------------
(* Three parts of a node that share no state: the realm manager, called by *)
(* two goroutines about two realms while another adds a peer; the          *)
(* connections to one peer, a direct one and a relay circuit; the gate on  *)
(* the addresses, with two callbacks under way at once.  A part moves      *)
(* while the others are where they started.                                *)
EXTENDS RealmManager, SwarmHost, AddressGate

CONSTANTS c1, c2, r1, r2, a1, nil, d1, d2, g1, g2

(* One of the gate's starts is enough for the other parts to move. *)
GateAtRest == InitGate /\ natType = "unknown"

MCInit == Init /\ InitSwarm /\ InitGate

MCNext ==
  \/ InitSwarm /\ GateAtRest /\ Next /\ UNCHANGED <<svars, gvars>>
  \/ Init /\ GateAtRest /\ SwarmNext /\ UNCHANGED <<vars, gvars>>
  \/ Init /\ InitSwarm /\ GateNext /\ UNCHANGED <<vars, svars>>

(* What is fair in a part is not enabled where that part starts. *)
MCSpec ==
  /\ MCInit /\ [][MCNext]_<<vars, svars, gvars>>
  /\ Fairness /\ SwarmFairness /\ GateFairness
=============================================================================
