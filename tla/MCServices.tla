----------------------------- MODULE MCServices -----------------------------
(* Two services that the layers of a node share, and that share no state:  *)
(* the resource manager, with three connections, two peers, and limits     *)
(* tight enough that every scope refuses some of them; the event bus, with *)
(* two subscriptions with room for a single event, and two emitters, one   *)
(* stateful, of one type.  One moves while the other is where it started.  *)
EXTENDS ResourceConns, EventBus, TLC

CONSTANTS c1, c2, c3, p1, p2, s1, s2, e1, e2, n1, n2, n3

MCLimit ==
  (System :> [total |-> 2, in |-> 2, out |-> 1]) @@
  (Transient :> [total |-> 2, in |-> 1, out |-> 0]) @@
  [p \in Peers |-> [total |-> 1, in |-> 0, out |-> 1]]

Rooms == [s \in Subs |-> 1]

(* One of the resource manager's starts is enough for the bus to move. *)
ConnsAtRest == ~closed /\ \A c \in Conns : stage[c] = "idle" /\ dir[c] = "in"

MCInit == InitConns /\ Init

MCNext ==
  \/ Init /\ ConnNext /\ UNCHANGED vars
  \/ ConnsAtRest /\ Next /\ UNCHANGED cvars

MCSpec == MCInit /\ [][MCNext]_<<cvars, vars>>

Symmetry == Permutations({n1, n2, n3}) \cup Permutations({s1, s2})
=============================================================================
