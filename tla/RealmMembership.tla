-------------------------- MODULE RealmMembership --------------------------
(***************************************************************************)
(* What a node promises about its realms (node.go:283, "a node belongs to  *)
(* one realm at a time"): it enters a realm only when it is in none, and   *)
(* to be in another one it leaves first.  RealmManager implements it.      *)
(***************************************************************************)
CONSTANT Realms       \* realms the node may enter

VARIABLE in           \* the realms the node is in

Init == in = {}

Enter(r) ==
  /\ in = {}
  /\ in' = {r}

Leave ==
  /\ in # {}
  /\ in' = {}

Next == Leave \/ \E r \in Realms : Enter(r)

Spec == Init /\ [][Next]_in
=============================================================================
