---------------------------- MODULE MCGossipMesh ----------------------------
(* Two members connect and disconnect while the topic is joined, closed   *)
(* and joined again, and the service stops.                                 *)
EXTENDS GossipMesh

CONSTANTS p1, p2, nobody
=============================================================================
