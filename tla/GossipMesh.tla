----------------------------- MODULE GossipMesh -----------------------------
(***************************************************************************)
(* The mesh of one gossip topic on one node                                *)
(* (internal/protocol/pubsub: gossipsub.go, mesh.go, heartbeat.go and the  *)
(* join, close and peer list of topic.go).                                 *)
(*                                                                         *)
(* Three goroutines work on the mesh.  The heartbeat removes peers that    *)
(* are no longer connected and grafts others up to the degree D; Join      *)
(* grafts at once for a topic that is new; and a goroutine subscribed to   *)
(* the event bus removes a peer as soon as its disconnection is reported.  *)
(* None of them holds a lock from one access to the next: the mesh has a   *)
(* lock of its own for every single read and write, the topic another one  *)
(* for its peer list, and gs.mu guards the table of topics only.  Stop,    *)
(* however, keeps gs.mu while it waits for the heartbeat to end.           *)
(*                                                                         *)
(* Peers are the members of the realm other than this node; scoring is     *)
(* off, as it is by default.                                               *)
(***************************************************************************)
EXTENDS Naturals, Sequences, FiniteSets

CONSTANTS
  Peers,        \* the other members of the realm
  D,            \* degree the heartbeat grafts up to
  Dhi,          \* most peers a mesh takes
  Buffer,       \* disconnections the subscription holds
  NoPeer        \* ""

ASSUME DegreeAssumption == D \in Nat /\ Dhi \in Nat /\ D <= Dhi
ASSUME BufferAssumption == Buffer \in Nat
ASSUME NoPeerAssumption == NoPeer \notin Peers
ASSUME PeersFinite == IsFiniteSet(Peers)

VARIABLES
  connected,    \* peers the network holds a connection to
  events,       \* disconnections in the subscription's buffer
  joined,       \* gs.topics has the topic
  topicPeers,   \* topic.peers of the topic joined last
  mesh,         \* meshPeers.peers of the topic
  routine,      \* what each goroutine is doing
  alive,        \* gs.ctx and the heartbeat's context are not cancelled
  stop          \* how far Stop is

vars == <<connected, events, joined, topicPeers, mesh, routine, alive, stop>>

Grafters == {"heartbeat", "join"}
Routines == Grafters \cup {"watcher"}

(***************************************************************************)
(* Where a goroutine stands, which peers it has still to deal with, and    *)
(* the peer it will report to the topic:                                   *)
(*   idle      waiting for a tick, a call, an event                        *)
(*   topics    about to read gs.topics                                     *)
(*   clean     about to list the mesh; check: testing those it has listed  *)
(*   graft     about to compare the mesh with D and to look for peers that *)
(*             are connected; select: about to choose among those found;   *)
(*             add: adding those chosen                                    *)
(*   remove    about to remove a peer that disconnected                    *)
(*   enter, leave  about to tell the topic of a peer                       *)
(***************************************************************************)
Stages == {"idle", "topics", "clean", "check", "graft", "select", "add",
           "remove", "enter", "leave", "exited"}

Idle == [at |-> "idle", todo |-> {}, need |-> 0, peer |-> NoPeer]

TypeOK ==
  /\ connected \subseteq Peers
  /\ events \in Seq(Peers) /\ Len(events) <= Buffer
  /\ joined \in BOOLEAN
  /\ topicPeers \subseteq Peers
  /\ mesh \subseteq Peers
  /\ routine \in [Routines -> [at : Stages, todo : SUBSET Peers, need : 0..D,
                               peer : Peers \cup {NoPeer}]]
  /\ alive \in BOOLEAN
  /\ stop \in {"no", "waiting", "closing", "done"}

Init ==
  /\ connected = {} /\ events = <<>>
  /\ joined = FALSE /\ topicPeers = {} /\ mesh = {}
  /\ routine = [r \in Routines |-> Idle]
  /\ alive = TRUE /\ stop = "no"

(* gs.mu is taken for long by Stop alone. *)
TopicsReadable == stop # "waiting"

At(r, stage) == routine[r].at = stage

Set(r, state) == routine' = [routine EXCEPT ![r] = state]

Goto(r, stage) == Set(r, [routine[r] EXCEPT !.at = stage])

-----------------------------------------------------------------------------
(* The network and the event bus. *)

Connect(p) ==
  /\ p \notin connected
  /\ connected' = connected \cup {p}
  /\ UNCHANGED <<events, joined, topicPeers, mesh, routine, alive, stop>>

(* The bus drops an event when the subscriber's buffer is full. *)
Disconnect(p) ==
  /\ p \in connected
  /\ connected' = connected \ {p}
  /\ events' = IF Len(events) < Buffer /\ ~At("watcher", "exited")
                 THEN Append(events, p) ELSE events
  /\ UNCHANGED <<joined, topicPeers, mesh, routine, alive, stop>>

-----------------------------------------------------------------------------
(* Telling the topic; a topic that was left in the meantime is not told. *)

(* What a goroutine does after it has told the topic of a peer. *)
AfterNotice(r) ==
  LET rest == routine[r].todo \ {routine[r].peer}
      more == IF At(r, "enter") THEN "add" ELSE "check"
  IN IF r = "watcher" THEN Idle
     ELSE IF rest = {} /\ more = "add" THEN Idle
     ELSE [Idle EXCEPT !.at = more, !.todo = rest]

NotifyPeerJoin(r) ==
  /\ At(r, "enter") /\ TopicsReadable
  /\ topicPeers' = IF joined THEN topicPeers \cup {routine[r].peer} ELSE topicPeers
  /\ Set(r, AfterNotice(r))
  /\ UNCHANGED <<connected, events, joined, mesh, alive, stop>>

NotifyPeerLeave(r) ==
  /\ At(r, "leave") /\ TopicsReadable
  /\ topicPeers' = IF joined THEN topicPeers \ {routine[r].peer} ELSE topicPeers
  /\ Set(r, AfterNotice(r))
  /\ UNCHANGED <<connected, events, joined, mesh, alive, stop>>

-----------------------------------------------------------------------------
(* graftPeers, run by the heartbeat and by Join. *)

EnoughPeers(r) ==
  /\ At(r, "graft") /\ Cardinality(mesh) >= D
  /\ Set(r, Idle)
  /\ UNCHANGED <<connected, events, joined, topicPeers, mesh, alive, stop>>

(* The candidates are those connected.  If they are fewer than the number  *)
(* missing, others are dialled, which may fail or be put off by the        *)
(* backoff, and the connected ones are looked up again.                    *)
FindCandidates(r) ==
  /\ At(r, "graft") /\ Cardinality(mesh) < D
  /\ LET need == D - Cardinality(mesh)
     IN \E dialled \in SUBSET (Peers \ connected) :
          /\ dialled = {} \/ Cardinality(dialled) + Cardinality(connected) <= need
          /\ connected' = connected \cup dialled
          /\ Set(r, [routine[r] EXCEPT !.at = "select", !.need = need, !.todo = connected'])
  /\ UNCHANGED <<events, joined, topicPeers, mesh, alive, stop>>

SelectPeersToGraft(r) ==
  /\ At(r, "select")
  /\ LET available == routine[r].todo \ mesh
     IN \E chosen \in SUBSET available :
          /\ \/ chosen = available /\ Cardinality(available) <= routine[r].need
             \/ Cardinality(available) > routine[r].need
                /\ Cardinality(chosen) = routine[r].need
          /\ Set(r, IF chosen = {} THEN Idle ELSE [Idle EXCEPT !.at = "add", !.todo = chosen])
  /\ UNCHANGED <<connected, events, joined, topicPeers, mesh, alive, stop>>

(* Mutant: graftPeers tests the degree and Add takes every peer. *)
AddToMeshAnyway(r, p) ==
  /\ At(r, "add") /\ p \in routine[r].todo
  /\ mesh' = mesh \cup {p}
  /\ Set(r, [routine[r] EXCEPT !.at = "enter", !.peer = p])
  /\ UNCHANGED <<connected, events, joined, topicPeers, alive, stop>>

(* meshPeers.Add refuses a peer when the mesh is full.  Its answer is not  *)
(* looked at: the topic is told in any case.                               *)
AddToMesh(r, p) ==
  /\ At(r, "add") /\ p \in routine[r].todo
  /\ mesh' = IF Cardinality(mesh) < Dhi THEN mesh \cup {p} ELSE mesh
  /\ Set(r, [routine[r] EXCEPT !.at = "enter", !.peer = p])
  /\ UNCHANGED <<connected, events, joined, topicPeers, alive, stop>>

-----------------------------------------------------------------------------
(* The heartbeat.  When the context is cancelled while a tick is due, the  *)
(* select may take either.                                                 *)

Tick ==
  /\ At("heartbeat", "idle")
  /\ Goto("heartbeat", "topics")
  /\ UNCHANGED <<connected, events, joined, topicPeers, mesh, alive, stop>>

HeartbeatExit ==
  /\ At("heartbeat", "idle") /\ ~alive
  /\ Goto("heartbeat", "exited")
  /\ UNCHANGED <<connected, events, joined, topicPeers, mesh, alive, stop>>

(* Mutant: a mesh that has its degree is not cleaned. *)
MaintainSmallMesh ==
  /\ At("heartbeat", "topics") /\ TopicsReadable
  /\ Goto("heartbeat", IF joined /\ Cardinality(mesh) < D THEN "clean" ELSE "idle")
  /\ UNCHANGED <<connected, events, joined, topicPeers, mesh, alive, stop>>

MaintainMesh ==
  /\ At("heartbeat", "topics") /\ TopicsReadable
  /\ Goto("heartbeat", IF joined THEN "clean" ELSE "idle")
  /\ UNCHANGED <<connected, events, joined, topicPeers, mesh, alive, stop>>

ListMesh ==
  /\ At("heartbeat", "clean")
  /\ Set("heartbeat", [routine["heartbeat"] EXCEPT !.at = "check", !.todo = mesh])
  /\ UNCHANGED <<connected, events, joined, topicPeers, mesh, alive, stop>>

CleanupDisconnected(p) ==
  LET hb == routine["heartbeat"] IN
  /\ hb.at = "check" /\ p \in hb.todo
  /\ IF p \in connected
       THEN Set("heartbeat", [hb EXCEPT !.todo = @ \ {p}]) /\ mesh' = mesh
       ELSE Set("heartbeat", [hb EXCEPT !.at = "leave", !.peer = p]) /\ mesh' = mesh \ {p}
  /\ UNCHANGED <<connected, events, joined, topicPeers, alive, stop>>

(* Mutant: the degree is measured by the topic's list of peers. *)
NeedMoreTopicPeers ==
  /\ At("heartbeat", "check") /\ routine["heartbeat"].todo = {}
  /\ Goto("heartbeat", IF Cardinality(topicPeers) < D THEN "graft" ELSE "idle")
  /\ UNCHANGED <<connected, events, joined, topicPeers, mesh, alive, stop>>

(* maintainMesh goes on to prune a mesh of more than Dhi peers, which      *)
(* meshPeers.Add never lets it become (MeshBounded).                       *)
NeedMorePeers ==
  /\ At("heartbeat", "check") /\ routine["heartbeat"].todo = {}
  /\ Goto("heartbeat", IF Cardinality(mesh) < D THEN "graft" ELSE "idle")
  /\ UNCHANGED <<connected, events, joined, topicPeers, mesh, alive, stop>>

-----------------------------------------------------------------------------
(* The watcher of disconnections. *)

TakeEvent ==
  /\ At("watcher", "idle") /\ events # <<>>
  /\ Set("watcher", [Idle EXCEPT !.at = "topics", !.peer = Head(events)])
  /\ events' = Tail(events)
  /\ UNCHANGED <<connected, joined, topicPeers, mesh, alive, stop>>

WatcherExit ==
  /\ At("watcher", "idle") /\ ~alive
  /\ Goto("watcher", "exited")
  /\ events' = <<>>
  /\ UNCHANGED <<connected, joined, topicPeers, mesh, alive, stop>>

HandlePeerDisconnected ==
  /\ At("watcher", "topics") /\ TopicsReadable
  /\ IF joined THEN Goto("watcher", "remove") ELSE Set("watcher", Idle)
  /\ UNCHANGED <<connected, events, joined, topicPeers, mesh, alive, stop>>

RemoveFromMesh ==
  LET p == routine["watcher"].peer IN
  /\ At("watcher", "remove")
  /\ mesh' = mesh \ {p}
  /\ IF p \in mesh THEN Goto("watcher", "leave") ELSE Set("watcher", Idle)
  /\ UNCHANGED <<connected, events, joined, topicPeers, alive, stop>>

-----------------------------------------------------------------------------
(* Joining and closing the topic, and stopping. *)

(* Service.Join holds s.mu for its test of started, and so waits for a     *)
(* Stop under way.                                                         *)
Join ==
  /\ At("join", "idle") /\ stop = "no" /\ ~joined
  /\ joined' = TRUE /\ topicPeers' = {}
  /\ Goto("join", "graft")
  /\ UNCHANGED <<connected, events, mesh, alive, stop>>

CloseTopic ==
  /\ joined /\ TopicsReadable
  /\ joined' = FALSE /\ mesh' = {}
  /\ UNCHANGED <<connected, events, topicPeers, routine, alive, stop>>

(* Takes gs.mu, cancels the contexts and waits for the heartbeat's end. *)
StopCall ==
  /\ stop = "no"
  /\ stop' = "waiting" /\ alive' = FALSE
  /\ UNCHANGED <<connected, events, joined, topicPeers, mesh, routine>>

HeartbeatStopped ==
  /\ stop = "waiting" /\ At("heartbeat", "exited")
  /\ stop' = "closing"
  /\ UNCHANGED <<connected, events, joined, topicPeers, mesh, routine, alive>>

StopTopics ==
  /\ stop = "closing"
  /\ stop' = "done" /\ joined' = FALSE
  /\ mesh' = IF joined THEN {} ELSE mesh
  /\ UNCHANGED <<connected, events, topicPeers, routine, alive>>

-----------------------------------------------------------------------------
Graft(r) ==
  \/ EnoughPeers(r)
  \/ FindCandidates(r)
  \/ SelectPeersToGraft(r)
  \/ \E p \in Peers : AddToMesh(r, p)

Heartbeat ==
  \/ HeartbeatExit \/ MaintainMesh \/ ListMesh \/ NeedMorePeers
  \/ \E p \in Peers : CleanupDisconnected(p)

Watcher == TakeEvent \/ WatcherExit \/ HandlePeerDisconnected \/ RemoveFromMesh

Stop == HeartbeatStopped \/ StopTopics

Notify(r) == NotifyPeerJoin(r) \/ NotifyPeerLeave(r)

Step(r) ==
  \/ r \in Grafters /\ Graft(r)
  \/ r = "heartbeat" /\ Heartbeat
  \/ r = "watcher" /\ Watcher
  \/ Notify(r)

Next ==
  \/ \E p \in Peers : Connect(p) \/ Disconnect(p)
  \/ \E r \in Routines : Step(r)
  \/ Tick
  \/ Join \/ CloseTopic \/ StopCall \/ Stop

Spec == Init /\ [][Next]_vars

(* Goroutines run when they can, and the ticker ticks.  Nothing is assumed *)
(* of the network or of the application.                                   *)
Fairness ==
  /\ \A r \in Routines : WF_vars(Step(r))
  /\ WF_vars(Tick /\ alive)
  /\ WF_vars(Stop)

FairSpec == Spec /\ Fairness

-----------------------------------------------------------------------------
(* Properties *)

(* However the heartbeat's and Join's grafts interleave, each having       *)
(* counted the mesh before the other added to it, the mesh never outgrows  *)
(* Dhi; so the pruning in maintainMesh never has anything to do.           *)
MeshBounded == Cardinality(mesh) <= Dhi

(* A peer of the mesh that has disconnected is removed or connects again,  *)
(* even when the bus drops the event: the heartbeat is a second line       *)
(* (gossipsub.go, cleanupDisconnectedPeers).                               *)
DisconnectedLeaveMesh ==
  \A p \in Peers :
    (p \in mesh \ connected) ~> (p \notin mesh \/ p \in connected \/ ~joined \/ ~alive)

(* Once the topic stays joined and the peers stay connected, the mesh      *)
(* reaches its degree and keeps it, whatever disconnections are still in   *)
(* the buffer and whatever an earlier Join left in the mesh.               *)
MeshRecovers ==
  <>[](joined /\ alive /\ connected = Peers) => <>[](Cardinality(mesh) >= D)

(* Stop returns (gossipsub.go and heartbeat.go: Stop waits for the         *)
(* heartbeat to end).                                                      *)
StopReturns == stop = "waiting" ~> stop = "done"
=============================================================================
