-------------------------- MODULE GossipMeshProofs --------------------------
(***************************************************************************)
(* The safety of the mesh, for any set of peers, degrees and buffer.       *)
(*                                                                         *)
(* TypeOK is inductive once it is known that a goroutine which is about to *)
(* tell the topic of a peer has one to tell of (HasPeer): NoPeer would     *)
(* otherwise end up among the topic's peers.  MeshBounded follows from the *)
(* test in meshPeers.Add alone, which is why no lock around counting,      *)
(* choosing and adding is needed for it.                                   *)
(*                                                                         *)
(* What the recovery of the mesh rests on: a round ends by itself, and     *)
(* deals with every disconnected peer it has found in the mesh.            *)
(***************************************************************************)
EXTENDS GossipMesh, FiniteSetTheorems, TLAPS

HasPeer == \A r \in Routines : routine[r].at \in {"enter", "leave"} => routine[r].peer \in Peers

IInv == TypeOK /\ HasPeer

(* A heartbeat inside a round, at a point where it will need gs.mu, while  *)
(* Stop holds gs.mu until the heartbeat has ended.                         *)
Deadlocked ==
  /\ stop = "waiting"
  /\ routine["heartbeat"].at \in {"topics", "enter", "leave"}

-----------------------------------------------------------------------------
LEMMA SubsetsFinite ==
  ASSUME NEW S \in SUBSET Peers
  PROVE  IsFiniteSet(S) /\ Cardinality(S) \in Nat
BY PeersFinite, FS_Subset, FS_CardinalityType

(* A step that only moves one goroutine keeps the invariant. *)
LEMMA RoutineType ==
  ASSUME IInv, NEW r \in Routines,
         NEW s \in [at : Stages, todo : SUBSET Peers, need : 0..D, peer : Peers \cup {NoPeer}],
         s.at \in {"enter", "leave"} => s.peer \in Peers,
         Set(r, s)
  PROVE  /\ routine' \in [Routines -> [at : Stages, todo : SUBSET Peers, need : 0..D,
                                       peer : Peers \cup {NoPeer}]]
         /\ HasPeer'
BY DEF IInv, TypeOK, HasPeer, Set

LEMMA IdleType ==
  Idle \in [at : Stages, todo : SUBSET Peers, need : 0..D, peer : Peers \cup {NoPeer}]
BY DegreeAssumption DEF Idle, Stages
-----------------------------------------------------------------------------
LEMMA NotifyInv ==
  ASSUME IInv, NEW r \in Routines, Notify(r)
  PROVE  IInv'
<1>1. routine[r].peer \in Peers
  BY DEF Notify, NotifyPeerJoin, NotifyPeerLeave, At, IInv, HasPeer
<1>2. topicPeers' \subseteq Peers
  BY <1>1 DEF Notify, NotifyPeerJoin, NotifyPeerLeave, IInv, TypeOK
<1>3. Set(r, AfterNotice(r))
  BY DEF Notify, NotifyPeerJoin, NotifyPeerLeave
<1>4. /\ AfterNotice(r) \in [at : Stages, todo : SUBSET Peers, need : 0..D,
                             peer : Peers \cup {NoPeer}]
      /\ AfterNotice(r).at \notin {"enter", "leave"}
  <2> DEFINE rest == routine[r].todo \ {routine[r].peer}
             more == IF At(r, "enter") THEN "add" ELSE "check"
             busy == [at |-> more, todo |-> rest, need |-> 0, peer |-> NoPeer]
  <2>1. rest \in SUBSET Peers
    BY DEF IInv, TypeOK
  <2>2. AfterNotice(r) \in {Idle, busy}
    BY DEF AfterNotice, Idle
  <2> HIDE DEF rest
  <2>3. busy \in [at : Stages, todo : SUBSET Peers, need : 0..D, peer : Peers \cup {NoPeer}]
    BY <2>1, DegreeAssumption DEF Stages
  <2> QED
    BY <2>2, <2>3, IdleType DEF Idle
<1>5. HasPeer' /\ routine' \in [Routines -> [at : Stages, todo : SUBSET Peers, need : 0..D,
                                             peer : Peers \cup {NoPeer}]]
  BY <1>3, <1>4, RoutineType
<1> QED
  BY <1>2, <1>5 DEF Notify, NotifyPeerJoin, NotifyPeerLeave, IInv, TypeOK

LEMMA GraftInv ==
  ASSUME IInv, NEW r \in Grafters, Graft(r)
  PROVE  IInv'
<1> DEFINE State == [at : Stages, todo : SUBSET Peers, need : 0..D, peer : Peers \cup {NoPeer}]
<1>r. r \in Routines /\ routine[r] \in State
  BY DEF IInv, TypeOK, Routines
<1>1. CASE EnoughPeers(r)
  <2>1. routine' \in [Routines -> State] /\ HasPeer'
    BY <1>1, <1>r, IdleType, RoutineType DEF EnoughPeers, Idle
  <2> QED
    BY <1>1, <2>1 DEF EnoughPeers, IInv, TypeOK
<1>2. CASE FindCandidates(r)
  <2> DEFINE need == D - Cardinality(mesh)
  <2>1. PICK dialled \in SUBSET (Peers \ connected) :
          /\ connected' = connected \cup dialled
          /\ Set(r, [routine[r] EXCEPT !.at = "select", !.need = need, !.todo = connected'])
    BY <1>2 DEF FindCandidates
  <2>2. connected' \in SUBSET Peers
    BY <2>1 DEF IInv, TypeOK
  <2>3. need \in 0..D
    BY <1>2, SubsetsFinite, DegreeAssumption DEF FindCandidates, IInv, TypeOK
  <2> HIDE DEF need
  <2>4. [routine[r] EXCEPT !.at = "select", !.need = need, !.todo = connected'] \in State
    BY <1>r, <2>2, <2>3 DEF Stages
  <2>5. routine' \in [Routines -> State] /\ HasPeer'
    BY <1>r, <2>1, <2>4, RoutineType
  <2> QED
    BY <1>2, <2>2, <2>5 DEF FindCandidates, IInv, TypeOK
<1>3. CASE SelectPeersToGraft(r)
  <2>1. PICK chosen \in SUBSET (routine[r].todo \ mesh) :
          Set(r, IF chosen = {} THEN Idle ELSE [Idle EXCEPT !.at = "add", !.todo = chosen])
    BY <1>3 DEF SelectPeersToGraft
  <2>2. chosen \in SUBSET Peers
    BY <1>r
  <2>3. [Idle EXCEPT !.at = "add", !.todo = chosen] \in State
    BY <2>2, IdleType DEF Stages
  <2>4. routine' \in [Routines -> State] /\ HasPeer'
    BY <1>r, <2>1, <2>3, IdleType, RoutineType DEF Idle
  <2> QED
    BY <1>3, <2>4 DEF SelectPeersToGraft, IInv, TypeOK
<1>4. ASSUME NEW p \in Peers, AddToMesh(r, p)
      PROVE  IInv'
  <2>1. [routine[r] EXCEPT !.at = "enter", !.peer = p] \in State
    BY <1>r DEF Stages
  <2>2. routine' \in [Routines -> State] /\ HasPeer'
    BY <1>4, <1>r, <2>1, RoutineType DEF AddToMesh
  <2> QED
    BY <1>4, <2>2 DEF AddToMesh, IInv, TypeOK
<1> QED
  BY <1>1, <1>2, <1>3, <1>4 DEF Graft

LEMMA HeartbeatInv ==
  ASSUME IInv, Heartbeat \/ Tick
  PROVE  IInv'
<1> DEFINE State == [at : Stages, todo : SUBSET Peers, need : 0..D, peer : Peers \cup {NoPeer}]
           hb == routine["heartbeat"]
<1>r. "heartbeat" \in Routines /\ hb \in State
  BY DEF IInv, TypeOK, Routines, Grafters
<1>1. ASSUME NEW stage \in Stages \ {"enter", "leave"}, Goto("heartbeat", stage)
      PROVE  routine' \in [Routines -> State] /\ HasPeer'
  <2>1. [hb EXCEPT !.at = stage] \in State
    BY <1>r
  <2> QED
    BY <1>1, <1>r, <2>1, RoutineType DEF Goto
<1>2. CASE Tick \/ HeartbeatExit \/ MaintainMesh \/ NeedMorePeers
  <2>1. \E stage \in Stages \ {"enter", "leave"} : Goto("heartbeat", stage)
    BY <1>2 DEF Tick, HeartbeatExit, MaintainMesh, NeedMorePeers, Stages
  <2> QED
    BY <1>1, <1>2, <2>1 DEF Tick, HeartbeatExit, MaintainMesh, NeedMorePeers, IInv, TypeOK
<1>3. CASE ListMesh
  <2>1. [hb EXCEPT !.at = "check", !.todo = mesh] \in State
    BY <1>r DEF IInv, TypeOK, Stages
  <2>2. routine' \in [Routines -> State] /\ HasPeer'
    BY <1>3, <1>r, <2>1, RoutineType DEF ListMesh
  <2> QED
    BY <1>3, <2>2 DEF ListMesh, IInv, TypeOK
<1>4. ASSUME NEW p \in Peers, CleanupDisconnected(p)
      PROVE  IInv'
  <2>1. CASE p \in connected
    <3>1. [hb EXCEPT !.todo = @ \ {p}] \in State /\ hb.at = "check"
      BY <1>4, <1>r DEF CleanupDisconnected
    <3>2. routine' \in [Routines -> State] /\ HasPeer'
      BY <1>4, <1>r, <2>1, <3>1, RoutineType DEF CleanupDisconnected
    <3> QED
      BY <1>4, <2>1, <3>2 DEF CleanupDisconnected, IInv, TypeOK
  <2>2. CASE p \notin connected
    <3>1. [hb EXCEPT !.at = "leave", !.peer = p] \in State
      BY <1>r DEF Stages
    <3>2. routine' \in [Routines -> State] /\ HasPeer'
      BY <1>4, <1>r, <2>2, <3>1, RoutineType DEF CleanupDisconnected
    <3> QED
      BY <1>4, <2>2, <3>2 DEF CleanupDisconnected, IInv, TypeOK
  <2> QED
    BY <2>1, <2>2
<1> QED
  BY <1>2, <1>3, <1>4 DEF Heartbeat

LEMMA WatcherInv ==
  ASSUME IInv, Watcher
  PROVE  IInv'
<1> DEFINE State == [at : Stages, todo : SUBSET Peers, need : 0..D, peer : Peers \cup {NoPeer}]
           w == routine["watcher"]
<1>r. "watcher" \in Routines /\ w \in State
  BY DEF IInv, TypeOK, Routines
<1>1. CASE TakeEvent
  <2>1. Head(events) \in Peers /\ Tail(events) \in Seq(Peers) /\ Len(Tail(events)) <= Buffer
    BY <1>1, BufferAssumption DEF TakeEvent, IInv, TypeOK
  <2>2. [Idle EXCEPT !.at = "topics", !.peer = Head(events)] \in State
    BY <2>1, IdleType DEF Stages
  <2>3. routine' \in [Routines -> State] /\ HasPeer'
    BY <1>1, <1>r, <2>2, RoutineType DEF TakeEvent
  <2> QED
    BY <1>1, <2>1, <2>3 DEF TakeEvent, IInv, TypeOK
<1>2. CASE WatcherExit
  <2>1. [w EXCEPT !.at = "exited"] \in State
    BY <1>r DEF Stages
  <2>2. routine' \in [Routines -> State] /\ HasPeer'
    BY <1>2, <1>r, <2>1, RoutineType DEF WatcherExit, Goto
  <2>3. events' \in Seq(Peers) /\ Len(events') <= Buffer
    BY <1>2, BufferAssumption DEF WatcherExit
  <2> QED
    BY <1>2, <2>2, <2>3 DEF WatcherExit, IInv, TypeOK
<1>3. CASE HandlePeerDisconnected
  <2>1. [w EXCEPT !.at = "remove"] \in State
    BY <1>r DEF Stages
  <2>2. routine' \in [Routines -> State] /\ HasPeer'
    BY <1>3, <1>r, <2>1, IdleType, RoutineType DEF HandlePeerDisconnected, Goto, Idle
  <2> QED
    BY <1>3, <2>2 DEF HandlePeerDisconnected, IInv, TypeOK
<1>4. CASE RemoveFromMesh
  <2>1. [w EXCEPT !.at = "leave"] \in State
    BY <1>r DEF Stages
  <2>2. w.peer \in mesh => w.peer \in Peers
    BY DEF IInv, TypeOK
  <2>3. routine' \in [Routines -> State] /\ HasPeer'
    BY <1>4, <1>r, <2>1, <2>2, IdleType, RoutineType DEF RemoveFromMesh, Goto, Idle
  <2> QED
    BY <1>4, <2>3 DEF RemoveFromMesh, IInv, TypeOK
<1> QED
  BY <1>1, <1>2, <1>3, <1>4 DEF Watcher

-----------------------------------------------------------------------------
LEMMA NextIInv == IInv /\ [Next]_vars => IInv'
<1> SUFFICES ASSUME IInv, [Next]_vars
             PROVE  IInv'
  OBVIOUS
<1>1. ASSUME NEW p \in Peers, Connect(p) \/ Disconnect(p)
      PROVE  IInv'
  <2>1. events' \in Seq(Peers) /\ Len(events') <= Buffer
    BY <1>1, BufferAssumption DEF Connect, Disconnect, IInv, TypeOK
  <2> QED
    BY <1>1, <2>1 DEF Connect, Disconnect, IInv, TypeOK, HasPeer
<1>2. ASSUME NEW r \in Routines, Step(r)
      PROVE  IInv'
  BY <1>2, GraftInv, HeartbeatInv, WatcherInv, NotifyInv DEF Step
<1>3. CASE Tick
  BY <1>3, HeartbeatInv
<1>4. CASE Join
  <2>1. /\ "join" \in Routines
        /\ [routine["join"] EXCEPT !.at = "graft"] \in
             [at : Stages, todo : SUBSET Peers, need : 0..D, peer : Peers \cup {NoPeer}]
    BY DEF IInv, TypeOK, Routines, Grafters, Stages
  <2>2. HasPeer' /\ routine' \in [Routines -> [at : Stages, todo : SUBSET Peers, need : 0..D,
                                               peer : Peers \cup {NoPeer}]]
    BY <1>4, <2>1, RoutineType DEF Join, Goto
  <2> QED
    BY <1>4, <2>2 DEF Join, IInv, TypeOK
<1>5. CASE CloseTopic \/ StopCall \/ Stop
  BY <1>5 DEF CloseTopic, StopCall, Stop, HeartbeatStopped, StopTopics, IInv, TypeOK, HasPeer
<1>6. CASE UNCHANGED vars
  BY <1>6 DEF vars, IInv, TypeOK, HasPeer
<1> QED
  BY <1>1, <1>2, <1>3, <1>4, <1>5, <1>6 DEF Next

(* Types are kept, for any number of peers: no goroutine tells the topic   *)
(* of no peer, and the subscription never holds more than its buffer.      *)
THEOREM TypeCorrect == Spec => []TypeOK
<1>1. Init => IInv
  <2> SUFFICES ASSUME Init
               PROVE  IInv
    OBVIOUS
  <2>1. \A r \in Routines : routine[r] = Idle
    BY DEF Init
  <2>2. routine \in [Routines -> [at : Stages, todo : SUBSET Peers, need : 0..D,
                                  peer : Peers \cup {NoPeer}]]
    BY IdleType DEF Init
  <2>3. HasPeer
    BY <2>1 DEF HasPeer, Idle
  <2>4. events \in Seq(Peers) /\ Len(events) <= Buffer
    BY BufferAssumption DEF Init
  <2> QED
    BY <2>2, <2>3, <2>4 DEF Init, IInv, TypeOK
<1>2. IInv => TypeOK
  BY DEF IInv
<1> QED
  BY <1>1, <1>2, NextIInv, PTL DEF Spec

(* The mesh never outgrows Dhi, whatever the heartbeat and Join each       *)
(* counted and chose (mesh.go, Add).                                       *)
THEOREM MeshBoundedHolds == Spec => []MeshBounded
<1>1. Init => MeshBounded
  BY DegreeAssumption, FS_EmptySet DEF Init, MeshBounded
<1>2. TypeOK /\ MeshBounded /\ [Next]_vars => MeshBounded'
  <2> SUFFICES ASSUME TypeOK, MeshBounded, [Next]_vars
               PROVE  MeshBounded'
    OBVIOUS
  <2>0. mesh \in SUBSET Peers /\ IsFiniteSet(mesh)
    BY SubsetsFinite DEF TypeOK
  <2>1. CASE mesh' \subseteq mesh
    <3>1. Cardinality(mesh') <= Cardinality(mesh) /\ IsFiniteSet(mesh')
      BY <2>0, <2>1, FS_Subset
    <3> QED
      BY <2>0, <3>1, DegreeAssumption, FS_CardinalityType DEF MeshBounded
  <2>2. ASSUME NEW r \in Routines, NEW p \in Peers, AddToMesh(r, p)
        PROVE  MeshBounded'
    <3>1. CASE Cardinality(mesh) < Dhi
      <4>1. mesh' = mesh \cup {p}
        BY <2>2, <3>1 DEF AddToMesh
      <4>2. Cardinality(mesh') \in {Cardinality(mesh), Cardinality(mesh) + 1}
        BY <2>0, <4>1, FS_AddElement
      <4> QED
        BY <2>0, <3>1, <4>2, DegreeAssumption, FS_CardinalityType DEF MeshBounded
    <3>2. CASE ~(Cardinality(mesh) < Dhi)
      BY <2>2, <3>2, <2>1 DEF AddToMesh
    <3> QED
      BY <3>1, <3>2
  <2>3. ASSUME NEW r \in Routines, Step(r)
        PROVE  MeshBounded'
    <3>1. CASE Graft(r)
      BY <3>1, <2>1, <2>2 DEF Graft, EnoughPeers, FindCandidates, SelectPeersToGraft
    <3>2. CASE Heartbeat
      BY <3>2, <2>1 DEF Heartbeat, HeartbeatExit, MaintainMesh, ListMesh, NeedMorePeers,
         CleanupDisconnected
    <3>3. CASE Watcher
      BY <3>3, <2>1 DEF Watcher, TakeEvent, WatcherExit, HandlePeerDisconnected, RemoveFromMesh
    <3>4. CASE Notify(r)
      BY <3>4, <2>1 DEF Notify, NotifyPeerJoin, NotifyPeerLeave
    <3> QED
      BY <2>3, <3>1, <3>2, <3>3, <3>4 DEF Step
  <2>4. CASE UNCHANGED vars
    BY <2>4, <2>1 DEF vars
  <2>5. CASE Next
    BY <2>1, <2>3, <2>5 DEF Next, Connect, Disconnect, Tick, Join, CloseTopic, StopCall, Stop,
       HeartbeatStopped, StopTopics
  <2> QED
    BY <2>4, <2>5
<1> QED
  BY <1>1, <1>2, TypeCorrect, PTL DEF Spec

-----------------------------------------------------------------------------
(* A Stop that meets the heartbeat inside a round never returns, whatever  *)
(* else goes on and however fair the scheduler is: the heartbeat waits for *)
(* gs.mu and Stop, which holds it, for the heartbeat (gossipsub.go, Stop). *)
THEOREM StopDeadlocks == Spec => [](Deadlocked => []Deadlocked)
<1>1. TypeOK /\ Deadlocked /\ [Next]_vars => Deadlocked'
  <2> SUFFICES ASSUME TypeOK, Deadlocked, [Next]_vars
               PROVE  Deadlocked'
    OBVIOUS
  <2>0. /\ ~TopicsReadable /\ "heartbeat" \in Routines
        /\ \A stage \in {"idle", "clean", "check", "graft", "select", "add", "exited"} :
             ~At("heartbeat", stage)
    BY DEF Deadlocked, TopicsReadable, At, Routines, Grafters
  <2>1. ASSUME NEW r \in Routines, Step(r)
        PROVE  Deadlocked'
    <3>1. CASE r = "heartbeat"
      BY <2>0, <2>1, <3>1 DEF Step, Graft, EnoughPeers, FindCandidates, SelectPeersToGraft,
         AddToMesh, Heartbeat, HeartbeatExit, MaintainMesh, ListMesh, CleanupDisconnected,
         NeedMorePeers, Notify, NotifyPeerJoin, NotifyPeerLeave, At
    <3>2. CASE r # "heartbeat"
      <4>1. \E s : Set(r, s)
        BY <2>1, <3>2 DEF Step, Graft, EnoughPeers, FindCandidates, SelectPeersToGraft, AddToMesh,
           Watcher, TakeEvent, WatcherExit, HandlePeerDisconnected, RemoveFromMesh,
           Notify, NotifyPeerJoin, NotifyPeerLeave, Goto
      <4>2. stop' = stop
        BY <2>1, <3>2 DEF Step, Graft, EnoughPeers, FindCandidates, SelectPeersToGraft, AddToMesh,
           Watcher, TakeEvent, WatcherExit, HandlePeerDisconnected, RemoveFromMesh,
           Notify, NotifyPeerJoin, NotifyPeerLeave
      <4> QED
        BY <2>0, <3>2, <4>1, <4>2 DEF Set, TypeOK, Deadlocked
    <3> QED
      BY <3>1, <3>2
  <2>2. CASE UNCHANGED vars
    BY <2>2 DEF vars, Deadlocked
  <2>3. CASE \E p \in Peers : Connect(p) \/ Disconnect(p)
    BY <2>3 DEF Connect, Disconnect, Deadlocked
  <2>4. CASE Tick \/ Join \/ CloseTopic \/ StopCall \/ Stop
    BY <2>0, <2>4 DEF Tick, Join, CloseTopic, StopCall, Stop, HeartbeatStopped, StopTopics,
       TopicsReadable, Deadlocked
  <2> QED
    BY <2>1, <2>2, <2>3, <2>4 DEF Next
<1> QED
  BY <1>1, TypeCorrect, PTL DEF Spec

-----------------------------------------------------------------------------
(* The rounds of the heartbeat and the grafts of Join end.                 *)

(* The peer a grafter is about to tell the topic of is one it has still to *)
(* deal with.                                                              *)
Dealing ==
  \A r \in Grafters : routine[r].at \in {"enter", "leave"} => routine[r].peer \in routine[r].todo

(* A step of one goroutine changes its own state only; with s its new one. *)
LEMMA OwnStep ==
  ASSUME TypeOK, NEW r \in Routines, Step(r)
  PROVE  \E s : Set(r, s)
BY DEF Step, Graft, EnoughPeers, FindCandidates, SelectPeersToGraft, AddToMesh, Heartbeat, HeartbeatExit,
   MaintainMesh, ListMesh, NeedMorePeers, CleanupDisconnected, Watcher, TakeEvent, WatcherExit,
   HandlePeerDisconnected, RemoveFromMesh, Notify, NotifyPeerJoin, NotifyPeerLeave, Goto

(* A grafter at work is moved by its own steps only. *)
LEMMA OthersLeaveIt ==
  ASSUME TypeOK, NEW r \in Grafters, ~At(r, "idle"), ~Step(r), [Next]_vars
  PROVE  routine'[r] = routine[r]
<1>1. ASSUME NEW q \in Routines, Step(q)
      PROVE  routine'[r] = routine[r]
  <2>1. q # r
    BY <1>1
  <2>2. PICK s : Set(q, s)
    BY <1>1, OwnStep
  <2> QED
    BY <2>1, <2>2 DEF Set, TypeOK
<1>2. CASE Tick \/ Join
  BY <1>2 DEF Tick, Join, Goto, Set, At, TypeOK, Routines
<1> QED
  BY <1>1, <1>2 DEF Next, Connect, Disconnect, CloseTopic, StopCall, Stop, HeartbeatStopped, StopTopics, vars

(* What a step of a grafter at work does to its state.                     *)
Deeds(s, t) ==
  \/ s.at \in {"graft", "select", "check", "topics"} /\ t = Idle
  \/ s.at = "graft" /\ t.at = "select"
  \/ s.at = "select" /\ t.at = "add"
  \/ s.at = "add" /\ t.at = "enter" /\ t.todo = s.todo /\ t.peer \in s.todo
  \/ s.at = "enter" /\ t.at \in {"idle", "add"} /\ t.todo = s.todo \ {s.peer}
  \/ s.at \in {"topics", "check"} /\ t.at = "idle"
  \/ s.at = "topics" /\ t.at = "clean"
  \/ s.at = "clean" /\ t.at = "check"
  \/ s.at = "check" /\ t.at = "check" /\ \E p \in s.todo : t.todo = s.todo \ {p}
  \/ s.at = "check" /\ t.at = "leave" /\ t.todo = s.todo /\ t.peer \in s.todo
  \/ s.at = "leave" /\ t.at = "check" /\ t.todo = s.todo \ {s.peer}
  \/ s.at = "check" /\ t.at = "graft"

LEMMA StepDoes ==
  ASSUME TypeOK, NEW r \in Grafters, ~At(r, "idle"), Step(r)
  PROVE  Deeds(routine[r], routine'[r])
<1>0. /\ r \in Routines /\ r # "watcher"
      /\ \A s : Set(r, s) => routine'[r] = s
      /\ routine[r] \in [at : Stages, todo : SUBSET Peers, need : 0..D, peer : Peers \cup {NoPeer}]
  BY DEF Routines, Grafters, Set, TypeOK
<1>1. CASE Graft(r)
  <2>1. CASE EnoughPeers(r)
    BY <1>0, <2>1 DEF EnoughPeers, At, Deeds
  <2>2. CASE FindCandidates(r)
    BY <1>0, <2>2 DEF FindCandidates, At, Deeds
  <2>3. CASE SelectPeersToGraft(r)
    BY <1>0, <2>3 DEF SelectPeersToGraft, At, Deeds, Idle
  <2>4. ASSUME NEW p \in Peers, AddToMesh(r, p)
        PROVE  Deeds(routine[r], routine'[r])
    BY <1>0, <2>4 DEF AddToMesh, At, Deeds
  <2> QED
    BY <1>1, <2>1, <2>2, <2>3, <2>4 DEF Graft
<1>2. CASE r = "heartbeat" /\ Heartbeat
  <2>1. CASE HeartbeatExit
    BY <1>2, <2>1 DEF HeartbeatExit
  <2>2. CASE MaintainMesh
    BY <1>0, <1>2, <2>2 DEF MaintainMesh, Goto, At, Deeds
  <2>3. CASE ListMesh
    BY <1>0, <1>2, <2>3 DEF ListMesh, At, Deeds
  <2>4. CASE NeedMorePeers
    BY <1>0, <1>2, <2>4 DEF NeedMorePeers, Goto, At, Deeds
  <2>5. ASSUME NEW p \in Peers, CleanupDisconnected(p)
        PROVE  Deeds(routine[r], routine'[r])
    BY <1>0, <1>2, <2>5 DEF CleanupDisconnected, Deeds
  <2> QED
    BY <1>2, <2>1, <2>2, <2>3, <2>4, <2>5 DEF Heartbeat
<1>3. CASE Notify(r)
  <2>1. routine'[r] = AfterNotice(r) /\ (At(r, "enter") \/ At(r, "leave"))
    BY <1>0, <1>3 DEF Notify, NotifyPeerJoin, NotifyPeerLeave
  <2> QED
    BY <1>0, <2>1 DEF AfterNotice, At, Idle, Deeds
<1> QED
  BY <1>0, <1>1, <1>2, <1>3 DEF Step

LEMMA NextDealing == TypeOK /\ Dealing /\ [Next]_vars => Dealing'
<1> SUFFICES ASSUME TypeOK, Dealing, [Next]_vars, NEW r \in Grafters
             PROVE  routine'[r].at \in {"enter", "leave"} => routine'[r].peer \in routine'[r].todo
  BY DEF Dealing
<1>1. CASE ~At(r, "idle") /\ Step(r)
  <2>1. Deeds(routine[r], routine'[r])
    BY <1>1, StepDoes
  <2> QED
    BY <2>1 DEF Deeds, Idle
<1>2. CASE ~At(r, "idle") /\ ~Step(r)
  BY <1>2, OthersLeaveIt DEF Dealing
<1>3. CASE At(r, "idle")
  <2>1. routine'[r] = routine[r] \/ routine'[r].at \in {"topics", "graft", "exited"}
    <3>1. ASSUME NEW q \in Routines, Step(q)
          PROVE  routine'[r] = routine[r] \/ routine'[r].at = "exited"
      <4>1. PICK s : Set(q, s)
        BY <3>1, OwnStep
      <4>2. CASE q # r
        BY <4>1, <4>2 DEF Set, TypeOK
      <4>3. CASE q = r
        <5>1. HeartbeatExit /\ r = "heartbeat"
          BY <1>3, <3>1, <4>3 DEF Step, Graft, EnoughPeers, FindCandidates, SelectPeersToGraft, AddToMesh,
             Heartbeat, MaintainMesh, ListMesh, NeedMorePeers, CleanupDisconnected, Notify,
             NotifyPeerJoin, NotifyPeerLeave, At, Grafters
        <5> QED
          BY <5>1 DEF HeartbeatExit, Goto, Set, TypeOK, Routines
      <4> QED
        BY <4>2, <4>3
    <3>2. CASE Tick \/ Join
      BY <3>2 DEF Tick, Join, Goto, Set, TypeOK, Routines, Grafters
    <3> QED
      BY <3>1, <3>2 DEF Next, Connect, Disconnect, CloseTopic, StopCall, Stop, HeartbeatStopped,
         StopTopics, vars
  <2> QED
    BY <1>3, <2>1 DEF At
<1> QED
  BY <1>1, <1>2, <1>3

LEMMA DealingHolds == Spec => []Dealing
<1>1. Init => Dealing
  BY DEF Init, Dealing, Idle, Routines
<1> QED
  BY <1>1, NextDealing, TypeCorrect, PTL DEF Spec

(* The steps a grafter in the state s has left at most, before it is idle. *)
StepsOf(s) ==
  LET n == Cardinality(Peers)
      k == Cardinality(s.todo)
  IN CASE s.at = "enter" -> 2 * k - 1
       [] s.at = "add" -> 2 * k
       [] s.at = "select" -> 2 * n + 1
       [] s.at = "graft" -> 2 * n + 2
       [] s.at = "check" -> 2 * n + 3 + 2 * k
       [] s.at = "leave" -> 2 * n + 2 + 2 * k
       [] s.at = "clean" -> 4 * n + 4
       [] s.at = "topics" -> 4 * n + 5
       [] OTHER -> 0

(* Every round of the heartbeat and every graft of a Join is over after    *)
(* 4 * n + 5 steps of its own at most, n being the number of peers; what   *)
(* goes on beside it neither moves it nor gives it more to do.             *)
RoundsEnd ==
  [][\A r \in Grafters : ~At(r, "idle") =>
       /\ Step(r) => StepsOf(routine'[r]) < StepsOf(routine[r])
       /\ ~Step(r) => routine'[r] = routine[r]]_vars

LEMMA StepsAre ==
  ASSUME NEW s
  PROVE  /\ s.at = "enter" => StepsOf(s) = 2 * Cardinality(s.todo) - 1
         /\ s.at = "add" => StepsOf(s) = 2 * Cardinality(s.todo)
         /\ s.at = "select" => StepsOf(s) = 2 * Cardinality(Peers) + 1
         /\ s.at = "graft" => StepsOf(s) = 2 * Cardinality(Peers) + 2
         /\ s.at = "check" => StepsOf(s) = 2 * Cardinality(Peers) + 3 + 2 * Cardinality(s.todo)
         /\ s.at = "leave" => StepsOf(s) = 2 * Cardinality(Peers) + 2 + 2 * Cardinality(s.todo)
         /\ s.at = "clean" => StepsOf(s) = 4 * Cardinality(Peers) + 4
         /\ s.at = "topics" => StepsOf(s) = 4 * Cardinality(Peers) + 5
         /\ s.at = "idle" => StepsOf(s) = 0
BY DEF StepsOf

LEMMA DeedsCount ==
  ASSUME NEW s, NEW t, s.todo \in SUBSET Peers, t.todo \in SUBSET Peers, Deeds(s, t),
         s.at \in {"enter", "leave"} => s.peer \in s.todo
  PROVE  StepsOf(t) < StepsOf(s)
<1> DEFINE n == Cardinality(Peers)
           k == Cardinality(s.todo)
           l == Cardinality(t.todo)
<1>1. n \in Nat /\ k \in 0..n /\ l \in 0..n
  BY PeersFinite, FS_Subset, FS_CardinalityType
<1>2. ASSUME NEW p \in s.todo
      PROVE  k >= 1 /\ (t.todo = s.todo \ {p} => l = k - 1)
  <2>1. IsFiniteSet(s.todo)
    BY PeersFinite, FS_Subset
  <2>2. Cardinality(s.todo) # 0
    BY <2>1, FS_EmptySet
  <2>3. Cardinality(s.todo \ {p}) = Cardinality(s.todo) - 1
    BY <2>1, FS_RemoveElement
  <2> QED
    BY <1>1, <2>2, <2>3
<1>3. t.todo = s.todo => l = k
  OBVIOUS
<1>a. /\ s.at = "enter" => StepsOf(s) = 2 * k - 1
      /\ s.at = "add" => StepsOf(s) = 2 * k
      /\ s.at = "select" => StepsOf(s) = 2 * n + 1
      /\ s.at = "graft" => StepsOf(s) = 2 * n + 2
      /\ s.at = "check" => StepsOf(s) = 2 * n + 3 + 2 * k
      /\ s.at = "leave" => StepsOf(s) = 2 * n + 2 + 2 * k
      /\ s.at = "clean" => StepsOf(s) = 4 * n + 4
      /\ s.at = "topics" => StepsOf(s) = 4 * n + 5
  BY StepsAre
<1>b. /\ t.at = "enter" => StepsOf(t) = 2 * l - 1
      /\ t.at = "add" => StepsOf(t) = 2 * l
      /\ t.at = "select" => StepsOf(t) = 2 * n + 1
      /\ t.at = "graft" => StepsOf(t) = 2 * n + 2
      /\ t.at = "check" => StepsOf(t) = 2 * n + 3 + 2 * l
      /\ t.at = "leave" => StepsOf(t) = 2 * n + 2 + 2 * l
      /\ t.at = "clean" => StepsOf(t) = 4 * n + 4
      /\ t.at = "idle" => StepsOf(t) = 0
  BY StepsAre
<1>c. Idle.at = "idle"
  BY DEF Idle
<1> HIDE DEF n, k, l
<1>4. CASE s.at \in {"graft", "select", "check", "topics"} /\ t.at = "idle"
  BY ONLY <1>1, <1>4, <1>a, <1>b
<1>5. CASE \/ s.at = "graft" /\ t.at = "select"
           \/ s.at = "select" /\ t.at = "add"
           \/ s.at = "topics" /\ t.at = "clean"
           \/ s.at = "clean" /\ t.at = "check"
           \/ s.at = "check" /\ t.at = "graft"
  BY ONLY <1>1, <1>5, <1>a, <1>b
<1>6. CASE \/ s.at = "add" /\ t.at = "enter" /\ t.todo = s.todo
           \/ s.at = "check" /\ t.at = "leave" /\ t.todo = s.todo
  BY ONLY <1>1, <1>3, <1>6, <1>a, <1>b
<1>7. ASSUME NEW p \in s.todo, t.todo = s.todo \ {p},
             \/ s.at = "enter" /\ t.at \in {"idle", "add"}
             \/ s.at = "check" /\ t.at = "check"
             \/ s.at = "leave" /\ t.at = "check"
      PROVE  StepsOf(t) < StepsOf(s)
  <2>1. k >= 1 /\ l = k - 1
    BY <1>2, <1>7
  <2> QED
    BY ONLY <1>1, <1>7, <2>1, <1>a, <1>b
<1> QED
  BY <1>4, <1>5, <1>6, <1>7, <1>c DEF Deeds

(* The heartbeat's rounds come to an end of themselves, and so do the      *)
(* grafts of Join (heartbeat.go, maintainMesh; gossipsub.go, graftPeers).  *)
THEOREM RoundsEndHolds == Spec => RoundsEnd
<1>1. TypeOK /\ TypeOK' /\ Dealing /\ [Next]_vars =>
        [\A r \in Grafters : ~At(r, "idle") =>
           /\ Step(r) => StepsOf(routine'[r]) < StepsOf(routine[r])
           /\ ~Step(r) => routine'[r] = routine[r]]_vars
  <2> SUFFICES ASSUME TypeOK, TypeOK', Dealing, [Next]_vars, NEW r \in Grafters, ~At(r, "idle")
               PROVE  /\ Step(r) => StepsOf(routine'[r]) < StepsOf(routine[r])
                      /\ ~Step(r) => routine'[r] = routine[r]
    OBVIOUS
  <2>1. routine[r].todo \in SUBSET Peers /\ routine'[r].todo \in SUBSET Peers
    BY DEF TypeOK, Routines
  <2>2. CASE Step(r)
    <3>1. Deeds(routine[r], routine'[r])
      BY <2>2, StepDoes
    <3> QED
      BY <2>1, <2>2, <3>1, DeedsCount DEF Dealing
  <2> QED
    BY <2>2, OthersLeaveIt
<1> QED
  BY <1>1, TypeCorrect, DealingHolds, PTL DEF Spec, RoundsEnd

(* A disconnected peer that the round under way has still to test.         *)
Listed(p) ==
  LET hb == routine["heartbeat"] IN
  /\ hb.at \in {"check", "leave"} /\ p \in hb.todo
  /\ hb.at = "leave" => hb.peer # p

(* A round that has begun to test removes every peer of the mesh that is   *)
(* disconnected: it lists them all, and only their removal or a new        *)
(* connection takes one off the list, whatever the watcher and Join do     *)
(* with the mesh in between.                                               *)
RoundCleans ==
  [][\A p \in mesh \ connected :
       /\ ListMesh => Listed(p)'
       /\ Listed(p) => Listed(p)' \/ p \notin mesh' \/ p \in connected']_vars

(* The second line holds (gossipsub.go, cleanupDisconnectedPeers): a round *)
(* does not get to grafting before it has dealt with every peer it found   *)
(* in the mesh.                                                            *)
THEOREM RoundCleansHolds == Spec => RoundCleans
<1>1. TypeOK /\ [Next]_vars =>
        [\A p \in mesh \ connected :
           /\ ListMesh => Listed(p)'
           /\ Listed(p) => Listed(p)' \/ p \notin mesh' \/ p \in connected']_vars
  <2> SUFFICES ASSUME TypeOK, [Next]_vars, NEW p \in mesh \ connected
               PROVE  /\ ListMesh => Listed(p)'
                      /\ Listed(p) => Listed(p)' \/ p \notin mesh' \/ p \in connected'
    OBVIOUS
  <2>0. "heartbeat" \in Grafters /\ "heartbeat" \in Routines /\ p \in Peers
    BY DEF Grafters, Routines, TypeOK
  <2>1. CASE ListMesh
    <3>1. routine'["heartbeat"].at = "check" /\ routine'["heartbeat"].todo = mesh
      BY <2>0, <2>1 DEF ListMesh, Set, TypeOK
    <3> QED
      BY <2>1, <3>1 DEF Listed, ListMesh, At
  <2>2. ASSUME Listed(p)
        PROVE  Listed(p)' \/ p \notin mesh' \/ p \in connected'
    <3>0. /\ routine["heartbeat"].at \in {"check", "leave"} /\ p \in routine["heartbeat"].todo
          /\ routine["heartbeat"].at = "leave" => routine["heartbeat"].peer # p
          /\ ~At("heartbeat", "idle")
      BY <2>2 DEF Listed, At
    <3>1. CASE ~Step("heartbeat")
      BY <2>0, <2>2, <3>0, <3>1, OthersLeaveIt DEF Listed
    <3>2. ASSUME NEW q \in Peers, CleanupDisconnected(q)
          PROVE  Listed(p)' \/ p \notin mesh'
      <4>1. CASE q = p
        BY <3>2, <4>1 DEF CleanupDisconnected
      <4>2. CASE q # p
        <5>1. /\ routine'["heartbeat"].at \in {"check", "leave"}
              /\ p \in routine'["heartbeat"].todo
              /\ routine'["heartbeat"].at = "leave" => routine'["heartbeat"].peer # p
          <6>1. CASE q \in connected
            <7>1. routine'["heartbeat"] = [routine["heartbeat"] EXCEPT !.todo = @ \ {q}]
              BY <2>0, <3>2, <6>1 DEF CleanupDisconnected, Set, TypeOK
            <7>2. routine["heartbeat"].at = "check"
              BY <3>2 DEF CleanupDisconnected
            <7> QED
              BY <2>0, <3>0, <4>2, <7>1, <7>2 DEF TypeOK
          <6>2. CASE q \notin connected
            <7>1. routine'["heartbeat"] = [routine["heartbeat"] EXCEPT !.at = "leave", !.peer = q]
              BY <2>0, <3>2, <6>2 DEF CleanupDisconnected, Set, TypeOK
            <7> QED
              BY <2>0, <3>0, <4>2, <7>1 DEF TypeOK
          <6> QED
            BY <6>1, <6>2
        <5> QED
          BY <5>1 DEF Listed
      <4> QED
        BY <4>1, <4>2
    <3>3. CASE Notify("heartbeat")
      <4>1. /\ routine["heartbeat"].at = "leave" /\ routine["heartbeat"].peer # p
            /\ routine'["heartbeat"] = AfterNotice("heartbeat")
        BY <2>0, <3>0, <3>3 DEF Notify, NotifyPeerJoin, NotifyPeerLeave, At, Set, TypeOK
      <4>2. /\ routine'["heartbeat"].at = "check"
            /\ routine'["heartbeat"].todo = routine["heartbeat"].todo \ {routine["heartbeat"].peer}
        BY <4>1 DEF AfterNotice, At, Idle
      <4> QED
        BY <3>0, <4>1, <4>2 DEF Listed
    <3> QED
      BY <3>0, <3>1, <3>2, <3>3 DEF Step, Graft, EnoughPeers, FindCandidates, SelectPeersToGraft,
         AddToMesh, Heartbeat, HeartbeatExit, MaintainMesh, ListMesh, NeedMorePeers, At
  <2> QED
    BY <2>1, <2>2
<1> QED
  BY <1>1, TypeCorrect, PTL DEF Spec, RoundCleans
=============================================================================
