------------------------------ MODULE SwarmHost ------------------------------
(***************************************************************************)
(* The connections to one peer: the swarm that keeps them and the host     *)
(* that tells the rest of the node of the peer's coming and going          *)
(* (internal/core/swarm: swarm.go, conn.go, dial.go, listen.go;            *)
(* internal/core/host: host.go, lifecycle.go).                             *)
(*                                                                         *)
(* A connection is dialled or accepted, added to the pool, and announced.  *)
(* It may be closed by whoever holds it, by ClosePeer, by the goroutine    *)
(* that notices its end, and by Swarm.Close, at the same time; a relay     *)
(* circuit is taken out of the pool by a goroutine that waits for its end. *)
(* Every announcement is a goroutine of its own, so the host may hear that *)
(* a connection is gone before it hears that it is there; the host counts, *)
(* and publishes an event when the count leaves or reaches zero.           *)
(*                                                                         *)
(* Several connections to a peer are normal: addresses are dialled at      *)
(* once, both sides may dial, and nothing tests the pool again before      *)
(* adding.                                                                 *)
(***************************************************************************)
EXTENDS Integers, FiniteSets

CONSTANTS
  Conns,        \* connections there may be with the peer
  Circuits      \* those of them that are relay circuits

ASSUME ConnsAssumption == IsFiniteSet(Conns) /\ Circuits \subseteq Conns

VARIABLES
  stage,        \* how far the goroutine that makes each connection is
  closing,      \* how far its end is: flagged is SwarmConn.closed, Done of a circuit
  dead,         \* connections that the other side or the network has ended
  pool,         \* s.conns of the peer
  list,         \* who has taken each connection from the pool to close it
  up, down,     \* Host.Connected and Host.Disconnected of each connection
  count,        \* h.peerConnCount of the peer
  hostClosed,   \* h.closed
  swarm         \* how far Swarm.Close is

svars == <<stage, closing, dead, pool, list, up, down, count, hostClosed, swarm>>

Notices == {"no", "launched", "ignored", "silent", "published"}

SwarmTypeOK ==
  /\ stage \in [Conns -> {"none", "dialling", "made", "added", "refused", "announced"}]
  /\ closing \in [Conns -> {"open", "flagged", "removed", "closed"}]
  /\ dead \subseteq Conns /\ pool \subseteq Conns
  /\ list \in [Conns -> {"nobody", "ClosePeer", "Swarm"}]
  /\ up \in [Conns -> Notices] /\ down \in [Conns -> Notices]
  /\ count \in Nat
  /\ hostClosed \in BOOLEAN
  /\ swarm \in {"open", "closing", "sweeping", "closed"}

InitSwarm ==
  /\ stage = [c \in Conns |-> "none"]
  /\ closing = [c \in Conns |-> "open"]
  /\ dead = {} /\ pool = {}
  /\ list = [c \in Conns |-> "nobody"]
  /\ up = [c \in Conns |-> "no"] /\ down = [c \in Conns |-> "no"]
  /\ count = 0
  /\ hostClosed = FALSE /\ swarm = "open"

SwarmClosed == swarm # "open"

Advance(c, to) == stage' = [stage EXCEPT ![c] = to]

-----------------------------------------------------------------------------
(* Making a connection *)

(* dialPeer uses a connection of the pool if there is one; otherwise it    *)
(* dials addresses at once, and a call beside it does the same.            *)
Dial(c) ==
  /\ stage[c] = "none" /\ ~SwarmClosed /\ pool = {}
  /\ Advance(c, "dialling")
  /\ UNCHANGED <<closing, dead, pool, list, up, down, count, hostClosed, swarm>>

DialFails(c) ==
  /\ stage[c] = "dialling"
  /\ Advance(c, "none")
  /\ UNCHANGED <<closing, dead, pool, list, up, down, count, hostClosed, swarm>>

(* The transport dials through, or accepts a connection. *)
Make(c) ==
  /\ stage[c] = "dialling" \/ (stage[c] = "none" /\ ~SwarmClosed)
  /\ Advance(c, "made")
  /\ UNCHANGED <<closing, dead, pool, list, up, down, count, hostClosed, swarm>>

(* Mutant: the swarm's closing is not tested under the lock. *)
AddConnAnyway(c) ==
  /\ stage[c] = "made"
  /\ Advance(c, "added") /\ pool' = pool \cup {c}
  /\ UNCHANGED <<closing, dead, list, up, down, count, hostClosed, swarm>>

(* addConn: a swarm that is closed refuses the connection, and addConn     *)
(* closes it once it has let go of the lock.                               *)
AddConn(c) ==
  /\ stage[c] = "made"
  /\ IF SwarmClosed
       THEN Advance(c, "refused") /\ pool' = pool
       ELSE Advance(c, "added") /\ pool' = pool \cup {c}
  /\ UNCHANGED <<closing, dead, list, up, down, count, hostClosed, swarm>>

(* notifyConnected, also for a connection that was refused and closed; the *)
(* Close of a direct one ends with its own notification.                   *)
NotifyConnected(c) ==
  /\ \/ stage[c] = "added"
     \/ stage[c] = "refused" /\ closing[c] = "closed"
     \/ stage[c] = "refused" /\ closing[c] # "open" /\ c \in Circuits
  /\ Advance(c, "announced")
  /\ up' = [up EXCEPT ![c] = "launched"]
  /\ UNCHANGED <<closing, dead, pool, list, down, count, hostClosed, swarm>>

-----------------------------------------------------------------------------
(* Ending a connection *)

Die(c) ==
  /\ stage[c] \notin {"none", "dialling"} /\ c \notin dead
  /\ dead' = dead \cup {c}
  /\ UNCHANGED <<stage, closing, pool, list, up, down, count, hostClosed, swarm>>

(* The first call of Close; any other returns at once. *)
CloseConn(c) ==
  /\ closing[c] = "open"
  /\ closing' = [closing EXCEPT ![c] = "flagged"]
  /\ UNCHANGED <<stage, dead, pool, list, up, down, count, hostClosed, swarm>>

CloseRefused(c) == stage[c] = "refused" /\ CloseConn(c)

(* Whoever uses the connection closes it. *)
CloseByUser(c) == stage[c] = "announced" /\ CloseConn(c)

(* handleInboundStreams, started after the announcement, leaves a closing  *)
(* swarm alone; a circuit keeps itself alive from the moment it is made.   *)
NoticeDeath(c) ==
  /\ c \in dead
  /\ c \in Circuits \/ (stage[c] = "announced" /\ ~SwarmClosed)
  /\ CloseConn(c)

(* Mutant: Close leaves the connection in the pool. *)
RemoveConnNot(c) ==
  /\ c \notin Circuits /\ closing[c] = "flagged"
  /\ closing' = [closing EXCEPT ![c] = "removed"]
  /\ UNCHANGED <<stage, dead, pool, list, up, down, count, hostClosed, swarm>>

(* SwarmConn.Close takes the connection from the pool. *)
RemoveConn(c) ==
  /\ c \notin Circuits /\ closing[c] = "flagged"
  /\ closing' = [closing EXCEPT ![c] = "removed"]
  /\ pool' = pool \ {c}
  /\ UNCHANGED <<stage, dead, list, up, down, count, hostClosed, swarm>>

(* Mutant: the goroutine announces the end and leaves the pool alone. *)
WatchDoneOnly(c) ==
  /\ c \in Circuits /\ closing[c] = "flagged" /\ stage[c] \in {"added", "announced"}
  /\ closing' = [closing EXCEPT ![c] = IF SwarmClosed THEN "closed" ELSE "removed"]
  /\ UNCHANGED <<stage, dead, pool, list, up, down, count, hostClosed, swarm>>

(* The goroutine addConn starts for a circuit, which was not refused. *)
WatchDone(c) ==
  /\ c \in Circuits /\ closing[c] = "flagged" /\ stage[c] \in {"added", "announced"}
  /\ IF SwarmClosed
       THEN closing' = [closing EXCEPT ![c] = "closed"] /\ pool' = pool
       ELSE closing' = [closing EXCEPT ![c] = "removed"] /\ pool' = pool \ {c}
  /\ UNCHANGED <<stage, dead, list, up, down, count, hostClosed, swarm>>

NotifyDisconnected(c) ==
  /\ closing[c] = "removed"
  /\ closing' = [closing EXCEPT ![c] = "closed"]
  /\ down' = [down EXCEPT ![c] = "launched"]
  /\ UNCHANGED <<stage, dead, pool, list, up, count, hostClosed, swarm>>

(* NewStream takes closed connections it finds from the pool. *)
DropClosed(c) ==
  /\ c \in pool /\ closing[c] # "open" /\ ~SwarmClosed
  /\ pool' = pool \ {c}
  /\ UNCHANGED <<stage, closing, dead, list, up, down, count, hostClosed, swarm>>

-----------------------------------------------------------------------------
(* ClosePeer, Host.Close and Swarm.Close *)

TakePool(who) ==
  /\ list' = [c \in Conns |-> IF c \in pool THEN who ELSE list[c]]
  /\ pool' = {}

(* ClosePeer, called by the application or by the health check. *)
ClosePeer ==
  /\ pool # {}
  /\ TakePool("ClosePeer")
  /\ UNCHANGED <<stage, closing, dead, up, down, count, hostClosed, swarm>>

CloseListed(c) ==
  /\ list[c] # "nobody"
  /\ list' = [list EXCEPT ![c] = "nobody"]
  /\ closing' = [closing EXCEPT ![c] = IF @ = "open" THEN "flagged" ELSE @]
  /\ UNCHANGED <<stage, dead, pool, up, down, count, hostClosed, swarm>>

CloseHost ==
  /\ ~hostClosed
  /\ hostClosed' = TRUE
  /\ UNCHANGED <<stage, closing, dead, pool, list, up, down, count, swarm>>

CloseSwarm ==
  /\ hostClosed /\ swarm = "open"
  /\ swarm' = "closing"
  /\ UNCHANGED <<stage, closing, dead, pool, list, up, down, count, hostClosed>>

(* Mutant: the pool is emptied and its connections are forgotten. *)
SweepAndForget ==
  /\ swarm = "closing"
  /\ swarm' = "sweeping"
  /\ pool' = {}
  /\ UNCHANGED <<stage, closing, dead, list, up, down, count, hostClosed>>

Sweep ==
  /\ swarm = "closing"
  /\ swarm' = "sweeping"
  /\ TakePool("Swarm")
  /\ UNCHANGED <<stage, closing, dead, up, down, count, hostClosed>>

SwarmCloseReturns ==
  /\ swarm = "sweeping" /\ \A c \in Conns : list[c] # "Swarm"
  /\ swarm' = "closed"
  /\ UNCHANGED <<stage, closing, dead, pool, list, up, down, count, hostClosed>>

-----------------------------------------------------------------------------
(* The host.  The count is tested and changed under its lock; the event is *)
(* published afterwards, so that two events may overtake each other too.   *)

Connected(c) ==
  /\ up[c] = "launched"
  /\ IF hostClosed THEN count' = count /\ up' = [up EXCEPT ![c] = "ignored"]
     ELSE /\ count' = count + 1
          /\ up' = [up EXCEPT ![c] = IF count' > 1 THEN "silent" ELSE "published"]
  /\ UNCHANGED <<stage, closing, dead, pool, list, down, hostClosed, swarm>>

(* Mutant: the event is published when one connection is left. *)
DisconnectedEarly(c) ==
  /\ down[c] = "launched"
  /\ IF hostClosed THEN count' = count /\ down' = [down EXCEPT ![c] = "ignored"]
     ELSE /\ count' = IF count > 0 THEN count - 1 ELSE 0
          /\ down' = [down EXCEPT ![c] = IF count' > 1 THEN "silent" ELSE "published"]
  /\ UNCHANGED <<stage, closing, dead, pool, list, up, hostClosed, swarm>>

Disconnected(c) ==
  /\ down[c] = "launched"
  /\ IF hostClosed THEN count' = count /\ down' = [down EXCEPT ![c] = "ignored"]
     ELSE /\ count' = IF count > 0 THEN count - 1 ELSE 0
          /\ down' = [down EXCEPT ![c] = IF count' > 0 THEN "silent" ELSE "published"]
  /\ UNCHANGED <<stage, closing, dead, pool, list, up, hostClosed, swarm>>

-----------------------------------------------------------------------------
Making(c) == AddConn(c) \/ CloseRefused(c) \/ NotifyConnected(c)

Ending(c) == RemoveConn(c) \/ WatchDone(c) \/ NotifyDisconnected(c) \/ CloseListed(c)

SwarmNext ==
  \/ \E c \in Conns :
       \/ Dial(c) \/ DialFails(c) \/ Make(c) \/ Making(c)
       \/ Die(c) \/ CloseByUser(c) \/ NoticeDeath(c) \/ Ending(c) \/ DropClosed(c)
       \/ Connected(c) \/ Disconnected(c)
  \/ ClosePeer
  \/ CloseHost \/ CloseSwarm \/ Sweep \/ SwarmCloseReturns

SwarmSpec == InitSwarm /\ [][SwarmNext]_svars

(* Goroutines that were started run.  Nothing is asked of the network, the *)
(* peer or the application.                                                *)
SwarmFairness ==
  /\ \A c \in Conns : WF_svars(Making(c)) /\ WF_svars(NoticeDeath(c)) /\ WF_svars(Ending(c))
  /\ \A c \in Conns : WF_svars(CloseListed(c))
  /\ WF_svars(Sweep) /\ WF_svars(SwarmCloseReturns)

FairSwarmSpec == SwarmSpec /\ SwarmFairness

-----------------------------------------------------------------------------
(* Properties *)

Counted == {"silent", "published"}
UpCounted == {c \in Conns : up[c] \in Counted}
DownCounted == {c \in Conns : down[c] \in Counted}

(* A connection that has been removed is not in the pool, whoever removed  *)
(* it and whatever adds, sweeps and closes went on beside it; only the     *)
(* watcher of a circuit leaves it to a Swarm.Close about to sweep.         *)
PoolHasNoGhosts ==
  \A c \in pool :
    /\ stage[c] \in {"added", "announced"}
    /\ closing[c] \in {"open", "flagged"} \/ (c \in Circuits /\ swarm = "closing")

(* When Swarm.Close has returned nothing is left in the pool or added to   *)
(* it, and no connection that was added is open but those a ClosePeer      *)
(* under way will close: the flag tested under the lock in addConn and the *)
(* sweep under the same lock leave no gap.                                 *)
NothingSurvivesClose ==
  swarm = "closed" =>
    /\ pool = {}
    /\ \A c \in Conns :
         stage[c] \in {"added", "announced"} /\ closing[c] = "open" => list[c] = "ClosePeer"

(* The host never counts fewer connections than have been announced and    *)
(* not ended: a lost decrement, when the end is heard first, errs to the   *)
(* side of the peer being connected.                                       *)
CountCovers == count + Cardinality(DownCounted) >= Cardinality(UpCounted)

(* The host publishes a disconnection only when no connection it has heard *)
(* of is left (host/lifecycle.go, Disconnected), or else the end of some   *)
(* connection was heard before its beginning.                              *)
DisconnectedIsTrue ==
  [][\A c \in Conns :
       down[c] = "launched" /\ down'[c] = "published" =>
         UpCounted \subseteq DownCounted' \/ \E d \in DownCounted' : d \notin UpCounted]_svars

(* A connection that has ended leaves the pool, with nobody using it:      *)
(* direct ones through their inbound loop, circuits through their watcher. *)
DeadLeavePool == \A c \in Conns : (c \in pool /\ c \in dead) ~> c \notin pool

(* Once the swarm is closed every connection is closed, those included     *)
(* that were being made, announced or closed by others at that time.       *)
EverythingCloses ==
  \A c \in Conns : (swarm = "closed" /\ stage[c] \notin {"none", "dialling"})
                     ~> closing[c] # "open"
=============================================================================
