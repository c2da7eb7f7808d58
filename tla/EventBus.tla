------------------------------- MODULE EventBus -------------------------------
(***************************************************************************)
(* The event bus (internal/core/eventbus), for events of one type: types   *)
(* share nothing but the bus's lock.                                       *)
(*                                                                         *)
(* The first to subscribe or to ask for an emitter creates the type's      *)
(* node; the last to close removes it.  The bus's lock covers which node   *)
(* is registered, a node's lock what is in it, and whoever looks a node up *)
(* takes the second before letting go of the first.  Emitting takes only   *)
(* the node's lock, and never waits for a subscriber.                      *)
(***************************************************************************)
EXTENDS Integers, Sequences, FiniteSets

CONSTANTS
  Subs,         \* subscriptions
  Emitters,     \* emitters
  Stateful,     \* those of them that were asked for as stateful
  Nodes,        \* nodes there may be at a time, closed emitters keep theirs
  Capacity,     \* the buffer of each subscription
  MaxEvents,    \* bound: events emitted
  Nobody,       \* an unlocked mutex
  NoNode        \* nil

Callers == Subs \cup Emitters

ASSUME CallersAssumption ==
  /\ Subs \cap Emitters = {} /\ IsFiniteSet(Emitters) /\ Stateful \subseteq Emitters
  /\ Nobody \notin Callers /\ NoNode \notin Nodes
(* Every subscription has a buffer, 16 unless it asks for another. *)
ASSUME BoundsAssumption == Capacity \in [Subs -> Nat \ {0}] /\ MaxEvents \in Nat

VARIABLES
  pc,           \* how far each subscription or emitter is
  at,           \* the node it has found; an emitter keeps it
  emitting,     \* emitters with an Emit that has passed its test
  mu,           \* who holds b.mu
  lk,           \* who holds each node's lock
  reg,          \* the node in b.nodes
  sinks,        \* n.sinks of each node
  users,        \* n.nEmitters
  keepLast,     \* nodes that keep their last event
  last,         \* n.last, 0 for nil
  emitted,      \* events emitted so far, each is its number
  buf,          \* the channel of each subscription
  seen          \* the event each subscriber received last

calls == <<pc, at, emitting>>
locks == <<mu, lk>>
nodes == <<sinks, users, keepLast, last>>
streams == <<emitted, buf, seen>>
vars == <<calls, locks, reg, nodes, streams>>

SubStages == {"none", "found", "inside", "replay", "open", "closing", "refound", "back",
              "dropping", "checking", "removed"}
EmitterStages == {"none", "found", "inside", "open", "closing", "dropping", "checking"}

Init ==
  /\ pc = [a \in Callers |-> "none"] /\ at = [a \in Callers |-> NoNode] /\ emitting = {}
  /\ mu = Nobody /\ lk = [n \in Nodes |-> Nobody]
  /\ reg = NoNode
  /\ sinks = [n \in Nodes |-> {}] /\ users = [n \in Nodes |-> 0]
  /\ keepLast = {} /\ last = [n \in Nodes |-> 0]
  /\ emitted = 0 /\ buf = [s \in Subs |-> <<>>] /\ seen = [s \in Subs |-> 0]

Goto(a, stage) == pc' = [pc EXCEPT ![a] = stage]

Unlock(n) == lk' = [lk EXCEPT ![n] = Nobody]

-----------------------------------------------------------------------------
(* withNode and removeSub find the node under the bus's lock, enter it,    *)
(* and only then let go of the bus.                                        *)

Unused == Nodes \ ({reg} \cup {at[a] : a \in Callers})

FindNode(a) ==
  /\ pc[a] = "none" /\ a \notin emitting
  /\ mu = Nobody /\ mu' = a
  /\ IF reg # NoNode
       THEN at' = [at EXCEPT ![a] = reg] /\ UNCHANGED <<reg, nodes>>
       ELSE \E n \in Unused :
              /\ at' = [at EXCEPT ![a] = n] /\ reg' = n
              /\ sinks' = [sinks EXCEPT ![n] = {}] /\ users' = [users EXCEPT ![n] = 0]
              /\ keepLast' = keepLast \ {n} /\ last' = [last EXCEPT ![n] = 0]
  /\ Goto(a, "found")
  /\ UNCHANGED <<emitting, lk, streams>>

FindNodeToLeave(s) ==
  /\ pc[s] = "closing" /\ mu = Nobody
  /\ IF reg = NoNode THEN Goto(s, "removed") /\ UNCHANGED <<at, mu>>
     ELSE Goto(s, "refound") /\ at' = [at EXCEPT ![s] = reg] /\ mu' = s
  /\ UNCHANGED <<emitting, lk, reg, nodes, streams>>

EnterNode(a) ==
  /\ pc[a] \in {"found", "refound"} /\ lk[at[a]] = Nobody
  /\ lk' = [lk EXCEPT ![at[a]] = a] /\ mu' = Nobody
  /\ Goto(a, IF pc[a] = "found" THEN "inside" ELSE "back")
  /\ UNCHANGED <<at, emitting, reg, nodes, streams>>

-----------------------------------------------------------------------------
(* Subscribe *)

(* Mutant: the node is unlocked before the last event is sent. *)
AddSinkAndUnlock(s) ==
  /\ pc[s] = "inside"
  /\ sinks' = [sinks EXCEPT ![at[s]] = @ \cup {s}]
  /\ Unlock(at[s])
  /\ Goto(s, "replay")
  /\ UNCHANGED <<at, emitting, mu, reg, users, keepLast, last, streams>>

AddSink(s) ==
  /\ pc[s] = "inside"
  /\ sinks' = [sinks EXCEPT ![at[s]] = @ \cup {s}]
  /\ Goto(s, "replay")
  /\ UNCHANGED <<at, emitting, locks, reg, users, keepLast, last, streams>>

Room(s) == Len(buf[s]) < Capacity[s]

Replay(s) ==
  /\ pc[s] = "replay"
  /\ buf' = IF at[s] \in keepLast /\ last[at[s]] # 0 /\ Room(s)
              THEN [buf EXCEPT ![s] = Append(@, last[at[s]])] ELSE buf
  /\ Unlock(at[s]) /\ at' = [at EXCEPT ![s] = NoNode]
  /\ Goto(s, "open")
  /\ UNCHANGED <<emitting, mu, reg, nodes, emitted, seen>>

(* The subscriber reads its channel. *)
Receive(s) ==
  /\ buf[s] # <<>>
  /\ buf' = [buf EXCEPT ![s] = Tail(@)] /\ seen' = [seen EXCEPT ![s] = Head(buf[s])]
  /\ UNCHANGED <<calls, locks, reg, nodes, emitted>>

-----------------------------------------------------------------------------
(* Subscription.Close *)

Unsubscribe(s) ==
  /\ pc[s] = "open" /\ Goto(s, "closing")
  /\ UNCHANGED <<at, emitting, locks, reg, nodes, streams>>

(* Mutant: the node is dropped before it is unlocked. *)
RemoveSinkLocked(s) ==
  /\ pc[s] = "back"
  /\ sinks' = [sinks EXCEPT ![at[s]] = @ \ {s}]
  /\ IF sinks'[at[s]] = {} /\ users[at[s]] = 0
       THEN Goto(s, "dropping") /\ UNCHANGED <<at, lk>>
       ELSE Goto(s, "removed") /\ Unlock(at[s]) /\ at' = [at EXCEPT ![s] = NoNode]
  /\ UNCHANGED <<emitting, mu, reg, users, keepLast, last, streams>>

RemoveSink(s) ==
  /\ pc[s] = "back"
  /\ sinks' = [sinks EXCEPT ![at[s]] = @ \ {s}]
  /\ Goto(s, IF sinks'[at[s]] = {} /\ users[at[s]] = 0 THEN "dropping" ELSE "removed")
  /\ Unlock(at[s]) /\ at' = [at EXCEPT ![s] = NoNode]
  /\ UNCHANGED <<emitting, mu, reg, users, keepLast, last, streams>>

(* The channel is closed, and drained by a goroutine. *)
CloseChannel(s) ==
  /\ pc[s] = "removed" /\ Goto(s, "none")
  /\ buf' = [buf EXCEPT ![s] = <<>>] /\ seen' = [seen EXCEPT ![s] = 0]
  /\ UNCHANGED <<at, emitting, locks, reg, nodes, emitted>>

-----------------------------------------------------------------------------
(* Emitter *)

AddEmitter(e) ==
  /\ pc[e] = "inside"
  /\ users' = [users EXCEPT ![at[e]] = @ + 1]
  /\ keepLast' = IF e \in Stateful THEN keepLast \cup {at[e]} ELSE keepLast
  /\ Unlock(at[e]) /\ Goto(e, "open")
  /\ UNCHANGED <<at, emitting, mu, reg, sinks, last, streams>>

BeginEmit(e) ==
  /\ pc[e] = "open" /\ e \notin emitting
  /\ emitting' = emitting \cup {e}
  /\ UNCHANGED <<pc, at, locks, reg, nodes, streams>>

(* The node's emit: its lock is held throughout, and a full buffer loses.  *)
Emit(e) ==
  /\ e \in emitting /\ lk[at[e]] = Nobody /\ emitted < MaxEvents
  /\ emitting' = emitting \ {e} /\ emitted' = emitted + 1
  /\ last' = IF at[e] \in keepLast THEN [last EXCEPT ![at[e]] = emitted'] ELSE last
  /\ buf' = [s \in Subs |-> IF s \in sinks[at[e]] /\ Room(s)
                              THEN Append(buf[s], emitted') ELSE buf[s]]
  /\ UNCHANGED <<pc, at, locks, reg, sinks, users, keepLast, seen>>

CloseEmitter(e) ==
  /\ pc[e] = "open" /\ Goto(e, "closing")
  /\ UNCHANGED <<at, emitting, locks, reg, nodes, streams>>

(* Mutant: a node without emitters is left to the subscribers. *)
ReleaseNodeOnly(e) ==
  /\ pc[e] = "closing"
  /\ users' = [users EXCEPT ![at[e]] = @ - 1]
  /\ Goto(e, "none")
  /\ UNCHANGED <<at, emitting, locks, reg, sinks, keepLast, last, streams>>

ReleaseNode(e) ==
  /\ pc[e] = "closing"
  /\ users' = [users EXCEPT ![at[e]] = @ - 1]
  /\ Goto(e, IF users'[at[e]] = 0 THEN "dropping" ELSE "none")
  /\ UNCHANGED <<at, emitting, locks, reg, sinks, keepLast, last, streams>>

-----------------------------------------------------------------------------
(* tryDropNode keeps the bus's lock. *)

Dropped(a) == IF a \in Subs THEN "removed" ELSE "none"

LockBus(a) ==
  /\ pc[a] = "dropping" /\ mu = Nobody /\ mu' = a
  /\ Goto(a, "checking")
  /\ UNCHANGED <<at, emitting, lk, reg, nodes, streams>>

(* Mutant: the node is not looked at again. *)
DropNodeUnchecked(a) ==
  /\ pc[a] = "checking" /\ mu' = Nobody
  /\ reg' = NoNode
  /\ Goto(a, Dropped(a))
  /\ UNCHANGED <<at, emitting, lk, nodes, streams>>

DropNode(a) ==
  /\ pc[a] = "checking" /\ mu' = Nobody
  /\ reg # NoNode => lk[reg] = Nobody
  /\ reg' = IF reg # NoNode /\ (sinks[reg] # {} \/ users[reg] > 0) THEN reg ELSE NoNode
  /\ Goto(a, Dropped(a))
  /\ UNCHANGED <<at, emitting, lk, nodes, streams>>

-----------------------------------------------------------------------------
Next ==
  \/ \E a \in Callers : FindNode(a) \/ EnterNode(a) \/ LockBus(a) \/ DropNode(a)
  \/ \E s \in Subs :
       \/ AddSink(s) \/ Replay(s) \/ Receive(s)
       \/ Unsubscribe(s) \/ FindNodeToLeave(s) \/ RemoveSink(s) \/ CloseChannel(s)
  \/ \E e \in Emitters :
       AddEmitter(e) \/ BeginEmit(e) \/ Emit(e) \/ CloseEmitter(e) \/ ReleaseNode(e)

Spec == Init /\ [][Next]_vars

-----------------------------------------------------------------------------
(* Properties *)

(* Types; EventBusProofs proves it and everything else that is inductive.  *)
BusTypeOK ==
  /\ pc \in [Callers -> SubStages] /\ \A e \in Emitters : pc[e] \in EmitterStages
  /\ at \in [Callers -> Nodes \cup {NoNode}] /\ emitting \subseteq Emitters
  /\ mu \in Callers \cup {Nobody} /\ lk \in [Nodes -> Callers \cup {Nobody}]
  /\ reg \in Nodes \cup {NoNode}
  /\ sinks \in [Nodes -> SUBSET Subs] /\ users \in [Nodes -> Int]
  /\ keepLast \subseteq Nodes /\ last \in [Nodes -> 0..MaxEvents]
  /\ emitted \in 0..MaxEvents
  /\ buf \in [Subs -> Seq(1..MaxEvents)] /\ seen \in [Subs -> 0..MaxEvents]

(* What an open emitter emits reaches every open subscription or finds its *)
(* buffer full, whichever of them created the node and whoever was         *)
(* dropping it meanwhile (bus.go, withNode and tryDropNode).               *)
EmitReachesAll ==
  [][\A e \in Emitters, s \in Subs :
       pc[e] = "open" /\ e \in emitting /\ emitted' # emitted /\ e \notin emitting' /\ pc[s] = "open" =>
         IF Room(s) THEN buf'[s] = Append(buf[s], emitted') ELSE buf'[s] = buf[s]]_vars

(* A subscriber sees no event twice and none before an earlier one, the    *)
(* replayed last event of a stateful type included (bus.go, Subscribe).    *)
InOrder ==
  \A s \in Subs :
    /\ \A i \in 1..Len(buf[s]) : buf[s][i] > seen[s]
    /\ \A i, j \in 1..Len(buf[s]) : i < j => buf[s][i] < buf[s][j]

(* A registered node is in use, or somebody is about to use or drop it: no *)
(* node is left behind by closings that cross (bus.go, tryDropNode).       *)
NodeNeeded ==
  reg = NoNode
    \/ sinks[reg] # {} \/ users[reg] > 0
    \/ \E a \in Callers : pc[a] \in {"found", "inside", "dropping", "checking"}

(* a waits for a lock that b holds. *)
Waits(a, b) ==
  \/ (pc[a] = "dropping" \/ (pc[a] = "closing" /\ a \in Subs)) /\ mu = b
  \/ pc[a] \in {"found", "refound"} /\ lk[at[a]] = b
  \/ pc[a] = "checking" /\ reg # NoNode /\ lk[reg] = b
  \/ a \in emitting /\ lk[at[a]] = b

(* The bus's lock is asked for before a node's and never while one is      *)
(* held: whoever waits for it waits for somebody who waits for a node's    *)
(* lock at most, whose holder waits for nobody.  Subscribing, emitting and *)
(* closing never wait for each other in a circle (bus.go, withNode and     *)
(* tryDropNode).                                                           *)
LockChainsEnd ==
  \A b, c \in Callers :
    Waits(b, c) => (\A a \in Callers : ~Waits(a, b)) \/ (\A d \in Callers : ~Waits(c, d))
===============================================================================
