---------------------------- MODULE EventBusProofs ----------------------------
(***************************************************************************)
(* The event bus, for any subscriptions, emitters, nodes and buffers.      *)
(*                                                                         *)
(* What makes it right is that whoever has found a node holds the bus's    *)
(* lock until it holds the node's (Locking), so that DropNode, which holds *)
(* the first and waits for the second, sees everybody who will use the     *)
(* node: a subscription or emitter in use is in the registered node and    *)
(* nowhere else (Attachment, Counting).  The replayed event comes first    *)
(* because nothing is emitted into the node before it is sent (Order).     *)
(***************************************************************************)
EXTENDS EventBus, FiniteSetTheorems, TLAPS

Locking ==
  \A a \in Callers :
    /\ pc[a] \in {"found", "refound"} => mu = a /\ reg # NoNode /\ at[a] = reg
    /\ pc[a] = "checking" => mu = a
    /\ pc[a] \in {"inside", "replay", "back"} => reg # NoNode /\ at[a] = reg /\ lk[reg] = a

Subscribed == {"replay", "open", "closing", "refound", "back"}

Attachment ==
  /\ \A s \in Subs : pc[s] \in Subscribed => reg # NoNode /\ s \in sinks[reg]
  /\ \A n \in Nodes, s \in Subs : s \in sinks[n] => n = reg /\ pc[s] \in Subscribed

InUse == {e \in Emitters : pc[e] \in {"open", "closing"}}

Counting ==
  /\ \A e \in InUse : reg # NoNode /\ at[e] = reg
  /\ reg # NoNode => users[reg] = Cardinality(InUse)

Emitting == \A e \in emitting : at[e] \in Nodes

Order ==
  /\ \A n \in Nodes : last[n] <= emitted
  /\ \A s \in Subs :
       /\ pc[s] \in {"none", "found", "inside", "replay"} => buf[s] = <<>> /\ seen[s] = 0
       /\ seen[s] <= emitted
       /\ \A i \in 1..Len(buf[s]) : buf[s][i] <= emitted

(* The inductive invariant. *)
IInv ==
  /\ BusTypeOK /\ Locking /\ Attachment /\ Counting /\ Emitting
  /\ Order /\ InOrder /\ NodeNeeded

Early == {"none", "found", "inside", "replay"}

-----------------------------------------------------------------------------
LEMMA InUseFinite == IsFiniteSet(InUse) /\ Cardinality(InUse) \in Nat
<1>1. InUse \subseteq Emitters
  BY DEF InUse
<1>2. IsFiniteSet(InUse)
  BY <1>1, CallersAssumption, FS_Subset
<1> QED
  BY <1>2, FS_CardinalityType

(* Steps that touch no channel. *)
LEMMA QuietOrder ==
  ASSUME Order, InOrder, UNCHANGED streams,
         \A n \in Nodes : last'[n] <= emitted,
         \A s \in Subs : pc'[s] \in Early => pc[s] \in Early
  PROVE  Order' /\ InOrder'
BY DEF Order, InOrder, streams, Early

(* Steps of one caller that leave the emitters in use as they are. *)
LEMMA QuietCounting ==
  ASSUME BusTypeOK, Counting, UNCHANGED <<users, reg>>, NEW a \in Callers,
         NEW stage \in SubStages, pc' = [pc EXCEPT ![a] = stage],
         a \in Emitters => (pc[a] \in {"open", "closing"} <=> stage \in {"open", "closing"}),
         \A e \in InUse : at'[e] = at[e]
  PROVE  Counting'
<1>1. InUse' = InUse
  BY DEF InUse, BusTypeOK
<1> QED
  BY <1>1 DEF Counting

-----------------------------------------------------------------------------
(* The invariant, action by action. *)

LEMMA FindNodeInv ==
  ASSUME IInv, NEW a \in Callers, FindNode(a)
  PROVE  IInv'
<1>1. /\ pc[a] = "none" /\ pc' = [pc EXCEPT ![a] = "found"]
      /\ mu = Nobody /\ mu' = a /\ UNCHANGED <<emitting, lk, streams>>
  BY DEF FindNode, Goto
<1>2. PICK n \in Nodes :
        /\ at' = [at EXCEPT ![a] = n] /\ reg' = n
        /\ \/ reg = n /\ UNCHANGED nodes
           \/ /\ reg = NoNode /\ \A b \in Callers : at[b] # n
              /\ sinks' = [sinks EXCEPT ![n] = {}] /\ users' = [users EXCEPT ![n] = 0]
              /\ keepLast' = keepLast \ {n} /\ last' = [last EXCEPT ![n] = 0]
  <2>1. CASE reg # NoNode
    BY <2>1 DEF FindNode, IInv, BusTypeOK
  <2>2. CASE reg = NoNode
    BY <2>2 DEF FindNode, Unused
  <2> QED
    BY <2>1, <2>2
<1>3. /\ sinks' \in [Nodes -> SUBSET Subs] /\ users' \in [Nodes -> Int]
      /\ last' \in [Nodes -> 0..MaxEvents] /\ keepLast' \subseteq Nodes
      /\ \A m \in Nodes : sinks'[m] \subseteq sinks[m] /\ last'[m] \in {last[m], 0}
      /\ reg = n => UNCHANGED nodes
      /\ reg # n => reg = NoNode /\ users'[n] = 0
  <2>1. CASE reg = n /\ UNCHANGED nodes
    BY <1>2, <2>1, CallersAssumption DEF nodes, IInv, BusTypeOK
  <2>2. CASE /\ reg = NoNode /\ sinks' = [sinks EXCEPT ![n] = {}]
             /\ users' = [users EXCEPT ![n] = 0]
             /\ keepLast' = keepLast \ {n} /\ last' = [last EXCEPT ![n] = 0]
    <3>1. sinks' \in [Nodes -> SUBSET Subs] /\ \A m \in Nodes : sinks'[m] \subseteq sinks[m]
      BY <2>2 DEF IInv, BusTypeOK
    <3>2. users' \in [Nodes -> Int] /\ users'[n] = 0
      BY <2>2 DEF IInv, BusTypeOK
    <3>3. last' \in [Nodes -> 0..MaxEvents] /\ \A m \in Nodes : last'[m] \in {last[m], 0}
      BY <2>2, BoundsAssumption DEF IInv, BusTypeOK
    <3>4. keepLast' \subseteq Nodes /\ reg # n
      BY <2>2, CallersAssumption DEF IInv, BusTypeOK
    <3> QED
      BY <2>2, <3>1, <3>2, <3>3, <3>4
  <2> QED
    BY <1>2, <2>1, <2>2
<1>4. BusTypeOK'
  <2>1. /\ pc' \in [Callers -> SubStages] /\ \A e \in Emitters : pc'[e] \in EmitterStages
        /\ at' \in [Callers -> Nodes \cup {NoNode}]
    BY <1>1, <1>2 DEF IInv, BusTypeOK, SubStages, EmitterStages, Callers
  <2> QED
    BY <1>1, <1>2, <1>3, <2>1 DEF IInv, BusTypeOK, streams
<1>5. Locking'
  BY <1>1, <1>2, CallersAssumption DEF IInv, BusTypeOK, Locking
<1>6. Attachment'
  BY <1>1, <1>2, <1>3, CallersAssumption DEF IInv, BusTypeOK, Attachment, Subscribed, nodes
<1>7. Counting'
  <2>1. InUse' = InUse /\ a \notin InUse
    BY <1>1 DEF InUse, IInv, BusTypeOK
  <2>2. CASE reg = n
    BY <1>1, <1>2, <1>3, <2>1, <2>2 DEF IInv, BusTypeOK, Counting, InUse, nodes, Callers
  <2>3. CASE reg # n
    <3>1. InUse = {}
      BY <1>3, <2>3 DEF IInv, Counting
    <3> QED
      BY <1>2, <1>3, <2>1, <2>3, <3>1, FS_EmptySet DEF Counting
  <2> QED
    BY <2>2, <2>3
<1>8. Order' /\ InOrder'
  <2>1. \A m \in Nodes : last'[m] <= emitted
    <3> SUFFICES ASSUME NEW m \in Nodes PROVE last'[m] <= emitted
      OBVIOUS
    <3>1. last[m] <= emitted /\ emitted \in 0..MaxEvents
      BY DEF IInv, Order, BusTypeOK
    <3>2. last'[m] \in {last[m], 0}
      BY <1>3
    <3> QED
      BY <3>1, <3>2, BoundsAssumption
  <2>2. \A s \in Subs : pc'[s] \in Early => pc[s] \in Early
    BY <1>1 DEF IInv, BusTypeOK, Early
  <2> QED
    BY <1>1, <2>1, <2>2, QuietOrder DEF IInv
<1>9. NodeNeeded'
  BY <1>1 DEF NodeNeeded, IInv, BusTypeOK
<1>10. Emitting'
  BY <1>1, <1>2 DEF FindNode, Emitting, IInv, BusTypeOK
<1> QED
  BY <1>4, <1>5, <1>6, <1>7, <1>8, <1>9, <1>10 DEF IInv

LEMMA EnterNodeInv ==
  ASSUME IInv, NEW a \in Callers, EnterNode(a)
  PROVE  IInv'
<1> DEFINE stage == IF pc[a] = "found" THEN "inside" ELSE "back"
<1>1. /\ pc[a] \in {"found", "refound"} /\ reg \in Nodes /\ at[a] = reg /\ lk[reg] = Nobody
      /\ pc' = [pc EXCEPT ![a] = stage] /\ lk' = [lk EXCEPT ![reg] = a] /\ mu = a /\ mu' = Nobody
      /\ UNCHANGED <<at, emitting, reg, nodes, streams>>
  BY DEF EnterNode, Goto, IInv, Locking, BusTypeOK
<1>2. BusTypeOK'
  BY <1>1 DEF IInv, BusTypeOK, SubStages, EmitterStages, Callers, nodes, streams
<1>3. Locking'
  BY <1>1, CallersAssumption DEF IInv, BusTypeOK, Locking
<1>4. Attachment'
  BY <1>1 DEF IInv, BusTypeOK, Attachment, Subscribed, nodes
<1>5. Counting'
  BY <1>1, QuietCounting DEF IInv, SubStages, nodes
<1>6. Order' /\ InOrder'
  BY <1>1, QuietOrder DEF IInv, BusTypeOK, Order, Early, nodes
<1>7. NodeNeeded'
  <2>1. CASE pc[a] = "found"
    BY <1>1, <2>1 DEF IInv, BusTypeOK, NodeNeeded
  <2>2. CASE pc[a] = "refound"
    <3>1. a \in Subs
      BY <2>2 DEF IInv, BusTypeOK, EmitterStages, Callers
    <3> QED
      BY <1>1, <2>2, <3>1 DEF IInv, Attachment, Subscribed, NodeNeeded, nodes
  <2> QED
    BY <1>1, <2>1, <2>2
<1>8. Emitting'
  BY <1>1 DEF Emitting, IInv
<1> QED
  BY <1>2, <1>3, <1>4, <1>5, <1>6, <1>7, <1>8 DEF IInv

LEMMA FindNodeToLeaveInv ==
  ASSUME IInv, NEW s \in Subs, FindNodeToLeave(s)
  PROVE  IInv'
<1>1. /\ pc[s] = "closing" /\ reg \in Nodes /\ s \in sinks[reg] /\ s \in Callers
      /\ pc' = [pc EXCEPT ![s] = "refound"] /\ at' = [at EXCEPT ![s] = reg]
      /\ mu = Nobody /\ mu' = s
      /\ UNCHANGED <<emitting, lk, reg, nodes, streams>>
  BY DEF FindNodeToLeave, Goto, IInv, BusTypeOK, Attachment, Subscribed, Callers
<1>2. s \notin Emitters
  BY CallersAssumption
<1>3. BusTypeOK'
  BY <1>1, <1>2 DEF IInv, BusTypeOK, SubStages, EmitterStages, nodes, streams
<1>4. Locking'
  BY <1>1, CallersAssumption DEF IInv, BusTypeOK, Locking
<1>5. Attachment'
  BY <1>1 DEF IInv, BusTypeOK, Attachment, Subscribed, nodes
<1>6. Counting'
  <2>1. \A e \in InUse : at'[e] = at[e]
    BY <1>1, <1>2 DEF InUse, IInv, BusTypeOK
  <2> QED
    BY <1>1, <1>2, <2>1, QuietCounting DEF IInv, SubStages, nodes
<1>7. Order' /\ InOrder'
  BY <1>1, QuietOrder DEF IInv, BusTypeOK, Order, Early, nodes
<1>8. NodeNeeded'
  BY <1>1 DEF NodeNeeded, nodes
<1>9. Emitting'
  BY <1>1, <1>2 DEF Emitting, IInv, BusTypeOK
<1> QED
  BY <1>3, <1>4, <1>5, <1>6, <1>7, <1>8, <1>9 DEF IInv

LEMMA AddSinkInv ==
  ASSUME IInv, NEW s \in Subs, AddSink(s)
  PROVE  IInv'
<1>1. /\ pc[s] = "inside" /\ reg \in Nodes /\ at[s] = reg /\ lk[reg] = s /\ s \in Callers
      /\ pc' = [pc EXCEPT ![s] = "replay"] /\ sinks' = [sinks EXCEPT ![reg] = sinks[reg] \cup {s}]
      /\ UNCHANGED <<at, emitting, mu, lk, reg, users, keepLast, last, streams>>
  BY DEF AddSink, Goto, IInv, BusTypeOK, Locking, Callers, locks
<1>2. s \notin Emitters
  BY CallersAssumption
<1>3. sinks' \in [Nodes -> SUBSET Subs]
      /\ sinks'[reg] = sinks[reg] \cup {s} /\ \A n \in Nodes \ {reg} : sinks'[n] = sinks[n]
  BY <1>1 DEF IInv, BusTypeOK
<1>4. BusTypeOK'
  BY <1>1, <1>2, <1>3 DEF IInv, BusTypeOK, SubStages, streams
<1>5. Locking'
  BY <1>1 DEF IInv, BusTypeOK, Locking
<1>6. Attachment'
  <2>1. \A n \in Nodes, t \in Subs :
          t \in sinks'[n] <=> t \in sinks[n] \/ (n = reg /\ t = s)
    BY <1>1, <1>3
  <2>2. \A t \in Subs : pc'[t] = IF t = s THEN "replay" ELSE pc[t]
    BY <1>1 DEF IInv, BusTypeOK, Callers
  <2>3. reg' = reg /\ reg \in Nodes /\ reg # NoNode
    BY <1>1, CallersAssumption
  <2> QED
    BY <2>1, <2>2, <2>3 DEF IInv, Attachment, Subscribed
<1>7. Counting'
  BY <1>1, <1>2, QuietCounting DEF IInv, SubStages
<1>8. Emitting'
  BY <1>1 DEF Emitting, IInv
<1>9. Order' /\ InOrder'
  <2>1. \A t \in Subs : pc'[t] \in Early => pc[t] \in Early
    BY <1>1 DEF IInv, BusTypeOK, Early
  <2>2. \A n \in Nodes : last'[n] <= emitted
    BY <1>1 DEF IInv, Order
  <2> QED
    BY <1>1, <2>1, <2>2, QuietOrder DEF IInv
<1>10. NodeNeeded'
  BY <1>1, <1>3 DEF NodeNeeded
<1> QED
  BY <1>4, <1>5, <1>6, <1>7, <1>8, <1>9, <1>10 DEF IInv

LEMMA ReplayInv ==
  ASSUME IInv, NEW s \in Subs, Replay(s)
  PROVE  IInv'
<1>1. /\ pc[s] = "replay" /\ reg \in Nodes /\ at[s] = reg /\ lk[reg] = s /\ s \in Callers
      /\ pc' = [pc EXCEPT ![s] = "open"] /\ lk' = [lk EXCEPT ![reg] = Nobody]
      /\ at' = [at EXCEPT ![s] = NoNode]
      /\ UNCHANGED <<emitting, mu, reg, nodes, emitted, seen>>
  BY DEF Replay, Goto, Unlock, IInv, BusTypeOK, Locking, Callers
<1>2. s \notin Emitters
  BY CallersAssumption
<1>3. buf[s] = <<>> /\ seen[s] = 0
  BY <1>1 DEF IInv, Order
<1>4. PICK x \in {<<>>} \cup {<<last[reg]>>} :
        buf' = [buf EXCEPT ![s] = x] /\ (x = <<>> \/ last[reg] # 0)
  <2>1. Append(buf[s], last[reg]) = <<last[reg]>>
    BY <1>3
  <2>2. buf = [buf EXCEPT ![s] = <<>>]
    BY <1>3 DEF IInv, BusTypeOK
  <2> QED
    BY <1>1, <2>1, <2>2 DEF Replay
<1>5. last[reg] \in 0..MaxEvents /\ last[reg] <= emitted
  BY <1>1 DEF IInv, BusTypeOK, Order
<1>6. x \in Seq(1..MaxEvents) /\ Len(x) \in {0, 1}
      /\ \A i \in 1..Len(x) : i = 1 /\ x[i] = last[reg] /\ x[i] > 0
  <2>1. CASE x = <<>>
    BY <2>1
  <2>2. CASE x = <<last[reg]>> /\ last[reg] # 0
    <3>1. last[reg] \in 1..MaxEvents
      BY <1>5, <2>2, BoundsAssumption
    <3>2. <<last[reg]>> \in Seq(1..MaxEvents)
      BY <3>1
    <3>3. Len(<<last[reg]>>) = 1 /\ <<last[reg]>>[1] = last[reg]
      OBVIOUS
    <3>4. \A i \in 1..1 : i = 1
      OBVIOUS
    <3> QED
      BY <2>2, <3>1, <3>2, <3>3, <3>4, BoundsAssumption
  <2> QED
    BY <1>4, <2>1, <2>2
<1>7. BusTypeOK'
  <2>1. buf' \in [Subs -> Seq(1..MaxEvents)]
    BY <1>4, <1>6 DEF IInv, BusTypeOK
  <2> QED
    BY <1>1, <1>2, <2>1 DEF IInv, BusTypeOK, SubStages, nodes
<1>8. Locking'
  BY <1>1, CallersAssumption DEF IInv, BusTypeOK, Locking
<1>9. Attachment'
  BY <1>1 DEF IInv, BusTypeOK, Attachment, Subscribed, nodes, Callers
<1>10. Counting'
  <2>1. \A e \in InUse : at'[e] = at[e]
    BY <1>1, <1>2 DEF InUse, IInv, BusTypeOK
  <2> QED
    BY <1>1, <1>2, <2>1, QuietCounting DEF IInv, SubStages, nodes
<1>11. Emitting'
  BY <1>1, <1>2 DEF Emitting, IInv, BusTypeOK
<1>12. \A t \in Subs : buf'[t] = IF t = s THEN x ELSE buf[t]
  BY <1>4 DEF IInv, BusTypeOK
<1>13. Order'
  <2> SUFFICES ASSUME NEW t \in Subs
               PROVE  /\ pc'[t] \in Early => buf'[t] = <<>> /\ seen'[t] = 0
                      /\ seen'[t] <= emitted'
                      /\ \A i \in 1..Len(buf'[t]) : buf'[t][i] <= emitted'
    BY <1>1 DEF Order, Early, IInv, nodes
  <2>1. CASE t = s
    BY <1>1, <1>3, <1>5, <1>6, <1>12, <2>1 DEF IInv, Order, BusTypeOK, Early
  <2>2. CASE t # s
    BY <1>1, <1>12, <2>2 DEF IInv, Order, BusTypeOK, Early, Callers
  <2> QED
    BY <2>1, <2>2
<1>14. InOrder'
  <2> SUFFICES ASSUME NEW t \in Subs
               PROVE  /\ \A i \in 1..Len(buf'[t]) : buf'[t][i] > seen'[t]
                      /\ \A i, j \in 1..Len(buf'[t]) : i < j => buf'[t][i] < buf'[t][j]
    BY DEF InOrder
  <2>1. CASE t = s
    <3>1. buf'[t] = x /\ seen'[t] = 0
      BY <1>1, <1>3, <1>12, <2>1
    <3>2. \A i, j \in 1..Len(x) : ~(i < j)
      BY <1>6
    <3> QED
      BY <1>6, <3>1, <3>2
  <2>2. CASE t # s
    BY <1>1, <1>12, <2>2 DEF IInv, InOrder
  <2> QED
    BY <2>1, <2>2
<1>15. NodeNeeded'
  BY <1>1 DEF IInv, BusTypeOK, Attachment, Subscribed, NodeNeeded, nodes
<1> QED
  BY <1>7, <1>8, <1>9, <1>10, <1>11, <1>13, <1>14, <1>15 DEF IInv

LEMMA TailFacts ==
  ASSUME NEW S, NEW q \in Seq(S), q # <<>>
  PROVE  /\ Len(q) \in Nat /\ 1 \in 1..Len(q) /\ Head(q) = q[1]
         /\ \A i \in 1..Len(q) : q[i] \in S
         /\ Tail(q) \in Seq(S) /\ Len(Tail(q)) = Len(q) - 1
         /\ \A i \in 1..Len(Tail(q)) : Tail(q)[i] = q[i + 1] /\ i + 1 \in 1..Len(q)
<1>1. Len(q) \in Nat /\ Len(q) # 0
  OBVIOUS
<1>2. 1 \in 1..Len(q) /\ Head(q) = q[1] /\ \A i \in 1..Len(q) : q[i] \in S
  BY <1>1
<1>3. Tail(q) \in Seq(S) /\ Len(Tail(q)) = Len(q) - 1
  BY <1>1
<1>4. \A i \in 1..Len(Tail(q)) : i + 1 \in 1..Len(q)
  BY <1>1, <1>3
<1>5. \A i \in 1..Len(Tail(q)) : Tail(q)[i] = q[i + 1]
  BY <1>1, <1>3
<1> QED
  BY <1>1, <1>2, <1>3, <1>4, <1>5

LEMMA ReceiveInv ==
  ASSUME IInv, NEW s \in Subs, Receive(s)
  PROVE  IInv'
<1>1. /\ buf[s] # <<>> /\ buf' = [buf EXCEPT ![s] = Tail(buf[s])]
      /\ seen' = [seen EXCEPT ![s] = Head(buf[s])]
      /\ UNCHANGED <<pc, at, emitting, mu, lk, reg, sinks, users, keepLast, last, emitted>>
  BY DEF Receive, calls, locks, nodes
<1>2. /\ buf[s] \in Seq(1..MaxEvents) /\ Len(buf[s]) \in Nat /\ 1 \in 1..Len(buf[s])
      /\ Head(buf[s]) = buf[s][1] /\ \A i \in 1..Len(buf[s]) : buf[s][i] \in 1..MaxEvents
      /\ Tail(buf[s]) \in Seq(1..MaxEvents) /\ Len(Tail(buf[s])) = Len(buf[s]) - 1
      /\ \A i \in 1..Len(Tail(buf[s])) : Tail(buf[s])[i] = buf[s][i + 1] /\ i + 1 \in 1..Len(buf[s])
  <2>1. buf[s] \in Seq(1..MaxEvents)
    BY DEF IInv, BusTypeOK
  <2> QED
    BY <1>1, <2>1, TailFacts
<1>3. \A t \in Subs : /\ buf'[t] = IF t = s THEN Tail(buf[s]) ELSE buf[t]
                      /\ seen'[t] = IF t = s THEN buf[s][1] ELSE seen[t]
  BY <1>1, <1>2 DEF IInv, BusTypeOK
<1>4. BusTypeOK'
  <2>1. buf' \in [Subs -> Seq(1..MaxEvents)]
    BY <1>1, <1>2 DEF IInv, BusTypeOK
  <2>2. seen' \in [Subs -> 0..MaxEvents]
    BY <1>1, <1>2, BoundsAssumption DEF IInv, BusTypeOK
  <2> QED
    BY <1>1, <2>1, <2>2 DEF IInv, BusTypeOK
<1>5. Locking' /\ Attachment' /\ Emitting' /\ NodeNeeded'
  BY <1>1 DEF IInv, Locking, Attachment, Emitting, NodeNeeded
<1>6. Counting'
  BY <1>1 DEF IInv, Counting, InUse
<1>7. Order'
  <2> SUFFICES ASSUME NEW t \in Subs
               PROVE  /\ pc[t] \in Early => buf'[t] = <<>> /\ seen'[t] = 0
                      /\ seen'[t] <= emitted
                      /\ \A i \in 1..Len(buf'[t]) : buf'[t][i] <= emitted
    BY <1>1 DEF Order, Early, IInv
  <2>1. CASE t = s
    <3>1. pc[s] \notin Early
      BY <1>1 DEF IInv, Order, Early
    <3>2. \A i \in 1..Len(buf[s]) : buf[s][i] <= emitted
      BY DEF IInv, Order
    <3> QED
      BY <1>2, <1>3, <2>1, <3>1, <3>2
  <2>2. CASE t # s
    BY <1>3, <2>2 DEF IInv, Order, Early
  <2> QED
    BY <2>1, <2>2
<1>8. InOrder'
  <2> SUFFICES ASSUME NEW t \in Subs
               PROVE  /\ \A i \in 1..Len(buf'[t]) : buf'[t][i] > seen'[t]
                      /\ \A i, j \in 1..Len(buf'[t]) : i < j => buf'[t][i] < buf'[t][j]
    BY DEF InOrder
  <2>1. CASE t = s
    <3>1. \A i, j \in 1..Len(buf[s]) : i < j => buf[s][i] < buf[s][j]
      BY DEF IInv, InOrder
    <3>2. \A i \in 1..Len(Tail(buf[s])) : Tail(buf[s])[i] > buf[s][1]
      <4> SUFFICES ASSUME NEW i \in 1..Len(Tail(buf[s])) PROVE Tail(buf[s])[i] > buf[s][1]
        OBVIOUS
      <4>1. i + 1 \in 1..Len(buf[s]) /\ 1 < i + 1
        BY <1>2
      <4>2. buf[s][1] \in Int /\ buf[s][i + 1] \in Int
        BY <1>2, <4>1
      <4> QED
        BY <1>2, <3>1, <4>1, <4>2
    <3>3. \A i, j \in 1..Len(Tail(buf[s])) : i < j => Tail(buf[s])[i] < Tail(buf[s])[j]
      <4> SUFFICES ASSUME NEW i \in 1..Len(Tail(buf[s])), NEW j \in 1..Len(Tail(buf[s])), i < j
                   PROVE  Tail(buf[s])[i] < Tail(buf[s])[j]
        OBVIOUS
      <4>1. i + 1 < j + 1
        OBVIOUS
      <4> QED
        BY <1>2, <3>1, <4>1
    <3> QED
      BY <1>3, <2>1, <3>2, <3>3
  <2>2. CASE t # s
    BY <1>3, <2>2 DEF IInv, InOrder
  <2> QED
    BY <2>1, <2>2
<1> QED
  BY <1>4, <1>5, <1>6, <1>7, <1>8 DEF IInv

LEMMA UnsubscribeInv ==
  ASSUME IInv, NEW s \in Subs, Unsubscribe(s)
  PROVE  IInv'
<1>1. /\ pc[s] = "open" /\ s \in Callers /\ pc' = [pc EXCEPT ![s] = "closing"]
      /\ UNCHANGED <<at, emitting, mu, lk, reg, nodes, streams>>
  BY DEF Unsubscribe, Goto, Callers, locks
<1>2. s \notin Emitters
  BY CallersAssumption
<1>3. BusTypeOK'
  BY <1>1, <1>2 DEF IInv, BusTypeOK, SubStages, nodes, streams
<1>4. Locking' /\ Emitting'
  BY <1>1 DEF IInv, BusTypeOK, Locking, Emitting
<1>5. Attachment'
  BY <1>1 DEF IInv, BusTypeOK, Attachment, Subscribed, nodes, Callers
<1>6. Counting'
  BY <1>1, <1>2, QuietCounting DEF IInv, SubStages, nodes
<1>7. Order' /\ InOrder'
  <2>1. \A t \in Subs : pc'[t] \in Early => pc[t] \in Early
    BY <1>1 DEF IInv, BusTypeOK, Early
  <2>2. \A n \in Nodes : last'[n] <= emitted
    BY <1>1 DEF IInv, Order, nodes
  <2> QED
    BY <1>1, <2>1, <2>2, QuietOrder DEF IInv
<1>8. NodeNeeded'
  BY <1>1 DEF IInv, BusTypeOK, NodeNeeded, nodes
<1> QED
  BY <1>3, <1>4, <1>5, <1>6, <1>7, <1>8 DEF IInv

LEMMA RemoveSinkInv ==
  ASSUME IInv, NEW s \in Subs, RemoveSink(s)
  PROVE  IInv'
<1> DEFINE stage == IF sinks'[reg] = {} /\ users[reg] = 0 THEN "dropping" ELSE "removed"
<1>1. /\ pc[s] = "back" /\ reg \in Nodes /\ at[s] = reg /\ lk[reg] = s /\ s \in Callers
      /\ pc' = [pc EXCEPT ![s] = stage] /\ sinks' = [sinks EXCEPT ![reg] = sinks[reg] \ {s}]
      /\ lk' = [lk EXCEPT ![reg] = Nobody] /\ at' = [at EXCEPT ![s] = NoNode]
      /\ UNCHANGED <<emitting, mu, reg, users, keepLast, last, streams>>
  BY DEF RemoveSink, Goto, Unlock, IInv, BusTypeOK, Locking, Callers
<1>2. s \notin Emitters
  BY CallersAssumption
<1>3. \A n \in Nodes, t \in Subs : t \in sinks'[n] <=> t \in sinks[n] /\ ~(n = reg /\ t = s)
  BY <1>1 DEF IInv, BusTypeOK
<1>4. stage \in {"dropping", "removed"} /\ \A a \in Callers : pc'[a] = IF a = s THEN stage ELSE pc[a]
  BY <1>1 DEF IInv, BusTypeOK
<1>5. BusTypeOK'
  <2>1. pc' \in [Callers -> SubStages] /\ \A e \in Emitters : pc'[e] \in EmitterStages
    BY <1>1, <1>2 DEF IInv, BusTypeOK, SubStages
  <2>2. sinks' \in [Nodes -> SUBSET Subs]
    BY <1>1 DEF IInv, BusTypeOK
  <2> QED
    BY <1>1, <2>1, <2>2 DEF IInv, BusTypeOK, streams
<1>6. Locking'
  <2>1. \A a \in Callers \ {s} : pc[a] \notin {"inside", "replay", "back"}
    BY <1>1 DEF IInv, Locking
  <2> QED
    BY <1>1, <1>4, <2>1 DEF IInv, BusTypeOK, Locking
<1>7. Attachment'
  BY <1>1, <1>3, <1>4, CallersAssumption DEF IInv, Attachment, Subscribed, Callers
<1>8. Counting'
  <2>1. \A e \in InUse : at'[e] = at[e]
    BY <1>1, <1>2 DEF InUse, IInv, BusTypeOK
  <2>2. stage \in SubStages
    BY DEF SubStages
  <2> QED
    BY <1>1, <1>2, <2>1, <2>2, QuietCounting DEF IInv
<1>9. Emitting'
  BY <1>1, <1>2 DEF Emitting, IInv, BusTypeOK
<1>10. Order' /\ InOrder'
  <2>1. \A t \in Subs : pc'[t] \in Early => pc[t] \in Early
    BY <1>4 DEF Early, Callers
  <2>2. \A n \in Nodes : last'[n] <= emitted
    BY <1>1 DEF IInv, Order
  <2> QED
    BY <1>1, <2>1, <2>2, QuietOrder DEF IInv
<1>11. NodeNeeded'
  <2>1. users[reg] \in Nat
    BY <1>1, CallersAssumption, InUseFinite DEF IInv, Counting
  <2>2. CASE sinks'[reg] = {} /\ users[reg] = 0
    BY <1>1, <1>4, <2>2 DEF NodeNeeded
  <2>3. CASE ~(sinks'[reg] = {} /\ users[reg] = 0)
    BY <1>1, <2>1, <2>3 DEF NodeNeeded
  <2> QED
    BY <2>2, <2>3
<1> QED
  BY <1>5, <1>6, <1>7, <1>8, <1>9, <1>10, <1>11 DEF IInv

LEMMA CloseChannelInv ==
  ASSUME IInv, NEW s \in Subs, CloseChannel(s)
  PROVE  IInv'
<1>1. /\ pc[s] = "removed" /\ s \in Callers /\ pc' = [pc EXCEPT ![s] = "none"]
      /\ buf' = [buf EXCEPT ![s] = <<>>] /\ seen' = [seen EXCEPT ![s] = 0]
      /\ UNCHANGED <<at, emitting, mu, lk, reg, nodes, emitted>>
  BY DEF CloseChannel, Goto, Callers, locks
<1>2. s \notin Emitters
  BY CallersAssumption
<1>3. \A t \in Subs : /\ buf'[t] = IF t = s THEN <<>> ELSE buf[t]
                      /\ seen'[t] = IF t = s THEN 0 ELSE seen[t]
                      /\ pc'[t] = IF t = s THEN "none" ELSE pc[t]
  BY <1>1 DEF IInv, BusTypeOK, Callers
<1>4. BusTypeOK'
  <2>1. buf' \in [Subs -> Seq(1..MaxEvents)] /\ seen' \in [Subs -> 0..MaxEvents]
    BY <1>1, BoundsAssumption DEF IInv, BusTypeOK
  <2> QED
    BY <1>1, <1>2, <2>1 DEF IInv, BusTypeOK, SubStages, nodes
<1>5. Locking' /\ Emitting'
  BY <1>1 DEF IInv, BusTypeOK, Locking, Emitting
<1>6. Attachment'
  BY <1>1, <1>3 DEF IInv, Attachment, Subscribed, nodes
<1>7. Counting'
  BY <1>1, <1>2, QuietCounting DEF IInv, SubStages, nodes
<1>8. Order'
  <2>1. emitted \in Nat /\ emitted' = emitted
    BY <1>1, BoundsAssumption DEF IInv, BusTypeOK
  <2> QED
    BY <1>1, <1>3, <2>1 DEF IInv, Order, nodes
<1>9. InOrder'
  BY <1>3 DEF IInv, InOrder
<1>10. NodeNeeded'
  BY <1>1 DEF IInv, BusTypeOK, NodeNeeded, nodes
<1> QED
  BY <1>4, <1>5, <1>6, <1>7, <1>8, <1>9, <1>10 DEF IInv

LEMMA AddEmitterInv ==
  ASSUME IInv, NEW e \in Emitters, AddEmitter(e)
  PROVE  IInv'
<1>1. /\ pc[e] = "inside" /\ reg \in Nodes /\ at[e] = reg /\ lk[reg] = e /\ e \in Callers
      /\ pc' = [pc EXCEPT ![e] = "open"] /\ users' = [users EXCEPT ![reg] = users[reg] + 1]
      /\ keepLast' \in {keepLast, keepLast \cup {reg}} /\ lk' = [lk EXCEPT ![reg] = Nobody]
      /\ UNCHANGED <<at, emitting, mu, reg, sinks, last, streams>>
  BY DEF AddEmitter, Goto, Unlock, IInv, BusTypeOK, Locking, Callers
<1>2. e \notin Subs
  BY CallersAssumption
<1>3. \A a \in Callers : pc'[a] = IF a = e THEN "open" ELSE pc[a]
  BY <1>1 DEF IInv, BusTypeOK
<1>4. BusTypeOK'
  BY <1>1, <1>2 DEF IInv, BusTypeOK, SubStages, EmitterStages, Callers, streams
<1>5. Locking'
  <2>1. \A a \in Callers \ {e} : pc[a] \notin {"inside", "replay", "back"}
    BY <1>1 DEF IInv, Locking
  <2> QED
    BY <1>1, <1>3, <2>1 DEF IInv, BusTypeOK, Locking
<1>6. Attachment'
  BY <1>1, <1>2, <1>3 DEF IInv, Attachment, Callers
<1>7. Counting'
  <2>1. InUse' = InUse \cup {e} /\ e \notin InUse
    BY <1>1, <1>3 DEF InUse, Callers
  <2>2. Cardinality(InUse') = Cardinality(InUse) + 1
    BY <2>1, InUseFinite, FS_AddElement
  <2>3. users'[reg] = users[reg] + 1
    BY <1>1 DEF IInv, BusTypeOK
  <2> QED
    BY <1>1, <2>1, <2>2, <2>3, CallersAssumption DEF IInv, Counting
<1>8. Emitting'
  BY <1>1 DEF Emitting, IInv
<1>9. Order' /\ InOrder'
  <2>1. \A t \in Subs : pc'[t] \in Early => pc[t] \in Early
    BY <1>2, <1>3 DEF Callers
  <2>2. \A n \in Nodes : last'[n] <= emitted
    BY <1>1 DEF IInv, Order
  <2> QED
    BY <1>1, <2>1, <2>2, QuietOrder DEF IInv
<1>10. NodeNeeded'
  <2>1. users'[reg] > 0
    BY <1>1, CallersAssumption, InUseFinite DEF IInv, BusTypeOK, Counting
  <2> QED
    BY <1>1, <2>1 DEF NodeNeeded
<1> QED
  BY <1>4, <1>5, <1>6, <1>7, <1>8, <1>9, <1>10 DEF IInv

LEMMA BeginEmitInv ==
  ASSUME IInv, NEW e \in Emitters, BeginEmit(e)
  PROVE  IInv'
<1>1. /\ pc[e] = "open" /\ emitting' = emitting \cup {e}
      /\ UNCHANGED <<pc, at, mu, lk, reg, nodes, streams>>
  BY DEF BeginEmit, locks
<1>2. BusTypeOK'
  BY <1>1 DEF IInv, BusTypeOK, nodes, streams
<1>3. Locking' /\ Attachment' /\ Order' /\ InOrder' /\ NodeNeeded'
  BY <1>1 DEF IInv, Locking, Attachment, Order, InOrder, NodeNeeded, nodes, streams
<1>4. Counting'
  BY <1>1 DEF IInv, Counting, InUse, nodes
<1>5. Emitting'
  BY <1>1 DEF IInv, BusTypeOK, Counting, InUse, Emitting
<1> QED
  BY <1>2, <1>3, <1>4, <1>5 DEF IInv

LEMMA AppendFacts ==
  ASSUME NEW q \in Seq(1..MaxEvents), NEW x \in 1..MaxEvents
  PROVE  /\ Append(q, x) \in Seq(1..MaxEvents) /\ Len(q) \in Nat /\ Len(Append(q, x)) = Len(q) + 1
         /\ \A i \in 1..Len(q) + 1 : Append(q, x)[i] = IF i \in 1..Len(q) THEN q[i] ELSE x
         /\ \A i \in 1..Len(q) : q[i] \in 1..MaxEvents
<1> DEFINE S == 1..MaxEvents
<1>1. q \in Seq(S) /\ x \in S
  OBVIOUS
<1> HIDE DEF S
<1>2. Append(q, x) \in Seq(S) /\ Len(q) \in Nat /\ Len(Append(q, x)) = Len(q) + 1
  BY <1>1
<1>3. \A i \in 1..Len(q) + 1 : Append(q, x)[i] = IF i \in 1..Len(q) THEN q[i] ELSE x
  BY <1>1, <1>2
<1>4. \A i \in 1..Len(q) : q[i] \in S
  BY <1>1, <1>2
<1> QED
  BY <1>2, <1>3, <1>4 DEF S

LEMMA EmitInv ==
  ASSUME IInv, NEW e \in Emitters, Emit(e)
  PROVE  IInv'
<1>1. /\ at[e] \in Nodes /\ lk[at[e]] = Nobody /\ emitted < MaxEvents
      /\ emitting' = emitting \ {e} /\ emitted' = emitted + 1
      /\ last' \in {last, [last EXCEPT ![at[e]] = emitted + 1]}
      /\ UNCHANGED <<pc, at, mu, lk, reg, sinks, users, keepLast, seen>>
  BY DEF Emit, IInv, Emitting, locks
<1>2. /\ emitted \in Nat /\ emitted + 1 \in 1..MaxEvents
      /\ \A s \in Subs : seen[s] <= emitted /\ seen[s] \in Nat /\ buf[s] \in Seq(1..MaxEvents)
  BY <1>1, BoundsAssumption DEF IInv, BusTypeOK, Order
<1>3. \A s \in Subs :
        \/ buf'[s] = buf[s]
        \/ pc[s] \notin Early /\ buf'[s] = Append(buf[s], emitted + 1)
  <2> SUFFICES ASSUME NEW s \in Subs, buf'[s] # buf[s]
               PROVE  pc[s] \notin Early /\ buf'[s] = Append(buf[s], emitted + 1)
    OBVIOUS
  <2>1. s \in sinks[at[e]] /\ buf'[s] = Append(buf[s], emitted + 1)
    BY <1>1 DEF Emit
  <2>2. at[e] = reg /\ pc[s] \in Subscribed
    BY <1>1, <2>1 DEF IInv, Attachment
  <2>3. pc[s] # "replay"
    BY <1>1, <2>2, CallersAssumption DEF IInv, Locking, Callers
  <2> QED
    BY <2>1, <2>2, <2>3 DEF Subscribed, Early
<1>4. BusTypeOK'
  <2>1. buf' \in [Subs -> Seq(1..MaxEvents)]
    <3>1. \A s \in Subs : buf'[s] \in Seq(1..MaxEvents)
      <4> SUFFICES ASSUME NEW s \in Subs PROVE buf'[s] \in Seq(1..MaxEvents)
        OBVIOUS
      <4>1. buf[s] \in Seq(1..MaxEvents) /\ Append(buf[s], emitted + 1) \in Seq(1..MaxEvents)
        BY <1>2, AppendFacts
      <4> QED
        BY <1>3, <4>1
    <3>2. buf' = [s \in Subs |-> IF s \in sinks[at[e]] /\ Room(s)
                                  THEN Append(buf[s], emitted') ELSE buf[s]]
      BY DEF Emit
    <3>3. buf' = [s \in Subs |-> buf'[s]]
      BY <3>2
    <3> QED
      BY <3>1, <3>3
  <2>2. last' \in [Nodes -> 0..MaxEvents]
    <3>1. emitted + 1 \in 0..MaxEvents
      BY <1>2, BoundsAssumption
    <3> QED
      BY <1>1, <3>1 DEF IInv, BusTypeOK
  <2>3. emitted' \in 0..MaxEvents
    BY <1>1, <1>2, BoundsAssumption
  <2> QED
    BY <1>1, <2>1, <2>2, <2>3 DEF IInv, BusTypeOK
<1>5. Locking' /\ Attachment' /\ Emitting' /\ NodeNeeded'
  BY <1>1 DEF IInv, Locking, Attachment, Emitting, NodeNeeded
<1>6. Counting'
  BY <1>1 DEF IInv, Counting, InUse
<1>7. Order'
  <2>1. \A n \in Nodes : last'[n] <= emitted'
    <3> SUFFICES ASSUME NEW n \in Nodes PROVE last'[n] <= emitted + 1
      BY <1>1
    <3>1. last[n] <= emitted /\ last[n] \in Int
      BY DEF IInv, Order, BusTypeOK
    <3>2. last'[n] \in {last[n], emitted + 1}
      BY <1>1 DEF IInv, BusTypeOK
    <3> QED
      BY <1>2, <3>1, <3>2
  <2> SUFFICES ASSUME NEW s \in Subs
               PROVE  /\ pc[s] \in Early => buf'[s] = <<>> /\ seen[s] = 0
                      /\ seen[s] <= emitted + 1
                      /\ \A i \in 1..Len(buf'[s]) : buf'[s][i] <= emitted + 1
    BY <1>1, <2>1 DEF Order, Early
  <2>2. pc[s] \in Early => buf'[s] = <<>> /\ seen[s] = 0
    BY <1>3 DEF IInv, Order, Early
  <2>3. seen[s] <= emitted + 1
    BY <1>2
  <2>4. \A i \in 1..Len(buf[s]) : buf[s][i] <= emitted + 1
    <3>1. \A i \in 1..Len(buf[s]) : buf[s][i] <= emitted
      BY DEF IInv, Order
    <3>2. \A i \in 1..Len(buf[s]) : buf[s][i] \in 1..MaxEvents
      BY <1>2, AppendFacts
    <3> QED
      BY <1>2, <3>1, <3>2
  <2>5. CASE buf'[s] = buf[s]
    BY <2>2, <2>3, <2>4, <2>5
  <2>6. CASE buf'[s] = Append(buf[s], emitted + 1)
    <3>1. \A i \in 1..Len(buf'[s]) : buf'[s][i] <= emitted + 1
      BY <1>2, <2>4, <2>6, AppendFacts
    <3> QED
      BY <2>2, <2>3, <3>1
  <2> QED
    BY <1>3, <2>5, <2>6
<1>8. InOrder'
  <2> SUFFICES ASSUME NEW s \in Subs
               PROVE  /\ \A i \in 1..Len(buf'[s]) : buf'[s][i] > seen[s]
                      /\ \A i, j \in 1..Len(buf'[s]) : i < j => buf'[s][i] < buf'[s][j]
    BY <1>1 DEF InOrder
  <2>1. /\ \A i \in 1..Len(buf[s]) : buf[s][i] > seen[s]
        /\ \A i, j \in 1..Len(buf[s]) : i < j => buf[s][i] < buf[s][j]
        /\ \A i \in 1..Len(buf[s]) : buf[s][i] <= emitted
    BY DEF IInv, InOrder, Order
  <2>2. CASE buf'[s] = buf[s]
    BY <2>1, <2>2
  <2>3. CASE buf'[s] = Append(buf[s], emitted + 1)
    <3>1. /\ Len(buf[s]) \in Nat /\ Len(buf'[s]) = Len(buf[s]) + 1
          /\ \A i \in 1..Len(buf'[s]) :
               buf'[s][i] = IF i \in 1..Len(buf[s]) THEN buf[s][i] ELSE emitted + 1
          /\ \A i \in 1..Len(buf[s]) : buf[s][i] \in 1..MaxEvents
      BY <1>2, <2>3, AppendFacts
    <3>2. \A i \in 1..Len(buf'[s]) : buf'[s][i] > seen[s]
      BY <1>2, <2>1, <3>1
    <3>3. \A i, j \in 1..Len(buf'[s]) : i < j => buf'[s][i] < buf'[s][j]
      <4> SUFFICES ASSUME NEW i \in 1..Len(buf'[s]), NEW j \in 1..Len(buf'[s]), i < j
                   PROVE  buf'[s][i] < buf'[s][j]
        OBVIOUS
      <4>1. i \in 1..Len(buf[s]) /\ buf'[s][i] = buf[s][i]
        BY <3>1
      <4>2. CASE j \in 1..Len(buf[s])
        BY <2>1, <3>1, <4>1, <4>2
      <4>3. CASE j \notin 1..Len(buf[s])
        BY <1>2, <2>1, <3>1, <4>1, <4>3
      <4> QED
        BY <4>2, <4>3
    <3> QED
      BY <3>2, <3>3
  <2> QED
    BY <1>3, <2>2, <2>3
<1> QED
  BY <1>4, <1>5, <1>6, <1>7, <1>8 DEF IInv

LEMMA CloseEmitterInv ==
  ASSUME IInv, NEW e \in Emitters, CloseEmitter(e)
  PROVE  IInv'
<1>1. /\ pc[e] = "open" /\ e \in Callers /\ e \notin Subs /\ pc' = [pc EXCEPT ![e] = "closing"]
      /\ UNCHANGED <<at, emitting, mu, lk, reg, nodes, streams>>
  BY CallersAssumption DEF CloseEmitter, Goto, Callers, locks
<1>2. BusTypeOK'
  BY <1>1 DEF IInv, BusTypeOK, SubStages, EmitterStages, nodes, streams, Callers
<1>3. Locking' /\ Emitting'
  BY <1>1 DEF IInv, BusTypeOK, Locking, Emitting
<1>4. \A s \in Subs : pc'[s] = pc[s]
  BY <1>1 DEF IInv, BusTypeOK
<1>5. Attachment'
  BY <1>1, <1>4 DEF IInv, Attachment, nodes
<1>6. Counting'
  BY <1>1, QuietCounting DEF IInv, SubStages, nodes
<1>7. Order' /\ InOrder'
  <2>1. \A n \in Nodes : last'[n] <= emitted
    BY <1>1 DEF IInv, Order, nodes
  <2> QED
    BY <1>1, <1>4, <2>1, QuietOrder DEF IInv
<1>8. NodeNeeded'
  BY <1>1 DEF IInv, BusTypeOK, NodeNeeded, nodes
<1> QED
  BY <1>2, <1>3, <1>5, <1>6, <1>7, <1>8 DEF IInv

LEMMA ReleaseNodeInv ==
  ASSUME IInv, NEW e \in Emitters, ReleaseNode(e)
  PROVE  IInv'
<1> DEFINE stage == IF users'[reg] = 0 THEN "dropping" ELSE "none"
<1>1. pc[e] = "closing" /\ e \in Callers /\ e \notin Subs /\ e \in InUse
  BY CallersAssumption DEF ReleaseNode, InUse, Callers
<1>2. reg \in Nodes /\ reg # NoNode /\ at[e] = reg
  BY <1>1 DEF IInv, BusTypeOK, Counting
<1>3. /\ pc' = [pc EXCEPT ![e] = stage] /\ users' = [users EXCEPT ![reg] = users[reg] - 1]
      /\ UNCHANGED <<at, emitting, mu, lk, reg, sinks, keepLast, last, streams>>
  BY <1>2 DEF ReleaseNode, Goto, locks
<1>4. stage \in {"dropping", "none"} /\ \A a \in Callers : pc'[a] = IF a = e THEN stage ELSE pc[a]
  BY <1>1, <1>3 DEF IInv, BusTypeOK
<1>5. InUse' = InUse \ {e}
  BY <1>4 DEF InUse, Callers
<1>6. users'[reg] = users[reg] - 1 /\ users[reg] = Cardinality(InUse)
      /\ Cardinality(InUse') = Cardinality(InUse) - 1 /\ Cardinality(InUse') \in Nat
  <2>1. users'[reg] = users[reg] - 1 /\ users[reg] = Cardinality(InUse)
    BY <1>2, <1>3 DEF IInv, BusTypeOK, Counting
  <2>2. Cardinality(InUse') = Cardinality(InUse) - 1
    BY <1>1, <1>5, InUseFinite, FS_RemoveElement
  <2>3. IsFiniteSet(InUse')
    BY <1>5, InUseFinite, FS_Subset
  <2> QED
    BY <2>1, <2>2, <2>3, FS_CardinalityType
<1>7. BusTypeOK'
  <2>1. pc' \in [Callers -> SubStages] /\ \A f \in Emitters : pc'[f] \in EmitterStages
    BY <1>3, <1>4 DEF IInv, BusTypeOK, SubStages, EmitterStages, Callers
  <2>2. users' \in [Nodes -> Int]
    BY <1>2, <1>3 DEF IInv, BusTypeOK
  <2> QED
    BY <1>3, <2>1, <2>2 DEF IInv, BusTypeOK, streams
<1>8. Locking' /\ Emitting'
  BY <1>3, <1>4 DEF IInv, Locking, Emitting
<1>9. \A s \in Subs : pc'[s] = pc[s]
  BY <1>1, <1>4 DEF Callers
<1>10. Attachment'
  BY <1>3, <1>9 DEF IInv, Attachment
<1>11. Counting'
  BY <1>2, <1>3, <1>5, <1>6 DEF IInv, Counting
<1>12. Order' /\ InOrder'
  <2>1. \A n \in Nodes : last'[n] <= emitted
    BY <1>3 DEF IInv, Order
  <2> QED
    BY <1>3, <1>9, <2>1, QuietOrder DEF IInv
<1>13. NodeNeeded'
  <2>1. CASE users'[reg] = 0
    BY <1>1, <1>4, <2>1 DEF NodeNeeded
  <2>2. CASE users'[reg] # 0
    <3>1. users'[reg] > 0 /\ reg' = reg
      BY <1>3, <1>6, <2>2, InUseFinite
    <3> QED
      BY <3>1 DEF NodeNeeded
  <2> QED
    BY <2>1, <2>2
<1> QED
  BY <1>7, <1>8, <1>10, <1>11, <1>12, <1>13 DEF IInv

LEMMA LockBusInv ==
  ASSUME IInv, NEW a \in Callers, LockBus(a)
  PROVE  IInv'
<1>1. /\ pc[a] = "dropping" /\ pc' = [pc EXCEPT ![a] = "checking"] /\ mu = Nobody /\ mu' = a
      /\ UNCHANGED <<at, emitting, lk, reg, nodes, streams>>
  BY DEF LockBus, Goto
<1>2. \A b \in Callers : pc'[b] = IF b = a THEN "checking" ELSE pc[b]
  BY <1>1 DEF IInv, BusTypeOK
<1>3. BusTypeOK'
  BY <1>1 DEF IInv, BusTypeOK, SubStages, EmitterStages, Callers, nodes, streams
<1>4. Locking' /\ Emitting'
  BY <1>1, <1>2, CallersAssumption DEF IInv, Locking, Emitting
<1>5. Attachment'
  BY <1>1, <1>2 DEF IInv, Attachment, Subscribed, nodes, Callers
<1>6. Counting'
  BY <1>1, QuietCounting DEF IInv, SubStages, nodes
<1>7. Order' /\ InOrder'
  <2>1. \A n \in Nodes : last'[n] <= emitted
    BY <1>1 DEF IInv, Order, nodes
  <2>2. \A s \in Subs : pc'[s] \in Early => pc[s] \in Early
    BY <1>2 DEF Early, Callers
  <2> QED
    BY <1>1, <2>1, <2>2, QuietOrder DEF IInv
<1>8. NodeNeeded'
  BY <1>2 DEF NodeNeeded
<1> QED
  BY <1>3, <1>4, <1>5, <1>6, <1>7, <1>8 DEF IInv

(* The bus's lock keeps everybody else from finding the node, and the      *)
(* node's lock being free means nobody is in it.                           *)
LEMMA DropNodeInv ==
  ASSUME IInv, NEW a \in Callers, DropNode(a)
  PROVE  IInv'
<1>1. /\ pc[a] = "checking" /\ mu = a /\ mu' = Nobody /\ pc' = [pc EXCEPT ![a] = Dropped(a)]
      /\ reg # NoNode => lk[reg] = Nobody
      /\ \/ reg' = reg /\ reg # NoNode /\ (sinks[reg] # {} \/ users[reg] > 0)
         \/ reg' = NoNode /\ (reg # NoNode => sinks[reg] = {} /\ ~(users[reg] > 0))
      /\ UNCHANGED <<at, emitting, lk, nodes, streams>>
  BY DEF DropNode, Goto, IInv, Locking
<1>2. \A b \in Callers : pc'[b] = IF b = a THEN Dropped(a) ELSE pc[b]
  BY <1>1 DEF IInv, BusTypeOK
<1>3. Dropped(a) \in {"removed", "none"} /\ (a \in Subs => Dropped(a) = "removed")
      /\ (a \in Emitters => Dropped(a) = "none")
  BY CallersAssumption DEF Dropped
<1>4. \A b \in Callers : pc'[b] \notin {"found", "refound", "checking", "inside", "replay", "back"}
  BY <1>1, <1>2, <1>3, CallersAssumption DEF IInv, Locking, Callers
<1>5. InUse' = InUse
  BY <1>1, <1>2, <1>3 DEF InUse, Callers
<1>6. reg' = reg \/ (reg' = NoNode /\ InUse = {} /\ \A n \in Nodes : sinks[n] = {})
  <2> SUFFICES ASSUME reg' = NoNode, reg # NoNode
               PROVE  InUse = {} /\ \A n \in Nodes : sinks[n] = {}
    BY <1>1
  <2>1. sinks[reg] = {} /\ ~(users[reg] > 0) /\ users[reg] = Cardinality(InUse)
    BY <1>1 DEF IInv, Counting
  <2>2. InUse = {}
    BY <2>1, InUseFinite, FS_EmptySet
  <2>3. \A n \in Nodes : sinks[n] = {}
    BY <2>1 DEF IInv, BusTypeOK, Attachment
  <2> QED
    BY <2>2, <2>3
<1>7. BusTypeOK'
  <2>1. pc' \in [Callers -> SubStages] /\ \A e \in Emitters : pc'[e] \in EmitterStages
    BY <1>1, <1>2, <1>3 DEF IInv, BusTypeOK, SubStages, EmitterStages, Callers
  <2> QED
    BY <1>1, <2>1 DEF IInv, BusTypeOK, nodes, streams
<1>8. Locking' /\ Emitting'
  BY <1>1, <1>4 DEF IInv, Locking, Emitting
<1>9. Attachment'
  <2>1. \A s \in Subs : pc'[s] \in Subscribed <=> pc[s] \in Subscribed
    BY <1>1, <1>2, <1>3 DEF Subscribed, Callers
  <2>2. reg' # reg => \A s \in Subs : pc[s] \notin Subscribed
    BY <1>6 DEF IInv, BusTypeOK, Attachment
  <2> QED
    BY <1>1, <1>6, <2>1, <2>2 DEF IInv, Attachment, nodes
<1>10. Counting'
  BY <1>1, <1>5, <1>6 DEF IInv, Counting, nodes
<1>11. Order' /\ InOrder'
  <2>1. \A n \in Nodes : last'[n] <= emitted
    BY <1>1 DEF IInv, Order, nodes
  <2>2. \A s \in Subs : pc'[s] \in Early => pc[s] \in Early
    BY <1>2, <1>3 DEF Early, Callers
  <2> QED
    BY <1>1, <2>1, <2>2, QuietOrder DEF IInv
<1>12. NodeNeeded'
  BY <1>1 DEF NodeNeeded, nodes
<1> QED
  BY <1>7, <1>8, <1>9, <1>10, <1>11, <1>12 DEF IInv

-----------------------------------------------------------------------------
LEMMA InitIInv == Init => IInv
<1> SUFFICES ASSUME Init PROVE IInv
  OBVIOUS
<1>1. BusTypeOK
  <2>1. buf \in [Subs -> Seq(1..MaxEvents)] /\ seen \in [Subs -> 0..MaxEvents]
    BY BoundsAssumption DEF Init
  <2> QED
    BY <2>1, BoundsAssumption DEF Init, BusTypeOK, SubStages, EmitterStages, Callers
<1>2. Locking /\ Emitting
  BY DEF Init, Locking, Emitting
<1>3. Attachment
  BY DEF Init, Attachment, Subscribed, Callers
<1>4. Counting
  BY DEF Init, Counting, InUse, Callers
<1>5. Order /\ InOrder
  BY DEF Init, Order, InOrder
<1>6. NodeNeeded
  BY DEF Init, NodeNeeded
<1> QED
  BY <1>1, <1>2, <1>3, <1>4, <1>5, <1>6 DEF IInv

LEMMA StutterIInv == IInv /\ UNCHANGED vars => IInv'
<1> SUFFICES ASSUME IInv, UNCHANGED vars PROVE IInv'
  OBVIOUS
<1>1. BusTypeOK' /\ Locking' /\ Attachment' /\ Emitting'
  BY DEF vars, calls, locks, nodes, streams, IInv, BusTypeOK, Locking, Attachment, Emitting
<1>2. Counting' /\ Order' /\ InOrder' /\ NodeNeeded'
  BY DEF vars, calls, locks, nodes, streams, IInv, Counting, InUse, Order, InOrder, NodeNeeded
<1> QED
  BY <1>1, <1>2 DEF IInv

LEMMA NextIInv == IInv /\ [Next]_vars => IInv'
<1> SUFFICES ASSUME IInv, Next PROVE IInv'
  BY StutterIInv
<1>1. ASSUME NEW a \in Callers, FindNode(a) \/ EnterNode(a) \/ LockBus(a) \/ DropNode(a)
      PROVE  IInv'
  BY <1>1, FindNodeInv, EnterNodeInv, LockBusInv, DropNodeInv
<1>2. ASSUME NEW s \in Subs,
             \/ AddSink(s) \/ Replay(s) \/ Receive(s)
             \/ Unsubscribe(s) \/ FindNodeToLeave(s) \/ RemoveSink(s) \/ CloseChannel(s)
      PROVE  IInv'
  BY <1>2, AddSinkInv, ReplayInv, ReceiveInv, UnsubscribeInv, FindNodeToLeaveInv,
     RemoveSinkInv, CloseChannelInv
<1>3. ASSUME NEW e \in Emitters,
             AddEmitter(e) \/ BeginEmit(e) \/ Emit(e) \/ CloseEmitter(e) \/ ReleaseNode(e)
      PROVE  IInv'
  BY <1>3, AddEmitterInv, BeginEmitInv, EmitInv, CloseEmitterInv, ReleaseNodeInv
<1> QED
  BY <1>1, <1>2, <1>3 DEF Next

(* A step that counts an event is an emission. *)
LEMMA OnlyEmitCounts ==
  ASSUME IInv, Next, emitted' # emitted
  PROVE  \E e \in Emitters : Emit(e)
<1>1. ASSUME NEW a \in Callers PROVE ~(FindNode(a) \/ EnterNode(a) \/ LockBus(a) \/ DropNode(a))
  BY DEF FindNode, EnterNode, LockBus, DropNode, streams
<1>2. ASSUME NEW s \in Subs
      PROVE  ~(\/ AddSink(s) \/ Replay(s) \/ Receive(s)
               \/ Unsubscribe(s) \/ FindNodeToLeave(s) \/ RemoveSink(s) \/ CloseChannel(s))
  BY DEF AddSink, Replay, Receive, Unsubscribe, FindNodeToLeave, RemoveSink, CloseChannel, streams
<1>3. ASSUME NEW e \in Emitters
      PROVE  ~(AddEmitter(e) \/ BeginEmit(e) \/ CloseEmitter(e) \/ ReleaseNode(e))
  BY DEF AddEmitter, BeginEmit, CloseEmitter, ReleaseNode, streams
<1> QED
  BY <1>1, <1>2, <1>3 DEF Next

LEMMA EmitReaches ==
  ASSUME IInv, Next, NEW e \in Emitters, NEW s \in Subs, pc[e] = "open", e \in emitting,
         emitted' # emitted, e \notin emitting', pc[s] = "open"
  PROVE  IF Room(s) THEN buf'[s] = Append(buf[s], emitted') ELSE buf'[s] = buf[s]
<1>1. PICK f \in Emitters : Emit(f)
  BY OnlyEmitCounts
<1>2. f = e
  BY <1>1 DEF Emit
<1>3. s \in sinks[at[e]]
  BY DEF IInv, Attachment, Subscribed, Counting, InUse
<1> QED
  BY <1>1, <1>2, <1>3 DEF Emit

-----------------------------------------------------------------------------
(* The inductive invariant holds of every state of the bus. *)
THEOREM InductiveInvariant == Spec => []IInv
BY InitIInv, NextIInv, PTL DEF Spec

(* Variables keep their types, counts and events in range (bus.go,         *)
(* subscription.go).                                                       *)
THEOREM TypeCorrect == Spec => []BusTypeOK
<1>1. IInv => BusTypeOK
  BY DEF IInv
<1> QED
  BY InductiveInvariant, <1>1, PTL

(* However subscribing, replaying, emitting and closing cross, a           *)
(* subscriber sees events in the order of their emission and once each     *)
(* (bus.go, Subscribe and emit).                                           *)
THEOREM InOrderHolds == Spec => []InOrder
<1>1. IInv => InOrder
  BY DEF IInv
<1> QED
  BY InductiveInvariant, <1>1, PTL

(* A subscription is in no node's list before it has entered its node and  *)
(* from the moment it is removed: nothing is sent on its channel once that *)
(* is closed, which would panic (subscription.go, Close).                  *)
ClosedHearNothing ==
  \A n \in Nodes, s \in Subs : pc[s] \in {"none", "found", "inside", "removed"} => s \notin sinks[n]

(* No emission meets a closed channel (bus.go, emit and removeSub). *)
THEOREM ClosedHearNothingHolds == Spec => []ClosedHearNothing
<1>1. IInv => ClosedHearNothing
  BY DEF IInv, Attachment, Subscribed, ClosedHearNothing
<1> QED
  BY InductiveInvariant, <1>1, PTL

(* No node stays registered that nobody uses or is about to (bus.go,       *)
(* tryDropNode).                                                           *)
THEOREM NodeNeededHolds == Spec => []NodeNeeded
<1>1. IInv => NodeNeeded
  BY DEF IInv
<1> QED
  BY InductiveInvariant, <1>1, PTL

(* An open emitter and an open subscription are always on the same node,   *)
(* so an emission reaches every subscription with room (bus.go, withNode). *)
THEOREM EmitReachesAllHolds == Spec => EmitReachesAll
<1>1. IInv /\ [Next]_vars =>
        [\A e \in Emitters, s \in Subs :
           pc[e] = "open" /\ e \in emitting /\ emitted' # emitted /\ e \notin emitting' /\ pc[s] = "open" =>
             IF Room(s) THEN buf'[s] = Append(buf[s], emitted') ELSE buf'[s] = buf[s]]_vars
  BY EmitReaches
<1> QED
  BY InductiveInvariant, <1>1, PTL DEF Spec, EmitReachesAll

-----------------------------------------------------------------------------
(* The locks *)

AtBus == {"found", "refound", "checking"}
InNode == {"inside", "replay", "back"}

(* Who holds a lock is on the way from taking it to letting go of it, and  *)
(* an emitter that emits has not begun anew.                               *)
Holders ==
  /\ mu # Nobody => pc[mu] \in AtBus
  /\ \A n \in Nodes : lk[n] # Nobody => pc[lk[n]] \in InNode /\ at[lk[n]] = n
  /\ \A e \in emitting : pc[e] \notin InNode \cup {"found", "refound"}

(* A step of one caller: the locks it takes or keeps fit the stage that it *)
(* goes to.                                                                *)
LEMMA StepHolders ==
  ASSUME BusTypeOK, Holders, NEW a \in Callers, NEW stage \in SubStages, Goto(a, stage),
         \A b \in Callers \ {a} : at'[b] = at[b],
         mu' \in {mu, a, Nobody}, mu' = a => stage \in AtBus,
         \A n \in Nodes : lk'[n] \in {lk[n], a, Nobody},
         \A n \in Nodes : lk'[n] = a => stage \in InNode /\ at'[a] = n,
         emitting' \subseteq emitting,
         a \in emitting => stage \notin InNode \cup {"found", "refound"}
  PROVE  Holders'
<1>1. \A b \in Callers : pc'[b] = IF b = a THEN stage ELSE pc[b]
  BY DEF Goto, BusTypeOK
<1>2. mu' # Nobody => pc'[mu'] \in AtBus
  BY <1>1 DEF Holders, BusTypeOK
<1>3. ASSUME NEW n \in Nodes, lk'[n] # Nobody
      PROVE  pc'[lk'[n]] \in InNode /\ at'[lk'[n]] = n
  <2>1. CASE lk'[n] = a
    BY <1>1, <2>1
  <2>2. CASE lk'[n] # a
    <3>1. lk'[n] = lk[n]
      BY <1>3, <2>2
    <3>2. lk[n] \in Callers /\ pc[lk[n]] \in InNode /\ at[lk[n]] = n
      BY <1>3, <3>1 DEF Holders, BusTypeOK
    <3> QED
      BY <1>1, <2>2, <3>1, <3>2
  <2> QED
    BY <2>1, <2>2
<1>4. ASSUME NEW e \in emitting'
      PROVE  pc'[e] \notin InNode \cup {"found", "refound"}
  <2>1. e \in emitting /\ e \in Callers
    BY DEF BusTypeOK, Callers
  <2> QED
    BY <1>1, <2>1 DEF Holders
<1> QED
  BY <1>2, <1>3, <1>4 DEF Holders

LEMMA NextHolders ==
  ASSUME IInv, Holders, [Next]_vars
  PROVE  Holders'
<1> USE DEF SubStages
<1>0. /\ BusTypeOK /\ Locking /\ Nobody \notin Callers
      /\ lk \in [Nodes -> Callers \cup {Nobody}]
      /\ at \in [Callers -> Nodes \cup {NoNode}] /\ pc \in [Callers -> SubStages]
  BY CallersAssumption DEF IInv, BusTypeOK
<1>1. \A a \in Callers, n \in Nodes : lk[n] = a => pc[a] \in InNode /\ at[a] = n
  BY <1>0 DEF Holders
<1>2. \A a \in Callers : mu = a => pc[a] \in AtBus
  BY <1>0 DEF Holders
<1>3. ASSUME NEW a \in Callers, FindNode(a)
      PROVE  Holders'
  <2>1. \A n \in Nodes : lk'[n] # a
    BY <1>1, <1>3 DEF FindNode, InNode
  <2>2. \A b \in Callers \ {a} : at'[b] = at[b]
    BY <1>0, <1>3 DEF FindNode
  <2> QED
    BY <1>0, <1>3, <2>1, <2>2, StepHolders DEF FindNode, AtBus, InNode
<1>4. ASSUME NEW a \in Callers, EnterNode(a)
      PROVE  Holders'
  <2> DEFINE stage == IF pc[a] = "found" THEN "inside" ELSE "back"
  <2>1. at[a] \in Nodes
    BY <1>0, <1>4, CallersAssumption DEF EnterNode, Locking, IInv, BusTypeOK
  <2>2. \A n \in Nodes : lk'[n] = IF n = at[a] THEN a ELSE lk[n]
    BY <1>0, <1>4, <2>1 DEF EnterNode
  <2>3. \A n \in Nodes : lk'[n] = a => at[a] = n
    BY <1>1, <2>2
  <2>4. stage \in InNode /\ stage \in SubStages /\ Goto(a, stage)
    BY <1>4 DEF EnterNode, InNode
  <2>5. mu' = Nobody /\ UNCHANGED <<at, emitting>> /\ pc[a] \in {"found", "refound"}
    BY <1>4 DEF EnterNode
  <2>6. a \notin emitting
    BY <2>5 DEF Holders
  <2> QED
    BY <1>0, <2>2, <2>3, <2>4, <2>5, <2>6, StepHolders
<1>5. ASSUME NEW a \in Callers, LockBus(a)
      PROVE  Holders'
  <2>1. \A n \in Nodes : lk'[n] # a
    BY <1>1, <1>5 DEF LockBus, InNode
  <2> QED
    BY <1>0, <1>5, <2>1, StepHolders DEF LockBus, AtBus, InNode
<1>6. ASSUME NEW a \in Callers, DropNode(a)
      PROVE  Holders'
  <2>1. \A n \in Nodes : lk'[n] # a
    BY <1>1, <1>6 DEF DropNode, InNode
  <2>2. Dropped(a) \in {"removed", "none"}
    BY DEF Dropped
  <2> QED
    BY <1>0, <1>6, <2>1, <2>2, StepHolders DEF DropNode, AtBus, InNode
<1>7. ASSUME NEW s \in Subs, AddSink(s)
      PROVE  Holders'
  <2>1. s \in Callers /\ pc[s] = "inside" /\ mu' # s /\ s \notin emitting
    BY <1>0, <1>2, <1>7 DEF AddSink, locks, AtBus, InNode, Callers, Holders
  <2> QED
    BY <1>0, <1>1, <1>7, <2>1, StepHolders DEF AddSink, locks, InNode
<1>8. ASSUME NEW s \in Subs, Replay(s) \/ RemoveSink(s)
      PROVE  Holders'
  <2> DEFINE stage == pc'[s]
  <2>1. s \in Callers /\ pc[s] \in InNode /\ mu' # s /\ s \notin emitting
    BY <1>0, <1>2, <1>8 DEF Replay, RemoveSink, AtBus, InNode, Callers, Holders
  <2>2. \A n \in Nodes : lk'[n] \in {lk[n], Nobody} /\ lk'[n] # s
    BY <1>0, <1>1, <1>8, <2>1 DEF Replay, RemoveSink, Unlock
  <2>3. \A b \in Callers \ {s} : at'[b] = at[b]
    BY <1>0, <1>8 DEF Replay, RemoveSink
  <2>4. stage \in {"open", "dropping", "removed"} /\ Goto(s, stage)
    BY <1>0, <1>8, <2>1 DEF Replay, RemoveSink, Goto
  <2>5. UNCHANGED <<mu, emitting>>
    BY <1>8 DEF Replay, RemoveSink
  <2> QED
    BY <1>0, <2>1, <2>2, <2>3, <2>4, <2>5, StepHolders DEF InNode
<1>9. ASSUME NEW e \in Emitters, AddEmitter(e)
      PROVE  Holders'
  <2>1. e \in Callers /\ pc[e] = "inside" /\ mu' # e /\ e \notin emitting
    BY <1>0, <1>2, <1>9 DEF AddEmitter, AtBus, InNode, Callers, Holders
  <2>2. \A n \in Nodes : lk'[n] \in {lk[n], Nobody} /\ lk'[n] # e
    BY <1>0, <1>1, <1>9, <2>1 DEF AddEmitter, Unlock
  <2> QED
    BY <1>0, <1>9, <2>1, <2>2, StepHolders DEF AddEmitter, InNode
<1>10. ASSUME NEW s \in Subs, Unsubscribe(s) \/ CloseChannel(s)
       PROVE  Holders'
  <2> DEFINE stage == IF pc[s] = "open" THEN "closing" ELSE "none"
  <2>1. s \in Callers /\ pc[s] \in {"open", "removed"} /\ mu' # s
    BY <1>0, <1>2, <1>10 DEF Unsubscribe, CloseChannel, locks, AtBus, Callers
  <2>2. \A n \in Nodes : lk'[n] = lk[n] /\ lk'[n] # s
    BY <1>1, <1>10, <2>1 DEF Unsubscribe, CloseChannel, locks, InNode
  <2>3. stage \in {"closing", "none"} /\ Goto(s, stage) /\ UNCHANGED <<mu, at, emitting>>
    BY <1>10 DEF Unsubscribe, CloseChannel, locks
  <2> QED
    BY <1>0, <2>1, <2>2, <2>3, StepHolders DEF InNode
<1>11. ASSUME NEW e \in Emitters, CloseEmitter(e) \/ ReleaseNode(e)
       PROVE  Holders'
  <2> DEFINE stage == pc'[e]
  <2>1. e \in Callers /\ pc[e] \in {"open", "closing"} /\ mu' # e
    BY <1>0, <1>2, <1>11 DEF CloseEmitter, ReleaseNode, locks, AtBus, Callers
  <2>2. \A n \in Nodes : lk'[n] = lk[n] /\ lk'[n] # e
    BY <1>1, <1>11, <2>1 DEF CloseEmitter, ReleaseNode, locks, InNode
  <2>3. stage \in {"closing", "dropping", "none"} /\ Goto(e, stage) /\ UNCHANGED <<mu, at, emitting>>
    BY <1>0, <1>11, <2>1 DEF CloseEmitter, ReleaseNode, locks, Goto
  <2> QED
    BY <1>0, <2>1, <2>2, <2>3, StepHolders DEF InNode
<1>12. ASSUME NEW s \in Subs, FindNodeToLeave(s)
       PROVE  Holders'
  <2> DEFINE stage == pc'[s]
  <2>1. s \in Callers /\ pc[s] = "closing" /\ mu = Nobody /\ s \notin emitting
    BY <1>12, CallersAssumption DEF FindNodeToLeave, Callers, IInv, BusTypeOK
  <2>2. \A n \in Nodes : lk'[n] = lk[n] /\ lk'[n] # s
    BY <1>1, <1>12, <2>1 DEF FindNodeToLeave, InNode
  <2>3. /\ (stage = "removed" /\ mu' = mu) \/ (stage = "refound" /\ mu' = s)
        /\ Goto(s, stage) /\ emitting' = emitting
        /\ \A b \in Callers \ {s} : at'[b] = at[b]
    BY <1>0, <1>12, <2>1 DEF FindNodeToLeave, Goto
  <2>4. stage \in SubStages /\ mu' \in {mu, s, Nobody} /\ (mu' = s => stage \in AtBus)
    BY <1>0, <2>1, <2>3 DEF AtBus
  <2> QED
    BY <1>0, <2>1, <2>2, <2>3, <2>4, StepHolders
<1>13. ASSUME NEW e \in Emitters, BeginEmit(e)
       PROVE  Holders'
  BY <1>13 DEF BeginEmit, locks, Holders, InNode
<1>14. ASSUME NEW e \in Emitters, Emit(e)
       PROVE  Holders'
  BY <1>14 DEF Emit, locks, Holders
<1>15. ASSUME NEW s \in Subs, Receive(s)
       PROVE  Holders'
  BY <1>15 DEF Receive, calls, locks, Holders
<1>16. CASE UNCHANGED vars
  BY <1>16 DEF vars, calls, locks, Holders
<1> QED
  BY <1>3, <1>4, <1>5, <1>6, <1>7, <1>8, <1>9, <1>10, <1>11, <1>12, <1>13, <1>14, <1>15, <1>16
  DEF Next

(* Whoever waits for a lock waits for the holder of the bus's lock, who    *)
(* waits for the holder of a node's lock at most, who waits for nobody:    *)
(* the bus cannot deadlock (bus.go, withNode, removeSub and tryDropNode),  *)
(* however many subscribe, emit and close at once.                         *)
THEOREM LockChainsEndHolds == Spec => []LockChainsEnd
<1>1. Init => Holders
  BY DEF Init, Holders, Callers
<1>2. IInv /\ Holders /\ [Next]_vars => Holders'
  BY NextHolders
<1>3. IInv /\ Holders => LockChainsEnd
  <2> SUFFICES ASSUME IInv, Holders, NEW a \in Callers, NEW b \in Callers, NEW c \in Callers,
                      NEW d \in Callers, Waits(a, b), Waits(b, c), Waits(c, d)
               PROVE  FALSE
    BY DEF LockChainsEnd
  <2>1. Nobody \notin Callers /\ \A x \in Callers : x \in emitting => at[x] \in Nodes
    BY CallersAssumption DEF IInv, Emitting
  <2>2. \A x \in Callers : pc[x] \in {"found", "refound"} => at[x] \in Nodes
    BY DEF IInv, Locking, BusTypeOK
  <2>3. \A x, y \in Callers : Waits(x, y) => mu = y \/ (\E n \in Nodes : lk[n] = y)
    BY <2>1, <2>2 DEF Waits, IInv, BusTypeOK
  <2>4. \A y \in Callers : mu = y => pc[y] \in AtBus
    BY <2>1 DEF Holders
  <2>5. \A y \in Callers, n \in Nodes : lk[n] = y => pc[y] \in InNode /\ y \notin emitting
    BY <2>1 DEF Holders
  <2>6. \A y, z \in Callers : pc[y] \in InNode /\ y \notin emitting => ~Waits(y, z)
    BY DEF Waits, InNode
  <2>7. \A x, y, z \in Callers : Waits(x, y) /\ Waits(y, z) => mu = y
    BY <2>3, <2>5, <2>6
  <2>8. mu = b /\ mu = c
    BY <2>7
  <2>9. Waits(b, b) /\ pc[b] \in AtBus
    BY <2>4, <2>8
  <2>10. \E n \in Nodes : lk[n] = b
    BY <2>1, <2>2, <2>9 DEF Waits, AtBus, IInv, BusTypeOK
  <2> QED
    BY <2>5, <2>9, <2>10 DEF AtBus, InNode
<1> QED
  BY <1>1, <1>2, <1>3, InductiveInvariant, PTL DEF Spec
===============================================================================
