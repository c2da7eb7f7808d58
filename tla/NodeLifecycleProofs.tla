------------------------ MODULE NodeLifecycleProofs ------------------------
(***************************************************************************)
(* The safety of a node's life, for any number of starts and of callers of *)
(* WaitReady, with waits that run out of time or do not.                   *)
(*                                                                         *)
(* A node that is started with its lock free has been through phase A6     *)
(* (Begun), so JoinRealm finds it there.  An active realm is the node's    *)
(* and the manager's (Held), so the Close that finds a node joined ends    *)
(* it, and nothing can start one afterwards (Ended); but for a realm that  *)
(* a hook is closing whose stop ran out of time (Orphaned).  The           *)
(* application counts what runs, unless a stop was cut, and has counted    *)
(* down to nothing whenever a node that is not started has its lock free   *)
(* (Halted), with the hook that runs its last or left behind (Hooked).     *)
(***************************************************************************)
EXTENDS NodeLifecycle, TLAPS

Begun ==
  /\ started => \/ holder = "gate"
                \/ holder \in {"free", "stop", "leave", "shutdown"} /\ phase >= A6
  /\ holder = "gate" => started

Joining == joined \/ active \/ joining # "none" \/ provided

(* The manager's hook runs, and no operation waits for it. *)
Orphaned == cut /\ hook = Realms

Held == active => current /\ Realms \in running /\ (joined \/ Orphaned)

Ended ==
  /\ closed => holder = "free" /\ ~started
  /\ holder = "leave" => ~active \/ Orphaned
  /\ phase >= D2 => (~active \/ Orphaned) /\ (closed \/ holder = "shutdown")

Halted ==
  /\ holder \in {"free", "leave"} /\ ~started => counted = 0
  /\ ~cut => running \subseteq 1 .. counted

Hooked ==
  hook # NoHook => \/ counted = hook /\ holder \in Stopping
                   \/ counted = 0 /\ cut

Order == Begun /\ (Joining => phase >= A6) /\ Held /\ Ended /\ Halted /\ Hooked

IInv == NodeTypeOK /\ Order

Phases == {A1, A2, A4, A6, C, D1, D4}

(* The types, by the groups in which the variables change. *)
NodeTypes ==
  /\ holder \in {"free", "leave"} \cup Starting \cup Stopping
  /\ started \in BOOLEAN /\ closed \in BOOLEAN /\ joined \in BOOLEAN
  /\ starts \in 0 .. MaxStarts

AppTypes ==
  /\ phase \in 0 .. D4 /\ cancelled \in BOOLEAN
  /\ running \subseteq Hooks /\ counted \in 0 .. 5
  /\ spent \subseteq {NAT, Relay, Realms}
  /\ hook \in Hooks \cup {NoHook} /\ cut \in BOOLEAN

RealmTypes == registered \in BOOLEAN /\ current \in BOOLEAN /\ active \in BOOLEAN

RecordTypes ==
  /\ publisher \in [1 .. MaxStarts -> {"none", "bootstrap", "gate", "publish", "done"}]
  /\ joining \in {"none", "gate", "publish", "done"}
  /\ published \in BOOLEAN /\ provided \in BOOLEAN

WaitTypes ==
  /\ level \in 0 .. RealmReady
  /\ waiter \in [Waiters -> {"idle", "parked", "woken", "reached", "cancelled"}]
  /\ helper \in [Waiters -> {"none", "waiting", "done"}]
  /\ done \subseteq Waiters

-----------------------------------------------------------------------------
(* What the operations share. *)

LEMMA Initially == Init => IInv
<1> SUFFICES ASSUME Init PROVE IInv
  OBVIOUS
<1>1. NodeTypeOK
  <2>1. /\ waiter \in [Waiters -> {"idle", "parked", "woken", "reached", "cancelled"}]
        /\ helper \in [Waiters -> {"none", "waiting", "done"}]
    BY DEF Init
  <2>2. level \in 0 .. RealmReady /\ starts \in 0 .. MaxStarts /\ phase \in 0 .. D4 /\ counted \in 0 .. 5
    BY NodeAssumption DEF Init, RealmReady, D4
  <2>3. publisher \in [1 .. MaxStarts -> {"none", "bootstrap", "gate", "publish", "done"}]
    BY DEF Init
  <2> QED
    BY <2>1, <2>2, <2>3 DEF Init, NodeTypeOK
<1>2. Order
  BY DEF Init, Order, Begun, Joining, Held, Ended, Halted, Hooked, A6, D2, Hooks
<1> QED
  BY <1>1, <1>2 DEF IInv

LEMMA TypesByGroup ==
  NodeTypeOK <=> NodeTypes /\ AppTypes /\ RealmTypes /\ RecordTypes /\ WaitTypes
BY DEF NodeTypeOK, NodeTypes, AppTypes, RealmTypes, RecordTypes, WaitTypes

LEMMA NextTypesByGroup ==
  NodeTypes' /\ AppTypes' /\ RealmTypes' /\ RecordTypes' /\ WaitTypes' => NodeTypeOK'
BY DEF NodeTypeOK, NodeTypes, AppTypes, RealmTypes, RecordTypes, WaitTypes

LEMMA TypesKept ==
  ASSUME NodeTypeOK
  PROVE  /\ UNCHANGED node => NodeTypes'
         /\ UNCHANGED app => AppTypes'
         /\ UNCHANGED realm => RealmTypes'
         /\ UNCHANGED records => RecordTypes'
         /\ UNCHANGED <<level, waits>> => WaitTypes'
<1> USE TypesByGroup
<1>1. UNCHANGED node => NodeTypes'
  BY DEF NodeTypes, node
<1>2. UNCHANGED app => AppTypes'
  BY DEF AppTypes, app
<1>3. UNCHANGED realm => RealmTypes'
  BY DEF RealmTypes, realm
<1>4. UNCHANGED records => RecordTypes'
  BY DEF RecordTypes, records
<1>5. UNCHANGED <<level, waits>> => WaitTypes'
  BY DEF WaitTypes, waits
<1> QED
  BY <1>1, <1>2, <1>3, <1>4, <1>5

LEMMA PhaseGrows ==
  ASSUME NodeTypeOK, NEW p \in Phases, AdvanceTo(p)
  PROVE  /\ phase' \in 0 .. D4 /\ phase' >= phase /\ phase' >= p
         /\ phase' = phase \/ phase' = p
BY DEF NodeTypeOK, AdvanceTo, Phases, A1, A2, A4, A6, C, D1, D4

LEMMA BroadcastType ==
  ASSUME NodeTypeOK, Broadcast
  PROVE  waiter' \in [Waiters -> {"idle", "parked", "woken", "reached", "cancelled"}]
BY DEF NodeTypeOK, Broadcast, Woken

LEMMA LevelType ==
  ASSUME NodeTypeOK, NEW l \in 1 .. RealmReady, RaiseLevel(l)
  PROVE  /\ level' \in 0 .. RealmReady
         /\ waiter' \in [Waiters -> {"idle", "parked", "woken", "reached", "cancelled"}]
         /\ UNCHANGED <<helper, done>>
BY BroadcastType DEF NodeTypeOK, RaiseLevel, RealmReady

-----------------------------------------------------------------------------
(* Types, action by action. *)

LEMMA StartTypes ==
  ASSUME NodeTypeOK,
         \/ Start \/ Stop \/ StartFails \/ Initialized \/ Ready \/ StartUndone
         \/ \E h \in Hooks : StartHook(h) \/ CutStart(h)
  PROVE  NodeTypeOK'
<1> USE NodeAssumption DEF NodeTypeOK, Starting, Stopping, node, app, realm, records, waits
<1>1. CASE Start
  BY <1>1 DEF Start
<1>2. CASE Stop \/ StartFails \/ Initialized \/ Ready \/ StartUndone
  BY <1>2 DEF Stop, StartFails, Initialized, Ready, StartUndone, To
<1>3. ASSUME NEW h \in Hooks, StartHook(h) \/ CutStart(h)
      PROVE  NodeTypeOK'
  <2>1. phase' \in 0 .. D4
    BY <1>3, PhaseGrows DEF StartHook, CutStart, OnStart, Phases
  <2>2. publisher' \in [1 .. MaxStarts -> {"none", "bootstrap", "gate", "publish", "done"}]
    BY <1>3 DEF StartHook, CutStart, OnStart
  <2>3. counted' \in 0 .. 5 /\ holder' \in {"free", "init"}
    BY <1>3 DEF StartHook, CutStart, OnStart, Hooks
  <2>4. cut' \in BOOLEAN
    BY <1>3 DEF StartHook, CutStart
  <2>5. running' \subseteq Hooks
    BY <1>3 DEF StartHook, CutStart, OnStart
  <2> QED
    BY <1>3, <2>1, <2>2, <2>3, <2>4, <2>5 DEF StartHook, CutStart, OnStart
<1> QED
  BY <1>1, <1>2, <1>3

LEMMA PassTypes ==
  ASSUME NodeTypeOK, Listen \/ PassNAT \/ PassGate \/ JoinRealm
  PROVE  NodeTypeOK'
<1> SUFFICES NodeTypes' /\ AppTypes' /\ RealmTypes' /\ RecordTypes' /\ WaitTypes'
  BY NextTypesByGroup
<1> USE TypesByGroup, TypesKept
<1>1. phase' \in 0 .. D4
  BY PhaseGrows DEF Listen, PassNAT, PassGate, JoinRealm, Join, Phases
<1>2. AppTypes'
  BY <1>1 DEF Listen, PassNAT, PassGate, JoinRealm, Join, AppTypes
<1>3. WaitTypes'
  <2>1. \E l \in 1 .. RealmReady : RaiseLevel(l)
    BY DEF Listen, PassNAT, PassGate, JoinRealm, Join, Network, Discovered, Reachable, RealmReady
  <2> QED
    BY <2>1, LevelType DEF WaitTypes
<1>4. CASE Listen \/ PassNAT \/ PassGate
  <2>1. NodeTypes'
    BY <1>4 DEF Listen, PassNAT, PassGate, To, NodeTypes, Starting
  <2> QED
    BY <1>2, <1>3, <1>4, <2>1 DEF Listen, PassNAT, PassGate
<1>5. CASE JoinRealm
  <2>1. NodeTypes'
    BY <1>5 DEF JoinRealm, Join, NodeTypes
  <2>2. RealmTypes'
    BY <1>5 DEF JoinRealm, Join, RealmTypes
  <2>3. RecordTypes'
    BY <1>5 DEF JoinRealm, Join, RecordTypes
  <2> QED
    BY <1>2, <1>3, <2>1, <2>2, <2>3
<1> QED
  BY <1>4, <1>5

LEMMA StopTypes ==
  ASSUME NodeTypeOK, BeginHook \/ EndHook \/ EndLateHook \/ CutStop \/ Stopped \/ Close \/ Drain
  PROVE  NodeTypeOK'
<1> SUFFICES NodeTypes' /\ AppTypes' /\ RealmTypes' /\ RecordTypes' /\ WaitTypes'
  BY NextTypesByGroup
<1> USE TypesByGroup, TypesKept
<1>1. CASE EndHook \/ EndLateHook
  <2>1. HookReturns /\ counted' \in 0 .. 5
    BY <1>1 DEF EndHook, EndLateHook, AppTypes, Hooks, NoHook
  <2>2. AppTypes'
    <3>1. running' \subseteq Hooks /\ spent' \subseteq {NAT, Relay, Realms} /\ hook' = NoHook
      BY <2>1 DEF HookReturns, AppTypes
    <3>2. cancelled' \in BOOLEAN
      BY <2>1 DEF HookReturns, AppTypes
    <3> QED
      BY <2>1, <3>1, <3>2 DEF HookReturns, AppTypes
  <2>3. RealmTypes'
    BY <2>1 DEF HookReturns, RealmTypes, realm
  <2> QED
    BY <2>1, <2>2, <2>3 DEF HookReturns
<1>6. CASE BeginHook
  <2>1. AppTypes'
    BY <1>6 DEF BeginHook, AppTypes, Hooks
  <2> QED
    BY <1>6, <2>1 DEF BeginHook
<1>2. CASE CutStop
  <2>1. AppTypes'
    BY <1>2 DEF CutStop, AppTypes
  <2> QED
    BY <1>2, <2>1 DEF CutStop
<1>3. CASE Stopped
  <2>1. NodeTypes'
    BY <1>3 DEF Stopped, NodeTypes
  <2> QED
    BY <1>3, <2>1 DEF Stopped
<1>4. CASE Close
  <2>1. NodeTypes'
    BY <1>4 DEF Close, NodeTypes
  <2>2. AppTypes'
    BY <1>4, PhaseGrows DEF Close, AppTypes, Phases
  <2>3. RealmTypes'
    BY <1>4 DEF Close, RealmTypes
  <2> QED
    BY <1>4, <2>1, <2>2, <2>3 DEF Close
<1>5. CASE Drain
  <2>1. NodeTypes'
    BY <1>5 DEF Drain, NodeTypes, Stopping
  <2>2. AppTypes'
    BY <1>5, PhaseGrows DEF Drain, AppTypes, Phases
  <2> QED
    BY <1>5, <2>1, <2>2 DEF Drain
<1> QED
  BY <1>1, <1>2, <1>3, <1>4, <1>5, <1>6

(* What no operation of the node's lock does. *)
Aside ==
  \/ Signal \/ LeaveRealm \/ RealmLeave
  \/ \E i \in 1 .. MaxStarts : Bootstrap(i) \/ PublisherPasses(i) \/ Publish(i)
  \/ Republish \/ JoinPasses \/ JoinPublishes
  \/ \E w \in Waiters : WaitReady(w) \/ ContextDone(w) \/ Helper(w) \/ Wake(w)
  \/ UNCHANGED vars

LEMMA AsideTypes ==
  ASSUME NodeTypeOK, Aside
  PROVE  NodeTypeOK'
<1> SUFFICES NodeTypes' /\ AppTypes' /\ RealmTypes' /\ RecordTypes' /\ WaitTypes'
  BY NextTypesByGroup
<1> USE TypesByGroup, TypesKept
<1>1. CASE Signal \/ UNCHANGED vars
  BY <1>1 DEF Signal, vars
<1>2. CASE LeaveRealm
  <2>1. NodeTypes' /\ RealmTypes'
    BY <1>2 DEF LeaveRealm, NodeTypes, RealmTypes
  <2> QED
    BY <1>2, <2>1 DEF LeaveRealm
<1>3. CASE RealmLeave
  <2>1. RealmTypes'
    BY <1>3 DEF RealmLeave, RealmTypes
  <2> QED
    BY <1>3, <2>1 DEF RealmLeave
<1>4. CASE Republish \/ JoinPasses \/ JoinPublishes
  <2>1. RecordTypes'
    <3>1. CASE Republish \/ JoinPasses
      BY <3>1 DEF Republish, JoinPasses, RecordTypes
    <3>2. CASE JoinPublishes
      <4>1. provided' = FALSE \/ provided' = (DHT \in running)
        BY <3>2 DEF JoinPublishes
      <4>2. (DHT \in running) \in BOOLEAN
        OBVIOUS
      <4>3. provided' \in BOOLEAN
        BY ONLY <4>1, <4>2
      <4> QED
        BY <3>2, <4>3 DEF JoinPublishes, RecordTypes
    <3> QED
      BY <1>4, <3>1, <3>2
  <2> QED
    BY <1>4, <2>1 DEF Republish, JoinPasses, JoinPublishes
<1>7. ASSUME NEW i \in 1 .. MaxStarts, Bootstrap(i) \/ PublisherPasses(i) \/ Publish(i)
      PROVE  NodeTypes' /\ AppTypes' /\ RealmTypes' /\ RecordTypes' /\ WaitTypes'
  <2>1. PICK from, to \in {"bootstrap", "gate", "publish", "done"} : Publisher(i, from, to)
    BY <1>7 DEF Bootstrap, PublisherPasses, Publish
  <2>2. publisher' \in [1 .. MaxStarts -> {"none", "bootstrap", "gate", "publish", "done"}]
    BY <2>1 DEF Publisher, RecordTypes
  <2>3. published' \in BOOLEAN
    BY <1>7 DEF Bootstrap, PublisherPasses, Publish, RecordTypes
  <2>4. RecordTypes'
    BY <2>1, <2>2, <2>3 DEF Publisher, RecordTypes
  <2> QED
    BY <2>1, <2>4 DEF Publisher
<1>5. ASSUME NEW w \in Waiters, WaitReady(w) \/ ContextDone(w) \/ Wake(w)
      PROVE  NodeTypes' /\ AppTypes' /\ RealmTypes' /\ RecordTypes' /\ WaitTypes'
  <2>1. WaitTypes'
    BY <1>5 DEF WaitReady, ContextDone, Wake, Settle, WaitTypes
  <2> QED
    BY <1>5, <2>1 DEF WaitReady, ContextDone, Wake
<1>6. ASSUME NEW w \in Waiters, Helper(w)
      PROVE  NodeTypes' /\ AppTypes' /\ RealmTypes' /\ RecordTypes' /\ WaitTypes'
  <2>1. WaitTypes'
    BY <1>6, BroadcastType DEF Helper, WaitTypes
  <2> QED
    BY <1>6, <2>1 DEF Helper
<1> QED
  BY <1>1, <1>2, <1>3, <1>4, <1>5, <1>6, <1>7 DEF Aside

-----------------------------------------------------------------------------
(* The order of a node's life, action by action. *)

LEMMA StartOrder ==
  ASSUME IInv,
         \/ Start \/ Stop \/ StartFails \/ Initialized \/ Ready \/ StartUndone
         \/ \E h \in Hooks : StartHook(h) \/ CutStart(h)
  PROVE  Order'
<1> USE DEF IInv, Order, Begun, Joining, Orphaned, Held, Ended, Halted, Hooked, Stopping, NoHook,
     node, app, realm, records, A6, D2
<1>1. CASE Start
  BY <1>1 DEF Start, NodeTypeOK
<1>2. CASE Stop \/ StartFails \/ Initialized \/ Ready \/ StartUndone
  BY <1>2 DEF Stop, StartFails, Initialized, Ready, StartUndone, To
<1>3. ASSUME NEW h \in Hooks, StartHook(h) \/ CutStart(h)
      PROVE  Order'
  <2>1. phase' = phase \/ (phase' = A1 /\ phase < A1)
    BY <1>3, PhaseGrows DEF StartHook, CutStart, OnStart, NodeTypeOK, Phases, A1
  <2>2. holder = "init" /\ ~started /\ ~closed /\ phase < D2 /\ hook = NoHook
    BY <1>3 DEF StartHook, CutStart, OnStart, NodeTypeOK, D4, Starting, Stopping
  <2>3. ~cut' => running' \subseteq 1 .. counted'
    <3>1. CASE CutStart(h)
      BY <3>1 DEF CutStart
    <3>2. CASE StartHook(h)
      <4>1. ~cut => running \subseteq 1 .. counted
        OBVIOUS
      <4>2. /\ cut' = cut /\ counted' = counted + 1 /\ counted \in Nat
            /\ running' = running \cup {counted + 1}
        BY <3>2 DEF StartHook, OnStart, NodeTypeOK
      <4> QED
        BY ONLY <4>1, <4>2
    <3> QED
      BY <1>3, <3>1, <3>2
  <2>4. /\ holder' \in {"init", "free"} /\ (holder' = "free" => counted' = 0)
        /\ Realms \in running => Realms \in running'
        /\ UNCHANGED <<started, closed, joined, hook, realm, joining, provided>>
    BY <1>3 DEF StartHook, CutStart, OnStart
  <2>5. Begun' /\ Halted' /\ Hooked'
    BY ONLY <2>2, <2>3, <2>4 DEF Begun, Halted, Hooked
  <2>6. Held /\ (Joining => phase >= A6) /\ phase \in 0 .. D4
    BY DEF NodeTypeOK
  <2>7. Held' /\ Ended' /\ (Joining' => phase' >= A6)
    BY ONLY <2>1, <2>2, <2>4, <2>6
    DEF Held, Orphaned, Ended, Joining, A1, A6, D2, D4, Realms, NoHook, realm
  <2> QED
    BY ONLY <2>5, <2>7 DEF Order
<1> QED
  BY <1>1, <1>2, <1>3

LEMMA PassOrder ==
  ASSUME IInv, Listen \/ PassNAT \/ PassGate \/ JoinRealm
  PROVE  Order'
<1> USE DEF IInv, Order, Begun, Joining, Orphaned, Held, Ended, Halted, Hooked, Stopping, NoHook,
     realm, records, A6, D2
<1>1. phase < D2 /\ phase \in 0 .. D4
  BY DEF Listen, PassNAT, PassGate, JoinRealm, Join, NodeTypeOK, D4
<1>2. CASE Listen \/ PassNAT
  BY <1>1, <1>2, PhaseGrows DEF Listen, PassNAT, To, Phases, A2, A4, D4
<1>3. CASE PassGate
  <2>1. phase' >= A6 /\ phase' < D2 /\ phase' \in 0 .. D4
    BY <1>1, <1>3, PhaseGrows DEF PassGate, Phases, D4
  <2>2. holder = "gate" /\ holder' = "free" /\ ~closed
    BY <1>3 DEF PassGate, To
  <2>3. started
    BY <1>3 DEF PassGate
  <2> QED
    BY <1>3, <2>1, <2>2, <2>3 DEF PassGate, To
<1>4. CASE JoinRealm
  BY <1>1, <1>4, PhaseGrows DEF JoinRealm, Join, ManagerStarted, Phases, C, D4
<1> QED
  BY <1>2, <1>3, <1>4

LEMMA StopOrder ==
  ASSUME IInv, BeginHook \/ EndHook \/ EndLateHook \/ CutStop \/ Stopped \/ Close \/ Drain
  PROVE  Order'
<1> USE DEF IInv, Order, Begun, Joining, Orphaned, Held, Ended, Halted, Hooked, Stopping, NoHook,
     node, app, realm, records, A6, D2
<1>1. CASE EndHook \/ EndLateHook
  <2>1. ~cut => running' \subseteq 1 .. counted'
    <3>1. CASE EndHook
      <4>1. ~cut => running \subseteq 1 .. counted
        OBVIOUS
      <4>2. running' = running \ {counted} /\ counted' = counted - 1 /\ counted \in Nat
        BY <3>1 DEF EndHook, HookReturns, NodeTypeOK
      <4> QED
        BY ONLY <4>1, <4>2
    <3>2. CASE EndLateHook
      BY <3>2 DEF EndLateHook
    <3> QED
      BY <1>1, <3>1, <3>2
  <2>2. HookReturns /\ (counted = 0 => counted' = 0)
    BY <1>1 DEF EndHook, EndLateHook
  <2>3. hook' = NoHook /\ UNCHANGED <<node, phase, cut, joining, provided>>
    BY <2>2 DEF HookReturns
  <2>4. CASE hook = Realms
    <3>1. ~active'
      BY <2>2, <2>4 DEF HookReturns
    <3> QED
      BY <2>1, <2>2, <2>3, <3>1
  <2>5. CASE hook # Realms
    <3>1. UNCHANGED realm /\ running' = running \ {hook}
      BY <2>2, <2>5 DEF HookReturns
    <3> QED
      BY <2>1, <2>2, <2>3, <2>5, <3>1
  <2> QED
    BY <2>4, <2>5
<1>6. CASE BeginHook
  <2>1. hook = NoHook /\ hook' = counted /\ holder \in Stopping
        /\ UNCHANGED <<node, phase, running, counted, cut, realm, joining, provided>>
    BY <1>6 DEF BeginHook
  <2>2. ~Orphaned
    BY <2>1 DEF Realms
  <2> QED
    BY <2>1, <2>2
<1>2. CASE CutStop
  BY <1>2 DEF CutStop, Stopping
<1>3. CASE Stopped
  BY <1>3 DEF Stopped, Stopping
<1>4. CASE Close
  <2>1. phase < D2 /\ phase \in 0 .. D4
    BY <1>4 DEF Close, NodeTypeOK, D4
  <2>2. ~active' \/ Orphaned'
    BY <1>4 DEF Close, CanLeave, ManagerStarted, NodeTypeOK, Stopping, Realms, NoHook
  <2> QED
    BY <1>4, <2>1, <2>2, PhaseGrows DEF Close, Phases, D1, D4
<1>5. CASE Drain
  <2>1. phase' >= A6 /\ holder = "leave" /\ (~active' \/ Orphaned')
    BY <1>5, PhaseGrows DEF Drain, Phases, D4, NodeTypeOK
  <2>2. CASE started
    BY <1>5, <2>1, <2>2 DEF Drain
  <2>3. CASE ~started
    BY <1>5, <2>1, <2>3 DEF Drain
  <2> QED
    BY <2>2, <2>3
<1> QED
  BY <1>1, <1>2, <1>3, <1>4, <1>5, <1>6

LEMMA AsideOrder ==
  ASSUME IInv, Aside
  PROVE  Order'
<1> USE DEF IInv, Order, Begun, Joining, Orphaned, Held, Ended, Halted, Hooked, Stopping, NoHook,
     node, app, realm, records
<1>1. CASE Signal \/ LeaveRealm \/ RealmLeave \/ UNCHANGED vars
  BY <1>1 DEF Signal, LeaveRealm, RealmLeave, vars
<1>2. CASE Republish \/ \E i \in 1 .. MaxStarts : Bootstrap(i) \/ PublisherPasses(i) \/ Publish(i)
  <2>1. UNCHANGED <<node, app, realm, joining, provided>>
    BY <1>2 DEF Bootstrap, PublisherPasses, Publish, Publisher, Republish
  <2> QED
    BY <2>1
<1>4. CASE JoinPasses \/ JoinPublishes
  <2>1. joining # "none" /\ UNCHANGED <<node, app, realm>>
    BY <1>4 DEF JoinPasses, JoinPublishes
  <2> QED
    BY <2>1
<1>3. ASSUME NEW w \in Waiters, WaitReady(w) \/ ContextDone(w) \/ Helper(w) \/ Wake(w)
      PROVE  Order'
  BY <1>3 DEF WaitReady, ContextDone, Helper, Wake
<1> QED
  BY <1>1, <1>2, <1>3, <1>4 DEF Aside

LEMMA Steps ==
  ASSUME [Next]_vars
  PROVE  \/ Start \/ Stop \/ StartFails \/ Initialized \/ Ready \/ StartUndone
         \/ \E h \in Hooks : StartHook(h) \/ CutStart(h)
         \/ Listen \/ PassNAT \/ PassGate \/ JoinRealm
         \/ BeginHook \/ EndHook \/ EndLateHook \/ CutStop \/ Stopped \/ Close \/ Drain
         \/ Aside
BY DEF Next, Operation, Aside

-----------------------------------------------------------------------------
(* Through every execution of a node its phases, its realm and what runs   *)
(* agree with who holds n.mu.                                              *)
THEOREM InductiveInvariant == Spec => []IInv
<1>1. IInv /\ [Next]_vars => IInv'
  <2> SUFFICES ASSUME IInv, [Next]_vars PROVE IInv'
    OBVIOUS
  <2>1. NodeTypeOK'
    BY Steps, StartTypes, PassTypes, StopTypes, AsideTypes DEF IInv
  <2>2. Order'
    BY Steps, StartOrder, PassOrder, StopOrder, AsideOrder
  <2> QED
    BY <2>1, <2>2 DEF IInv
<1> QED
  BY <1>1, Initially, PTL DEF Spec

(* The node keeps its types; the count of the started hooks never goes     *)
(* below zero.                                                             *)
THEOREM TypeCorrect == Spec => []NodeTypeOK
<1>1. IInv => NodeTypeOK
  BY DEF IInv
<1> QED
  BY <1>1, InductiveInvariant, PTL

(* From the draining of connections on no realm is active                  *)
(* (node_lifecycle.go, D1 and D2), however many starts and stops failed,   *)
(* but one that the hook of a stop out of time is still closing.           *)
THEOREM LeftBeforeDrainHolds == Spec => []LeftBeforeDrain
<1>1. IInv => LeftBeforeDrain
  BY DEF IInv, Order, Ended, Orphaned, LeftBeforeDrain
<1> QED
  BY <1>1, InductiveInvariant, PTL

(* After Close no component runs when no stop ran out of time              *)
(* (node_lifecycle.go, D4).                                                *)
THEOREM CloseReleasesHolds == Spec => []CloseReleases
<1>1. IInv => CloseReleases
  BY DEF IInv, Order, Ended, Halted, CloseReleases
<1> QED
  BY <1>1, InductiveInvariant, PTL

(* A node joins a realm, and a realm starts and publishes, only when phase *)
(* A6 has been reached before (node.go, JoinRealm; node_lifecycle.go,      *)
(* Start).                                                                 *)
THEOREM JoinedAfterReadyHolds == Spec => JoinedAfterReady
<1>1. IInv /\ [Next]_vars =>
        [joined' \/ active' \/ joining' # "none" \/ provided' => phase >= A6]_vars
  <2> SUFFICES ASSUME IInv, Next, Joining'
               PROVE  phase >= A6
    BY DEF Joining
  <2>1. CASE JoinRealm
    BY <2>1 DEF JoinRealm, Join, IInv, Order, Begun
  <2>2. CASE ~JoinRealm
    <3>1. CASE JoinPasses \/ JoinPublishes
      <4>1. joining # "none"
        BY <3>1 DEF JoinPasses, JoinPublishes
      <4> QED
        BY <4>1 DEF Joining, IInv, Order
    <3>2. CASE ~JoinPasses /\ ~JoinPublishes
      <4>1. /\ joined' => joined
            /\ active' => active
            /\ joining' = joining /\ provided' = provided
        BY <2>2, <3>2 DEF Next, Operation, Signal, Start, Stop, StartFails, Initialized, Ready,
             StartUndone, StartHook, CutStart, OnStart, Listen, PassNAT, PassGate, BeginHook, EndHook,
             EndLateHook, HookReturns, CutStop, Stopped, Close,
             Drain, LeaveRealm, RealmLeave, Bootstrap, PublisherPasses, Publish, Publisher, Republish,
             WaitReady, ContextDone, Helper, Wake, To, node, realm, records
      <4>2. Joining
        BY ONLY Joining', <4>1 DEF Joining
      <4> QED
        BY <4>2 DEF IInv, Order
    <3> QED
      BY <3>1, <3>2
  <2> QED
    BY <2>1, <2>2
<1> QED
  BY <1>1, InductiveInvariant, PTL DEF Spec, JoinedAfterReady

-----------------------------------------------------------------------------
(* Who waits in WaitReady: a caller whose context is not done has its      *)
(* helper waiting, parked or woken, and a parked one has missed no level.  *)
Listening ==
  \A w \in Waiters :
    /\ waiter[w] = "parked" => level < Wanted /\ helper[w] = "waiting"
    /\ waiter[w] = "woken" => w \in done \/ helper[w] = "waiting"

(* A broadcast parks nobody. *)
LEMMA WokenListen ==
  ASSUME Listening, NodeTypeOK, Broadcast, UNCHANGED <<helper, done>>
  PROVE  Listening'
<1> SUFFICES ASSUME NEW w \in Waiters
             PROVE  /\ waiter'[w] # "parked"
                    /\ waiter'[w] = "woken" => w \in done \/ helper[w] = "waiting"
  BY DEF Listening
<1>1. waiter'[w] = IF waiter[w] = "parked" THEN "woken" ELSE waiter[w]
  BY DEF Broadcast, Woken
<1> QED
  BY <1>1 DEF Listening

LEMMA RaiseListens ==
  ASSUME Listening, NodeTypeOK, NEW l \in Nat, RaiseLevel(l)
  PROVE  Listening'
<1>1. CASE l > level
  BY <1>1, WokenListen DEF RaiseLevel
<1>2. CASE ~(l > level)
  BY <1>2 DEF RaiseLevel, Listening
<1> QED
  BY <1>1, <1>2

LEMMA NextListening ==
  ASSUME Listening, NodeTypeOK, [Next]_vars
  PROVE  Listening'
<1>1. CASE Listen \/ PassNAT \/ PassGate \/ JoinRealm
  <2>1. \E l \in Nat : RaiseLevel(l)
    BY <1>1 DEF Listen, PassNAT, PassGate, JoinRealm, Join, Network, Discovered, Reachable, RealmReady
  <2> QED
    BY <2>1, RaiseListens
<1>2. ASSUME NEW w \in Waiters, WaitReady(w)
      PROVE  Listening'
  <2> SUFFICES ASSUME NEW v \in Waiters
               PROVE  /\ waiter'[v] = "parked" => level < Wanted /\ helper'[v] = "waiting"
                      /\ waiter'[v] = "woken" => v \in done \/ helper'[v] = "waiting"
    BY <1>2 DEF Listening, WaitReady
  <2>1. v # w => waiter'[v] = waiter[v] /\ helper'[v] = helper[v]
    BY <1>2 DEF WaitReady, Settle, NodeTypeOK
  <2>2. CASE v # w
    BY <2>1, <2>2 DEF Listening
  <2>3. CASE v = w
    <3>1. CASE level >= Wanted
      <4>1. waiter'[v] = "reached"
        BY <1>2, <2>3, <3>1 DEF WaitReady, Settle, NodeTypeOK
      <4> QED
        BY <4>1
    <3>2. CASE ~(level >= Wanted)
      <4>1. waiter'[v] \in {"cancelled", "parked"} /\ helper'[v] = "waiting"
        BY <1>2, <2>3, <3>2 DEF WaitReady, Settle, NodeTypeOK
      <4>2. level < Wanted
        BY <3>2, NodeAssumption DEF NodeTypeOK, RealmReady
      <4> QED
        BY <4>1, <4>2
    <3> QED
      BY <3>1, <3>2
  <2> QED
    BY <2>2, <2>3
<1>3. ASSUME NEW w \in Waiters, ContextDone(w)
      PROVE  Listening'
  BY <1>3 DEF ContextDone, Listening
<1>4. ASSUME NEW w \in Waiters, Helper(w)
      PROVE  Listening'
  <2> SUFFICES ASSUME NEW v \in Waiters
               PROVE  /\ waiter'[v] # "parked"
                      /\ waiter'[v] = "woken" => v \in done \/ helper'[v] = "waiting"
    BY <1>4 DEF Listening, Helper
  <2>1. waiter'[v] = IF waiter[v] = "parked" THEN "woken" ELSE waiter[v]
    BY <1>4 DEF Helper, Broadcast, Woken
  <2>2. v # w => helper'[v] = helper[v]
    BY <1>4 DEF Helper, NodeTypeOK
  <2>3. w \in done
    BY <1>4 DEF Helper
  <2> QED
    BY <2>1, <2>2, <2>3 DEF Listening
<1>5. ASSUME NEW w \in Waiters, Wake(w)
      PROVE  Listening'
  <2> SUFFICES ASSUME NEW v \in Waiters
               PROVE  /\ waiter'[v] = "parked" => level < Wanted /\ helper[v] = "waiting"
                      /\ waiter'[v] = "woken" => v \in done \/ helper[v] = "waiting"
    BY <1>5 DEF Listening, Wake
  <2>1. v # w => waiter'[v] = waiter[v]
    BY <1>5 DEF Wake, Settle, NodeTypeOK
  <2>2. waiter'[w] \in {"cancelled", "reached"}
        \/ (waiter'[w] = "parked" /\ w \notin done /\ ~(level >= Wanted))
    BY <1>5 DEF Wake, Settle, NodeTypeOK
  <2>3. waiter[w] = "woken" /\ level \in Int /\ Wanted \in Int
    BY <1>5, NodeAssumption DEF Wake, NodeTypeOK, RealmReady
  <2> QED
    BY <2>1, <2>2, <2>3 DEF Listening
<1>6. CASE UNCHANGED <<level, waits>>
  BY <1>6 DEF Listening, waits
<1> QED
  BY <1>1, <1>2, <1>3, <1>4, <1>5, <1>6
  DEF Next, Operation, Signal, Start, Stop, StartFails, Initialized, Ready, StartUndone, StartHook, CutStart, OnStart,
      BeginHook, EndHook, EndLateHook, HookReturns, CutStop, Stopped, Close, Drain, LeaveRealm, RealmLeave, Bootstrap,
      PublisherPasses, Publish, Publisher, Republish, JoinPasses, JoinPublishes, vars

(* A caller that waits in WaitReady has missed neither its level nor the   *)
(* end of its context (node_lifecycle.go, WaitReady), for any number of    *)
(* callers that wake each other.                                           *)
THEOREM NoLostWakeUpHolds == Spec => []NoLostWakeUp
<1>1. Init => Listening
  BY DEF Init, Listening
<1>2. NodeTypeOK /\ Listening /\ [Next]_vars => Listening'
  BY NextListening
<1>3. Listening => NoLostWakeUp
  BY DEF Listening, NoLostWakeUp
<1> QED
  BY <1>1, <1>2, <1>3, TypeCorrect, PTL DEF Spec

(* The user's Leave on the realm itself strands the node until Close       *)
(* (realm.go, Leave; node.go, JoinRealm and LeaveRealm).                   *)
THEOREM StrandedUntilCloseHolds == Spec => StrandedUntilClose
<1>1. IInv /\ [Next]_vars =>
        [joined /\ ~current => (joined' /\ ~current' /\ ~active') \/ Close]_vars
  <2> SUFFICES ASSUME IInv, Next, joined, ~current, ~Close
               PROVE  joined' /\ ~current' /\ ~active'
    OBVIOUS
  <2>1. ~active
    BY DEF IInv, Order, Held
  <2>2. CASE EndHook \/ EndLateHook
    BY <2>1, <2>2 DEF EndHook, EndLateHook, HookReturns, node, realm
  <2>3. ~JoinRealm /\ ~LeaveRealm /\ ~RealmLeave
    BY DEF JoinRealm, Join, LeaveRealm, RealmLeave, CanLeave
  <2>4. CASE ~EndHook /\ ~EndLateHook
    <3>1. UNCHANGED <<joined, current, active>>
      BY <2>3, <2>4 DEF Next, Operation, Signal, Start, Stop, StartFails, Initialized, Ready,
           StartUndone, StartHook, CutStart, OnStart, Listen, PassNAT, PassGate, BeginHook, CutStop, Stopped, Drain,
           Bootstrap, PublisherPasses, Publish, Publisher, Republish, JoinPasses, JoinPublishes,
           WaitReady, ContextDone, Helper, Wake, To, node, realm
    <3> QED
      BY <2>1, <3>1
  <2> QED
    BY <2>2, <2>4
<1> QED
  BY <1>1, InductiveInvariant, PTL DEF Spec, StrandedUntilClose

-----------------------------------------------------------------------------
(* What holds n.mu has this many steps left at most.                       *)
HookSteps == IF hook = NoHook THEN 2 * counted ELSE IF counted = 0 THEN 0 ELSE 2 * counted - 1

StepsLeft ==
  CASE holder = "free" -> 0
    [] holder = "gate" -> 1
    [] holder = "nat" -> 2
    [] holder \in Stopping -> 1 + HookSteps
    [] holder = "leave" -> 12
    [] holder = "ready" -> 12
    [] holder = "listen" -> 13
    [] holder = "init" -> 19 - counted

(* An operation is over after its own steps, however they fail, and what   *)
(* goes on next to it gives it nothing more to do.                         *)
OperationEnds ==
  [][/\ Operation => StepsLeft' < StepsLeft
     /\ holder # "free" /\ ~Operation => StepsLeft' = StepsLeft]_vars

LEMMA StepsLeftIs ==
  ASSUME NodeTypeOK
  PROVE  /\ holder = "free" => StepsLeft = 0
         /\ holder = "gate" => StepsLeft = 1
         /\ holder = "nat" => StepsLeft = 2
         /\ holder \in Stopping => StepsLeft = 1 + HookSteps
         /\ holder = "leave" => StepsLeft = 12
         /\ holder = "ready" => StepsLeft = 12
         /\ holder = "listen" => StepsLeft = 13
         /\ holder = "init" => StepsLeft = 19 - counted
BY DEF StepsLeft, NodeTypeOK, Starting, Stopping

LEMMA NextStepsLeftIs ==
  ASSUME NodeTypeOK'
  PROVE  /\ holder' = "free" => StepsLeft' = 0
         /\ holder' = "gate" => StepsLeft' = 1
         /\ holder' = "nat" => StepsLeft' = 2
         /\ holder' \in Stopping => StepsLeft' = 1 + HookSteps'
         /\ holder' = "leave" => StepsLeft' = 12
         /\ holder' = "ready" => StepsLeft' = 12
         /\ holder' = "listen" => StepsLeft' = 13
         /\ holder' = "init" => StepsLeft' = 19 - counted'
BY DEF StepsLeft, NodeTypeOK, Starting, Stopping

(* Start, Stop and Close let go of n.mu after at most nineteen steps of     *)
(* their own once their waits are over, whatever fails meanwhile           *)
(* (node_lifecycle.go, Start, Stop and Close).                             *)
THEOREM OperationEndsHolds == Spec => OperationEnds
<1>1. NodeTypeOK /\ NodeTypeOK' /\ [Next]_vars =>
        [/\ Operation => StepsLeft' < StepsLeft
         /\ holder # "free" /\ ~Operation => StepsLeft' = StepsLeft]_vars
  <2> SUFFICES ASSUME NodeTypeOK, NodeTypeOK', Next
               PROVE  /\ Operation => StepsLeft' < StepsLeft
                      /\ holder # "free" /\ ~Operation => StepsLeft' = StepsLeft
    OBVIOUS
  <2>0. counted \in 0 .. 5 /\ counted' \in 0 .. 5
    BY DEF NodeTypeOK
  <2>1. Operation => StepsLeft' < StepsLeft
    <3>1. ASSUME NEW h \in Hooks, StartHook(h) \/ CutStart(h)
          PROVE  StepsLeft' < StepsLeft
      BY <2>0, <3>1, StepsLeftIs, NextStepsLeftIs DEF StartHook, CutStart, OnStart
    <3>2. CASE StartFails \/ Initialized \/ Listen \/ Ready \/ StartUndone
      BY <2>0, <3>2, StepsLeftIs, NextStepsLeftIs
      DEF StartFails, Initialized, Listen, Ready, StartUndone, To, Stopping, Hooks, app, HookSteps, NoHook
    <3>3. CASE PassNAT \/ PassGate
      BY <2>0, <3>3, StepsLeftIs, NextStepsLeftIs DEF PassNAT, PassGate, To
    <3>4. CASE CutStop \/ Stopped
      BY <2>0, <3>4, StepsLeftIs, NextStepsLeftIs DEF CutStop, Stopped, Stopping, node, HookSteps
    <3>6. CASE BeginHook
      <4>1. HookSteps = 2 * counted /\ HookSteps' = 2 * counted - 1
        BY <2>0, <3>6 DEF BeginHook, HookSteps, NodeTypeOK, Hooks, NoHook
      <4> QED
        BY <2>0, <3>6, <4>1, StepsLeftIs, NextStepsLeftIs DEF BeginHook, node
    <3>7. CASE EndHook
      <4>1. counted > 0 /\ HookSteps = 2 * counted - 1 /\ HookSteps' = 2 * (counted - 1)
        BY <2>0, <3>7 DEF EndHook, HookReturns, HookSteps, NodeTypeOK, Hooks, NoHook
      <4> QED
        BY <2>0, <3>7, <4>1, StepsLeftIs, NextStepsLeftIs DEF EndHook, HookReturns, node
    <3>5. CASE Drain
      BY <2>0, <3>5, StepsLeftIs, NextStepsLeftIs DEF Drain, Stopping, HookSteps
    <3> QED
      BY <3>1, <3>2, <3>3, <3>4, <3>5, <3>6, <3>7 DEF Operation
  <2>2. ASSUME holder # "free", ~Operation
        PROVE  StepsLeft' = StepsLeft
    <3>1. CASE EndLateHook
      <4>1. counted = 0 /\ UNCHANGED <<holder, counted>> /\ hook' = NoHook
        BY <3>1 DEF EndLateHook, HookReturns, node
      <4>2. HookSteps = 0 /\ HookSteps' = 0
        BY <4>1 DEF HookSteps
      <4> QED
        BY <4>1, <4>2 DEF StepsLeft
    <3>2. CASE ~EndLateHook
      <4>1. UNCHANGED <<holder, counted, hook>>
        BY <2>2, <3>2 DEF Next, Signal, Start, Stop, Close, JoinRealm, LeaveRealm, RealmLeave,
             Bootstrap, PublisherPasses, Publish, Publisher, Republish, JoinPasses, JoinPublishes,
             WaitReady, ContextDone, Helper, Wake, node, app
      <4> QED
        BY <4>1 DEF StepsLeft, HookSteps
    <3> QED
      BY <3>1, <3>2
  <2> QED
    BY <2>1, <2>2
<1> QED
  BY <1>1, TypeCorrect, PTL DEF Spec, OperationEnds
=============================================================================
