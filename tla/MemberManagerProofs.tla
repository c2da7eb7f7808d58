------------------------- MODULE MemberManagerProofs -------------------------
(***************************************************************************)
(* The invariants of the member list, for any set of peers and any bound.  *)
(*                                                                         *)
(* A step of Next touches the guard against false disconnections with one  *)
(* of its operators, and the list with one of the methods of Manager; the  *)
(* two lemmas NextGrace and NextList say so, and the invariants are then   *)
(* proved operator by operator instead of action by action.  So is what    *)
(* the end of a grace period rests on: what one step may do to it (Turn).  *)
(***************************************************************************)
EXTENDS MemberManager, FiniteSetTheorems, TLAPS

(* What one step may do to the guard ...                                   *)
GraceStep(p) ==
  \/ OnPeerDisconnected(p) \/ OnPeerReconnected(p) \/ OnCommunication(p)
  \/ FireTimer(p) \/ ExpireGrace(p) \/ IgnoreExpiry(p)
  \/ ProtectAndForget(p) \/ Protect(p) \/ AllowAdd(p) \/ Clock(p)
  \/ UNCHANGED graceVars

(* ... and to the member list.                                             *)
ListStep(p) ==
  Insert(p) \/ Remove(p) \/ SetOffline(p) \/ UpdateLastSeen(p) \/ UNCHANGED listVars

(* A period that runs has its timer or its goroutine, an expired one the   *)
(* goroutine; the bound on the extensions belongs to the type.             *)
Covered ==
  \A p \in Peers :
    /\ conn[p] = "disconnecting" => timer[p] \/ removal[p] \in {"fired", "expired"}
    /\ conn[p] = "disconnected" => removal[p] = "expired"

(* Each member counted is online: IInv is the inductive invariant.         *)
IInv == TypeOK /\ Covered /\ NeverOvercounts

-----------------------------------------------------------------------------
LEMMA OnlineFinite == IsFiniteSet(Online)
  BY PeersFinite, FS_Subset DEF Online

LEMMA NextGrace ==
  ASSUME Next
  PROVE  \E p \in Peers : GraceStep(p)
<1>1. PICK p \in Peers : Events(p) \/ Removal(p) \/ Adding(p) \/ Upkeep(p)
  BY DEF Next
<1>2. CASE Events(p)
  BY <1>2 DEF Events, GraceStep, Connect, Disconnect, WatchDisconnection, WatchReconnection,
     Recover, HandleConnected, HandleDisconnected
<1>3. CASE Removal(p)
  BY <1>3 DEF Removal, GraceStep, Fire, Expire, Ignore, Forget, RemoveExpired
<1>4. CASE Adding(p)
  BY <1>4 DEF Adding, GraceStep, Authenticate, RefreshMember, RefuseAuthenticated,
     AddAuthenticated, AddListed, InsertMember
<1>5. CASE Upkeep(p)
  BY <1>5 DEF Upkeep, GraceStep, MarkGracefullyLeft, RemoveLeft, ReportOffline, Heartbeat,
     Communicate, CollectStale, RemoveStale, TimePasses
<1> QED
  BY <1>1, <1>2, <1>3, <1>4, <1>5

LEMMA NextList ==
  ASSUME Next
  PROVE  \E p \in Peers : ListStep(p)
<1>1. PICK p \in Peers : Events(p) \/ Removal(p) \/ Adding(p) \/ Upkeep(p)
  BY DEF Next
<1>2. CASE Events(p)
  BY <1>2 DEF Events, ListStep, Connect, Disconnect, WatchDisconnection, WatchReconnection,
     Recover, HandleConnected, HandleDisconnected
<1>3. CASE Removal(p)
  BY <1>3 DEF Removal, ListStep, Fire, Expire, Ignore, Forget, RemoveExpired
<1>4. CASE Adding(p)
  BY <1>4 DEF Adding, ListStep, Authenticate, RefreshMember, RefuseAuthenticated,
     AddAuthenticated, AddListed, InsertMember
<1>5. CASE Upkeep(p)
  BY <1>5 DEF Upkeep, ListStep, MarkGracefullyLeft, RemoveLeft, ReportOffline, Heartbeat,
     Communicate, CollectStale, RemoveStale, TimePasses
<1> QED
  BY <1>1, <1>2, <1>3, <1>4, <1>5

-----------------------------------------------------------------------------
LEMMA RecordTransitionType ==
  ASSUME NEW p \in Peers, GraceTypeOK, RecordTransition(p)
  PROVE  /\ recent' \in [Peers -> 0..FlapThreshold]
         /\ flapping' \in [Peers -> {"none", "marked", "expired"}]
<1> DEFINE n == IF recent[p] < FlapThreshold THEN recent[p] + 1 ELSE FlapThreshold
           marked == flapping[p] = "marked" \/ (flapping[p] = "none" /\ n = FlapThreshold)
           mark == IF marked THEN "marked" ELSE "none"
<1>1. n \in 0..FlapThreshold
  BY FlapThresholdType DEF GraceTypeOK
<1>2. mark \in {"none", "marked", "expired"}
  OBVIOUS
<1>3. recent' = [recent EXCEPT ![p] = n] /\ flapping' = [flapping EXCEPT ![p] = mark]
  BY DEF RecordTransition
<1> HIDE DEF n, mark
<1> QED
  BY <1>1, <1>2, <1>3 DEF GraceTypeOK

(* No operator of the guard leaves a grace period without its timer.       *)
LEMMA GraceStepInv ==
  ASSUME NEW p \in Peers, GraceTypeOK, Covered, GraceStep(p)
  PROVE  GraceTypeOK' /\ Covered'
<1> USE FlapThresholdType, MaxExtensionsType DEF GraceTypeOK, Covered
<1>1. CASE OnPeerDisconnected(p)
  <2>1. RecordTransition(p) /\ UNCHANGED <<removal, protected>>
    BY <1>1 DEF OnPeerDisconnected
  <2>2. CASE UNCHANGED <<conn, timer, ext>>
    BY <2>1, <2>2, RecordTransitionType
  <2>3. CASE conn[p] # "disconnected" /\ OnDisconnect(p)
    <3>1. /\ conn' = [conn EXCEPT ![p] = "disconnecting"]
          /\ timer' = [timer EXCEPT ![p] = TRUE]
          /\ ext' = [ext EXCEPT ![p] = 0]
          /\ removal' = removal /\ protected' = protected
      BY <2>1, <2>3 DEF OnDisconnect
    <3>2. GraceTypeOK'
      BY <2>1, <3>1, RecordTransitionType
    <3>3. Covered'
      BY <3>1
    <3> QED
      BY <3>2, <3>3
  <2> QED
    BY <1>1, <2>2, <2>3 DEF OnPeerDisconnected, OnDisconnect
<1>2. CASE OnPeerReconnected(p)
  <2>1. RecordTransition(p) /\ UNCHANGED <<removal, protected>>
    BY <1>2 DEF OnPeerReconnected
  <2>2. CASE UNCHANGED <<conn, timer, ext>>
    BY <2>1, <2>2, RecordTransitionType
  <2>3. CASE conn[p] \in {"disconnecting", "disconnected"} /\ OnReconnect(p)
    <3>1. /\ conn' = [conn EXCEPT ![p] = "connected"]
          /\ timer' \in {timer, [timer EXCEPT ![p] = FALSE]}
          /\ ext' = [ext EXCEPT ![p] = 0]
          /\ removal' = removal /\ protected' = protected
      BY <2>1, <2>3 DEF OnReconnect
    <3>0. timer' \in [Peers -> BOOLEAN]
      BY <3>1
    <3>2. GraceTypeOK'
      BY <2>1, <3>0, <3>1, RecordTransitionType
    <3>3. conn'[p] = "connected"
      BY <3>1
    <3>4. \A q \in Peers \ {p} : conn'[q] = conn[q] /\ timer'[q] = timer[q]
      BY <3>1
    <3>5. Covered'
      BY <3>1, <3>3, <3>4
    <3> QED
      BY <3>2, <3>5
  <2> QED
    BY <1>2, <2>2, <2>3 DEF OnPeerReconnected, OnReconnect
<1>3. CASE OnCommunication(p)
  BY <1>3 DEF OnCommunication
<1>4. CASE FireTimer(p)
  BY <1>4 DEF FireTimer, GoRemoval
<1>5. CASE ExpireGrace(p)
  BY <1>5 DEF ExpireGrace, GoRemoval
<1>6. CASE IgnoreExpiry(p)
  BY <1>6 DEF IgnoreExpiry, GoRemoval
<1>7. CASE ProtectAndForget(p)
  BY <1>7 DEF ProtectAndForget, GoRemoval
<1>8. CASE Protect(p)
  BY <1>8 DEF Protect, GoRemoval
<1>9. CASE AllowAdd(p)
  BY <1>9 DEF AllowAdd
<1>10. CASE Clock(p)
  <2>1. CASE WindowSlides(p)
    BY <2>1 DEF WindowSlides
  <2>2. CASE FlappingEnds(p)
    BY <2>2 DEF FlappingEnds
  <2>3. CASE ProtectionEnds(p)
    BY <2>3 DEF ProtectionEnds
  <2>4. CASE CleanupMark(p)
    BY <2>4 DEF CleanupMark
  <2> QED
    BY <1>10, <2>1, <2>2, <2>3, <2>4 DEF Clock
<1>11. CASE UNCHANGED graceVars
  BY <1>11 DEF graceVars
<1> QED
  BY <1>1, <1>2, <1>3, <1>4, <1>5, <1>6, <1>7, <1>8, <1>9, <1>10, <1>11 DEF GraceStep

-----------------------------------------------------------------------------
(* No method of Manager counts a member that is not online.                *)
LEMMA ListStepInv ==
  ASSUME NEW p \in Peers, TypeOK, NeverOvercounts, ListStep(p)
  PROVE  /\ member' \in [Peers -> {"absent", "online", "offline"}]
         /\ onlineCount' \in Int
         /\ NeverOvercounts'
<1> USE DEF IsMember
<1>t. member \in [Peers -> {"absent", "online", "offline"}] /\ onlineCount \in Int
  BY DEF TypeOK
<1>f. IsFiniteSet(Online) /\ Cardinality(Online) \in Nat
  BY OnlineFinite, FS_CardinalityType
<1>a. Cardinality(Online \union {p}) = IF p \in Online THEN Cardinality(Online)
                                                        ELSE Cardinality(Online) + 1
  BY <1>f, FS_AddElement
<1>r. Cardinality(Online \ {p}) = IF p \in Online THEN Cardinality(Online) - 1
                                                   ELSE Cardinality(Online)
  BY <1>f, FS_RemoveElement
<1>m. p \in Online <=> member[p] = "online"
  BY DEF Online
<1>1. CASE Insert(p)
  <2>1. Online' = Online \union {p}
    BY <1>1, <1>t DEF Insert, Online
  <2> QED
    BY <1>1, <2>1, <1>t, <1>f, <1>a, <1>m DEF Insert, NeverOvercounts
<1>2. CASE Remove(p)
  <2>1. Online' = Online \ {p}
    BY <1>2, <1>t DEF Remove, Online
  <2> QED
    BY <1>2, <2>1, <1>t, <1>f, <1>r, <1>m DEF Remove, NeverOvercounts
<1>3. CASE SetOffline(p)
  <2>1. Online' = Online \ {p}
    BY <1>3, <1>t DEF SetOffline, Online
  <2> QED
    BY <1>3, <2>1, <1>t, <1>f, <1>r, <1>m DEF SetOffline, NeverOvercounts
<1>4. CASE UpdateLastSeen(p)
  <2>1. Online' \in {Online, Online \union {p}}
    BY <1>4, <1>t DEF UpdateLastSeen, Online
  <2>2. Cardinality(Online') \in {Cardinality(Online), Cardinality(Online) + 1}
    BY <2>1, <1>a
  <2>3. Cardinality(Online) <= Cardinality(Online')
    BY <2>2, <1>f
  <2>4. /\ member' \in [Peers -> {"absent", "online", "offline"}]
        /\ onlineCount' = onlineCount
    BY <1>4, <1>t DEF UpdateLastSeen
  <2> QED
    BY <2>2, <2>3, <2>4, <1>t, <1>f DEF NeverOvercounts
<1>5. CASE UNCHANGED listVars
  BY <1>5, <1>t DEF listVars, NeverOvercounts, Online
<1> QED
  BY <1>1, <1>2, <1>3, <1>4, <1>5 DEF ListStep

-----------------------------------------------------------------------------
(* The types of the variables that neither part owns.                      *)
RestTypeOK ==
  /\ left \in [Peers -> BOOLEAN]
  /\ up \in [Peers -> BOOLEAN]
  /\ \A q \in {downEvts, upEvts, downStatus, upStatus} : q \in [Peers -> 0..MaxEvents]
  /\ recovering \in [Peers -> BOOLEAN]
  /\ adding \in [Adders -> [Peers -> {"none", "check", "insert"}]]
  /\ leaving \in [Peers -> BOOLEAN]
  /\ stale \in [Peers -> BOOLEAN]

LEMMA NextRest ==
  ASSUME TypeOK, Next
  PROVE  RestTypeOK'
<1> USE MaxEventsType DEF RestTypeOK, evtVars, taskVars, GoAdd
<1>t. RestTypeOK
  BY DEF TypeOK
<1>1. PICK p \in Peers : Events(p) \/ Removal(p) \/ Adding(p) \/ Upkeep(p)
  BY DEF Next
<1>2. CASE Events(p)
  <2>1. CASE Connect(p)
    BY <2>1, <1>t DEF Connect
  <2>2. CASE Disconnect(p)
    BY <2>2, <1>t DEF Disconnect
  <2>3. CASE WatchDisconnection(p)
    BY <2>3, <1>t DEF WatchDisconnection
  <2>4. CASE WatchReconnection(p)
    BY <2>4, <1>t DEF WatchReconnection, IsInGracePeriod
  <2>5. CASE Recover(p)
    BY <2>5, <1>t DEF Recover
  <2>6. CASE HandleConnected(p)
    BY <2>6, <1>t DEF HandleConnected
  <2>7. CASE HandleDisconnected(p)
    BY <2>7, <1>t DEF HandleDisconnected
  <2> QED
    BY <1>2, <2>1, <2>2, <2>3, <2>4, <2>5, <2>6, <2>7 DEF Events
<1>3. CASE Removal(p)
  BY <1>3, <1>t DEF Removal, Fire, Expire, Ignore, Forget, RemoveExpired
<1>4. CASE Adding(p)
  <2>1. CASE Authenticate(p)
    BY <2>1, <1>t DEF Authenticate
  <2>2. CASE RefreshMember(p)
    BY <2>2, <1>t DEF RefreshMember, Authenticating
  <2>3. CASE RefuseAuthenticated(p)
    BY <2>3, <1>t DEF RefuseAuthenticated, Authenticating
  <2>4. CASE AddAuthenticated(p)
    BY <2>4, <1>t DEF AddAuthenticated, Authenticating
  <2>5. CASE AddListed(p)
    BY <2>5, <1>t DEF AddListed
  <2>6. ASSUME NEW a \in Adders, InsertMember(a, p)
        PROVE  RestTypeOK'
    BY <2>6, <1>t DEF InsertMember
  <2> QED
    BY <1>4, <2>1, <2>2, <2>3, <2>4, <2>5, <2>6 DEF Adding
<1>5. CASE Upkeep(p)
  BY <1>5, <1>t DEF Upkeep, MarkGracefullyLeft, RemoveLeft, ReportOffline, Heartbeat,
     Communicate, CollectStale, RemoveStale, TimePasses
<1> QED
  BY <1>1, <1>2, <1>3, <1>4, <1>5

-----------------------------------------------------------------------------
LEMMA InitIInv == Init => IInv
<1> SUFFICES ASSUME Init PROVE IInv
  OBVIOUS
<1>1. TypeOK
  BY MaxEventsType, MaxExtensionsType, FlapThresholdType
     DEF Init, GraceInit, TypeOK, GraceTypeOK
<1>2. Covered
  BY DEF Init, GraceInit, Covered
<1>3. Online = {}
  BY DEF Init, Online
<1>4. NeverOvercounts
  BY <1>3, FS_EmptySet DEF Init, NeverOvercounts
<1> QED
  BY <1>1, <1>2, <1>4 DEF IInv

LEMMA NextIInv == IInv /\ [Next]_vars => IInv'
<1> SUFFICES ASSUME IInv, [Next]_vars PROVE IInv'
  OBVIOUS
<1>1. CASE Next
  <2>1. GraceTypeOK' /\ Covered'
    BY <1>1, NextGrace, GraceStepInv DEF IInv, TypeOK
  <2>2. /\ member' \in [Peers -> {"absent", "online", "offline"}]
        /\ onlineCount' \in Int
        /\ NeverOvercounts'
    BY <1>1, NextList, ListStepInv DEF IInv
  <2>3. RestTypeOK'
    BY <1>1, NextRest DEF IInv
  <2> QED
    BY <2>1, <2>2, <2>3 DEF IInv, TypeOK, RestTypeOK
<1>2. CASE UNCHANGED vars
  BY <1>2 DEF vars, graceVars, listVars, evtVars, taskVars, IInv, TypeOK, GraceTypeOK,
     Covered, NeverOvercounts, Online
<1> QED
  BY <1>1, <1>2

(* In every behaviour of the member list the inductive invariant holds.    *)
THEOREM InductiveInvariant == Spec => []IInv
  BY InitIInv, NextIInv, PTL DEF Spec

(* The variables keep their types.                                         *)
THEOREM TypeCorrect == Spec => []TypeOK
  BY InductiveInvariant, PTL DEF IInv

(* A grace period that runs is always ended by a timer or its goroutine,   *)
(* and not prolonged for ever; an expired entry is always deleted by the   *)
(* goroutine that expired it.                                              *)
THEOREM GraceCoveredHolds == Spec => []GraceCovered
<1>1. IInv => GraceCovered
  BY MaxExtensionsType DEF IInv, TypeOK, GraceTypeOK, Covered, GraceCovered
<1> QED
  BY <1>1, InductiveInvariant, PTL

(* onlineCount never exceeds the number of online members.                 *)
THEOREM NeverOvercountsHolds == Spec => []NeverOvercounts
  BY InductiveInvariant, PTL DEF IInv

-----------------------------------------------------------------------------
(* Methods that never bring a member in.                                   *)
LEMMA OutStaysOut ==
  ASSUME NEW p \in Peers, NEW q \in Peers, TypeOK, ~IsMember(q),
         Remove(p) \/ SetOffline(p) \/ UpdateLastSeen(p) \/ UNCHANGED listVars
  PROVE  ~IsMember(q)'
  BY DEF TypeOK, IsMember, Remove, SetOffline, UpdateLastSeen, listVars

LEMMA NextStaysOut ==
  ASSUME NEW q \in Peers, TypeOK, Next, StaysOut(q)
  PROVE  StaysOut(q)' \/ (~left[q])'
<1> USE DEF StaysOut, Inserting
<1>t. /\ left \in [Peers -> BOOLEAN]
      /\ adding \in [Adders -> [Peers -> {"none", "check", "insert"}]]
  BY DEF TypeOK
<1>1. PICK p \in Peers : Events(p) \/ Removal(p) \/ Adding(p) \/ Upkeep(p)
  BY DEF Next
<1>2. CASE Events(p)
  <2>1. left' = left /\ adding' = adding
    BY <1>2 DEF Events, taskVars, Connect, Disconnect, WatchDisconnection,
       WatchReconnection, Recover, HandleConnected, HandleDisconnected
  <2>2. ~IsMember(q)'
    BY <1>2, OutStaysOut DEF Events, Connect, Disconnect, WatchDisconnection,
       WatchReconnection, Recover, HandleConnected, HandleDisconnected
  <2> QED
    BY <2>1, <2>2
<1>3. CASE Removal(p)
  <2>1. left' = left /\ adding' = adding
    BY <1>3 DEF Removal, taskVars, Fire, Expire, Ignore, Forget, RemoveExpired
  <2>2. ~IsMember(q)'
    BY <1>3, OutStaysOut DEF Removal, Fire, Expire, Ignore, Forget, RemoveExpired
  <2> QED
    BY <2>1, <2>2
<1>4. CASE Adding(p)
  <2>1. CASE Authenticate(p)
    <3>1. ~IsMember(q)'
      BY <2>1, OutStaysOut DEF Authenticate
    <3>2. CASE q = p
      BY <2>1, <3>2, <1>t DEF Authenticate
    <3>3. CASE q # p
      BY <2>1, <3>1, <3>3, <1>t DEF Authenticate, GoAdd
    <3> QED
      BY <3>2, <3>3
  <2>2. CASE RefreshMember(p)
    BY <2>2, OutStaysOut, <1>t DEF RefreshMember, Authenticating, GoAdd
  <2>3. CASE RefuseAuthenticated(p)
    BY <2>3, OutStaysOut, <1>t DEF RefuseAuthenticated, Authenticating, GoAdd
  <2>4. CASE AddAuthenticated(p)
    BY <2>4, OutStaysOut, <1>t DEF AddAuthenticated, Authenticating, GoAdd, Refused
  <2>5. CASE AddListed(p)
    BY <2>5, OutStaysOut, <1>t DEF AddListed, GoAdd, Refused
  <2>6. ASSUME NEW a \in Adders, InsertMember(a, p)
        PROVE  StaysOut(q)'
    <3>1. q # p
      BY <2>6 DEF InsertMember
    <3>2. ~IsMember(q)'
      BY <2>6, <3>1 DEF TypeOK, InsertMember, Insert, IsMember
    <3> QED
      BY <2>6, <3>1, <3>2, <1>t DEF InsertMember, GoAdd
  <2> QED
    BY <1>4, <2>1, <2>2, <2>3, <2>4, <2>5, <2>6 DEF Adding
<1>5. CASE Upkeep(p)
  <2>1. adding' = adding
    BY <1>5 DEF Upkeep, taskVars, MarkGracefullyLeft, RemoveLeft, ReportOffline, Heartbeat,
       Communicate, CollectStale, RemoveStale, TimePasses
  <2>2. ~IsMember(q)'
    BY <1>5, OutStaysOut DEF Upkeep, MarkGracefullyLeft, RemoveLeft, ReportOffline, Heartbeat,
       Communicate, CollectStale, RemoveStale, TimePasses
  <2>3. left' \in {left, [left EXCEPT ![p] = TRUE]}
    BY <1>5 DEF Upkeep, MarkGracefullyLeft, RemoveLeft, ReportOffline, Heartbeat,
       Communicate, CollectStale, RemoveStale, TimePasses
  <2> QED
    BY <2>1, <2>2, <2>3, <1>t
<1> QED
  BY <1>1, <1>2, <1>3, <1>4, <1>5

(* A member that left gracefully, is gone, and is not being inserted stays *)
(* out until it authenticates again.                                       *)
THEOREM LeftStaysOutHolds == Spec => LeftStaysOut
<1>1. TypeOK /\ [Next]_vars => [\A p \in Peers : StaysOut(p) => StaysOut(p)' \/ (~left[p])']_vars
  BY NextStaysOut
<1> QED
  BY <1>1, TypeCorrect, PTL DEF Spec, LeftStaysOut

-----------------------------------------------------------------------------
(* A grace period runs out.                                                *)

(* What a step may do to the grace period of p and to its goroutine.       *)
Turn(p) ==
  \/ conn'[p] = conn[p] /\ timer'[p] = timer[p] /\ removal'[p] = removal[p]
  \/ OnPeerDisconnected(p) /\ conn'[p] = "disconnecting" /\ removal'[p] = removal[p]
  \/ OnCommunication(p) /\ conn'[p] = conn[p] /\ removal'[p] = removal[p]
  \/ conn'[p] = "connected" /\ timer'[p] \in {timer[p], FALSE} /\ removal'[p] = removal[p]
  \/ /\ timer[p] /\ ~timer'[p] /\ conn'[p] = conn[p]
     /\ removal[p] = "none" /\ removal'[p] = "fired"
  \/ removal[p] = "fired" /\ removal'[p] = "expired" /\ timer'[p] = timer[p]
  \/ /\ conn[p] # "disconnecting" /\ conn'[p] = conn[p] /\ timer'[p] = timer[p]
     /\ removal[p] = "fired" /\ removal'[p] = "none"
  \/ removal[p] = "expired" /\ removal'[p] = "remove" /\ ~timer'[p]
  \/ /\ conn'[p] = conn[p] /\ timer'[p] = timer[p]
     /\ removal[p] = "remove" /\ removal'[p] = "none"

LEMMA GraceTurn ==
  ASSUME GraceTypeOK, NEW p \in Peers, NEW q \in Peers, GraceStep(q)
  PROVE  Turn(p)
<1>0. /\ conn \in [Peers -> {"none", "connected", "disconnecting", "disconnected"}]
      /\ timer \in [Peers -> BOOLEAN]
      /\ removal \in [Peers -> {"none", "fired", "expired", "remove"}]
  BY DEF GraceTypeOK
<1>a. ASSUME q # p, \E c, t : /\ conn' = conn \/ conn' = [conn EXCEPT ![q] = c]
                              /\ timer' = timer \/ timer' = [timer EXCEPT ![q] = t]
                              /\ removal' = removal
      PROVE  conn'[p] = conn[p] /\ timer'[p] = timer[p] /\ removal'[p] = removal[p]
  BY <1>0, <1>a
<1>1. CASE OnPeerDisconnected(q)
  <2>1. /\ removal' = removal
        /\ (conn' = conn /\ timer' = timer) \/ (/\ conn' = [conn EXCEPT ![q] = "disconnecting"]
                                               /\ timer' = [timer EXCEPT ![q] = TRUE])
    BY <1>1 DEF OnPeerDisconnected, OnDisconnect
  <2>2. CASE q # p
    BY <1>a, <2>1, <2>2 DEF Turn
  <2>3. CASE q = p
    <3>1. (conn'[p] = conn[p] /\ timer'[p] = timer[p]) \/ conn'[p] = "disconnecting"
      BY <1>0, <2>1, <2>3
    <3> QED
      BY <1>1, <2>1, <2>3, <3>1 DEF Turn
  <2> QED
    BY <2>2, <2>3
<1>2. CASE OnPeerReconnected(q)
  <2>1. /\ removal' = removal
        /\ \/ conn' = conn /\ timer' = timer
           \/ /\ conn' = [conn EXCEPT ![q] = "connected"]
              /\ timer' = timer \/ timer' = [timer EXCEPT ![q] = FALSE]
    BY <1>2 DEF OnPeerReconnected, OnReconnect
  <2>2. CASE q # p
    BY <1>a, <2>1, <2>2 DEF Turn
  <2>3. CASE q = p
    <3>1. \/ conn'[p] = conn[p] /\ timer'[p] = timer[p]
          \/ conn'[p] = "connected" /\ timer'[p] \in {timer[p], FALSE}
      BY <1>0, <2>1, <2>3
    <3> QED
      BY <2>1, <3>1 DEF Turn
  <2> QED
    BY <2>2, <2>3
<1>3. CASE OnCommunication(q)
  BY <1>0, <1>3 DEF OnCommunication, Turn
<1>4. CASE FireTimer(q)
  BY <1>0, <1>4 DEF FireTimer, GoRemoval, Turn
<1>5. CASE ExpireGrace(q)
  BY <1>0, <1>5 DEF ExpireGrace, GoRemoval, Turn
<1>6. CASE IgnoreExpiry(q)
  BY <1>0, <1>6 DEF IgnoreExpiry, GoRemoval, Turn
<1>7. CASE ProtectAndForget(q)
  BY <1>0, <1>7 DEF ProtectAndForget, GoRemoval, Turn
<1>8. CASE Protect(q)
  BY <1>0, <1>8 DEF Protect, GoRemoval, Turn
<1>9. CASE AllowAdd(q) \/ Clock(q) \/ UNCHANGED graceVars
  BY <1>9 DEF AllowAdd, Clock, WindowSlides, FlappingEnds, CleanupMark, ProtectionEnds, graceVars, Turn
<1> QED
  BY <1>1, <1>2, <1>3, <1>4, <1>5, <1>6, <1>7, <1>8, <1>9 DEF GraceStep

(* The steps that are left of the timer t and of its goroutine at r.       *)
StepsToRemoval(t, r) ==
  (IF t THEN 4 ELSE 0) +
    (CASE r = "fired" -> 3 [] r = "expired" -> 2 [] r = "remove" -> 1 [] OTHER -> 0)

RemovalLeft(p) == StepsToRemoval(timer[p], removal[p])

(* A period whose timer has fired expires, unless the peer reconnects      *)
(* first; the expiry leads to the callback and the callback to a peer that *)
(* is no member, whatever events, additions and other removals come in     *)
(* between.  Each step of the timer and its goroutine brings this nearer,  *)
(* and nothing but a further disconnection, or communication,              *)
(* MaxExtensions times at most, puts it off.                               *)
GraceRunsOut ==
  [][\A p \in Peers :
       /\ conn[p] = "disconnecting" /\ removal[p] = "fired" =>
            \/ conn'[p] = "disconnecting" /\ removal'[p] = "fired"
            \/ conn'[p] = "connected" \/ removal'[p] = "expired"
       /\ removal[p] = "expired" => removal'[p] \in {"expired", "remove"}
       /\ removal[p] = "remove" => removal'[p] = "remove" \/ ~IsMember(p)'
       /\ Removal(p) => RemovalLeft(p)' < RemovalLeft(p)
       /\ RemovalLeft(p)' > RemovalLeft(p) => OnPeerDisconnected(p) \/ OnCommunication(p)]_vars

LEMMA StepsToRemovalAre ==
  ASSUME NEW t \in BOOLEAN, NEW r \in {"none", "fired", "expired", "remove"}
  PROVE  /\ r = "none" => StepsToRemoval(t, r) = IF t THEN 4 ELSE 0
         /\ r = "fired" => StepsToRemoval(t, r) = IF t THEN 7 ELSE 3
         /\ r = "expired" => StepsToRemoval(t, r) = IF t THEN 6 ELSE 2
         /\ r = "remove" => StepsToRemoval(t, r) = IF t THEN 5 ELSE 1
         /\ StepsToRemoval(t, r) \in Nat
BY DEF StepsToRemoval

(* No grace period that is over leaves its member in the list              *)
(* (member/state.go, onGraceTimeoutInternal; member/antifalse.go,          *)
(* onGraceTimeout; the callback of member/manager.go, Start).              *)
THEOREM GraceRunsOutHolds == Spec => GraceRunsOut
<1>1. TypeOK /\ TypeOK' /\ [Next]_vars =>
        [\A p \in Peers :
           /\ conn[p] = "disconnecting" /\ removal[p] = "fired" =>
                \/ conn'[p] = "disconnecting" /\ removal'[p] = "fired"
                \/ conn'[p] = "connected" \/ removal'[p] = "expired"
           /\ removal[p] = "expired" => removal'[p] \in {"expired", "remove"}
           /\ removal[p] = "remove" => removal'[p] = "remove" \/ ~IsMember(p)'
           /\ Removal(p) => RemovalLeft(p)' < RemovalLeft(p)
           /\ RemovalLeft(p)' > RemovalLeft(p) => OnPeerDisconnected(p) \/ OnCommunication(p)]_vars
  <2> SUFFICES ASSUME TypeOK, TypeOK', Next, NEW p \in Peers
               PROVE  /\ conn[p] = "disconnecting" /\ removal[p] = "fired" =>
                           \/ conn'[p] = "disconnecting" /\ removal'[p] = "fired"
                           \/ conn'[p] = "connected" \/ removal'[p] = "expired"
                      /\ removal[p] = "expired" => removal'[p] \in {"expired", "remove"}
                      /\ removal[p] = "remove" => removal'[p] = "remove" \/ ~IsMember(p)'
                      /\ Removal(p) => RemovalLeft(p)' < RemovalLeft(p)
                      /\ RemovalLeft(p)' > RemovalLeft(p) => OnPeerDisconnected(p) \/ OnCommunication(p)
    OBVIOUS
  <2>1. Turn(p)
    BY NextGrace, GraceTurn DEF TypeOK
  <2>2. /\ timer[p] \in BOOLEAN /\ timer'[p] \in BOOLEAN
        /\ removal[p] \in {"none", "fired", "expired", "remove"}
        /\ removal'[p] \in {"none", "fired", "expired", "remove"}
    BY DEF TypeOK, GraceTypeOK
  <2>3. /\ RemovalLeft(p) = StepsToRemoval(timer[p], removal[p])
        /\ RemovalLeft(p)' = StepsToRemoval(timer'[p], removal'[p])
    BY DEF RemovalLeft
  <2>4. /\ removal[p] = "none" => RemovalLeft(p) = IF timer[p] THEN 4 ELSE 0
        /\ removal[p] = "fired" => RemovalLeft(p) = IF timer[p] THEN 7 ELSE 3
        /\ removal[p] = "expired" => RemovalLeft(p) = IF timer[p] THEN 6 ELSE 2
        /\ removal[p] = "remove" => RemovalLeft(p) = IF timer[p] THEN 5 ELSE 1
        /\ removal'[p] = "none" => RemovalLeft(p)' = IF timer'[p] THEN 4 ELSE 0
        /\ removal'[p] = "fired" => RemovalLeft(p)' = IF timer'[p] THEN 7 ELSE 3
        /\ removal'[p] = "expired" => RemovalLeft(p)' = IF timer'[p] THEN 6 ELSE 2
        /\ removal'[p] = "remove" => RemovalLeft(p)' = IF timer'[p] THEN 5 ELSE 1
    BY <2>2, <2>3, StepsToRemovalAre
  <2>5. /\ conn[p] = "disconnecting" /\ removal[p] = "fired" =>
             \/ conn'[p] = "disconnecting" /\ removal'[p] = "fired"
             \/ conn'[p] = "connected" \/ removal'[p] = "expired"
        /\ removal[p] = "expired" => removal'[p] \in {"expired", "remove"}
    BY <2>1 DEF Turn
  <2>6. ASSUME removal[p] = "remove", removal'[p] # "remove"
        PROVE  ~IsMember(p)'
    <3>1. PICK q \in Peers : Events(q) \/ Removal(q) \/ Adding(q) \/ Upkeep(q)
      BY DEF Next
    <3>2. removal' # removal
      BY <2>6
    <3>3. ~Events(q)
      BY <3>2 DEF Events, Connect, Disconnect, WatchDisconnection, WatchReconnection, Recover,
         HandleConnected, HandleDisconnected, OnPeerDisconnected, OnPeerReconnected, graceVars
    <3>4. ~Adding(q)
      BY <3>2 DEF Adding, Authenticate, RefreshMember, RefuseAuthenticated, AddAuthenticated,
         AddListed, InsertMember, AllowAdd, graceVars
    <3>5. ~Upkeep(q)
      BY <3>2 DEF Upkeep, MarkGracefullyLeft, RemoveLeft, ReportOffline, Heartbeat, Communicate,
         CollectStale, RemoveStale, TimePasses, OnCommunication, Clock, WindowSlides, FlappingEnds,
         CleanupMark, ProtectionEnds, graceVars
    <3>6. Removal(q)
      BY <3>1, <3>3, <3>4, <3>5
    <3>7. q = p
      BY <2>6, <3>6 DEF Removal, Fire, Expire, Ignore, Forget, RemoveExpired, FireTimer, ExpireGrace,
         IgnoreExpiry, ProtectAndForget, Protect, GoRemoval, TypeOK, GraceTypeOK
    <3>8. RemoveExpired(p)
      BY <2>6, <3>6, <3>7 DEF Removal, Fire, Expire, Ignore, Forget, FireTimer, ExpireGrace,
         IgnoreExpiry, ProtectAndForget
    <3> QED
      BY <3>8 DEF RemoveExpired, Remove, IsMember, TypeOK
  <2>7. Removal(p) => RemovalLeft(p)' < RemovalLeft(p)
    <3>1. CASE Fire(p)
      <4>1. timer[p] /\ ~timer'[p] /\ removal[p] = "none" /\ removal'[p] = "fired"
        BY <3>1 DEF Fire, FireTimer, GoRemoval, TypeOK, GraceTypeOK
      <4> QED
        BY ONLY <2>4, <4>1
    <3>2. CASE Expire(p)
      <4>1. timer'[p] = timer[p] /\ removal[p] = "fired" /\ removal'[p] = "expired"
        BY <3>2 DEF Expire, ExpireGrace, GoRemoval, TypeOK, GraceTypeOK
      <4> QED
        BY ONLY <2>4, <4>1
    <3>3. CASE Ignore(p)
      <4>1. timer'[p] = timer[p] /\ removal[p] = "fired" /\ removal'[p] = "none"
        BY <3>3 DEF Ignore, IgnoreExpiry, GoRemoval, TypeOK, GraceTypeOK
      <4> QED
        BY ONLY <2>4, <4>1
    <3>4. CASE Forget(p)
      <4>1. ~timer'[p] /\ removal[p] = "expired" /\ removal'[p] = "remove"
        BY <3>4 DEF Forget, ProtectAndForget, GoRemoval, TypeOK, GraceTypeOK
      <4> QED
        BY ONLY <2>4, <4>1
    <3>5. CASE RemoveExpired(p)
      <4>1. timer'[p] = timer[p] /\ removal[p] = "remove" /\ removal'[p] = "none"
        BY <3>5 DEF RemoveExpired, Protect, GoRemoval, TypeOK, GraceTypeOK
      <4> QED
        BY ONLY <2>4, <4>1
    <3> QED
      BY <3>1, <3>2, <3>3, <3>4, <3>5 DEF Removal
  <2>8. OnPeerDisconnected(p) \/ OnCommunication(p) \/ ~(RemovalLeft(p)' > RemovalLeft(p))
    <3>1. CASE ~timer'[p] /\ removal'[p] = removal[p]
      BY ONLY <2>2, <2>4, <3>1
    <3>2. CASE timer[p] /\ removal'[p] = removal[p]
      BY ONLY <2>2, <2>4, <3>2
    <3>3. CASE timer[p] /\ ~timer'[p] /\ removal[p] = "none" /\ removal'[p] = "fired"
      BY ONLY <2>4, <3>3
    <3>4. CASE removal[p] = "fired" /\ removal'[p] \in {"expired", "none"} /\ timer'[p] = timer[p]
      BY ONLY <2>4, <3>4
    <3>5. CASE removal[p] = "expired" /\ removal'[p] = "remove" /\ ~timer'[p]
      BY ONLY <2>4, <3>5
    <3>6. CASE removal[p] = "remove" /\ removal'[p] = "none" /\ timer'[p] = timer[p]
      BY ONLY <2>4, <3>6
    <3> QED
      BY <2>1, <3>1, <3>2, <3>3, <3>4, <3>5, <3>6 DEF Turn
  <2> QED
    BY <2>5, <2>6, <2>7, <2>8
<1> QED
  BY <1>1, TypeCorrect, PTL DEF Spec, GraceRunsOut
=============================================================================
