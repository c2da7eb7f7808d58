------------------------- MODULE ConnectivityProofs -------------------------
(***************************************************************************)
(* The safety of the pool and of the host's count, for any connections of  *)
(* which any are circuits.                                                 *)
(*                                                                         *)
(* Nothing survives Swarm.Close because an open connection that has been   *)
(* added is in the pool or in the hands of somebody who took it from there *)
(* to close it (Kept), one that has not been added is in neither (Unmade), *)
(* and a swept pool stays empty (Swept).  The count covers because both    *)
(* handlers change it together with what they have counted.                *)
(*                                                                         *)
(* The safety of the gate on the addresses, for any number of callbacks:   *)
(* a goroutine past the relay's signal with addresses has set it           *)
(* (Announced).  And what the progress of both rests on: who closes a      *)
(* connection, and that a reservation is not lost on its way.              *)
(***************************************************************************)
EXTENDS SwarmHost, AddressGate, FiniteSetTheorems, TLAPS

Unmade ==
  \A c \in Conns :
    stage[c] \in {"none", "dialling", "made"} =>
      /\ c \notin pool /\ list[c] = "nobody"
      /\ closing[c] = "open" \/ (closing[c] = "flagged" /\ stage[c] = "made" /\ c \in Circuits)

Refused ==
  \A c \in Conns :
    stage[c] = "refused" => c \notin pool /\ list[c] = "nobody"

Kept ==
  \A c \in Conns :
    stage[c] \in {"added", "announced"} /\ closing[c] = "open" => c \in pool \/ list[c] # "nobody"

Swept ==
  /\ swarm \in {"sweeping", "closed"} => pool = {}
  /\ swarm = "closed" => \A c \in Conns : list[c] # "Swarm"

PoolInv == SwarmTypeOK /\ Unmade /\ Refused /\ Kept /\ Swept /\ PoolHasNoGhosts

(* A connection that has ended was made. *)
DeadWereMade == \A c \in dead : stage[c] \notin {"none", "dialling"}

(* The end of a connection is announced once. *)
DownOnce == \A c \in Conns : closing[c] # "closed" => down[c] = "no"

IInv == PoolInv /\ DeadWereMade /\ DownOnce /\ CountCovers

-----------------------------------------------------------------------------
(* The pool, action by action.                                             *)

LEMMA PoolInit == InitSwarm => PoolInv
<1> SUFFICES ASSUME InitSwarm
             PROVE  PoolInv
  OBVIOUS
<1>1. SwarmTypeOK
  BY DEF InitSwarm, SwarmTypeOK, Notices
<1>2. Unmade /\ Refused /\ Kept
  BY DEF InitSwarm, Unmade, Refused, Kept
<1>3. Swept /\ PoolHasNoGhosts
  BY DEF InitSwarm, Swept, PoolHasNoGhosts
<1> QED
  BY <1>1, <1>2, <1>3 DEF PoolInv

(* Steps of the goroutine that makes a connection.                         *)
LEMMA MakeInv ==
  ASSUME PoolInv, NEW c \in Conns,
         Dial(c) \/ DialFails(c) \/ Make(c) \/ AddConn(c) \/ NotifyConnected(c)
  PROVE  PoolInv'
<1>1. CASE Dial(c) \/ DialFails(c) \/ Make(c)
  <2>1. /\ UNCHANGED <<closing, dead, pool, list, up, down, count, hostClosed, swarm>>
        /\ stage[c] \in {"none", "dialling"}
        /\ \E to \in {"none", "dialling", "made"} : stage' = [stage EXCEPT ![c] = to]
    BY <1>1 DEF Dial, DialFails, Make, Advance
  <2> QED
    BY <2>1 DEF PoolInv, SwarmTypeOK, Unmade, Refused, Kept, Swept, PoolHasNoGhosts
<1>2. CASE AddConn(c)
  <2>1. /\ stage[c] = "made" /\ c \notin pool /\ list[c] = "nobody"
        /\ closing[c] \in {"open", "flagged"}
        /\ UNCHANGED <<closing, dead, list, up, down, count, hostClosed, swarm>>
    BY <1>2 DEF AddConn, PoolInv, Unmade
  <2>2. CASE SwarmClosed
    <3>1. stage' = [stage EXCEPT ![c] = "refused"] /\ pool' = pool
      BY <1>2, <2>2 DEF AddConn, Advance
    <3> QED
      BY <2>1, <3>1 DEF PoolInv, SwarmTypeOK, Unmade, Refused, Kept, Swept, PoolHasNoGhosts
  <2>3. CASE ~SwarmClosed
    <3>1. stage' = [stage EXCEPT ![c] = "added"] /\ pool' = pool \cup {c} /\ swarm = "open"
      BY <1>2, <2>3 DEF AddConn, Advance, SwarmClosed
    <3> QED
      BY <2>1, <3>1 DEF PoolInv, SwarmTypeOK, Unmade, Refused, Kept, Swept, PoolHasNoGhosts
  <2> QED
    BY <2>2, <2>3
<1>3. CASE NotifyConnected(c)
  <2>1. /\ UNCHANGED <<closing, dead, pool, list, down, count, hostClosed, swarm>>
        /\ stage' = [stage EXCEPT ![c] = "announced"] /\ stage[c] \in {"added", "refused"}
        /\ stage[c] = "refused" => closing[c] # "open"
        /\ up' = [up EXCEPT ![c] = "launched"]
    BY <1>3 DEF NotifyConnected, Advance
  <2> QED
    BY <2>1 DEF PoolInv, SwarmTypeOK, Notices, Unmade, Refused, Kept, Swept, PoolHasNoGhosts
<1> QED
  BY <1>1, <1>2, <1>3

(* Steps that flag a connection and leave the pool to others.              *)
LEMMA FlagInv ==
  ASSUME PoolInv, DeadWereMade, NEW c \in Conns,
         CloseRefused(c) \/ CloseByUser(c) \/ NoticeDeath(c) \/ CloseListed(c)
  PROVE  PoolInv'
<1>1. /\ UNCHANGED <<stage, dead, pool, up, down, count, hostClosed, swarm>>
      /\ \/ stage[c] \in {"added", "announced", "refused"}
         \/ stage[c] = "made" /\ closing[c] = "open" /\ c \in Circuits
  BY DEF CloseRefused, CloseByUser, NoticeDeath, CloseListed, CloseConn, DeadWereMade, PoolInv,
         SwarmTypeOK, Unmade
<1>2. /\ closing' = [closing EXCEPT ![c] = IF @ = "open" THEN "flagged" ELSE @]
      /\ list' \in {list, [list EXCEPT ![c] = "nobody"]}
  BY DEF CloseRefused, CloseByUser, NoticeDeath, CloseListed, CloseConn, PoolInv, SwarmTypeOK
<1>3. /\ closing' \in [Conns -> {"open", "flagged", "removed", "closed"}]
      /\ \A d \in Conns : d # c => closing'[d] = closing[d] /\ list'[d] = list[d]
      /\ closing'[c] # "open"
      /\ closing[c] # "open" => closing'[c] = closing[c]
      /\ closing[c] = "open" => closing'[c] = "flagged"
      /\ list' \in [Conns -> {"nobody", "ClosePeer", "Swarm"}]
      /\ list'[c] \in {list[c], "nobody"}
  BY <1>2 DEF PoolInv, SwarmTypeOK
<1>4. SwarmTypeOK'
  BY <1>1, <1>3 DEF PoolInv, SwarmTypeOK
<1>5. Unmade' /\ Refused' /\ Kept'
  BY <1>1, <1>3 DEF PoolInv, Unmade, Refused, Kept
<1>6. Swept' /\ PoolHasNoGhosts'
  BY <1>1, <1>3 DEF PoolInv, SwarmTypeOK, Swept, PoolHasNoGhosts
<1> QED
  BY <1>4, <1>5, <1>6 DEF PoolInv

(* Steps that take a closing connection from the pool, or find it gone.    *)
LEMMA RemoveInv ==
  ASSUME PoolInv, NEW c \in Conns,
         RemoveConn(c) \/ WatchDone(c) \/ NotifyDisconnected(c) \/ DropClosed(c)
  PROVE  PoolInv'
<1>1. CASE RemoveConn(c) \/ DropClosed(c)
  <2>1. /\ UNCHANGED <<stage, dead, list, up, down, count, hostClosed, swarm>>
        /\ pool' = pool \ {c} /\ closing[c] # "open"
        /\ closing' \in {closing, [closing EXCEPT ![c] = "removed"]}
        /\ closing' = closing \/ (closing[c] = "flagged" /\ c \notin Circuits)
    BY <1>1 DEF RemoveConn, DropClosed
  <2>2. /\ closing' \in [Conns -> {"open", "flagged", "removed", "closed"}]
        /\ \A d \in Conns : d # c => closing'[d] = closing[d]
        /\ closing'[c] \in {closing[c], "removed"} /\ closing'[c] # "open"
    BY <2>1 DEF PoolInv, SwarmTypeOK
  <2>3. SwarmTypeOK' /\ Unmade' /\ Refused'
    BY <2>1, <2>2 DEF PoolInv, SwarmTypeOK, Unmade, Refused
  <2>4. Kept'
    BY <2>1, <2>2 DEF PoolInv, Kept
  <2>5. Swept' /\ PoolHasNoGhosts'
    BY <2>1, <2>2 DEF PoolInv, SwarmTypeOK, Swept, PoolHasNoGhosts
  <2> QED
    BY <2>3, <2>4, <2>5 DEF PoolInv
<1>2. CASE WatchDone(c)
  <2>1. /\ UNCHANGED <<stage, dead, list, up, down, count, hostClosed, swarm>>
        /\ c \in Circuits /\ closing[c] = "flagged" /\ stage[c] \in {"added", "announced"}
    BY <1>2 DEF WatchDone
  <2>2. CASE SwarmClosed
    <3>1. closing' = [closing EXCEPT ![c] = "closed"] /\ pool' = pool
      BY <1>2, <2>2 DEF WatchDone
    <3>2. pool # {} => swarm = "closing"
      BY <2>2 DEF PoolInv, Swept, SwarmTypeOK, SwarmClosed
    <3> QED
      BY <2>1, <3>1, <3>2 DEF PoolInv, SwarmTypeOK, Unmade, Refused, Kept, Swept, PoolHasNoGhosts
  <2>3. CASE ~SwarmClosed
    <3>1. closing' = [closing EXCEPT ![c] = "removed"] /\ pool' = pool \ {c}
      BY <1>2, <2>3 DEF WatchDone
    <3> QED
      BY <2>1, <3>1 DEF PoolInv, SwarmTypeOK, Unmade, Refused, Kept, Swept, PoolHasNoGhosts
  <2> QED
    BY <2>2, <2>3
<1>3. CASE NotifyDisconnected(c)
  <2>1. /\ UNCHANGED <<stage, dead, pool, list, up, count, hostClosed, swarm>>
        /\ closing[c] = "removed" /\ closing' = [closing EXCEPT ![c] = "closed"]
        /\ down' = [down EXCEPT ![c] = "launched"]
    BY <1>3 DEF NotifyDisconnected
  <2> QED
    BY <2>1 DEF PoolInv, SwarmTypeOK, Notices, Unmade, Refused, Kept, Swept, PoolHasNoGhosts
<1> QED
  BY <1>1, <1>2, <1>3

(* ClosePeer and the sweep take the whole pool. *)
LEMMA TakeInv ==
  ASSUME PoolInv, ClosePeer \/ Sweep
  PROVE  PoolInv'
<1>1. PICK who \in {"ClosePeer", "Swarm"} :
        /\ TakePool(who)
        /\ \/ swarm' = swarm /\ who = "ClosePeer"
           \/ swarm = "closing" /\ swarm' = "sweeping"
  BY DEF ClosePeer, Sweep
<1>2. /\ UNCHANGED <<stage, closing, dead, up, down, count, hostClosed>>
      /\ pool' = {}
      /\ \A c \in Conns : list'[c] = IF c \in pool THEN who ELSE list[c]
      /\ list' \in [Conns -> {"nobody", "ClosePeer", "Swarm"}]
  BY <1>1 DEF ClosePeer, Sweep, TakePool, PoolInv, SwarmTypeOK
<1>3. SwarmTypeOK' /\ Unmade' /\ Refused' /\ PoolHasNoGhosts'
  BY <1>1, <1>2 DEF PoolInv, SwarmTypeOK, Unmade, Refused, PoolHasNoGhosts
<1>4. Kept'
  BY <1>1, <1>2 DEF PoolInv, Kept
<1>5. Swept'
  BY <1>1, <1>2 DEF PoolInv, Swept
<1> QED
  BY <1>3, <1>4, <1>5 DEF PoolInv

LEMMA ShutInv ==
  ASSUME PoolInv, CloseHost \/ CloseSwarm \/ SwarmCloseReturns
  PROVE  PoolInv'
BY DEF CloseHost, CloseSwarm, SwarmCloseReturns, PoolInv, SwarmTypeOK, Unmade, Refused, Kept,
       Swept, PoolHasNoGhosts

LEMMA HostInv ==
  ASSUME PoolInv, NEW c \in Conns, Connected(c) \/ Disconnected(c) \/ Die(c)
  PROVE  PoolInv'
<1>1. UNCHANGED <<stage, closing, pool, list, hostClosed, swarm>> /\ dead' \subseteq Conns
  BY DEF Connected, Disconnected, Die, PoolInv, SwarmTypeOK
<1>2. up' \in [Conns -> Notices] /\ down' \in [Conns -> Notices] /\ count' \in Nat
  BY DEF Connected, Disconnected, Die, PoolInv, SwarmTypeOK, Notices
<1> QED
  BY <1>1, <1>2 DEF PoolInv, SwarmTypeOK, Unmade, Refused, Kept, Swept, PoolHasNoGhosts

-----------------------------------------------------------------------------
(* The count. *)

LEMMA CountedFinite ==
  /\ IsFiniteSet(UpCounted) /\ Cardinality(UpCounted) \in Nat
  /\ IsFiniteSet(DownCounted) /\ Cardinality(DownCounted) \in Nat
<1>1. UpCounted \in SUBSET Conns /\ DownCounted \in SUBSET Conns
  BY DEF UpCounted, DownCounted
<1>2. IsFiniteSet(UpCounted) /\ IsFiniteSet(DownCounted)
  BY <1>1, ConnsAssumption, FS_Subset
<1> QED
  BY <1>2, FS_CardinalityType

LEMMA CountConnected ==
  ASSUME SwarmTypeOK, CountCovers, NEW c \in Conns, Connected(c)
  PROVE  CountCovers'
<1>1. down' = down /\ up[c] = "launched"
  BY DEF Connected
<1>2. DownCounted' = DownCounted /\ c \notin UpCounted
  BY <1>1 DEF DownCounted, UpCounted, Counted
<1>3. CASE hostClosed
  <2>1. count' = count /\ UpCounted' = UpCounted
    BY <1>1, <1>3 DEF Connected, SwarmTypeOK, UpCounted, Counted
  <2> QED
    BY <1>2, <2>1 DEF CountCovers
<1>4. CASE ~hostClosed
  <2>1. count' = count + 1 /\ UpCounted' = UpCounted \cup {c}
    BY <1>1, <1>4 DEF Connected, SwarmTypeOK, UpCounted, Counted
  <2>2. Cardinality(UpCounted') = Cardinality(UpCounted) + 1
    BY <1>2, <2>1, CountedFinite, FS_AddElement
  <2> QED
    BY <1>2, <2>1, <2>2, CountedFinite DEF CountCovers, SwarmTypeOK
<1> QED
  BY <1>3, <1>4

LEMMA CountDisconnected ==
  ASSUME SwarmTypeOK, CountCovers, NEW c \in Conns, Disconnected(c)
  PROVE  CountCovers'
<1>1. up' = up /\ down[c] = "launched"
  BY DEF Disconnected
<1>2. UpCounted' = UpCounted /\ c \notin DownCounted
  BY <1>1 DEF DownCounted, UpCounted, Counted
<1>3. CASE hostClosed
  <2>1. count' = count /\ DownCounted' = DownCounted
    BY <1>1, <1>3 DEF Disconnected, SwarmTypeOK, DownCounted, Counted
  <2> QED
    BY <1>2, <2>1 DEF CountCovers
<1>4. CASE ~hostClosed
  <2>1. count' >= count - 1 /\ count' \in Nat /\ DownCounted' = DownCounted \cup {c}
    BY <1>1, <1>4 DEF Disconnected, SwarmTypeOK, DownCounted, Counted
  <2>2. Cardinality(DownCounted') = Cardinality(DownCounted) + 1
    BY <1>2, <2>1, CountedFinite, FS_AddElement
  <2> QED
    BY <1>2, <2>1, <2>2, CountedFinite DEF CountCovers, SwarmTypeOK
<1> QED
  BY <1>3, <1>4

LEMMA CountAnnounced ==
  ASSUME SwarmTypeOK, DownOnce, CountCovers, NEW c \in Conns,
         NotifyConnected(c) \/ NotifyDisconnected(c)
  PROVE  CountCovers'
<1>1. /\ count' = count
      /\ \/ up' = [up EXCEPT ![c] = "launched"] /\ down' = down
         \/ up' = up /\ down' = [down EXCEPT ![c] = "launched"] /\ down[c] = "no"
  BY DEF NotifyConnected, NotifyDisconnected, DownOnce
<1>2. UpCounted' \subseteq UpCounted /\ DownCounted' = DownCounted
  BY <1>1 DEF SwarmTypeOK, UpCounted, DownCounted, Counted
<1>3. Cardinality(UpCounted') <= Cardinality(UpCounted) /\ Cardinality(UpCounted') \in Nat
  BY <1>2, CountedFinite, FS_Subset, FS_CardinalityType
<1> QED
  BY <1>1, <1>2, <1>3, CountedFinite DEF CountCovers, SwarmTypeOK

LEMMA DownOnceKept ==
  ASSUME PoolInv, DownOnce, [SwarmNext]_svars
  PROVE  DownOnce'
<1> SUFFICES ASSUME NEW c \in Conns
             PROVE  closing'[c] = "closed" \/ down'[c] = "no"
  BY DEF DownOnce
<1>1. ASSUME NEW d \in Conns, AddConn(d)
      PROVE  closing'[c] = "closed" \/ down'[c] = "no"
  BY <1>1 DEF AddConn, PoolInv, SwarmTypeOK, Unmade, DownOnce
<1>2. ASSUME NEW d \in Conns, CloseRefused(d) \/ CloseByUser(d) \/ NoticeDeath(d) \/ CloseListed(d)
      PROVE  closing'[c] = "closed" \/ down'[c] = "no"
  BY <1>2 DEF CloseRefused, CloseByUser, NoticeDeath, CloseListed, CloseConn, PoolInv, SwarmTypeOK, DownOnce
<1>3. ASSUME NEW d \in Conns, RemoveConn(d) \/ WatchDone(d) \/ NotifyDisconnected(d)
      PROVE  closing'[c] = "closed" \/ down'[c] = "no"
  BY <1>3 DEF RemoveConn, WatchDone, NotifyDisconnected, PoolInv, SwarmTypeOK, DownOnce
<1>4. ASSUME NEW d \in Conns, Disconnected(d)
      PROVE  closing'[c] = "closed" \/ down'[c] = "no"
  BY <1>4 DEF Disconnected, PoolInv, SwarmTypeOK, DownOnce
<1>5. ASSUME UNCHANGED <<closing, down>>
      PROVE  closing'[c] = "closed" \/ down'[c] = "no"
  BY <1>5 DEF DownOnce
<1> QED
  BY <1>1, <1>2, <1>3, <1>4, <1>5
     DEF SwarmNext, svars, Making, Ending, Dial, DialFails, Make, NotifyConnected, Die, DropClosed,
         Connected, ClosePeer, CloseHost, CloseSwarm, Sweep, SwarmCloseReturns

LEMMA DeadKept ==
  ASSUME PoolInv, DeadWereMade, [SwarmNext]_svars
  PROVE  DeadWereMade'
<1> SUFFICES ASSUME NEW c \in dead'
             PROVE  stage'[c] \notin {"none", "dialling"}
  BY DEF DeadWereMade
<1>1. ASSUME NEW d \in Conns,
             Dial(d) \/ DialFails(d) \/ Make(d) \/ AddConn(d) \/ NotifyConnected(d) \/ Die(d)
      PROVE  stage'[c] \notin {"none", "dialling"}
  BY <1>1 DEF Dial, DialFails, Make, AddConn, NotifyConnected, Advance, Die, PoolInv, SwarmTypeOK,
              DeadWereMade
<1>2. ASSUME UNCHANGED <<stage, dead>>
      PROVE  stage'[c] \notin {"none", "dialling"}
  BY <1>2 DEF DeadWereMade
<1> QED
  BY <1>1, <1>2
     DEF SwarmNext, svars, Making, Ending, CloseRefused, CloseByUser, NoticeDeath, CloseConn,
         RemoveConn, WatchDone, NotifyDisconnected, CloseListed, DropClosed, Connected,
         Disconnected, ClosePeer, CloseHost, CloseSwarm, Sweep, SwarmCloseReturns

LEMMA NextIInv == IInv /\ [SwarmNext]_svars => IInv'
<1> SUFFICES ASSUME IInv, [SwarmNext]_svars
             PROVE  IInv'
  OBVIOUS
<1>1. PoolInv'
  <2>1. CASE UNCHANGED svars
    BY <2>1 DEF svars, IInv, PoolInv, SwarmTypeOK, Unmade, Refused, Kept, Swept, PoolHasNoGhosts
  <2> QED
    BY <2>1, MakeInv, FlagInv, RemoveInv, TakeInv, ShutInv, HostInv
       DEF IInv, SwarmNext, Making, Ending
<1>2. DownOnce' /\ DeadWereMade'
  BY DownOnceKept, DeadKept DEF IInv
<1>3. CountCovers'
  <2>1. ASSUME UNCHANGED <<up, down, count>>
        PROVE  CountCovers'
    BY <2>1 DEF IInv, CountCovers, UpCounted, DownCounted
  <2> QED
    BY <2>1, CountConnected, CountDisconnected, CountAnnounced
       DEF IInv, PoolInv, SwarmNext, svars, Making, Ending, Dial, DialFails, Make, AddConn, Die,
           CloseRefused, CloseByUser, NoticeDeath, CloseConn, RemoveConn, WatchDone, CloseListed, DropClosed,
           ClosePeer, CloseHost, CloseSwarm, Sweep, SwarmCloseReturns
<1> QED
  BY <1>1, <1>2, <1>3 DEF IInv

LEMMA InitIInv == InitSwarm => IInv
<1> SUFFICES ASSUME InitSwarm
             PROVE  IInv
  OBVIOUS
<1>1. DownOnce /\ DeadWereMade
  BY DEF InitSwarm, DownOnce, DeadWereMade
<1>2. UpCounted = {} /\ DownCounted = {} /\ count = 0
  BY DEF InitSwarm, UpCounted, DownCounted, Counted
<1>3. CountCovers
  BY <1>2, FS_EmptySet DEF CountCovers
<1> QED
  BY <1>1, <1>3, PoolInit DEF IInv

-----------------------------------------------------------------------------
THEOREM InductiveInvariant == SwarmSpec => []IInv
BY InitIInv, NextIInv, PTL DEF SwarmSpec

(* Types are kept: the count never goes below zero.                        *)
THEOREM TypeCorrect == SwarmSpec => []SwarmTypeOK
<1>1. IInv => SwarmTypeOK
  BY DEF IInv, PoolInv
<1> QED
  BY <1>1, InductiveInvariant, PTL

(* A connection that has been removed is never put back into the pool nor  *)
(* left there (swarm.go, addConn and removeConn).                          *)
THEOREM PoolHasNoGhostsHolds == SwarmSpec => []PoolHasNoGhosts
<1>1. IInv => PoolHasNoGhosts
  BY DEF IInv, PoolInv
<1> QED
  BY <1>1, InductiveInvariant, PTL

(* When Swarm.Close has returned every connection that was added is closed *)
(* or about to be, and the pool stays empty (swarm.go, Close).             *)
THEOREM NothingSurvivesCloseHolds == SwarmSpec => []NothingSurvivesClose
<1>1. IInv => NothingSurvivesClose
  <2> SUFFICES ASSUME IInv, swarm = "closed"
               PROVE  /\ pool = {}
                      /\ \A c \in Conns :
                           stage[c] \in {"added", "announced"} /\ closing[c] = "open"
                             => list[c] = "ClosePeer"
    BY DEF NothingSurvivesClose
  <2>1. pool = {} /\ \A c \in Conns : list[c] \in {"nobody", "ClosePeer"}
    BY DEF IInv, PoolInv, Swept, SwarmTypeOK
  <2> QED
    BY <2>1 DEF IInv, PoolInv, Kept
<1> QED
  BY <1>1, InductiveInvariant, PTL

(* Whoever will take a dead connection from the pool: the goroutine that   *)
(* makes it or waits for its end, the Close under way, or Swarm.Close.     *)
Seen(c) ==
  \/ stage[c] = "added"
  \/ closing[c] = "open" /\ (c \in Circuits \/ ~SwarmClosed)
  \/ closing[c] = "flagged" /\ (c \in Circuits => stage[c] \in {"added", "announced"})
  \/ swarm = "closing"

DeadAreSeen == \A c \in pool \cap dead : Seen(c)

(* A connection that has ended stays in the pool only as long as somebody  *)
(* has the next step towards taking it out: the inbound loop leaves a      *)
(* closing swarm alone, and then the sweep is still to come (conn.go,      *)
(* handleInboundStreams and Close; swarm.go, Close).                       *)
THEOREM DeadAreSeenHolds == SwarmSpec => []DeadAreSeen
<1>1. IInv => DeadAreSeen
  BY DEF IInv, PoolInv, PoolHasNoGhosts, Swept, SwarmTypeOK, SwarmClosed, DeadAreSeen, Seen
<1> QED
  BY <1>1, InductiveInvariant, PTL

(* Once swept, a swarm takes no connection in, and one that is open has    *)
(* not been added or is with somebody who took it from the pool to close   *)
(* it, or with the goroutine that tried to add it.                         *)
CloserAfterSweep(c) ==
  swarm \in {"sweeping", "closed"} =>
    /\ closing[c] = "open" /\ stage[c] \in {"added", "announced"} => list[c] # "nobody"
    /\ AddConn(c) => stage'[c] = "refused"
    /\ CloseRefused(c) \/ CloseListed(c) => closing'[c] # "open"
    /\ closing[c] # "open" => closing'[c] # "open"

OpenHasCloser == [][\A c \in Conns : CloserAfterSweep(c)]_svars

(* Nothing stays open for good once the pool has been swept, whoever was   *)
(* making, announcing or closing connections at that time (swarm.go, Close *)
(* and addConn).                                                           *)
THEOREM OpenHasCloserHolds == SwarmSpec => OpenHasCloser
<1>1. IInv /\ [SwarmNext]_svars => [\A c \in Conns : CloserAfterSweep(c)]_svars
  <2> SUFFICES ASSUME IInv, SwarmNext, NEW c \in Conns, swarm \in {"sweeping", "closed"}
               PROVE  CloserAfterSweep(c)
    BY DEF CloserAfterSweep
  <2>1. closing[c] = "open" /\ stage[c] \in {"added", "announced"} => list[c] # "nobody"
    BY DEF IInv, PoolInv, SwarmTypeOK, Kept, Swept
  <2>2. /\ AddConn(c) => stage'[c] = "refused"
        /\ CloseRefused(c) \/ CloseListed(c) => closing'[c] # "open"
    BY DEF AddConn, Advance, CloseRefused, CloseConn, CloseListed, SwarmClosed, IInv, PoolInv,
           SwarmTypeOK
  <2>3. closing[c] # "open" => closing'[c] # "open"
    <3>1. closing \in [Conns -> {"open", "flagged", "removed", "closed"}]
      BY DEF IInv, PoolInv, SwarmTypeOK
    <3>2. ASSUME NEW d \in Conns,
                 \/ Dial(d) \/ DialFails(d) \/ Make(d) \/ Making(d)
                 \/ Die(d) \/ CloseByUser(d) \/ NoticeDeath(d) \/ Ending(d) \/ DropClosed(d)
                 \/ Connected(d) \/ Disconnected(d)
          PROVE  closing' = closing \/ \E to \in {"flagged", "removed", "closed"} :
                                         closing' = [closing EXCEPT ![d] = to]
      <4>1. CASE CloseListed(d)
        BY <3>1, <4>1 DEF CloseListed
      <4>2. CASE ~CloseListed(d)
        BY <3>2, <4>2 DEF Dial, DialFails, Make, Making, AddConn, CloseRefused, NotifyConnected, Die, CloseByUser,
           NoticeDeath, CloseConn, Ending, RemoveConn, WatchDone, NotifyDisconnected, DropClosed,
           Connected, Disconnected
      <4> QED
        BY <4>1, <4>2
    <3>3. closing' = closing \/ \E d \in Conns, to \in {"flagged", "removed", "closed"} :
                                  closing' = [closing EXCEPT ![d] = to]
      BY <3>2 DEF SwarmNext, ClosePeer, CloseHost, CloseSwarm, Sweep, SwarmCloseReturns
    <3> QED
      BY <3>1, <3>3
  <2> QED
    BY <2>1, <2>2, <2>3 DEF CloserAfterSweep
<1> QED
  BY <1>1, InductiveInvariant, PTL DEF SwarmSpec, OpenHasCloser

(* The host counts at least the connections announced and not ended        *)
(* (host/lifecycle.go, Connected and Disconnected), in whatever order it   *)
(* hears of them.                                                          *)
THEOREM CountCoversHolds == SwarmSpec => []CountCovers
<1>1. IInv => CountCovers
  BY DEF IInv
<1> QED
  BY <1>1, InductiveInvariant, PTL

(* A disconnection is published only when no connection heard of is left,  *)
(* or when the end of some connection was heard before its beginning.      *)
THEOREM DisconnectedIsTrueHolds == SwarmSpec => DisconnectedIsTrue
<1> DEFINE Published(c) ==
      down[c] = "launched" /\ down'[c] = "published" =>
        UpCounted \subseteq DownCounted' \/ \E d \in DownCounted' : d \notin UpCounted
<1>1. IInv /\ IInv' /\ [SwarmNext]_svars => [\A c \in Conns : Published(c)]_svars
  <2> SUFFICES ASSUME IInv, IInv', SwarmNext, NEW c \in Conns,
                      down[c] = "launched", down'[c] = "published",
                      DownCounted' \subseteq UpCounted
               PROVE  UpCounted \subseteq DownCounted'
    OBVIOUS
  <2>1. \E d \in Conns : Disconnected(d) /\ d = c
    BY DEF IInv, PoolInv, SwarmTypeOK, Notices, DownOnce, SwarmNext, Making, Ending, Dial, DialFails, Make,
           AddConn, CloseRefused, NotifyConnected, Die, CloseByUser, NoticeDeath, CloseConn, RemoveConn, WatchDone,
           NotifyDisconnected, CloseListed, DropClosed, Connected, Disconnected, ClosePeer,
           CloseHost, CloseSwarm, Sweep, SwarmCloseReturns
  <2>2. count' = 0 /\ up' = up
    BY <2>1 DEF Disconnected, IInv, PoolInv, SwarmTypeOK
  <2>3. Cardinality(DownCounted') >= Cardinality(UpCounted)
    <3>1. CountCovers'
      BY DEF IInv
    <3>2. UpCounted' = UpCounted
      BY <2>2 DEF UpCounted
    <3>3. IsFiniteSet(DownCounted') /\ Cardinality(DownCounted') \in Nat
      BY ConnsAssumption, FS_Subset, FS_CardinalityType DEF DownCounted
    <3> QED
      BY <2>2, <3>1, <3>2, <3>3, CountedFinite DEF CountCovers
  <2> QED
    BY <2>3, CountedFinite, FS_Subset, FS_CardinalityType
<1> QED
  BY <1>1, InductiveInvariant, PTL DEF SwarmSpec, DisconnectedIsTrue

-----------------------------------------------------------------------------
(* The gate.                                                               *)

(* The relay's signal is set by whoever will store a relay address, and by *)
(* whoever has read one.                                                   *)
Announced ==
  \A g \in Goroutines :
    \/ task[g].at = "connected" /\ task[g].addrs # {}
    \/ task[g].at = "read" /\ "relay" \in task[g].addrs
    => relayConnected

(* What AutoRelay reports is a relay's address or nothing. *)
Reports ==
  \A g \in Goroutines : task[g].at \in {"reserved", "connected"} => task[g].addrs \subseteq {"relay"}

GateInv == GateTypeOK /\ Reports /\ Announced /\ ConnectedBeforeAdvertised

LEMMA GateInitially == InitGate => GateInv
<1> SUFFICES ASSUME InitGate PROVE GateInv
  OBVIOUS
<1>1. addrs = {} /\ \A g \in Goroutines : task[g] = NoTask
  BY DEF InitGate
<1>2. NoTask \in [at : TaskStages, addrs : SUBSET Kinds]
  BY DEF NoTask, TaskStages
<1>3. GateTypeOK
  BY <1>2 DEF InitGate, GateTypeOK, NATTypes
<1> QED
  BY <1>1, <1>3 DEF GateInv, Reports, Announced, ConnectedBeforeAdvertised, NoTask

LEMMA RunTypes ==
  ASSUME GateTypeOK, NEW g \in Goroutines, NEW at \in TaskStages, NEW as \in SUBSET Kinds, Run(g, at, as)
  PROVE  task' \in [Goroutines -> [at : TaskStages, addrs : SUBSET Kinds]]
BY DEF GateTypeOK, Run

LEMMA GateTypes ==
  ASSUME GateTypeOK, [GateNext]_gvars
  PROVE  GateTypeOK'
<1> USE DEF GateTypeOK, NATTypes, Kinds, TaskStages
<1>1. CASE \E t \in NATTypes : DetectNATType(t)
  BY <1>1 DEF DetectNATType, relay
<1>2. CASE NotifyNATTypeReady \/ SetRelayAddr
  BY <1>2 DEF NotifyNATTypeReady, SetRelayAddr, nat, relay
<1>3. ASSUME NEW g \in Goroutines, VerifyDirect(g) \/ ExpireDirect(g)
      PROVE  GateTypeOK'
  <2>1. addrs' \in SUBSET Kinds /\ Run(g, "stored", {})
    BY <1>3 DEF VerifyDirect, ExpireDirect
  <2> QED
    BY <1>3, <2>1, RunTypes DEF VerifyDirect, ExpireDirect, nat, relay
<1>4. ASSUME NEW g \in Goroutines, Reserve(g) \/ RemoveRelay(g) \/ NotifyAddrsChanged(g)
      PROVE  GateTypeOK'
  <2>1. \E as \in SUBSET Kinds, at \in TaskStages : Run(g, at, as)
    BY <1>4 DEF Reserve, RemoveRelay, NotifyAddrsChanged
  <2> QED
    BY <1>4, <2>1, RunTypes DEF Reserve, RemoveRelay, NotifyAddrsChanged, nat, relay
<1>5. ASSUME NEW g \in Goroutines, SetRelayConnected(g)
      PROVE  GateTypeOK'
  <2>1. task[g].addrs \in SUBSET Kinds
    OBVIOUS
  <2> QED
    BY <1>5, <2>1, RunTypes DEF SetRelayConnected, nat
<1>6. ASSUME NEW g \in Goroutines, OnRelayReserved(g)
      PROVE  GateTypeOK'
  <2>1. addrs' \in SUBSET Kinds /\ Run(g, "stored", {})
    BY <1>6 DEF OnRelayReserved
  <2> QED
    BY <1>6, <2>1, RunTypes DEF OnRelayReserved, nat, relay
<1>7. ASSUME NEW g \in Goroutines, OnAddressChanged(g)
      PROVE  GateTypeOK'
  BY <1>7 DEF OnAddressChanged, Passes, Suffices, NoTask, nat, relay
<1>8. CASE UNCHANGED gvars
  BY <1>8 DEF gvars, nat, relay
<1>9. ASSUME NEW g \in Goroutines, ReadDirect(g) \/ ReadRelay(g)
      PROVE  GateTypeOK'
  <2>1. \E as \in SUBSET Kinds, at \in TaskStages : Run(g, at, as)
    BY <1>9 DEF ReadDirect, ReadRelay
  <2> QED
    BY <1>9, <2>1, RunTypes DEF ReadDirect, ReadRelay, nat, relay
<1> QED
  BY <1>1, <1>2, <1>3, <1>4, <1>5, <1>6, <1>7, <1>8, <1>9 DEF GateNext, TaskStep, OnAddrsChanged

LEMMA GatePreserved ==
  ASSUME GateInv, [GateNext]_gvars
  PROVE  Reports' /\ Announced' /\ ConnectedBeforeAdvertised'
<1> USE DEF GateInv, GateTypeOK, Reports, Announced, ConnectedBeforeAdvertised, Kinds
<1>1. CASE \E t \in NATTypes : DetectNATType(t)
  BY <1>1 DEF DetectNATType, relay
<1>2. CASE NotifyNATTypeReady \/ SetRelayAddr
  BY <1>2 DEF NotifyNATTypeReady, SetRelayAddr, nat, relay
<1>3. ASSUME NEW g \in Goroutines, VerifyDirect(g) \/ ExpireDirect(g)
      PROVE  Reports' /\ Announced' /\ ConnectedBeforeAdvertised'
  BY <1>3 DEF VerifyDirect, ExpireDirect, Run, nat, relay
<1>4. ASSUME NEW g \in Goroutines, Reserve(g) \/ RemoveRelay(g) \/ NotifyAddrsChanged(g)
      PROVE  Reports' /\ Announced' /\ ConnectedBeforeAdvertised'
  BY <1>4 DEF Reserve, RemoveRelay, NotifyAddrsChanged, Run, nat, relay
<1>5. ASSUME NEW g \in Goroutines, SetRelayConnected(g)
      PROVE  Reports' /\ Announced' /\ ConnectedBeforeAdvertised'
  BY <1>5 DEF SetRelayConnected, Run, nat
<1>6. ASSUME NEW g \in Goroutines, OnRelayReserved(g)
      PROVE  Reports' /\ Announced' /\ ConnectedBeforeAdvertised'
  BY <1>6 DEF OnRelayReserved, Run, nat, relay
<1>7. ASSUME NEW g \in Goroutines, OnAddressChanged(g)
      PROVE  Reports' /\ Announced' /\ ConnectedBeforeAdvertised'
  BY <1>7 DEF OnAddressChanged, NoTask, nat, relay
<1>8. CASE UNCHANGED gvars
  BY <1>8 DEF gvars, nat, relay
<1>9. ASSUME NEW g \in Goroutines, ReadDirect(g) \/ ReadRelay(g)
      PROVE  Reports' /\ Announced' /\ ConnectedBeforeAdvertised'
  BY <1>9 DEF ReadDirect, ReadRelay, Run, nat, relay
<1> QED
  BY <1>1, <1>2, <1>3, <1>4, <1>5, <1>6, <1>7, <1>8, <1>9 DEF GateNext, TaskStep, OnAddrsChanged

(* In every execution of the gate what its goroutines carry agrees with    *)
(* the signals they have set.                                              *)
THEOREM GateInvariant == GateSpec => []GateInv
<1>1. GateInv /\ [GateNext]_gvars => GateInv'
  BY GateTypes, GatePreserved DEF GateInv
<1> QED
  BY <1>1, GateInitially, PTL DEF GateSpec

(* The gate keeps its types: no empty address is ever advertised           *)
(* (reachability/coordinator.go, OnRelayReserved).                         *)
THEOREM GateTypeCorrect == GateSpec => []GateTypeOK
<1>1. GateInv => GateTypeOK
  BY DEF GateInv
<1> QED
  BY <1>1, GateInvariant, PTL

(* The relay's signal is set before a relay address is advertised, however *)
(* many reservations and losses are under way (relay/manager.go,           *)
(* bindAutoRelayCallback).                                                 *)
THEOREM ConnectedBeforeAdvertisedHolds == GateSpec => []ConnectedBeforeAdvertised
<1>1. GateInv => ConnectedBeforeAdvertised
  BY DEF GateInv
<1> QED
  BY <1>1, GateInvariant, PTL

(* The gate implements GateSignals: the addresses are never ready before   *)
(* the NAT type is known, and no signal is taken back (fx.go, the callback *)
(* of wireAddressDiscovery; lifecycle/coordinator.go).                     *)
THEOREM GateGivesSignalsHolds == GateSpec => GateGivesSignals
<1> USE DEF Signals!SignalsNext, Signals!SetNATTypeReady, Signals!SetAddressReady, Signals!signals
<1>1. InitGate => Signals!SignalsInit
  BY DEF InitGate, Signals!SignalsInit
<1>2. GateTypeOK /\ [GateNext]_gvars => [Signals!SignalsNext]_Signals!signals
  <2> SUFFICES ASSUME GateTypeOK, [GateNext]_gvars
               PROVE  [Signals!SignalsNext]_Signals!signals
    OBVIOUS
  <2>1. CASE NotifyNATTypeReady
    BY <2>1 DEF NotifyNATTypeReady
  <2>2. ASSUME NEW g \in Goroutines, OnAddressChanged(g)
        PROVE  [Signals!SignalsNext]_Signals!signals
    BY <2>2 DEF OnAddressChanged, Passes, GateTypeOK, nat
  <2>3. ASSUME NEW g \in Goroutines,
               \/ VerifyDirect(g) \/ ExpireDirect(g)
               \/ Reserve(g) \/ RemoveRelay(g) \/ NotifyAddrsChanged(g) \/ OnAddrsChanged(g)
               \/ ReadDirect(g) \/ ReadRelay(g)
        PROVE  UNCHANGED <<natTypeReady, addressReady>>
    BY <2>3 DEF VerifyDirect, ExpireDirect, Reserve, RemoveRelay, NotifyAddrsChanged, OnAddrsChanged,
                SetRelayConnected, OnRelayReserved, ReadDirect, ReadRelay, nat
  <2>4. CASE (\E t \in NATTypes : DetectNATType(t)) \/ SetRelayAddr \/ UNCHANGED gvars
    BY <2>4 DEF DetectNATType, SetRelayAddr, gvars, nat
  <2> QED
    BY <2>1, <2>2, <2>3, <2>4 DEF GateNext, TaskStep
<1> QED
  BY <1>1, <1>2, GateTypeCorrect, PTL DEF GateSpec, GateGivesSignals, Signals!SignalsSpec

(* A report of a reservation, or the callback it ends in, under way at a   *)
(* node that is not open and whose NAT type is known: it has the relay's   *)
(* address with it, or is about to read it; and how far it is.             *)
OnItsWay(g) ==
  /\ natTypeReady /\ natType # "open"
  /\ \/ task[g].at \in {"reserved", "connected", "changed"} /\ "relay" \in task[g].addrs
     \/ task[g].at \in {"stored", "read"} /\ "relay" \in addrs

StepsToGate(g) ==
  CASE task[g].at = "reserved" -> 5
    [] task[g].at = "connected" -> 4
    [] task[g].at = "stored" -> 3
    [] task[g].at = "read" -> 2
    [] OTHER -> 1

(* While the reservation is not withdrawn, nothing takes the report from   *)
(* its course, and each of its steps, five at most, brings it nearer to    *)
(* the signal, which the last one sets, whatever comes and goes meanwhile. *)
ReservationGoesOn ==
  [][\A g \in Goroutines : OnItsWay(g) /\ ~Withdrawn =>
       \/ OnItsWay(g)' /\ StepsToGate(g)' = StepsToGate(g) /\ ~TaskStep(g)
       \/ OnItsWay(g)' /\ StepsToGate(g)' < StepsToGate(g)
       \/ addressReady']_gvars

(* What the task g itself does next. *)
LEMMA ReportStep ==
  ASSUME GateInv, NEW g \in Goroutines, OnItsWay(g), ~Withdrawn, TaskStep(g)
  PROVE  \/ OnItsWay(g)' /\ StepsToGate(g)' < StepsToGate(g)
         \/ addressReady'
<1>1. /\ natTypeReady /\ natType # "open" /\ natType \in NATTypes
      /\ task[g].addrs \subseteq Kinds
      /\ UNCHANGED <<natTypeReady, natType>>
      /\ \A at, as : Run(g, at, as) => task'[g] = [at |-> at, addrs |-> as]
  BY DEF OnItsWay, GateInv, GateTypeOK, TaskStep, NotifyAddrsChanged, OnAddrsChanged, SetRelayConnected,
     OnRelayReserved, ReadDirect, ReadRelay, OnAddressChanged, nat, Run
<1>2. CASE SetRelayConnected(g)
  <2>1. /\ task[g].at = "reserved" /\ "relay" \in task[g].addrs
        /\ task'[g] = [at |-> "connected", addrs |-> task[g].addrs]
    BY <1>1, <1>2 DEF SetRelayConnected, OnItsWay
  <2> QED
    BY <1>1, <2>1 DEF OnItsWay, StepsToGate
<1>3. CASE OnRelayReserved(g)
  <2>1. /\ task[g].at = "connected" /\ "relay" \in addrs'
        /\ task'[g] = [at |-> "stored", addrs |-> {}]
    BY <1>1, <1>3 DEF OnRelayReserved, OnItsWay
  <2> QED
    BY <1>1, <2>1 DEF OnItsWay, StepsToGate
<1>4. CASE ReadDirect(g)
  <2>1. /\ task[g].at = "stored" /\ "relay" \in addrs /\ addrs' = addrs
        /\ task'[g] = [at |-> "read", addrs |-> addrs \ {"relay"}]
    BY <1>1, <1>4 DEF ReadDirect, OnItsWay
  <2> QED
    BY <1>1, <2>1 DEF OnItsWay, StepsToGate
<1>5. CASE ReadRelay(g)
  <2>1. /\ task[g].at = "read" /\ "relay" \in addrs
        /\ task'[g] = [at |-> "changed", addrs |-> task[g].addrs \cup (addrs \ {"direct"})]
    BY <1>1, <1>5 DEF ReadRelay, OnItsWay
  <2> QED
    BY <1>1, <2>1 DEF OnItsWay, StepsToGate
<1>6. CASE OnAddressChanged(g)
  <2>1. task[g].at = "changed" /\ "relay" \in task[g].addrs
    BY <1>6 DEF OnAddressChanged, OnItsWay
  <2>2. relayConnected
    BY <2>1 DEF GateInv, ConnectedBeforeAdvertised
  <2>3. Suffices(task[g].addrs)
    BY <1>1, <2>1 DEF Suffices, NATTypes
  <2> QED
    BY <1>1, <1>6, <2>2, <2>3 DEF OnAddressChanged, Passes
<1>7. ~NotifyAddrsChanged(g)
  BY DEF NotifyAddrsChanged, OnItsWay
<1> QED
  BY <1>2, <1>3, <1>4, <1>5, <1>6, <1>7 DEF TaskStep, OnAddrsChanged

(* What the others do to it. *)
LEMMA ReportWaits ==
  ASSUME GateInv, NEW g \in Goroutines, OnItsWay(g), ~Withdrawn, GateNext, ~TaskStep(g)
  PROVE  OnItsWay(g)' /\ task'[g] = task[g]
<1>1. natTypeReady /\ natType # "open" /\ UNCHANGED <<natTypeReady, natType>>
  BY DEF OnItsWay, GateNext, DetectNATType, NotifyNATTypeReady, SetRelayAddr, VerifyDirect, ExpireDirect,
     Reserve, RemoveRelay, TaskStep, NotifyAddrsChanged, OnAddrsChanged, SetRelayConnected, OnRelayReserved,
     ReadDirect, ReadRelay, OnAddressChanged, nat
<1>2. ASSUME NEW h \in Goroutines,
             VerifyDirect(h) \/ ExpireDirect(h) \/ Reserve(h) \/ RemoveRelay(h) \/ TaskStep(h)
      PROVE  task'[g] = task[g] /\ ("relay" \in addrs => "relay" \in addrs')
  <2>1. task[g].at # "idle"
    BY DEF OnItsWay
  <2>2. h # g
    BY <1>2, <2>1 DEF VerifyDirect, ExpireDirect, Reserve, RemoveRelay, NoTask
  <2>3. \E t : task' = [task EXCEPT ![h] = t]
    BY <1>2 DEF VerifyDirect, ExpireDirect, Reserve, RemoveRelay, TaskStep, NotifyAddrsChanged, OnAddrsChanged,
       SetRelayConnected, OnRelayReserved, ReadDirect, ReadRelay, OnAddressChanged, Run
  <2>4. CASE OnRelayReserved(h)
    <3>1. task[h].addrs # {} /\ task[h].addrs \subseteq {"relay", "direct"}
      BY <2>4 DEF OnRelayReserved, Withdrawn, GateInv, GateTypeOK, Kinds
    <3>2. "relay" \in task[h].addrs
      BY <2>4, <3>1 DEF OnRelayReserved, GateInv, Reports
    <3> QED
      BY <2>2, <2>3, <2>4, <3>2 DEF OnRelayReserved, GateInv, GateTypeOK
  <2>5. CASE ~OnRelayReserved(h)
    <3>1. "relay" \in addrs => "relay" \in addrs'
      BY <1>2, <2>5 DEF VerifyDirect, ExpireDirect, Reserve, RemoveRelay, TaskStep, NotifyAddrsChanged,
         OnAddrsChanged, SetRelayConnected, ReadDirect, ReadRelay, OnAddressChanged
    <3> QED
      BY <2>2, <2>3, <3>1 DEF GateInv, GateTypeOK
  <2> QED
    BY <2>4, <2>5
<1>3. task'[g] = task[g] /\ ("relay" \in addrs => "relay" \in addrs')
  BY <1>2 DEF GateNext, DetectNATType, NotifyNATTypeReady, SetRelayAddr
<1> QED
  BY <1>1, <1>3 DEF OnItsWay

(* A reservation made while the NAT type is known is not lost on the way   *)
(* to the address signal unless it is withdrawn (relay/manager.go,         *)
(* bindAutoRelayCallback; reachability/coordinator.go, OnRelayReserved and *)
(* notifyAddressChanged; fx.go, the callback).                             *)
THEOREM ReservationGoesOnHolds == GateSpec => ReservationGoesOn
<1>1. ASSUME GateInv, [GateNext]_gvars
      PROVE  [\A g \in Goroutines : OnItsWay(g) /\ ~Withdrawn =>
                \/ OnItsWay(g)' /\ StepsToGate(g)' = StepsToGate(g) /\ ~TaskStep(g)
                \/ OnItsWay(g)' /\ StepsToGate(g)' < StepsToGate(g)
                \/ addressReady']_gvars
  <2> SUFFICES ASSUME GateNext, NEW g \in Goroutines, OnItsWay(g), ~Withdrawn
               PROVE  \/ OnItsWay(g)' /\ StepsToGate(g)' = StepsToGate(g) /\ ~TaskStep(g)
                      \/ OnItsWay(g)' /\ StepsToGate(g)' < StepsToGate(g)
                      \/ addressReady'
    BY <1>1
  <2>1. CASE TaskStep(g)
    BY <1>1, <2>1, ReportStep
  <2>2. CASE ~TaskStep(g)
    <3>1. OnItsWay(g)' /\ task'[g] = task[g]
      BY <1>1, <2>2, ReportWaits
    <3> QED
      BY <2>2, <3>1 DEF StepsToGate
  <2> QED
    BY <2>1, <2>2
<1> QED
  BY <1>1, GateInvariant, PTL DEF GateSpec, ReservationGoesOn
=============================================================================
