------------------------- MODULE RealmManagerProofs -------------------------
(***************************************************************************)
(* Theorems about RealmManager, for any number of callers, realms and      *)
(* authentications.                                                        *)
(***************************************************************************)
EXTENDS RealmManager, TLAPS

(* Which operation stands at which stage. *)
CallsFit ==
  \A c \in Callers :
    /\ call[c].at = "idle" <=> call[c].op = "none"
    /\ call[c].at \in {"starting", "joined"} => call[c].op = "join"
    /\ call[c].at = "stopping" => call[c].op \in {"stop", "close"}
    /\ call[c].at = "closing" <=> call[c].op = "close" /\ call[c].at \in Holding
    /\ call[c].at = "left" => call[c].op = "leave" /\ call[c].realm \in Realms
    /\ call[c].op = "join" => call[c].realm \in Realms

(* The caller that is starting realm r. *)
StartedBy(c, r) == call[c].at = "starting" /\ call[c].realm = r

(* The entries of m.realms are the realms that were created and started.   *)
Registry ==
  /\ current # None => current \in registered
  /\ dropped => registered = {}
  /\ \A r \in registered : members[r] # "new"
  /\ \A r \in Realms \ registered :
       /\ ~active[r]
       /\ \/ members[r] = "new"
          \/ dropped /\ members[r] = "closed"
          \/ \E c \in Callers : StartedBy(c, r)
  /\ \A c \in Callers : \A r \in Realms :
       StartedBy(c, r) =>
         current = None /\ r \notin registered /\ ~dropped /\ members[r] = "started"

(* The caller that has realm r between stopped and running. *)
HalfwayBy(c, r) ==
  \/ StartedBy(c, r)
  \/ Leaving(c) /\ current = r
  \/ call[c].at = "closing" /\ r \in registered

(* An active realm has its member manager running; a member manager runs   *)
(* without an active realm only while somebody who holds the lock starts   *)
(* or stops the realm.                                                     *)
Running ==
  \A r \in Realms :
    /\ active[r] => members[r] = "started"
    /\ members[r] = "started" /\ ~active[r] => \E c \in Callers : HalfwayBy(c, r)

(* A realm that was left is stopped, and is never started again.           *)
LeftStopped ==
  \A c \in Callers :
    call[c].at = "left" =>
      /\ members[call[c].realm] \in {"stopped", "closed"}

IInv == TypeOK /\ CallsFit /\ Registry /\ ActiveIsCurrent /\ Running /\ LeftStopped

-----------------------------------------------------------------------------
(* What the three ways to change a call do. *)

CallType == [op : Ops, at : Stages, realm : Realms \cup {None}]

LEMMA GotoCall ==
  ASSUME TypeOK, NEW c \in Callers, NEW at \in Stages, Goto(c, at)
  PROVE  /\ call' \in [Callers -> CallType]
         /\ call'[c].at = at /\ call'[c].op = call[c].op /\ call'[c].realm = call[c].realm
         /\ \A d \in Callers \ {c} : call'[d] = call[d]
  BY DEF Goto, TypeOK, CallType

LEMMA FinishCall ==
  ASSUME TypeOK, NEW c \in Callers, Finish(c)
  PROVE  /\ call' \in [Callers -> CallType]
         /\ call'[c] = Idle
         /\ \A d \in Callers \ {c} : call'[d] = call[d]
  BY DEF Finish, TypeOK, CallType, Idle, Ops, Stages

LEMMA BeginCall ==
  ASSUME TypeOK, NEW c \in Callers, NEW op \in Ops, NEW at \in Stages,
         NEW r \in Realms \cup {None}, Begin(c, op, at, r)
  PROVE  /\ call' \in [Callers -> CallType]
         /\ call[c].at = "idle"
         /\ call'[c].op = op /\ call'[c].at = at /\ call'[c].realm = r
         /\ \A d \in Callers \ {c} : call'[d] = call[d]
  BY DEF Begin, TypeOK, CallType, Idle

LEMMA InitIInv == Init => IInv
<1> SUFFICES ASSUME Init PROVE IInv
  OBVIOUS
<1>1. \A c \in Callers : call[c] = Idle
  BY DEF Init
<1>2. TypeOK
  BY NoneDistinct, <1>1 DEF Init, TypeOK, Idle, Ops, Stages, Holding
<1>3. CallsFit
  BY <1>1 DEF CallsFit, Idle, Holding
<1>4. Registry
  BY <1>1 DEF Init, Registry, Idle, StartedBy
<1>5. ActiveIsCurrent /\ Running
  BY DEF Init, ActiveIsCurrent, Running
<1>6. LeftStopped
  BY <1>1 DEF LeftStopped, Idle
<1> QED
  BY <1>2, <1>3, <1>4, <1>5, <1>6 DEF IInv

-----------------------------------------------------------------------------
(* Steps that do not concern the lock. *)

(* No call changes: authentications, panics and stuttering.                *)
LEMMA CallsStay ==
  ASSUME IInv, UNCHANGED <<manager, realms, call, pubsub>>,
         adding' \in [Adders -> Realms \cup {None}], crashed' \in BOOLEAN
  PROVE  IInv'
<1> USE DEF manager, realms
<1>1. TypeOK'
  BY DEF IInv, TypeOK
<1>2. CallsFit' /\ ActiveIsCurrent' /\ LeftStopped'
  BY DEF IInv, CallsFit, ActiveIsCurrent, LeftStopped
<1>3. Registry' /\ Running'
  BY DEF IInv, Registry, Running, HalfwayBy, Leaving, StartedBy
<1> QED
  BY <1>1, <1>2, <1>3 DEF IInv

(* A call moves without having the lock.                                   *)
LEMMA Outside ==
  ASSUME IInv, NEW c \in Callers,
         call' \in [Callers -> CallType], \A d \in Callers \ {c} : call'[d] = call[d],
         call[c].at \notin Holding, call'[c].at \in {"idle", "stopping", "lock", "joined"},
         call'[c].at = "idle" <=> call'[c].op = "none",
         call'[c].at = "joined" => call'[c].op = "join",
         call'[c].at = "stopping" => call'[c].op \in {"stop", "close"},
         call'[c].op = "join" => call'[c].realm \in Realms,
         started' \in BOOLEAN, closed' \in BOOLEAN,
         UNCHANGED <<registered, dropped, current, lock, realms, adding, crashed, pubsub>>
  PROVE  IInv'
<1> USE DEF realms
<1>1. TypeOK'
  BY DEF IInv, TypeOK, Holding, CallType
<1>2. CallsFit'
  BY DEF IInv, CallsFit, Holding
<1>3. ActiveIsCurrent' /\ LeftStopped'
  BY DEF IInv, ActiveIsCurrent, LeftStopped
<1>4. \A d \in Callers, r \in Realms :
        /\ StartedBy(d, r)' <=> StartedBy(d, r)
        /\ HalfwayBy(d, r) => HalfwayBy(d, r)'
  BY DEF StartedBy, HalfwayBy, Leaving, Holding
<1>5. Registry' /\ Running'
  BY <1>4 DEF IInv, Registry, Running
<1> QED
  BY <1>1, <1>2, <1>3, <1>5 DEF IInv

LEMMA CallIInv ==
  ASSUME IInv, NEW c \in Callers, Call(c)
  PROVE  IInv'
<1> USE DEF manager, realms, Ops, Stages, Holding
<1>1. CASE Start(c)
  <2>1. call' = call /\ call[c].at = "idle" /\ call[c].op = "none"
    BY <1>1 DEF Start, Idle
  <2>2. call' \in [Callers -> CallType] /\ started' \in BOOLEAN /\ closed' \in BOOLEAN
    <3>1. call' \in [Callers -> CallType]
      BY <2>1 DEF IInv, TypeOK, CallType
    <3>2. started' \in BOOLEAN /\ closed' \in BOOLEAN
      BY <1>1 DEF Start, IInv, TypeOK
    <3> QED
      BY <3>1, <3>2
  <2>3. UNCHANGED <<registered, dropped, current, lock, realms, adding, crashed, pubsub>>
    BY <1>1 DEF Start
  <2> QED
    BY <2>1, <2>2, <2>3, Outside
<1>2. ASSUME NEW r \in Realms, JoinCall(c, r)
      PROVE  IInv'
  <2>1. Begin(c, "join", "lock", r)
    BY <1>2 DEF JoinCall
  <2>2. /\ call' \in [Callers -> CallType] /\ call[c].at = "idle"
        /\ call'[c].op = "join" /\ call'[c].at = "lock" /\ call'[c].realm = r
        /\ \A d \in Callers \ {c} : call'[d] = call[d]
    BY <2>1, BeginCall DEF IInv
  <2>3. started' \in BOOLEAN /\ closed' \in BOOLEAN /\ UNCHANGED <<manager, realms, adding, crashed, pubsub>>
    BY <1>2 DEF JoinCall, IInv, TypeOK
  <2> QED
    BY <2>2, <2>3, Outside
<1>3. CASE LeaveCall(c)
  <2>1. Begin(c, "leave", "lock", None)
    BY <1>3 DEF LeaveCall
  <2>2. /\ call' \in [Callers -> CallType] /\ call[c].at = "idle"
        /\ call'[c].op = "leave" /\ call'[c].at = "lock"
        /\ \A d \in Callers \ {c} : call'[d] = call[d]
    BY <2>1, BeginCall DEF IInv
  <2>3. /\ started' \in BOOLEAN /\ closed' \in BOOLEAN
        /\ UNCHANGED <<registered, dropped, current, lock, realms, adding, crashed, pubsub>>
    BY <1>3 DEF LeaveCall, manager, IInv, TypeOK
  <2> QED
    BY <2>2, <2>3, Outside
<1>4. CASE StopCall(c)
  <2>1. Begin(c, "stop", "stopping", None)
    BY <1>4 DEF StopCall
  <2>2. /\ call' \in [Callers -> CallType] /\ call[c].at = "idle"
        /\ call'[c].op = "stop" /\ call'[c].at = "stopping"
        /\ \A d \in Callers \ {c} : call'[d] = call[d]
    BY <2>1, BeginCall DEF IInv
  <2> QED
    BY <1>4, <2>2, Outside DEF StopCall, IInv, TypeOK
<1>5. CASE CloseCall(c)
  <2>1. PICK at \in {"stopping", "lock"} : Begin(c, "close", at, None)
    BY <1>5 DEF CloseCall
  <2>2. /\ call' \in [Callers -> CallType] /\ call[c].at = "idle"
        /\ call'[c].op = "close" /\ call'[c].at = at
        /\ \A d \in Callers \ {c} : call'[d] = call[d]
    BY <2>1, BeginCall DEF IInv
  <2> QED
    BY <1>5, <2>2, Outside DEF CloseCall
<1> QED
  BY <1>1, <1>2, <1>3, <1>4, <1>5 DEF Call
LEMMA LeaveInStopIInv ==
  ASSUME IInv, NEW c \in Callers, LeaveInStop(c) \/ SkipLeaveInStop(c) \/ Return(c)
  PROVE  IInv'
<1> USE DEF manager, Stages, Holding
<1>1. TypeOK /\ call[c].at \in {"stopping", "joined", "left"} /\ call[c].op # "none"
  BY DEF IInv, LeaveInStop, SkipLeaveInStop, Return, CallsFit
<1>2. call[c].op = "join" => call[c].realm \in Realms
  BY DEF IInv, CallsFit
<1>3. /\ call' \in [Callers -> CallType] /\ \A d \in Callers \ {c} : call'[d] = call[d]
      /\ \/ call'[c] = Idle
         \/ call'[c].at = "lock" /\ call'[c].op = call[c].op /\ call'[c].realm = call[c].realm
  BY <1>1, GotoCall, FinishCall DEF LeaveInStop, SkipLeaveInStop, AfterStop, Return
<1>4. /\ started' \in BOOLEAN /\ closed' \in BOOLEAN
      /\ UNCHANGED <<registered, dropped, current, lock, realms, adding, crashed, pubsub>>
  BY <1>1 DEF LeaveInStop, SkipLeaveInStop, Return, TypeOK
<1> QED
  BY <1>1, <1>2, <1>3, <1>4, Outside DEF Idle

-----------------------------------------------------------------------------
(* Steps of the call that holds the lock. *)

LEMMA HolderIsAlone ==
  ASSUME TypeOK, NEW c \in Callers, call[c].at \in Holding
  PROVE  /\ lock = c
         /\ \A d \in Callers \ {c} : call[d].at \notin Holding
  BY DEF TypeOK

LEMMA LockIInv ==
  ASSUME IInv, NEW c \in Callers, Lock(c)
  PROVE  IInv'
<1> USE DEF realms, Stages, Holding
<1>1. PICK at \in {"locked", "closing"} :
        /\ at = "closing" <=> call[c].op = "close"
        /\ Goto(c, at)
  BY DEF Lock
<1>2. /\ call' \in [Callers -> CallType] /\ \A d \in Callers \ {c} : call'[d] = call[d]
      /\ call'[c].at = at /\ call'[c].op = call[c].op /\ call'[c].realm = call[c].realm
  BY <1>1, GotoCall DEF IInv
<1>3. TypeOK'
  BY <1>2, NoneDistinct DEF IInv, Lock, TypeOK, CallType
<1>4. CallsFit'
  BY <1>1, <1>2 DEF IInv, Lock, CallsFit
<1>5. ActiveIsCurrent' /\ LeftStopped'
  BY <1>2 DEF IInv, Lock, ActiveIsCurrent, LeftStopped
<1>6. \A d \in Callers, r \in Realms :
        /\ StartedBy(d, r)' <=> StartedBy(d, r)
        /\ HalfwayBy(d, r) => HalfwayBy(d, r)'
  BY <1>2 DEF Lock, StartedBy, HalfwayBy, Leaving
<1>7. Registry' /\ Running'
  BY <1>6 DEF IInv, Lock, Registry, Running
<1> QED
  BY <1>3, <1>4, <1>5, <1>7 DEF IInv

LEMMA DeactivateIInv ==
  ASSUME IInv, NEW c \in Callers, Deactivate(c)
  PROVE  IInv'
<1> USE DEF manager
<1>1. TypeOK' /\ CallsFit' /\ ActiveIsCurrent' /\ LeftStopped'
  BY DEF IInv, Deactivate, TypeOK, CallsFit, ActiveIsCurrent, LeftStopped
<1>2. \A d \in Callers, r \in Realms :
        /\ StartedBy(d, r)' <=> StartedBy(d, r)
        /\ HalfwayBy(d, r) => HalfwayBy(d, r)'
  BY DEF Deactivate, StartedBy, HalfwayBy, Leaving
<1>3. Registry'
  BY <1>2 DEF IInv, Deactivate, Registry, TypeOK
<1>4. HalfwayBy(c, current)'
  BY DEF Deactivate, HalfwayBy, Leaving
<1>5. Running'
  BY <1>2, <1>4 DEF IInv, Deactivate, Running, TypeOK
<1> QED
  BY <1>1, <1>3, <1>5 DEF IInv

(* What the end of a leave makes of the realm that was left.               *)
LEMMA StoppedRealm ==
  ASSUME IInv, NEW c \in Callers, Stopped(c)
  PROVE  /\ current \in Realms /\ current \in registered /\ current' = None
         /\ members' \in [Realms -> {"new", "started", "stopped", "closed"}]
         /\ members'[current] \in {"stopped", "closed"}
         /\ members[current] = "closed" => members'[current] = "closed"
         /\ \A r \in Realms \ {current} : members'[r] = members[r]
         /\ \A r \in Realms : ~active[r]
         /\ \A r \in Realms : members'[r] # "started"
<1>1. current \in Realms /\ current \in registered /\ members[current] # "new"
  BY DEF IInv, Stopped, Leaving, TypeOK, Registry
<1>2. /\ members' \in [Realms -> {"new", "started", "stopped", "closed"}]
      /\ members'[current] \in {"stopped", "closed"}
      /\ members[current] = "closed" => members'[current] = "closed"
      /\ \A r \in Realms \ {current} : members'[r] = members[r]
  BY <1>1 DEF IInv, Stopped, StoppedMembers, TypeOK
<1>3. \A r \in Realms : ~active[r]
  BY DEF IInv, Stopped, ActiveIsCurrent
<1>4. \A d \in Callers, r \in Realms \ {current} : ~HalfwayBy(d, r)
  BY HolderIsAlone DEF IInv, Stopped, Leaving, HalfwayBy, StartedBy, Holding, TypeOK
<1>5. \A r \in Realms : members'[r] # "started"
  BY <1>2, <1>3, <1>4 DEF IInv, Running
<1> QED
  BY <1>1, <1>2, <1>3, <1>5 DEF Stopped
LEMMA LeaveOtherIInv ==
  ASSUME IInv, NEW c \in Callers, LeaveOther(c)
  PROVE  IInv'
<1>1. Stopped(c)
  BY DEF LeaveOther
<1>2. /\ UNCHANGED <<started, closed, registered, dropped, lock, active, call, adding, crashed, pubsub>>
      /\ call[c].at = "locked"
  BY DEF LeaveOther, Stopped, Leaving
<1>3. TypeOK' /\ CallsFit' /\ ActiveIsCurrent'
  BY <1>1, <1>2, StoppedRealm DEF IInv, TypeOK, CallsFit, ActiveIsCurrent
<1>4. \A d \in Callers, r \in Realms : StartedBy(d, r)' <=> StartedBy(d, r)
  BY <1>2 DEF StartedBy
<1>5. \A d \in Callers, r \in Realms : ~StartedBy(d, r)
  BY <1>2, HolderIsAlone DEF IInv, StartedBy, Holding
<1>6. Registry'
  <2>1. \A r \in Realms \ registered : members'[r] = members[r]
    BY <1>1, StoppedRealm
  <2>2. \A r \in registered : r \in Realms /\ members'[r] # "new"
    BY <1>1, StoppedRealm DEF IInv, TypeOK, Registry
  <2> QED
    BY <1>1, <1>2, <1>4, <1>5, <2>1, <2>2, StoppedRealm DEF IInv, Registry
<1>7. Running' /\ LeftStopped'
  BY <1>1, <1>2, StoppedRealm DEF IInv, Running, LeftStopped, CallsFit
<1> QED
  BY <1>3, <1>6, <1>7 DEF IInv

(* The end of a call that leaves the lock free with no realm halfway.      *)
LEMMA Unlocked ==
  ASSUME IInv, NEW c \in Callers, call[c].at \in Holding, lock' = None,
         call' \in [Callers -> CallType], \A d \in Callers \ {c} : call'[d] = call[d],
         call'[c].at \in {"idle", "joined", "left"}
  PROVE  /\ lock' \in Callers \cup {None}
         /\ \A d \in Callers : call'[d].at \in Holding <=> lock' = d
         /\ \A d \in Callers, r \in Realms : ~StartedBy(d, r)' /\ ~HalfwayBy(d, r)'
<1>1. \A d \in Callers : call'[d].at \notin Holding
  BY HolderIsAlone DEF IInv, Holding
<1> QED
  BY <1>1, NoneDistinct DEF StartedBy, HalfwayBy, Leaving, Holding

LEMMA LeaveIInv ==
  ASSUME IInv, NEW c \in Callers, LeaveCurrent(c) \/ LeaveForStop(c)
  PROVE  IInv'
<1> USE DEF Idle
<1>1. Stopped(c) /\ lock' = None
  BY DEF LeaveCurrent, LeaveForStop
<1>2. /\ UNCHANGED <<started, closed, registered, dropped, active, adding, crashed, pubsub>>
      /\ call[c].at = "locked" /\ call[c].at \in Holding
  BY <1>1 DEF Stopped, Leaving, Holding
<1>3. current \in Realms
  BY <1>1, StoppedRealm
<1>4. /\ call' \in [Callers -> CallType] /\ \A d \in Callers \ {c} : call'[d] = call[d]
      /\ \/ call'[c] = Idle
         \/ call'[c] = [op |-> "leave", at |-> "left", realm |-> current]
  BY <1>3, FinishCall DEF LeaveCurrent, LeaveForStop, IInv, TypeOK, CallType, Ops, Stages
<1>5. /\ lock' \in Callers \cup {None}
      /\ \A d \in Callers : call'[d].at \in Holding <=> lock' = d
      /\ \A d \in Callers, r \in Realms : ~StartedBy(d, r)' /\ ~HalfwayBy(d, r)'
  BY <1>1, <1>2, <1>4, Unlocked
<1>6. TypeOK'
  BY <1>1, <1>2, <1>4, <1>5, StoppedRealm DEF IInv, TypeOK, CallType
<1>7. CallsFit'
  BY <1>3, <1>4 DEF IInv, CallsFit, Holding
<1>8. ActiveIsCurrent' /\ Running'
  BY <1>1, <1>2, StoppedRealm DEF ActiveIsCurrent, Running
<1>9. \A d \in Callers, r \in Realms : ~StartedBy(d, r)
  BY <1>2, HolderIsAlone DEF IInv, StartedBy, Holding
<1>10. Registry'
  <2>1. \A r \in Realms \ registered : members'[r] = members[r]
    BY <1>1, StoppedRealm
  <2>2. \A r \in registered : r \in Realms /\ members'[r] # "new"
    BY <1>1, StoppedRealm DEF IInv, TypeOK, Registry
  <2> QED
    BY <1>1, <1>2, <1>5, <1>9, <2>1, <2>2, StoppedRealm DEF IInv, Registry
<1>11. LeftStopped'
  BY <1>1, <1>3, <1>4, StoppedRealm DEF IInv, LeftStopped, CallsFit
<1> QED
  BY <1>6, <1>7, <1>8, <1>10, <1>11 DEF IInv

LEMMA LeaveNothingIInv ==
  ASSUME IInv, NEW c \in Callers, LeaveNothing(c) \/ JoinExisting(c)
  PROVE  IInv'
<1> USE DEF realms, Idle, Stages
<1>1. /\ UNCHANGED <<started, closed, registered, dropped, realms, adding, crashed, pubsub>>
      /\ call[c].at = "locked" /\ call[c].at \in Holding /\ lock' = None
  BY DEF LeaveNothing, JoinExisting, Joining, Holding
<1>2. /\ call' \in [Callers -> CallType] /\ \A d \in Callers \ {c} : call'[d] = call[d]
      /\ \/ call'[c] = Idle
         \/ /\ call[c].op = "join" /\ call'[c].op = "join" /\ call'[c].at = "joined"
            /\ call'[c].realm = call[c].realm
  BY GotoCall, FinishCall DEF LeaveNothing, JoinExisting, Joining, IInv
<1>3. /\ lock' \in Callers \cup {None}
      /\ \A d \in Callers : call'[d].at \in Holding <=> lock' = d
      /\ \A d \in Callers, r \in Realms : ~StartedBy(d, r)' /\ ~HalfwayBy(d, r)'
  BY <1>1, <1>2, Unlocked
<1>4. \A d \in Callers, r \in Realms : ~StartedBy(d, r) /\ ~HalfwayBy(d, r)
  BY <1>1, HolderIsAlone DEF IInv, LeaveNothing, JoinExisting, Joining, StartedBy, HalfwayBy,
     Leaving, Holding
<1>5. /\ current' \in registered \cup {None}
      /\ current # None => current' = current
  BY DEF LeaveNothing, JoinExisting, Joining, IInv, Registry
<1>6. TypeOK'
  BY <1>1, <1>2, <1>3, <1>5 DEF IInv, TypeOK, CallType
<1>7. CallsFit'
  BY <1>2 DEF IInv, CallsFit, Holding
<1>8. ActiveIsCurrent'
  BY <1>1, <1>5, NoneDistinct DEF IInv, ActiveIsCurrent
<1>9. Running' /\ Registry'
  BY <1>1, <1>3, <1>4, <1>5 DEF IInv, Running, Registry
<1>10. LeftStopped'
  BY <1>1, <1>2 DEF IInv, LeftStopped
<1> QED
  BY <1>6, <1>7, <1>8, <1>9, <1>10 DEF IInv
LEMMA JoinNewIInv ==
  ASSUME IInv, NEW c \in Callers, JoinNew(c)
  PROVE  IInv'
<1> DEFINE r == call[c].realm
<1> USE DEF manager, Stages
<1>1. /\ UNCHANGED <<started, closed, registered, dropped, current, lock, active, adding, crashed, pubsub>>
      /\ call[c].at = "locked" /\ call[c].at \in Holding /\ call[c].op = "join"
      /\ r \in Realms /\ r \notin registered /\ ~dropped
  BY DEF JoinNew, Joining, Holding, IInv, CallsFit
<1>2. /\ call' \in [Callers -> CallType] /\ \A d \in Callers \ {c} : call'[d] = call[d]
      /\ call'[c].at = "starting" /\ call'[c].op = "join" /\ call'[c].realm = r
  BY <1>1, GotoCall DEF JoinNew, IInv
<1>3. /\ members' \in [Realms -> {"new", "started", "stopped", "closed"}]
      /\ members'[r] = "started"
      /\ \A q \in Realms \ {r} : members'[q] = members[q]
  BY <1>1 DEF JoinNew, IInv, TypeOK
<1>4. current = None
  BY <1>1 DEF JoinNew, Joining, IInv, Registry
<1>5. \A d \in Callers, q \in Realms : ~StartedBy(d, q) /\ ~HalfwayBy(d, q)
  BY <1>1, <1>4, HolderIsAlone DEF IInv, StartedBy, HalfwayBy, Leaving, Holding
<1>6. \A d \in Callers, q \in Realms : StartedBy(d, q)' <=> d = c /\ q = r
  BY <1>2, <1>5 DEF StartedBy
<1>7. members[r] = "new" /\ ~active[r]
  BY <1>1, <1>5 DEF IInv, Registry
<1>8. TypeOK'
  BY <1>1, <1>2, <1>3 DEF IInv, TypeOK, CallType, Holding
<1>9. CallsFit'
  BY <1>1, <1>2 DEF IInv, CallsFit, Holding
<1>10. ActiveIsCurrent'
  BY <1>1 DEF IInv, ActiveIsCurrent
<1>11. Registry'
  <2>1. \A q \in registered : q \in Realms \ {r} /\ members'[q] # "new"
    BY <1>1, <1>3 DEF IInv, TypeOK, Registry
  <2>2. \A q \in Realms \ registered :
          ~active[q] /\ (q # r => members[q] = "new")
    BY <1>1, <1>5 DEF IInv, Registry
  <2>3. \A q \in Realms \ registered :
          \/ members'[q] = "new"
          \/ \E d \in Callers : StartedBy(d, q)'
    BY <1>3, <1>6, <2>2
  <2>4. \A d \in Callers, q \in Realms : StartedBy(d, q)' => q = r
    BY <1>6
  <2> QED
    BY <1>1, <1>3, <1>4, <2>1, <2>2, <2>3, <2>4 DEF Registry
<1>12. Running'
  BY <1>1, <1>3, <1>5, <1>6, <1>7 DEF IInv, Running, HalfwayBy
<1>13. LeftStopped'
  <2>1. ASSUME NEW d \in Callers, call'[d].at = "left"
        PROVE  call'[d] = call[d] /\ members[call[d].realm] \in {"stopped", "closed"}
               /\ call[d].realm \in Realms \ {r}
    BY <1>2, <1>7, <2>1 DEF IInv, LeftStopped, CallsFit
  <2> QED
    BY <1>3, <2>1 DEF LeftStopped
<1> QED
  BY <1>8, <1>9, <1>10, <1>11, <1>12, <1>13 DEF IInv

LEMMA JoinStartedIInv ==
  ASSUME IInv, NEW c \in Callers, JoinStarted(c)
  PROVE  IInv'
<1> DEFINE r == call[c].realm
<1> USE DEF Stages
<1>1. /\ UNCHANGED <<started, closed, dropped, members, adding, crashed>>
      /\ pubsub' = pubsub \cup {call[c].realm}
      /\ call[c].at = "starting" /\ call[c].at \in Holding /\ call[c].op = "join"
      /\ r \in Realms /\ lock' = None /\ current' = r
      /\ registered' = registered \cup {r}
  BY DEF JoinStarted, Holding, IInv, CallsFit
<1>2. /\ call' \in [Callers -> CallType] /\ \A d \in Callers \ {c} : call'[d] = call[d]
      /\ call'[c].at = "joined" /\ call'[c].op = "join" /\ call'[c].realm = r
  BY <1>1, GotoCall DEF JoinStarted, IInv
<1>3. /\ active' \in [Realms -> BOOLEAN] /\ active'[r]
      /\ \A q \in Realms \ {r} : active'[q] = active[q]
  BY <1>1 DEF JoinStarted, IInv, TypeOK
<1>4. /\ lock' \in Callers \cup {None}
      /\ \A d \in Callers : call'[d].at \in Holding <=> lock' = d
      /\ \A d \in Callers, q \in Realms : ~StartedBy(d, q)' /\ ~HalfwayBy(d, q)'
  BY <1>1, <1>2, Unlocked
<1>5. StartedBy(c, r) /\ r \notin registered /\ ~dropped /\ members[r] = "started"
  BY <1>1 DEF StartedBy, IInv, Registry
<1>6. \A d \in Callers, q \in Realms \ {r} : ~StartedBy(d, q)
  BY <1>1, HolderIsAlone DEF IInv, StartedBy, Holding
<1>7. \A q \in Realms \ {r} : ~active[q] /\ members[q] # "started"
  <2>1. \A d \in Callers, q \in Realms \ {r} : ~HalfwayBy(d, q)
    BY <1>1, HolderIsAlone DEF IInv, StartedBy, HalfwayBy, Leaving, Holding
  <2>2. \A q \in Realms : ~active[q]
    BY <1>1, <1>5, NoneDistinct DEF IInv, ActiveIsCurrent, Registry
  <2> QED
    BY <2>1, <2>2 DEF IInv, Running
<1>8. TypeOK'
  BY <1>1, <1>2, <1>3, <1>4 DEF IInv, TypeOK, CallType
<1>9. CallsFit'
  BY <1>1, <1>2 DEF IInv, CallsFit, Holding
<1>10. ActiveIsCurrent'
  BY <1>1, <1>3, <1>7 DEF ActiveIsCurrent
<1>11. Registry'
  BY <1>1, <1>3, <1>4, <1>5, <1>6, <1>7 DEF IInv, Registry
<1>12. Running'
  BY <1>1, <1>3, <1>5, <1>7 DEF Running
<1>13. LeftStopped'
  BY <1>1, <1>2 DEF IInv, LeftStopped
<1> QED
  BY <1>8, <1>9, <1>10, <1>11, <1>12, <1>13 DEF IInv

LEMMA CloseStopsRealmIInv ==
  ASSUME IInv, NEW c \in Callers, NEW r \in Realms, CloseStopsRealm(c, r)
  PROVE  IInv'
<1> USE DEF manager
<1>1. /\ UNCHANGED <<manager, members, call, adding, crashed, pubsub>>
      /\ call[c].at = "closing" /\ r \in registered
      /\ active' = [active EXCEPT ![r] = FALSE]
  BY DEF CloseStopsRealm
<1>2. TypeOK' /\ CallsFit' /\ ActiveIsCurrent' /\ LeftStopped'
  BY <1>1 DEF IInv, TypeOK, CallsFit, ActiveIsCurrent, LeftStopped
<1>3. \A d \in Callers, q \in Realms :
        /\ StartedBy(d, q)' <=> StartedBy(d, q)
        /\ HalfwayBy(d, q)' <=> HalfwayBy(d, q)
  BY <1>1 DEF StartedBy, HalfwayBy, Leaving
<1>4. Registry'
  BY <1>1, <1>3 DEF IInv, TypeOK, Registry
<1>5. HalfwayBy(c, r)
  BY <1>1 DEF HalfwayBy
<1>6. Running'
  BY <1>1, <1>3, <1>5 DEF IInv, TypeOK, Running
<1> QED
  BY <1>2, <1>4, <1>6 DEF IInv

LEMMA CloseRealmIInv ==
  ASSUME IInv, NEW c \in Callers, NEW r \in Realms, CloseRealm(c, r)
  PROVE  IInv'
<1> USE DEF manager
<1>1. /\ UNCHANGED <<manager, active, call, adding, crashed, pubsub>>
      /\ call[c].at = "closing" /\ r \in registered /\ ~active[r]
      /\ members' = [members EXCEPT ![r] = "closed"]
  BY DEF CloseRealm
<1>2. TypeOK' /\ CallsFit' /\ ActiveIsCurrent'
  BY <1>1 DEF IInv, TypeOK, CallsFit, ActiveIsCurrent
<1>3. \A d \in Callers, q \in Realms :
        /\ StartedBy(d, q)' <=> StartedBy(d, q)
        /\ HalfwayBy(d, q)' <=> HalfwayBy(d, q)
  BY <1>1 DEF StartedBy, HalfwayBy, Leaving
<1>4. Registry'
  BY <1>1, <1>3 DEF IInv, TypeOK, Registry
<1>5. Running' /\ LeftStopped'
  BY <1>1, <1>3 DEF IInv, TypeOK, Running, LeftStopped, CallsFit
<1> QED
  BY <1>2, <1>4, <1>5 DEF IInv

LEMMA CloseDoneIInv ==
  ASSUME IInv, NEW c \in Callers, CloseDone(c)
  PROVE  IInv'
<1> USE DEF realms
<1>1. /\ UNCHANGED <<started, closed, realms, adding, crashed, pubsub>>
      /\ call[c].at = "closing" /\ call[c].at \in Holding
      /\ lock' = None /\ current' = None /\ registered' = {} /\ dropped' = TRUE
      /\ \A r \in registered : members[r] = "closed"
  BY DEF CloseDone, Holding
<1>2. /\ call' \in [Callers -> CallType] /\ \A d \in Callers \ {c} : call'[d] = call[d]
      /\ call'[c] = Idle
  BY FinishCall DEF CloseDone, IInv
<1>3. /\ lock' \in Callers \cup {None}
      /\ \A d \in Callers : call'[d].at \in Holding <=> lock' = d
      /\ \A d \in Callers, q \in Realms : ~StartedBy(d, q)' /\ ~HalfwayBy(d, q)'
  BY <1>1, <1>2, Unlocked DEF Idle
<1>4. \A d \in Callers, r \in Realms : ~StartedBy(d, r)
  BY <1>1, HolderIsAlone DEF IInv, StartedBy, Holding
<1>5. \A r \in Realms : ~active[r] /\ members[r] \in {"new", "closed"}
  BY <1>1, <1>4 DEF IInv, Registry, Running
<1>6. TypeOK'
  BY <1>1, <1>2, <1>3 DEF IInv, TypeOK, CallType
<1>9. CallsFit'
  BY <1>2 DEF IInv, CallsFit, Idle, Holding
<1>7. ActiveIsCurrent' /\ Running' /\ Registry'
  BY <1>1, <1>3, <1>5 DEF ActiveIsCurrent, Running, Registry
<1>8. LeftStopped'
  BY <1>1, <1>2 DEF IInv, LeftStopped, Idle
<1> QED
  BY <1>6, <1>7, <1>8, <1>9 DEF IInv

LEMMA CloseLeftIInv ==
  ASSUME IInv, NEW c \in Callers, CloseLeft(c)
  PROVE  IInv' /\ UNCHANGED active
<1> DEFINE r == call[c].realm
<1> USE DEF manager
<1>1. /\ UNCHANGED <<manager, adding, crashed, pubsub>>
      /\ call[c].at = "left" /\ r \in Realms /\ call[c].at \notin Holding
      /\ members[r] \in {"stopped", "closed"} /\ ~active[r]
      /\ members' = [members EXCEPT ![r] = "closed"]
      /\ active' = [active EXCEPT ![r] = FALSE]
  BY DEF CloseLeft, IInv, LeftStopped, CallsFit, Running, Holding
<1>2. active' = active
  BY <1>1 DEF IInv, TypeOK
<1>3. /\ call' \in [Callers -> CallType] /\ \A d \in Callers \ {c} : call'[d] = call[d]
      /\ call'[c] = Idle
  BY FinishCall DEF CloseLeft, IInv
<1>4. TypeOK'
  <2>1. members' \in [Realms -> {"new", "started", "stopped", "closed"}]
    BY <1>1 DEF IInv, TypeOK
  <2>2. \A d \in Callers : call'[d].at \in Holding <=> lock' = d
    BY <1>1, <1>3 DEF IInv, TypeOK, Idle, Holding
  <2> QED
    BY <1>1, <1>2, <1>3, <2>1, <2>2 DEF IInv, TypeOK, CallType
<1>10. CallsFit'
  BY <1>3 DEF IInv, CallsFit, Idle, Holding
<1>5. \A d \in Callers, q \in Realms :
        /\ StartedBy(d, q)' <=> StartedBy(d, q)
        /\ HalfwayBy(d, q) => HalfwayBy(d, q)'
  BY <1>1, <1>3 DEF StartedBy, HalfwayBy, Leaving, Holding, Idle
<1>6. r \in registered \/ dropped
  BY <1>1 DEF IInv, Registry
<1>7. Registry'
  BY <1>1, <1>2, <1>5, <1>6 DEF IInv, TypeOK, Registry
<1>8. ActiveIsCurrent' /\ Running'
  BY <1>1, <1>2, <1>5 DEF IInv, TypeOK, ActiveIsCurrent, Running
<1>9. LeftStopped'
  BY <1>1, <1>3 DEF IInv, TypeOK, LeftStopped, CallsFit, Idle
<1> QED
  BY <1>2, <1>4, <1>7, <1>8, <1>9, <1>10 DEF IInv
-----------------------------------------------------------------------------
(* The theorems. *)

LEMMA NextIInv == IInv /\ [Next]_vars => IInv'
<1> SUFFICES ASSUME IInv, [Next]_vars PROVE IInv'
  OBVIOUS
<1>1. CASE UNCHANGED vars
  BY <1>1, CallsStay DEF vars, IInv, TypeOK
<1>2. ASSUME NEW c \in Callers, Call(c) \/ Lock(c)
      PROVE  IInv'
  BY <1>2, CallIInv, LockIInv
<1>3. ASSUME NEW c \in Callers, Step(c)
      PROVE  IInv'
  <2>1. CASE LeaveInStop(c) \/ SkipLeaveInStop(c) \/ Return(c)
    BY <2>1, LeaveInStopIInv
  <2>2. CASE Deactivate(c)
    BY <2>2, DeactivateIInv
  <2>3. CASE LeaveOther(c)
    BY <2>3, LeaveOtherIInv
  <2>4. CASE LeaveCurrent(c) \/ LeaveForStop(c)
    BY <2>4, LeaveIInv
  <2>5. CASE LeaveNothing(c) \/ JoinExisting(c)
    BY <2>5, LeaveNothingIInv
  <2>6. CASE JoinNew(c)
    BY <2>6, JoinNewIInv
  <2>7. CASE JoinStarted(c)
    BY <2>7, JoinStartedIInv
  <2>8. CASE JoinDropped(c)
    BY <2>8, CallsStay DEF JoinDropped, IInv, TypeOK
  <2>9. CASE \E r \in Realms : CloseStopsRealm(c, r) \/ CloseRealm(c, r)
    BY <2>9, CloseStopsRealmIInv, CloseRealmIInv
  <2>10. CASE CloseDone(c)
    BY <2>10, CloseDoneIInv
  <2>11. CASE CloseLeft(c)
    BY <2>11, CloseLeftIInv
  <2> QED
    BY <1>3, <2>1, <2>2, <2>3, <2>4, <2>5, <2>6, <2>7, <2>8, <2>9, <2>10, <2>11 DEF Step
<1>4. ASSUME NEW a \in Adders, Add(a)
      PROVE  IInv'
  <2>1. UNCHANGED <<manager, realms, call, pubsub>> /\ crashed' \in BOOLEAN
    BY <1>4 DEF Add, TestAdd, WriteAdd, WriteClosed, IInv, TypeOK
  <2>2. adding' \in [Adders -> Realms \cup {None}]
    BY <1>4 DEF Add, TestAdd, WriteAdd, WriteClosed, IInv, TypeOK
  <2> QED
    BY <2>1, <2>2, CallsStay
<1> QED
  BY <1>1, <1>2, <1>3, <1>4 DEF Next

(* The invariant that the calls of the manager preserve: what is           *)
(* registered, which realm is active, and who holds a realm halfway.       *)
THEOREM InductiveInvariant == Spec => []IInv
  BY InitIInv, NextIInv, PTL DEF Spec

(* Types, and mutual exclusion: m.mu belongs to the one call that is       *)
(* between Lock and Unlock, for any number of concurrent callers.          *)
THEOREM TypeCorrect == Spec => []TypeOK
<1>1. IInv => TypeOK
  BY DEF IInv
<1> QED
  BY <1>1, InductiveInvariant, PTL

(* Leave and Close find every running realm: an active realm is the        *)
(* manager's current one, whatever Join, Leave, Stop and Close do at once. *)
THEOREM ActiveIsCurrentHolds == Spec => []ActiveIsCurrent
<1>1. IInv => ActiveIsCurrent
  BY DEF IInv
<1> QED
  BY <1>1, InductiveInvariant, PTL

(* Join, Leave and Close start and stop a realm's member manager with the  *)
(* realm: with m.mu free it runs exactly when the realm is active.         *)
THEOREM MembersRunWithRealmHolds == Spec => []MembersRunWithRealm
<1>1. IInv => MembersRunWithRealm
  <2> SUFFICES ASSUME IInv, lock = None, NEW r \in Realms
               PROVE  active[r] <=> members[r] = "started"
    BY DEF MembersRunWithRealm
  <2>1. \A c \in Callers : call[c].at \notin Holding
    BY NoneDistinct DEF IInv, TypeOK
  <2>2. \A c \in Callers : ~HalfwayBy(c, r)
    BY <2>1 DEF HalfwayBy, StartedBy, Leaving, Holding
  <2> QED
    BY <2>2 DEF IInv, Running
<1> QED
  BY <1>1, InductiveInvariant, PTL

(* Once Close has dropped the realms, no call that was under way leaves    *)
(* one behind: every realm ever registered is closed.                      *)
THEOREM StaysClosedHolds == Spec => []StaysClosed
<1>1. IInv => StaysClosed
  <2> SUFFICES ASSUME IInv, dropped, NEW r \in Realms
               PROVE  ~active[r] /\ members[r] \in {"new", "closed"}
    BY DEF StaysClosed
  <2>1. r \notin registered /\ \A c \in Callers : ~StartedBy(c, r)
    BY DEF IInv, Registry
  <2> QED
    BY <2>1 DEF IInv, Registry
<1> QED
  BY <1>1, InductiveInvariant, PTL

(* A step of the manager enters a realm when none is active, leaves the    *)
(* only active one, or is no step of RealmMembership.                      *)
LEMMA NextMembership ==
  ASSUME IInv, [Next]_vars
  PROVE  [Membership!Next]_{r \in Realms : active[r]}
<1> DEFINE in == {r \in Realms : active[r]}
<1> SUFFICES ASSUME active' # active
             PROVE  Membership!Next
  BY DEF vars, realms
<1>1. ASSUME NEW r \in Realms, active[r], active' = [active EXCEPT ![r] = FALSE]
      PROVE  Membership!Next
  <2>1. \A q \in Realms : ~active'[q]
    BY <1>1 DEF IInv, TypeOK, ActiveIsCurrent
  <2>2. in # {} /\ in' = {}
    BY <1>1, <2>1
  <2> QED
    BY <2>2 DEF Membership!Next, Membership!Leave
<1>2. ASSUME NEW c \in Callers, JoinStarted(c)
      PROVE  Membership!Next
  <2> DEFINE r == call[c].realm
  <2>1. r \in Realms /\ StartedBy(c, r)
    BY <1>2 DEF JoinStarted, IInv, CallsFit, StartedBy
  <2>2. \A q \in Realms : ~active[q]
    BY <2>1, NoneDistinct DEF IInv, Registry, ActiveIsCurrent
  <2>3. \A q \in Realms : active'[q] <=> q = r
    BY <1>2, <2>1, <2>2 DEF JoinStarted, IInv, TypeOK
  <2>4. in = {} /\ in' = {r}
    BY <2>1, <2>2, <2>3
  <2> QED
    BY <2>1, <2>4 DEF Membership!Next, Membership!Enter
<1>3. ASSUME NEW c \in Callers, Deactivate(c)
      PROVE  Membership!Next
  <2>1. current \in Realms
    BY <1>3 DEF Deactivate, Leaving, IInv, TypeOK
  <2> QED
    BY <1>1, <1>3, <2>1 DEF Deactivate
<1>4. ASSUME NEW c \in Callers, NEW r \in Realms, CloseStopsRealm(c, r)
      PROVE  Membership!Next
  BY <1>1, <1>4 DEF CloseStopsRealm
<1>5. ASSUME NEW c \in Callers
      PROVE  ~CloseLeft(c)
  BY CloseLeftIInv
<1>6. ASSUME NEW c \in Callers, Step(c)
      PROVE  \/ Deactivate(c) \/ JoinStarted(c)
             \/ \E r \in Realms : CloseStopsRealm(c, r)
  BY <1>5, <1>6 DEF Step, LeaveInStop, SkipLeaveInStop, LeaveOther, LeaveCurrent, LeaveForStop,
     Stopped, LeaveNothing, JoinExisting, JoinNew, JoinDropped, CloseRealm, CloseDone, Return,
     realms
<1>7. ASSUME NEW c \in Callers
      PROVE  ~Call(c) /\ ~Lock(c)
  BY DEF Call, Start, LeaveCall, StopCall, CloseCall, JoinCall, Lock, realms
<1>8. ASSUME NEW a \in Adders
      PROVE  ~Add(a)
  BY DEF Add, TestAdd, WriteAdd, WriteClosed, realms
<1>9. PICK c \in Callers : Step(c)
  BY <1>7, <1>8 DEF Next, vars, realms
<1> QED
  BY <1>2, <1>3, <1>4, <1>6, <1>9

(* The manager implements RealmMembership: however its calls interleave,   *)
(* the node enters a realm only from none and leaves it before another.    *)
THEOREM OneRealm == Spec => OneRealmAtATime
<1>1. Init => Membership!Init
  BY DEF Init, Membership!Init
<1>2. Init /\ [][Next]_vars /\ []IInv => Membership!Spec
  BY <1>1, NextMembership, PTL DEF Membership!Spec
<1> QED
  BY <1>2, InductiveInvariant, PTL DEF Spec, OneRealmAtATime

-----------------------------------------------------------------------------
(* The calls return *)

(* The steps of the call that holds the lock, by their guards.             *)
CanGoOn(c) ==
  \/ Leaving(c)
  \/ Joining(c)
  \/ call[c].at = "locked" /\ call[c].op # "join" /\ current = None
  \/ call[c].at = "starting"
  \/ /\ call[c].at = "closing"
     /\ \/ \E r \in registered : active[r] /\ HalfStopped = {}
        \/ \E r \in registered : ~active[r] /\ members[r] # "closed" /\ HalfStopped \subseteq {r}
        \/ \A r \in registered : members[r] = "closed"

(* Who holds the lock never waits, for another call or for a realm.        *)
HolderGoesOn == \A c \in Callers : lock = c => CanGoOn(c)

(* A registered realm whose member manager runs is the current one, also   *)
(* between its stop and its close.                                         *)
StartedIsCurrent == \A r \in registered : members[r] = "started" => r = current

LEMMA NextStartedIsCurrent ==
  ASSUME IInv, StartedIsCurrent, [Next]_vars
  PROVE  StartedIsCurrent'
<1> USE DEF StartedIsCurrent
<1>0. /\ members \in [Realms -> {"new", "started", "stopped", "closed"}]
      /\ registered \subseteq Realms /\ IInv'
  BY NextIInv DEF IInv, TypeOK
<1>1. CASE UNCHANGED <<registered, current, members>>
  BY <1>1
<1>2. ASSUME NEW c \in Callers, Call(c) \/ Lock(c) \/ LeaveInStop(c) \/ SkipLeaveInStop(c) \/ Return(c)
                                \/ Deactivate(c) \/ LeaveNothing(c) \/ JoinDropped(c)
      PROVE  StartedIsCurrent'
  BY <1>1, <1>2 DEF Call, Start, LeaveCall, StopCall, CloseCall, JoinCall, Lock, LeaveInStop,
     SkipLeaveInStop, Return, Deactivate, LeaveNothing, JoinDropped, manager, realms
<1>3. ASSUME NEW c \in Callers, LeaveOther(c) \/ LeaveCurrent(c) \/ LeaveForStop(c)
      PROVE  StartedIsCurrent'
  <2>1. Stopped(c) /\ registered' \subseteq Realms
    BY <1>0, <1>3 DEF LeaveOther, LeaveCurrent, LeaveForStop, Stopped
  <2> QED
    BY <2>1, StoppedRealm
<1>4. ASSUME NEW c \in Callers, JoinExisting(c)
      PROVE  StartedIsCurrent'
  <2>1. current = None \/ current' = current
    BY <1>4 DEF JoinExisting, Joining
  <2> QED
    BY <1>0, <1>4, <2>1, NoneDistinct DEF JoinExisting, realms
<1>5. ASSUME NEW c \in Callers, JoinNew(c)
      PROVE  StartedIsCurrent'
  <2>1. \A r \in registered : members'[r] = members[r]
    BY <1>0, <1>5 DEF JoinNew
  <2> QED
    BY <1>5, <2>1 DEF JoinNew, manager
<1>6. ASSUME NEW c \in Callers, JoinStarted(c)
      PROVE  StartedIsCurrent'
  <2>1. StartedBy(c, call[c].realm) /\ call[c].realm \in Realms
    BY <1>6 DEF JoinStarted, StartedBy, IInv, CallsFit
  <2>2. current = None
    BY <2>1 DEF IInv, Registry
  <2> QED
    BY <1>0, <1>6, <2>2, NoneDistinct DEF JoinStarted
<1>7. ASSUME NEW c \in Callers, NEW r \in Realms, CloseStopsRealm(c, r) \/ CloseRealm(c, r)
      PROVE  StartedIsCurrent'
  <2>1. \A q \in Realms : members'[q] = members[q] \/ members'[q] = "closed"
    BY <1>0, <1>7 DEF CloseStopsRealm, CloseRealm
  <2> QED
    BY <1>0, <1>7, <2>1 DEF CloseStopsRealm, CloseRealm, manager
<1>8. ASSUME NEW c \in Callers, CloseDone(c)
      PROVE  StartedIsCurrent'
  BY <1>8 DEF CloseDone
<1>9. ASSUME NEW c \in Callers, CloseLeft(c)
      PROVE  StartedIsCurrent'
  <2>1. \A q \in Realms : members'[q] = members[q] \/ members'[q] = "closed"
    BY <1>0, <1>9 DEF CloseLeft
  <2> QED
    BY <1>0, <1>9, <2>1 DEF CloseLeft, manager
<1>10. ASSUME NEW a \in Adders, Add(a)
       PROVE  StartedIsCurrent'
  BY <1>1, <1>10 DEF Add, TestAdd, WriteAdd, WriteClosed, manager, realms
<1> QED
  BY <1>1, <1>2, <1>3, <1>4, <1>5, <1>6, <1>7, <1>8, <1>9, <1>10 DEF Next, Step, vars, manager, realms

(* The call that holds m.mu can always go on: Close finds a realm to stop  *)
(* or to close, or has closed them all (manager.go, Join, Leave and        *)
(* Close).                                                                 *)
THEOREM HolderGoesOnHolds == Spec => []HolderGoesOn
<1>1. Init => StartedIsCurrent
  BY DEF Init, StartedIsCurrent
<1>2. IInv /\ StartedIsCurrent => HolderGoesOn
  <2> SUFFICES ASSUME IInv, StartedIsCurrent, NEW c \in Callers, lock = c
               PROVE  CanGoOn(c)
    BY DEF HolderGoesOn
  <2>1. call[c].at \in Holding
    BY DEF IInv, TypeOK
  <2>2. CASE call[c].at = "starting"
    BY <2>2 DEF CanGoOn
  <2>3. CASE call[c].at = "locked"
    BY <2>3 DEF CanGoOn, Leaving, Joining
  <2>4. CASE call[c].at = "closing"
    <3>1. HalfStopped \subseteq {current}
      BY DEF HalfStopped, StartedIsCurrent
    <3>2. CASE \E r \in registered : active[r] /\ HalfStopped = {}
      BY <2>4, <3>2 DEF CanGoOn
    <3>3. CASE \A r \in registered : members[r] = "closed"
      BY <2>4, <3>3 DEF CanGoOn
    <3>4. CASE HalfStopped # {}
      <4>1. PICK r \in HalfStopped : TRUE
        BY <3>4
      <4>2. r \in registered /\ ~active[r] /\ members[r] # "closed" /\ HalfStopped \subseteq {r}
        BY <3>1, <4>1 DEF HalfStopped
      <4> QED
        BY <2>4, <4>2 DEF CanGoOn
    <3>5. CASE HalfStopped = {} /\ (\A r \in registered : ~active[r]) /\ (\E r \in registered : members[r] # "closed")
      BY <2>4, <3>5 DEF CanGoOn
    <3> QED
      BY <3>2, <3>3, <3>4, <3>5
  <2> QED
    BY <2>1, <2>2, <2>3, <2>4 DEF Holding
<1> QED
  BY <1>1, <1>2, NextStartedIsCurrent, InductiveInvariant, PTL DEF Spec

(* What the call that holds the lock has to do before it lets go of it.    *)
Work(c) ==
  ({"stop"} \X {r \in Realms : active[r]})
    \cup ({"leave"} \X {r \in Realms : Leaving(c) /\ r = current})
    \cup ({"enter"} \X {r \in Realms : call[c].at = "locked" /\ call[c].op = "join" /\ r = call[c].realm})
    \cup ({"close"} \X {r \in registered : call[c].at = "closing" /\ members[r] # "closed"})

(* Each of its steps does some of it, and nobody gives it more to do.      *)
HolderFinishes ==
  [][\A c \in Callers :
       lock = c /\ lock' = c /\ ~crashed' =>
         /\ Work(c)' \subseteq Work(c)
         /\ Step(c) => Work(c)' # Work(c)]_vars

(* What is left of the work, item by item. *)
LEMMA WorkItems ==
  ASSUME NEW c
  PROVE  /\ \A r : <<"stop", r>> \in Work(c) <=> r \in Realms /\ active[r]
         /\ \A r : <<"leave", r>> \in Work(c) <=> r \in Realms /\ Leaving(c) /\ r = current
         /\ \A r : <<"enter", r>> \in Work(c) <=>
              r \in Realms /\ call[c].at = "locked" /\ call[c].op = "join" /\ r = call[c].realm
         /\ \A r : <<"close", r>> \in Work(c) <=>
              r \in registered /\ call[c].at = "closing" /\ members[r] # "closed"
BY DEF Work

LEMMA NextWorkItems ==
  ASSUME NEW c
  PROVE  /\ \A r : <<"stop", r>> \in Work(c)' <=> r \in Realms /\ active'[r]
         /\ \A r : <<"leave", r>> \in Work(c)' <=> r \in Realms /\ Leaving(c)' /\ r = current'
         /\ \A r : <<"enter", r>> \in Work(c)' <=>
              r \in Realms /\ call'[c].at = "locked" /\ call'[c].op = "join" /\ r = call'[c].realm
         /\ \A r : <<"close", r>> \in Work(c)' <=>
              r \in registered' /\ call'[c].at = "closing" /\ members'[r] # "closed"
BY DEF Work

LEMMA WorkKept ==
  ASSUME NEW c,
         \A r \in Realms : active'[r] => active[r],
         \A r \in Realms : Leaving(c)' /\ r = current' => Leaving(c) /\ r = current,
         \A r \in Realms : call'[c].at = "locked" /\ call'[c].op = "join" /\ r = call'[c].realm =>
                             call[c].at = "locked" /\ call[c].op = "join" /\ r = call[c].realm,
         \A r \in registered' : call'[c].at = "closing" /\ members'[r] # "closed" =>
                                  r \in registered /\ call[c].at = "closing" /\ members[r] # "closed"
  PROVE  Work(c)' \subseteq Work(c)
BY DEF Work

(* A call keeps m.mu for as many steps at most as it has realms to stop,   *)
(* leave, enter and close, whatever the others do meanwhile (manager.go,   *)
(* Join, Leave and Close).                                                 *)
THEOREM HolderFinishesHolds == Spec => HolderFinishes
<1>1. IInv /\ IInv' /\ [Next]_vars =>
        [\A c \in Callers :
           lock = c /\ lock' = c /\ ~crashed' =>
             /\ Work(c)' \subseteq Work(c)
             /\ Step(c) => Work(c)' # Work(c)]_vars
  <2> SUFFICES ASSUME IInv, IInv', Next, NEW c \in Callers, lock = c, lock' = c, ~crashed'
               PROVE  /\ Work(c)' \subseteq Work(c)
                      /\ Step(c) => Work(c)' # Work(c)
    OBVIOUS
  <2>0. /\ c # None /\ call[c].at \in Holding /\ call'[c].at \in Holding
        /\ \A d \in Callers \ {c} : call[d].at \notin Holding
        /\ call \in [Callers -> CallType] /\ active \in [Realms -> BOOLEAN]
        /\ members \in [Realms -> {"new", "started", "stopped", "closed"}]
        /\ registered \subseteq Realms
    BY NoneDistinct DEF IInv, TypeOK, CallType
  <2>1. CASE Step(c)
    <3>1. CASE Deactivate(c)
      <4>1. /\ current \in Realms /\ active[current] /\ ~active'[current]
            /\ \A r \in Realms : active'[r] => active[r]
        BY <2>0, <3>1 DEF Deactivate, Leaving, IInv, TypeOK
      <4>2. UNCHANGED <<registered, current, members, call>>
        BY <3>1 DEF Deactivate, manager
      <4>3. Work(c)' \subseteq Work(c)
        BY <4>1, <4>2, WorkKept DEF Leaving
      <4>4. <<"stop", current>> \in Work(c) /\ <<"stop", current>> \notin Work(c)'
        BY <4>1, <4>2, WorkItems, NextWorkItems
      <4> QED
        BY <4>3, <4>4
    <3>2. CASE LeaveOther(c)
      <4>1. /\ current \in Realms /\ Leaving(c) /\ current' = None /\ call[c].at = "locked"
            /\ UNCHANGED <<registered, active, call>>
        BY <3>2, StoppedRealm DEF LeaveOther, Stopped, Leaving
      <4>2. None \notin Realms /\ ~Leaving(c)'
        BY <4>1, NoneDistinct DEF Leaving
      <4>3. Work(c)' \subseteq Work(c)
        BY <4>1, <4>2, WorkKept
      <4>4. <<"leave", current>> \in Work(c) /\ <<"leave", current>> \notin Work(c)'
        BY <4>1, <4>2, WorkItems, NextWorkItems
      <4> QED
        BY <4>3, <4>4
    <3>3. CASE JoinNew(c)
      <4>1. /\ call[c].at = "locked" /\ call[c].op = "join" /\ call[c].realm \in Realms
            /\ call'[c].at = "starting" /\ UNCHANGED <<registered, current, active>>
        BY <2>0, <3>3 DEF JoinNew, Joining, Goto, manager, IInv, CallsFit
      <4>2. ~Leaving(c)'
        BY <4>1 DEF Leaving
      <4>3. Work(c)' \subseteq Work(c)
        BY <4>1, <4>2, WorkKept
      <4>4. <<"enter", call[c].realm>> \in Work(c) /\ <<"enter", call[c].realm>> \notin Work(c)'
        BY <4>1, WorkItems, NextWorkItems
      <4> QED
        BY <4>3, <4>4
    <3>4. ASSUME NEW r \in Realms, CloseStopsRealm(c, r)
          PROVE  Work(c)' \subseteq Work(c) /\ Work(c)' # Work(c)
      <4>1. /\ active[r] /\ ~active'[r] /\ call[c].at = "closing"
            /\ \A q \in Realms : active'[q] => active[q]
            /\ UNCHANGED <<registered, members, call>>
        BY <2>0, <3>4 DEF CloseStopsRealm, manager
      <4>2. ~Leaving(c)'
        BY <4>1 DEF Leaving
      <4>3. Work(c)' \subseteq Work(c)
        BY <4>1, <4>2, WorkKept
      <4>4. <<"stop", r>> \in Work(c) /\ <<"stop", r>> \notin Work(c)'
        BY <4>1, WorkItems, NextWorkItems
      <4> QED
        BY <4>3, <4>4
    <3>5. ASSUME NEW r \in Realms, CloseRealm(c, r)
          PROVE  Work(c)' \subseteq Work(c) /\ Work(c)' # Work(c)
      <4>1. /\ r \in registered /\ members[r] # "closed" /\ members'[r] = "closed"
            /\ call[c].at = "closing"
            /\ \A q \in Realms : members'[q] # "closed" => members[q] # "closed"
            /\ UNCHANGED <<registered, active, call>>
        BY <2>0, <3>5 DEF CloseRealm, manager
      <4>2. ~Leaving(c)'
        BY <4>1 DEF Leaving
      <4>3. Work(c)' \subseteq Work(c)
        BY <2>0, <4>1, <4>2, WorkKept
      <4>4. <<"close", r>> \in Work(c) /\ <<"close", r>> \notin Work(c)'
        BY <4>1, WorkItems, NextWorkItems
      <4> QED
        BY <4>3, <4>4
    <3>6. ~LeaveInStop(c) /\ ~SkipLeaveInStop(c) /\ ~Return(c) /\ ~CloseLeft(c)
      BY <2>0 DEF LeaveInStop, SkipLeaveInStop, Return, CloseLeft, Holding
    <3>7. /\ ~LeaveCurrent(c) /\ ~LeaveForStop(c) /\ ~LeaveNothing(c) /\ ~JoinExisting(c)
          /\ ~JoinStarted(c) /\ ~CloseDone(c) /\ ~JoinDropped(c)
      BY <2>0 DEF LeaveCurrent, LeaveForStop, LeaveNothing, JoinExisting, JoinStarted, CloseDone, JoinDropped
    <3> QED
      BY <2>1, <3>1, <3>2, <3>3, <3>4, <3>5, <3>6, <3>7 DEF Step
  <2>2. CASE ~Step(c)
    <3>1. UNCHANGED <<registered, current>> /\ call'[c] = call[c]
          /\ (\A r \in Realms : active'[r] => active[r])
          /\ (\A r \in Realms : members'[r] # "closed" => members[r] # "closed")
      <4>1. ASSUME NEW a \in Adders, Add(a)
            PROVE  UNCHANGED <<manager, realms, call>>
        BY <4>1 DEF Add, TestAdd, WriteAdd, WriteClosed
      <4>2. ~Call(c) /\ \A d \in Callers : ~Lock(d)
        BY <2>0 DEF Call, Start, LeaveCall, StopCall, CloseCall, JoinCall, Begin, Lock, Idle, Holding
      <4>3. ASSUME NEW d \in Callers \ {c}, Call(d)
            PROVE  UNCHANGED <<registered, current, realms>> /\ call'[c] = call[c]
        BY <2>0, <4>3 DEF Call, Start, LeaveCall, StopCall, CloseCall, JoinCall, Begin, manager
      <4>4. ASSUME NEW d \in Callers \ {c}, Step(d)
            PROVE  LeaveInStop(d) \/ SkipLeaveInStop(d) \/ Return(d) \/ CloseLeft(d)
        BY <2>0, <4>4 DEF Step, Deactivate, LeaveOther, LeaveCurrent, LeaveForStop, LeaveNothing,
           Stopped, Leaving, JoinExisting, JoinNew, JoinDropped, Joining, JoinStarted,
           CloseStopsRealm, CloseRealm, CloseDone, Holding
      <4>5. ASSUME NEW d \in Callers \ {c}, LeaveInStop(d) \/ SkipLeaveInStop(d) \/ Return(d)
            PROVE  UNCHANGED <<registered, current, realms>> /\ call'[c] = call[c]
        BY <2>0, <4>5 DEF LeaveInStop, SkipLeaveInStop, Return, AfterStop, Goto, Finish, manager
      <4>6. ASSUME NEW d \in Callers \ {c}, CloseLeft(d)
            PROVE  /\ UNCHANGED <<registered, current>> /\ call'[c] = call[c]
                   /\ \A r \in Realms : active'[r] => active[r]
                   /\ \A r \in Realms : members'[r] # "closed" => members[r] # "closed"
        BY <2>0, <4>6 DEF CloseLeft, Finish, manager
      <4> QED
        BY <2>2, <4>1, <4>2, <4>3, <4>4, <4>5, <4>6 DEF Next, manager, realms
    <3>2. Leaving(c)' <=> Leaving(c)
      BY <3>1 DEF Leaving
    <3> QED
      BY <2>0, <2>2, <3>1, <3>2, WorkKept
  <2> QED
    BY <2>1, <2>2
<1> QED
  BY <1>1, InductiveInvariant, PTL DEF Spec, HolderFinishes
===============================================================================
