---------------------------- MODULE RealmManager ----------------------------
(***************************************************************************)
(* The realm manager (internal/realm/manager.go) and the start, stop and   *)
(* close of a realm (internal/realm/realm.go), called by any number of     *)
(* goroutines at once, as doc.go promises and its tests do.                *)
(*                                                                         *)
(* The flags started and closed are atomics that a call tests before it    *)
(* takes m.mu; from then to the end of the call it holds m.mu, also while  *)
(* it stops a realm, which takes up to 150 ms (the leave message and its   *)
(* propagation) in which the rest of the realm goes on.  The goroutines of *)
(* a realm's authentications take no such lock: they add peers to its      *)
(* member list, testing whether the list is open first and writing to it   *)
(* later.                                                                  *)
(*                                                                         *)
(* Start and creation of a realm succeed: every part is new and fails only *)
(* when it has been started or closed before.  Entries of m.realms are     *)
(* kept until Close, so a realm is created at most once and its name       *)
(* stands for it.                                                          *)
(***************************************************************************)
EXTENDS FiniteSets

CONSTANTS
  Callers,      \* goroutines that call the manager
  Realms,       \* realms that may be joined
  Adders,       \* goroutines that add authenticated peers to member lists
  None          \* nil

ASSUME NoneDistinct == None \notin Realms /\ None \notin Callers

VARIABLES
  started,      \* Manager.started
  closed,       \* Manager.closed
  registered,   \* the keys of Manager.realms
  dropped,      \* Manager.realms = nil
  current,      \* Manager.current
  lock,         \* the caller that holds Manager.mu
  active,       \* realmImpl.active
  members,      \* the realm's member manager
  call,         \* what each caller is doing
  adding,       \* the realm whose list an Add has found open
  crashed,      \* the process has panicked
  pubsub        \* the realms whose pubsub service runs

manager == <<started, closed, registered, dropped, current, lock>>
realms == <<active, members>>
vars == <<manager, realms, call, adding, crashed, pubsub>>

Ops == {"none", "join", "leave", "stop", "close"}

(***************************************************************************)
(* Where a call stands: before Manager.Leave within Stop ("stopping"),     *)
(* before m.mu ("lock"), holding it ("locked", "starting", "closing"),     *)
(* back with a realm joined or left ("joined", "left").                    *)
(***************************************************************************)
Stages == {"idle", "stopping", "lock", "locked", "starting", "closing", "joined", "left"}
Holding == {"locked", "starting", "closing"}

Idle == [op |-> "none", at |-> "idle", realm |-> None]

Init ==
  /\ started = FALSE /\ closed = FALSE
  /\ registered = {} /\ dropped = FALSE
  /\ current = None /\ lock = None
  /\ active = [r \in Realms |-> FALSE]
  /\ members = [r \in Realms |-> "new"]
  /\ call = [c \in Callers |-> Idle]
  /\ adding = [a \in Adders |-> None]
  /\ crashed = FALSE
  /\ pubsub = {}

-----------------------------------------------------------------------------
(* Calls and what they test before the lock; a refusal changes nothing.    *)

Begin(c, op, at, r) ==
  /\ call[c] = Idle
  /\ call' = [call EXCEPT ![c] = [op |-> op, at |-> at, realm |-> r]]

Goto(c, at) == call' = [call EXCEPT ![c].at = at]

Finish(c) == call' = [call EXCEPT ![c] = Idle]

Start(c) ==
  /\ call[c] = Idle /\ ~started /\ ~closed
  /\ started' = TRUE
  /\ UNCHANGED <<closed, registered, dropped, current, lock, realms, call, adding, crashed, pubsub>>

JoinCall(c, r) ==
  /\ started /\ ~closed
  /\ Begin(c, "join", "lock", r)
  /\ UNCHANGED <<manager, realms, adding, crashed, pubsub>>

LeaveCall(c) ==
  /\ started
  /\ Begin(c, "leave", "lock", None)
  /\ UNCHANGED <<manager, realms, adding, crashed, pubsub>>

StopCall(c) ==
  /\ started
  /\ Begin(c, "stop", "stopping", None)
  /\ started' = FALSE
  /\ UNCHANGED <<closed, registered, dropped, current, lock, realms, adding, crashed, pubsub>>

(* Close stops a started manager first. *)
CloseCall(c) ==
  /\ ~closed
  /\ Begin(c, "close", IF started THEN "stopping" ELSE "lock", None)
  /\ closed' = TRUE /\ started' = FALSE
  /\ UNCHANGED <<registered, dropped, current, lock, realms, adding, crashed, pubsub>>

(* Stop calls Leave, which tests started once more: it goes through only   *)
(* if another goroutine has started the manager again in the meantime.     *)
LeaveInStop(c) ==
  /\ call[c].at = "stopping" /\ current # None /\ started
  /\ Goto(c, "lock")
  /\ UNCHANGED <<manager, realms, adding, crashed, pubsub>>

(* The end of Stop; Close goes on to the lock. *)
AfterStop(c) == IF call[c].op = "close" THEN Goto(c, "lock") ELSE Finish(c)

SkipLeaveInStop(c) ==
  /\ call[c].at = "stopping" /\ (current = None \/ ~started)
  /\ AfterStop(c)
  /\ UNCHANGED <<manager, realms, adding, crashed, pubsub>>

-----------------------------------------------------------------------------
(* Under the lock.                                                         *)

Lock(c) ==
  /\ call[c].at = "lock" /\ lock = None
  /\ lock' = c
  /\ Goto(c, IF call[c].op = "close" THEN "closing" ELSE "locked")
  /\ UNCHANGED <<started, closed, registered, dropped, current, realms, adding, crashed, pubsub>>

(* A leave, or a join that has to leave another realm first. *)
Leaving(c) ==
  /\ call[c].at = "locked"
  /\ current # None
  /\ call[c].op = "join" => current # call[c].realm

(* realmImpl.stop of an active realm: its leave message is out and its     *)
(* context is cancelled.                                                   *)
Deactivate(c) ==
  /\ Leaving(c) /\ active[current]
  /\ active' = [active EXCEPT ![current] = FALSE]
  /\ UNCHANGED <<manager, members, call, adding, crashed, pubsub>>

(* Mutant: the member manager is not stopped.                              *)
KeptMembers(r) == members

StoppedMembers(r) ==
  [members EXCEPT ![r] = IF @ = "started" THEN "stopped" ELSE @]

(* Mutant: current is cleared before the realm has been stopped.           *)
StoppedEarly(c) ==
  /\ Leaving(c)
  /\ current' = None
  /\ UNCHANGED <<started, closed, registered, dropped, realms, adding, crashed, pubsub>>

(* The rest of stop, which does nothing to a realm that was not active.    *)
(* It stops the member manager and what is not tracked here, but not the   *)
(* pubsub service: stopProtocolServices asks it for a method Stop() error, *)
(* and its Stop takes a context.                                           *)
Stopped(c) ==
  /\ Leaving(c) /\ ~active[current]
  /\ members' = StoppedMembers(current)
  /\ current' = None
  /\ UNCHANGED <<started, closed, registered, dropped, active, adding, crashed, pubsub>>

(* Join goes on, now in no realm. *)
LeaveOther(c) ==
  /\ Stopped(c) /\ call[c].op = "join"
  /\ UNCHANGED <<lock, call>>

LeaveCurrent(c) ==
  /\ Stopped(c) /\ call[c].op = "leave"
  /\ lock' = None
  /\ call' = [call EXCEPT ![c] = [op |-> "leave", at |-> "left", realm |-> current]]

LeaveForStop(c) ==
  /\ Stopped(c) /\ call[c].op = "stop"
  /\ lock' = None
  /\ Finish(c)

(* Mutant: a leave in no realm waits for one.                              *)
LeaveRetries(c) ==
  /\ call[c].at = "locked" /\ call[c].op # "join" /\ current = None
  /\ lock' = None
  /\ Goto(c, "lock")
  /\ UNCHANGED <<started, closed, registered, dropped, current, realms, adding, crashed, pubsub>>

(* ErrNotInRealm *)
LeaveNothing(c) ==
  /\ call[c].at = "locked" /\ call[c].op # "join" /\ current = None
  /\ lock' = None
  /\ Finish(c)
  /\ UNCHANGED <<started, closed, registered, dropped, current, realms, adding, crashed, pubsub>>

(* Mutant: another current realm is not left first.                        *)
JoiningAnyway(c) == call[c].at = "locked" /\ call[c].op = "join"

(* A join that is in no other realm. *)
Joining(c) ==
  /\ call[c].at = "locked" /\ call[c].op = "join"
  /\ current \in {None, call[c].realm}

JoinExisting(c) ==
  /\ Joining(c) /\ call[c].realm \in registered
  /\ current' = call[c].realm
  /\ lock' = None
  /\ Goto(c, "joined")
  /\ UNCHANGED <<started, closed, registered, dropped, realms, adding, crashed, pubsub>>

(* Mutant: m.realms is made anew after Close.                              *)
JoinNewAnyway(c) ==
  /\ Joining(c) /\ call[c].realm \notin registered
  /\ members' = [members EXCEPT ![call[c].realm] = "started"]
  /\ Goto(c, "starting")
  /\ UNCHANGED <<manager, active, adding, crashed, pubsub>>

(* createRealm, and start up to the member manager: from here on the event *)
(* loop and the authentication handler run.                                *)
JoinNew(c) ==
  /\ Joining(c) /\ call[c].realm \notin registered /\ ~dropped
  /\ members' = [members EXCEPT ![call[c].realm] = "started"]
  /\ Goto(c, "starting")
  /\ UNCHANGED <<manager, active, adding, crashed, pubsub>>

(* The rest of start, which starts the protocol services, and the          *)
(* registration (manager.go:271-276).                                      *)
JoinStarted(c) ==
  /\ call[c].at = "starting"
  /\ pubsub' = pubsub \cup {call[c].realm}
  /\ active' = [active EXCEPT ![call[c].realm] = TRUE]
  /\ registered' = registered \cup {call[c].realm}
  /\ current' = call[c].realm
  /\ lock' = None
  /\ Goto(c, "joined")
  /\ UNCHANGED <<started, closed, dropped, members, adding, crashed>>

(* A join that passed its tests before Close finds m.realms nil: it starts *)
(* a realm, which is not tracked here, and panics when it registers it.    *)
JoinDropped(c) ==
  /\ Joining(c) /\ dropped
  /\ crashed' = TRUE
  /\ UNCHANGED <<manager, realms, call, adding, pubsub>>

-----------------------------------------------------------------------------
(* Manager.Close, one realm after the other.                               *)

HalfStopped == {r \in registered : ~active[r] /\ members[r] = "started"}

CloseStopsRealm(c, r) ==
  /\ call[c].at = "closing" /\ r \in registered
  /\ active[r] /\ HalfStopped = {}
  /\ active' = [active EXCEPT ![r] = FALSE]
  /\ UNCHANGED <<manager, members, call, adding, crashed, pubsub>>

CloseRealm(c, r) ==
  /\ call[c].at = "closing" /\ r \in registered
  /\ ~active[r] /\ members[r] # "closed" /\ HalfStopped \subseteq {r}
  /\ members' = [members EXCEPT ![r] = "closed"]
  /\ UNCHANGED <<manager, active, call, adding, crashed, pubsub>>

CloseDone(c) ==
  /\ call[c].at = "closing"
  /\ \A r \in registered : members[r] = "closed"
  /\ registered' = {} /\ dropped' = TRUE
  /\ current' = None
  /\ lock' = None
  /\ Finish(c)
  /\ UNCHANGED <<started, closed, realms, adding, crashed, pubsub>>

-----------------------------------------------------------------------------
(* Back at the caller.                                                     *)

Return(c) ==
  /\ call[c].at \in {"joined", "left"}
  /\ Finish(c)
  /\ UNCHANGED <<manager, realms, adding, crashed, pubsub>>

(* Node.LeaveRealm closes the realm after leaving it, without m.mu.        *)
CloseLeft(c) ==
  LET r == call[c].realm IN
  /\ call[c].at = "left"
  /\ active' = [active EXCEPT ![r] = FALSE]
  /\ members' = [members EXCEPT ![r] = "closed"]
  /\ Finish(c)
  /\ UNCHANGED <<manager, adding, crashed, pubsub>>

-----------------------------------------------------------------------------
(* The member manager's Add: its tests, and its write under another lock.  *)

TestAdd(a, r) ==
  /\ adding[a] = None /\ members[r] = "started"
  /\ adding' = [adding EXCEPT ![a] = r]
  /\ UNCHANGED <<manager, realms, call, crashed, pubsub>>

WriteAdd(a) ==
  /\ adding[a] # None /\ members[adding[a]] # "closed"
  /\ adding' = [adding EXCEPT ![a] = None]
  /\ UNCHANGED <<manager, realms, call, crashed, pubsub>>

(* member.Manager.Close has set the map to nil. *)
WriteClosed(a) ==
  /\ adding[a] # None /\ members[adding[a]] = "closed"
  /\ crashed' = TRUE
  /\ UNCHANGED <<manager, realms, call, adding, pubsub>>

-----------------------------------------------------------------------------
Call(c) ==
  \/ Start(c) \/ LeaveCall(c) \/ StopCall(c) \/ CloseCall(c)
  \/ \E r \in Realms : JoinCall(c, r)

(* What a call does by itself once it holds or does not need the lock. *)
Step(c) ==
  \/ LeaveInStop(c) \/ SkipLeaveInStop(c)
  \/ Deactivate(c) \/ LeaveOther(c) \/ LeaveCurrent(c) \/ LeaveForStop(c) \/ LeaveNothing(c)
  \/ JoinExisting(c) \/ JoinNew(c) \/ JoinStarted(c) \/ JoinDropped(c)
  \/ \E r \in Realms : CloseStopsRealm(c, r) \/ CloseRealm(c, r)
  \/ CloseDone(c)
  \/ Return(c) \/ CloseLeft(c)

Add(a) == WriteAdd(a) \/ WriteClosed(a) \/ \E r \in Realms : TestAdd(a, r)

Next ==
  /\ ~crashed
  /\ \/ \E c \in Callers : Call(c) \/ Lock(c) \/ Step(c)
     \/ \E a \in Adders : Add(a)

Spec == Init /\ [][Next]_vars

(* Goroutines run, and a mutex waited for is granted in the end (a Go      *)
(* mutex passes to its first waiter after a millisecond).                  *)
Fairness ==
  \A c \in Callers : WF_vars(~crashed /\ Step(c)) /\ SF_vars(~crashed /\ Lock(c))

FairSpec == Spec /\ Fairness

-----------------------------------------------------------------------------
(* Properties.                                                             *)

(* Types; and m.mu is held by the call that is between Lock and Unlock,    *)
(* which is therefore the only one.                                        *)
TypeOK ==
  /\ started \in BOOLEAN /\ closed \in BOOLEAN /\ dropped \in BOOLEAN /\ crashed \in BOOLEAN
  /\ registered \subseteq Realms /\ pubsub \subseteq Realms
  /\ current \in Realms \cup {None}
  /\ lock \in Callers \cup {None}
  /\ active \in [Realms -> BOOLEAN]
  /\ members \in [Realms -> {"new", "started", "stopped", "closed"}]
  /\ call \in [Callers -> [op : Ops, at : Stages, realm : Realms \cup {None}]]
  /\ adding \in [Adders -> Realms \cup {None}]
  /\ \A c \in Callers : call[c].at \in Holding <=> lock = c

(* Join, Leave and Close of concurrent callers: a realm that is active is  *)
(* the manager's current one, so that Leave and Close find and stop it.    *)
ActiveIsCurrent == \A r \in Realms : active[r] => current = r

(* Whatever the calls and their order, between them the member manager of  *)
(* a realm runs exactly when the realm is active: none is left behind by a *)
(* leave, a switch or a close, and no active realm has lost its own.       *)
MembersRunWithRealm == lock = None => \A r \in Realms : active[r] <=> members[r] = "started"

(* After Close has returned no call that was still on its way leaves a     *)
(* realm alive: it fails, or takes the process down (JoinDropped).         *)
StaysClosed ==
  dropped /\ lock = None => \A r \in Realms : ~active[r] /\ members[r] \in {"new", "closed"}

(* The manager keeps the promise of RealmMembership: one realm at a time,  *)
(* left before another is entered, for any calls in any order.             *)
Membership == INSTANCE RealmMembership WITH in <- {r \in Realms : active[r]}
OneRealmAtATime == Membership!Spec

(* Every call of the manager returns: no leave, switch or close keeps the  *)
(* lock or waits for something that needs it.                              *)
CallsReturn == \A c \in Callers : call[c] # Idle ~> call[c] = Idle \/ crashed

(* realm.go:1485-1486: stop stops the protocol services, pubsub among      *)
(* them.  Between the calls, then, the pubsub of an inactive realm does    *)
(* not run.                                                                *)
PubSubStopped == lock = None => \A r \in pubsub : active[r]

(* doc.go:124-125 and node.go:285: who has joined a realm can use it.  *)
JoinedRealmRuns ==
  [][\A c \in Callers :
       call[c].at # "joined" /\ call'[c].at = "joined" => active'[call'[c].realm]]_vars
=============================================================================
