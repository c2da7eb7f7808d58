---------------------------- MODULE MemberManager ----------------------------
(***************************************************************************)
(* The member list of one realm on one node (internal/realm/member/        *)
(* manager.go) and the goroutines of the realm that change it              *)
(* (internal/realm/realm.go):                                              *)
(*                                                                         *)
(*   - watchDisconnections and watchReconnections, each with its own       *)
(*     subscription, so that nothing orders the events of one against the  *)
(*     events of the other;                                                *)
(*   - handleConnectionEvents, one goroutine with two more subscriptions;  *)
(*   - the goroutine of an expired grace timer;                            *)
(*   - onPeerAuthenticated after an authentication, and the member lists   *)
(*     other nodes send, both of which call Add;                           *)
(*   - handleMemberLeave, heartbeats, and the cleanup of stale members.    *)
(*                                                                         *)
(* Add tests its three reasons to refuse before it takes the lock under    *)
(* which it inserts, so the test and the insertion are separate steps.     *)
(* The cache, the store and the address book follow the member list under  *)
(* the same lock and are not kept.                                         *)
(***************************************************************************)
EXTENDS GracePeriod

CONSTANTS
  Adders,     \* the callers of Add: onPeerAuthenticated, one at a time under
              \* authenticatingPeersMu, and the merging of member lists
  MaxEvents,  \* bound: pending events of one kind for one peer
  MaxDrift    \* bound: revivals of offline members, which onlineCount misses

ASSUME AddersType == Adders \subseteq {"auth", "sync"}
ASSUME MaxEventsType == MaxEvents \in Nat \ {0}
ASSUME MaxDriftType == MaxDrift \in Nat

VARIABLES
  member,      \* the entry of p: absent, or its Online flag
  onlineCount, \* Manager.onlineCount
  left,        \* gracefullyLeft
  up,          \* p is connected
  downEvts,    \* EvtPeerDisconnected pending in watchDisconnections
  upEvts,      \* EvtPeerConnected pending in watchReconnections
  downStatus,  \* EvtPeerDisconnected pending in handleConnectionEvents
  upStatus,    \* EvtPeerConnected pending in handleConnectionEvents
  recovering,  \* watchReconnections saw p in its grace period
  adding,      \* each caller of Add, per peer
  leaving,     \* handleMemberLeave
  stale        \* cleanupStaleMembers collected p

listVars == <<member, onlineCount>>
evtVars == <<up, downEvts, upEvts, downStatus, upStatus>>
taskVars == <<recovering, adding, leaving, stale>>
vars == <<graceVars, listVars, evtVars, taskVars, left>>

TypeOK ==
  /\ GraceTypeOK
  /\ member \in [Peers -> {"absent", "online", "offline"}]
  /\ onlineCount \in Int
  /\ left \in [Peers -> BOOLEAN]
  /\ up \in [Peers -> BOOLEAN]
  /\ \A q \in {downEvts, upEvts, downStatus, upStatus} : q \in [Peers -> 0..MaxEvents]
  /\ recovering \in [Peers -> BOOLEAN]
  /\ adding \in [Adders -> [Peers -> {"none", "check", "insert"}]]
  /\ leaving \in [Peers -> BOOLEAN]
  /\ stale \in [Peers -> BOOLEAN]

Init ==
  /\ GraceInit
  /\ member = [p \in Peers |-> "absent"]
  /\ onlineCount = 0
  /\ left = [p \in Peers |-> FALSE]
  /\ up = [p \in Peers |-> FALSE]
  /\ downEvts = [p \in Peers |-> 0]
  /\ upEvts = [p \in Peers |-> 0]
  /\ downStatus = [p \in Peers |-> 0]
  /\ upStatus = [p \in Peers |-> 0]
  /\ recovering = [p \in Peers |-> FALSE]
  /\ adding = [a \in Adders |-> [p \in Peers |-> "none"]]
  /\ leaving = [p \in Peers |-> FALSE]
  /\ stale = [p \in Peers |-> FALSE]

-----------------------------------------------------------------------------
(* The methods of Manager that change the member list.                     *)

IsMember(p) == member[p] # "absent"

Online == {p \in Peers : member[p] = "online"}

(* The bound: an offline member comes back online MaxDrift times in all.   *)
MayRevive(p) == member[p] = "offline" => Cardinality(Online) - onlineCount < MaxDrift

(* Mutant: a member that is present already is counted again.              *)
InsertRecounted(p) ==
  /\ MayRevive(p)
  /\ member' = [member EXCEPT ![p] = "online"]
  /\ onlineCount' = onlineCount + 1

(* The insertion at the end of Add, with Online = true as all its callers  *)
(* pass it.  A member already present is overwritten and not counted.      *)
Insert(p) ==
  /\ MayRevive(p)
  /\ member' = [member EXCEPT ![p] = "online"]
  /\ onlineCount' = IF IsMember(p) THEN onlineCount ELSE onlineCount + 1

(* Remove; ErrMemberNotFound changes nothing.                              *)
Remove(p) ==
  /\ member' = [member EXCEPT ![p] = "absent"]
  /\ onlineCount' = IF member[p] = "online" THEN onlineCount - 1 ELSE onlineCount

(* UpdateStatus(p, false).                                                 *)
SetOffline(p) ==
  /\ member' = IF IsMember(p) THEN [member EXCEPT ![p] = "offline"] ELSE member
  /\ onlineCount' = IF member[p] = "online" THEN onlineCount - 1 ELSE onlineCount

(* UpdateLastSeen: the member is online again, and the count stays.        *)
UpdateLastSeen(p) ==
  /\ MayRevive(p)
  /\ member' = IF IsMember(p) THEN [member EXCEPT ![p] = "online"] ELSE member
  /\ UNCHANGED onlineCount

-----------------------------------------------------------------------------
(* The connection to p, and the event bus: one event for each subscriber.  *)

Connect(p) ==
  /\ ~up[p] /\ upEvts[p] < MaxEvents /\ upStatus[p] < MaxEvents
  /\ up' = [up EXCEPT ![p] = TRUE]
  /\ upEvts' = [upEvts EXCEPT ![p] = @ + 1]
  /\ upStatus' = [upStatus EXCEPT ![p] = @ + 1]
  /\ UNCHANGED <<graceVars, listVars, taskVars, left, downEvts, downStatus>>

Disconnect(p) ==
  /\ up[p] /\ downEvts[p] < MaxEvents /\ downStatus[p] < MaxEvents
  /\ up' = [up EXCEPT ![p] = FALSE]
  /\ downEvts' = [downEvts EXCEPT ![p] = @ + 1]
  /\ downStatus' = [downStatus EXCEPT ![p] = @ + 1]
  /\ UNCHANGED <<graceVars, listVars, taskVars, left, upEvts, upStatus>>

-----------------------------------------------------------------------------
(* watchDisconnections: events of non-members are skipped.  The guard      *)
(* never asks for an immediate removal.                                    *)
WatchDisconnection(p) ==
  /\ downEvts[p] > 0
  /\ downEvts' = [downEvts EXCEPT ![p] = @ - 1]
  /\ IF IsMember(p) THEN OnPeerDisconnected(p) ELSE UNCHANGED graceVars
  /\ UNCHANGED <<listVars, taskVars, left, up, upEvts, downStatus, upStatus>>

(* watchReconnections looks at the grace period first ...                  *)
WatchReconnection(p) ==
  /\ upEvts[p] > 0 /\ ~recovering[p]
  /\ upEvts' = [upEvts EXCEPT ![p] = @ - 1]
  /\ recovering' = [recovering EXCEPT ![p] = IsInGracePeriod(p)]
  /\ UNCHANGED <<graceVars, listVars, left, up, downEvts, downStatus, upStatus,
                 adding, leaving, stale>>

(* ... and recovers the member afterwards.                                 *)
Recover(p) ==
  /\ recovering[p]
  /\ recovering' = [recovering EXCEPT ![p] = FALSE]
  /\ OnPeerReconnected(p)
  /\ UNCHANGED <<listVars, evtVars, left, adding, leaving, stale>>

(* handleConnectionEvents.  A connection of a peer that is not a member    *)
(* starts an authentication, which is Authenticate below.                  *)
HandleConnected(p) ==
  /\ upStatus[p] > 0
  /\ upStatus' = [upStatus EXCEPT ![p] = @ - 1]
  /\ UpdateLastSeen(p)
  /\ UNCHANGED <<graceVars, taskVars, left, up, downEvts, upEvts, downStatus>>

HandleDisconnected(p) ==
  /\ downStatus[p] > 0
  /\ downStatus' = [downStatus EXCEPT ![p] = @ - 1]
  /\ SetOffline(p)
  /\ UNCHANGED <<graceVars, taskVars, left, up, downEvts, upEvts, upStatus>>

-----------------------------------------------------------------------------
(* The goroutine of an expired grace timer: onGraceTimeout, and the        *)
(* callback Start installed.                                               *)
Fire(p) == FireTimer(p) /\ UNCHANGED <<listVars, evtVars, taskVars, left>>
Expire(p) == ExpireGrace(p) /\ UNCHANGED <<listVars, evtVars, taskVars, left>>
Ignore(p) == IgnoreExpiry(p) /\ UNCHANGED <<listVars, evtVars, taskVars, left>>
Forget(p) == ProtectAndForget(p) /\ UNCHANGED <<listVars, evtVars, taskVars, left>>

(* The callback: recentlyDisconnected, then Remove.                        *)
RemoveExpired(p) ==
  /\ Protect(p) /\ Remove(p)
  /\ UNCHANGED <<evtVars, taskVars, left>>

-----------------------------------------------------------------------------
(* Add, by its two callers.                                                *)
GoAdd(a, p, l) == adding' = [adding EXCEPT ![a][p] = l]

(* Mutant: the mark of a graceful leave is not looked at.                  *)
RefusedUnmarked(p) == ShouldRejectAdd(p)

(* The tests at the head of Add.                                           *)
Refused(p) == left[p] \/ ShouldRejectAdd(p)

(* An authentication over a live connection succeeded: onPeerAuthenticated *)
(* clears the mark of a graceful leave, and waits for the lock ...         *)
Authenticate(p) ==
  /\ "auth" \in Adders
  /\ up[p] /\ adding["auth"][p] = "none"
  /\ left' = [left EXCEPT ![p] = FALSE]
  /\ GoAdd("auth", p, "check")
  /\ UNCHANGED <<graceVars, listVars, evtVars, recovering, leaving, stale>>

Authenticating(p) ==
  /\ "auth" \in Adders
  /\ adding["auth"][p] = "check" /\ \A q \in Peers : adding["auth"][q] # "insert"

(* ... and refreshes a member, or calls Add, which refuses ...             *)
RefreshMember(p) ==
  /\ Authenticating(p) /\ IsMember(p)
  /\ UpdateLastSeen(p)
  /\ GoAdd("auth", p, "none")
  /\ UNCHANGED <<graceVars, evtVars, left, recovering, leaving, stale>>

RefuseAuthenticated(p) ==
  /\ Authenticating(p) /\ ~IsMember(p) /\ Refused(p)
  /\ GoAdd("auth", p, "none")
  /\ UNCHANGED <<graceVars, listVars, evtVars, left, recovering, leaving, stale>>

(* ... or does not.                                                        *)
AddAuthenticated(p) ==
  /\ Authenticating(p) /\ ~IsMember(p) /\ ~Refused(p)
  /\ AllowAdd(p)
  /\ GoAdd("auth", p, "insert")
  /\ UNCHANGED <<listVars, evtVars, left, recovering, leaving, stale>>

(* A member list from another node names p, which is no member here.       *)
AddListed(p) ==
  /\ "sync" \in Adders
  /\ adding["sync"][p] = "none" /\ ~IsMember(p) /\ ~Refused(p)
  /\ AllowAdd(p)
  /\ GoAdd("sync", p, "insert")
  /\ UNCHANGED <<listVars, evtVars, left, recovering, leaving, stale>>

InsertMember(a, p) ==
  /\ adding[a][p] = "insert"
  /\ Insert(p)
  /\ GoAdd(a, p, "none")
  /\ UNCHANGED <<graceVars, evtVars, left, recovering, leaving, stale>>

-----------------------------------------------------------------------------
(* handleMemberLeave of a member with reason GRACEFUL or KICKED: marks it, *)
(* then removes it.                                                        *)
MarkGracefullyLeft(p) ==
  /\ ~leaving[p] /\ IsMember(p)
  /\ leaving' = [leaving EXCEPT ![p] = TRUE]
  /\ left' = [left EXCEPT ![p] = TRUE]
  /\ UNCHANGED <<graceVars, listVars, evtVars, recovering, adding, stale>>

RemoveLeft(p) ==
  /\ leaving[p] /\ Remove(p)
  /\ leaving' = [leaving EXCEPT ![p] = FALSE]
  /\ UNCHANGED <<graceVars, evtVars, left, recovering, adding, stale>>

(* Any other reason, and a failed heartbeat: UpdateStatus(p, false).       *)
ReportOffline(p) ==
  /\ IsMember(p) /\ SetOffline(p)
  /\ UNCHANGED <<graceVars, evtVars, taskVars, left>>

(* HandleHeartbeatStream.                                                  *)
Heartbeat(p) ==
  /\ up[p] /\ IsMember(p) /\ UpdateLastSeen(p)
  /\ UNCHANGED <<graceVars, evtVars, taskVars, left>>

(* OnMemberCommunication.                                                  *)
Communicate(p) ==
  /\ OnCommunication(p)
  /\ UNCHANGED <<listVars, evtVars, taskVars, left>>

(* cleanupStaleMembers: collects members offline for too long, and removes *)
(* them later without looking again.                                       *)
CollectStale(p) ==
  /\ member[p] = "offline" /\ ~stale[p]
  /\ stale' = [stale EXCEPT ![p] = TRUE]
  /\ UNCHANGED <<graceVars, listVars, evtVars, left, recovering, adding, leaving>>

RemoveStale(p) ==
  /\ stale[p] /\ Remove(p)
  /\ stale' = [stale EXCEPT ![p] = FALSE]
  /\ UNCHANGED <<graceVars, evtVars, left, recovering, adding, leaving>>

TimePasses(p) ==
  /\ Clock(p)
  /\ UNCHANGED <<listVars, evtVars, taskVars, left>>

-----------------------------------------------------------------------------
Events(p) ==
  \/ Connect(p) \/ Disconnect(p)
  \/ WatchDisconnection(p) \/ WatchReconnection(p) \/ Recover(p)
  \/ HandleConnected(p) \/ HandleDisconnected(p)

Removal(p) == Fire(p) \/ Expire(p) \/ Ignore(p) \/ Forget(p) \/ RemoveExpired(p)

Adding(p) ==
  \/ Authenticate(p) \/ RefreshMember(p) \/ RefuseAuthenticated(p)
  \/ AddAuthenticated(p) \/ AddListed(p)
  \/ \E a \in Adders : InsertMember(a, p)

Upkeep(p) ==
  \/ MarkGracefullyLeft(p) \/ RemoveLeft(p)
  \/ ReportOffline(p) \/ Heartbeat(p) \/ Communicate(p)
  \/ CollectStale(p) \/ RemoveStale(p) \/ TimePasses(p)

Next == \E p \in Peers : Events(p) \/ Removal(p) \/ Adding(p) \/ Upkeep(p)

(* Timers fire and their goroutines run to their end.                      *)
Fairness == \A p \in Peers : WF_vars(Removal(p))

Spec == Init /\ [][Next]_vars
FairSpec == Spec /\ Fairness

-----------------------------------------------------------------------------
(* Properties.                                                             *)

(* onlineCount misses members that come back online, and may so fall below *)
(* zero, but it never exceeds the number of members that are online: no    *)
(* interleaving of Add, Remove, UpdateStatus and UpdateLastSeen counts a   *)
(* member twice or forgets to take one out.                                *)
NeverOvercounts == onlineCount <= Cardinality(Online)

(* No grace period is forgotten: one that runs has a timer or a goroutine  *)
(* that will end it, and an expired one, on which further disconnections   *)
(* are ignored, has the goroutine that deletes the entry.  Stopping and    *)
(* restarting timers in OnDisconnect, OnReconnect and OnCommunication      *)
(* races with their firing.  And communication prolongs it MaxExtensions   *)
(* times at most.                                                          *)
GraceCovered ==
  \A p \in Peers :
    /\ conn[p] = "disconnecting" => timer[p] \/ removal[p] \in {"fired", "expired"}
    /\ conn[p] = "disconnected" => removal[p] = "expired"
    /\ conn[p] = "disconnecting" => ext[p] <= MaxExtensions

(* A member that left gracefully and is gone stays out, whatever the       *)
(* member lists of others say, until it authenticates again, provided no   *)
(* Add has passed its tests already.                                       *)
Inserting(p) == \E a \in Adders : adding[a][p] = "insert"
StaysOut(p) == left[p] /\ ~IsMember(p) /\ ~Inserting(p)
LeftStaysOut ==
  [][\A p \in Peers : StaysOut(p) => StaysOut(p)' \/ (~left[p])']_vars

(* A grace period ends: the peer reconnects, or the member is removed.     *)
GraceEnds ==
  \A p \in Peers :
    conn[p] = "disconnecting" ~> (conn[p] = "connected" \/ ~IsMember(p))
=============================================================================
