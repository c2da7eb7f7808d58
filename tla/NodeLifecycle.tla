--------------------------- MODULE NodeLifecycle ---------------------------
(***************************************************************************)
(* A node from Start to Close (node_lifecycle.go, node.go, realm.go): the  *)
(* operations that hold Node.mu, the hooks of the Fx application that      *)
(* they start and stop, the phases of the lifecycle coordinator, the       *)
(* goroutines that publish the node's records in the DHT, and the callers  *)
(* of WaitReady.                                                           *)
(*                                                                         *)
(* Start holds the lock to its end, through every wait for a signal; a     *)
(* user's Leave on the realm itself does not take it.  The realm manager   *)
(* is the part of RealmManager that one realm needs.                       *)
(***************************************************************************)
EXTENDS GateSignals, Integers

CONSTANTS
  Waiters,      \* callers of WaitReady
  Wanted,       \* the level they wait for
  MaxStarts,    \* bound: calls of Start
  GateTimesOut  \* whether a wait for a signal may reach its time limit

ASSUME NodeAssumption ==
  MaxStarts \in Nat /\ GateTimesOut \in BOOLEAN /\ Wanted \in 1 .. 4

VARIABLES
  holder,       \* what the operation that holds n.mu is at
  started, closed,
  level,        \* n.readyLevel
  joined,       \* n.currentRealm is set
  starts,       \* calls of Start so far
  phase,        \* the coordinator's phase
  cancelled,    \* its context is cancelled
  running,      \* hooks whose component runs
  counted,      \* how many the Fx application counts as started
  spent,        \* hooks whose component has been stopped for good
  hook,         \* the hook whose OnStop runs, or NoHook
  cut,          \* a start or stop of the application ran out of time
  registered, current, active,   \* the realm, as RealmManager has them
  publisher,    \* scheduleDHTBootstrap of each call of Start
  published,    \* the peer record is in the DHT
  joining,      \* joinV2 of the realm
  provided,     \* the realm's records are in the DHT
  waiter,       \* the callers of WaitReady
  helper,       \* the goroutine of each that waits for its context
  done          \* callers whose context is done

node == <<holder, started, closed, joined, starts>>
app == <<phase, cancelled, running, counted, spent, hook, cut>>
realm == <<registered, current, active>>
records == <<publisher, published, joining, provided>>
waits == <<waiter, helper, done>>
vars == <<signals, node, level, app, realm, records, waits>>

(* The hooks that matter, in the order they start. *)
Hooks == 1 .. 5
Lifecycle == 1
NAT == 2
Relay == 3
DHT == 4
Realms == 5
NoHook == 0

(* Phases of the coordinator: B1 to B3 are signals only. *)
A1 == 1
A2 == 2
A4 == 4
A6 == 6
C == 10
D1 == 11
D2 == 12
D4 == 14

(* Ready levels. *)
Network == 1
Discovered == 2
Reachable == 3
RealmReady == 4

Starting == {"init", "rollback", "listen", "ready", "undo", "nat", "gate"}
Stopping == {"rollback", "undo", "stop", "shutdown"}

NodeTypeOK ==
  /\ holder \in {"free", "leave"} \cup Starting \cup Stopping
  /\ started \in BOOLEAN /\ closed \in BOOLEAN /\ joined \in BOOLEAN
  /\ level \in 0 .. RealmReady /\ starts \in 0 .. MaxStarts
  /\ phase \in 0 .. D4 /\ cancelled \in BOOLEAN
  /\ running \subseteq Hooks /\ counted \in 0 .. 5
  /\ spent \subseteq {NAT, Relay, Realms}
  /\ hook \in Hooks \cup {NoHook} /\ cut \in BOOLEAN
  /\ registered \in BOOLEAN /\ current \in BOOLEAN /\ active \in BOOLEAN
  /\ publisher \in [1 .. MaxStarts -> {"none", "bootstrap", "gate", "publish", "done"}]
  /\ joining \in {"none", "gate", "publish", "done"}
  /\ published \in BOOLEAN /\ provided \in BOOLEAN
  /\ waiter \in [Waiters -> {"idle", "parked", "woken", "reached", "cancelled"}]
  /\ helper \in [Waiters -> {"none", "waiting", "done"}]
  /\ done \subseteq Waiters

Init ==
  /\ SignalsInit
  /\ holder = "free" /\ starts = 0
  /\ started = FALSE /\ closed = FALSE /\ joined = FALSE
  /\ level = 0
  /\ phase = 0 /\ cancelled = FALSE
  /\ running = {} /\ counted = 0 /\ spent = {}
  /\ hook = NoHook /\ cut = FALSE
  /\ registered = FALSE /\ current = FALSE /\ active = FALSE
  /\ publisher = [s \in 1 .. MaxStarts |-> "none"] /\ published = FALSE
  /\ joining = "none" /\ provided = FALSE
  /\ waiter = [w \in Waiters |-> "idle"]
  /\ helper = [w \in Waiters |-> "none"]
  /\ done = {}

-----------------------------------------------------------------------------
(* The lifecycle coordinator and the ready level *)

(* AdvanceTo, whose error the node ignores. *)
AdvanceTo(p) == phase' = IF p > phase THEN p ELSE phase

(* WaitNATTypeReady, WaitAddressReady: what lets a caller go on that goes  *)
(* on after an error as well.                                              *)
LetsThrough(signal) == signal \/ cancelled \/ GateTimesOut

Woken(w) == IF w = "parked" THEN "woken" ELSE w

Broadcast == waiter' = [w \in Waiters |-> Woken(waiter[w])]

(* Mutant: the level is raised without a broadcast. *)
RaiseQuietly(l) ==
  /\ level' = IF l > level THEN l ELSE level
  /\ UNCHANGED waits

(* setReadyLevel *)
RaiseLevel(l) ==
  /\ IF l > level THEN level' = l /\ Broadcast ELSE UNCHANGED <<level, waiter>>
  /\ UNCHANGED <<helper, done>>

-----------------------------------------------------------------------------
(* The Fx application *)

CannotGoBack == phase > A1
IsSpent(h) == h \in spent
Runs(h) == h \in running

(* A component that has been closed does not start again, one that still   *)
(* runs does not either, and the coordinator does not go back to A1.       *)
Refuses(h) ==
  CASE h = Lifecycle -> CannotGoBack
    [] h = Relay -> IsSpent(h)
    [] h = DHT -> Runs(h)
    [] OTHER -> IsSpent(h) \/ Runs(h)

(* One OnStart hook.  Fx does not begin to start while it stops; each      *)
(* start of the DHT starts a bootstrap.                                    *)
OnStart(h) ==
  /\ holder = "init" /\ h = counted + 1 /\ h \in Hooks /\ ~Refuses(h)
  /\ hook = NoHook
  /\ running' = running \cup {h}
  /\ IF h = Lifecycle THEN AdvanceTo(A1) ELSE UNCHANGED phase
  /\ publisher' = IF h = DHT THEN [publisher EXCEPT ![starts] = "bootstrap"] ELSE publisher
  /\ UNCHANGED <<signals, started, closed, joined, starts, level, cancelled,
                 spent, hook, realm, published, joining, provided, waits>>

StartHook(h) ==
  /\ OnStart(h)
  /\ counted' = h
  /\ UNCHANGED <<holder, cut>>

(* The time limit ends within the hook: Start returns and the hook goes on *)
(* by itself.  Nothing but another Start sees when it is over, and Fx      *)
(* refuses one before; no OnStop hook is run.                              *)
CutStart(h) ==
  /\ OnStart(h)
  /\ counted' = 0 /\ cut' = TRUE
  /\ holder' = "free"

(* A hook's error, or the time limit between two hooks: what was started   *)
(* is stopped again, with what is left of the time (CutStop).              *)
StartFails ==
  /\ holder = "init" /\ counted + 1 \in Hooks
  /\ holder' = "rollback"
  /\ UNCHANGED <<signals, started, closed, joined, starts, level, app, realm,
                 records, waits>>

(* The OnStop hooks run one after the other, the last started first.       *)
BeginHook ==
  /\ holder \in Stopping /\ counted > 0 /\ hook = NoHook
  /\ hook' = counted
  /\ UNCHANGED <<signals, node, level, phase, cancelled, running, counted,
                 spent, cut, realm, records, waits>>

(* The hook has returned; the realm manager's has closed its realms.       *)
HookReturns ==
  /\ hook' = NoHook
  /\ running' = running \ {hook}
  /\ spent' = spent \cup ({hook} \cap {NAT, Relay, Realms})
  /\ cancelled' = (cancelled \/ hook = Lifecycle)
  /\ IF hook = Realms
       THEN registered' = FALSE /\ current' = FALSE /\ active' = FALSE
       ELSE UNCHANGED realm
  /\ UNCHANGED <<signals, node, level, phase, cut, records, waits>>

EndHook ==
  /\ holder \in Stopping /\ hook # NoHook /\ counted = hook
  /\ HookReturns
  /\ counted' = counted - 1

(* The end of a hook that was running when its stop ran out of time. *)
EndLateHook ==
  /\ hook # NoHook /\ counted = 0
  /\ HookReturns
  /\ UNCHANGED counted

(* The context of the stop ends first, between two hooks or within one     *)
(* that goes on by itself: the other hooks are not run, and the            *)
(* application counts as stopped.                                          *)
CutStop ==
  /\ holder \in Stopping /\ counted > 0
  /\ counted' = 0 /\ cut' = TRUE
  /\ UNCHANGED <<signals, node, level, phase, cancelled, running, spent, hook,
                 realm, records, waits>>

-----------------------------------------------------------------------------
(* Node.Start *)

To(h) == holder' = h /\ UNCHANGED <<started, closed, joined, starts>>

Start ==
  /\ holder = "free" /\ ~closed /\ ~started /\ starts < MaxStarts
  /\ holder' = "init" /\ starts' = starts + 1
  /\ counted' = 0
  /\ UNCHANGED <<signals, started, closed, joined, level, phase, cancelled,
                 running, spent, hook, cut, realm, records, waits>>

Initialized ==
  /\ holder = "init" /\ counted = 5
  /\ To("listen")
  /\ UNCHANGED <<signals, level, app, realm, records, waits>>

Listen ==
  /\ holder = "listen"
  /\ To("ready")
  /\ AdvanceTo(A2)
  /\ RaiseLevel(Network)
  /\ UNCHANGED <<signals, cancelled, running, counted, spent, hook, cut, realm, records>>

Ready ==
  /\ holder = "ready"
  /\ To("nat")
  /\ UNCHANGED <<signals, level, app, realm, records, waits>>

(* Listen or waitForReady fails. *)
StartUndone ==
  /\ holder \in {"listen", "ready"}
  /\ To("undo")
  /\ UNCHANGED <<signals, level, app, realm, records, waits>>

(* Phases A3 and A4; the node is started from here on. *)
PassNAT ==
  /\ holder = "nat" /\ LetsThrough(natReady)
  /\ holder' = "gate" /\ started' = TRUE
  /\ AdvanceTo(A4)
  /\ RaiseLevel(Discovered)
  /\ UNCHANGED <<signals, closed, joined, starts, cancelled, running, counted,
                 spent, hook, cut, realm, records>>

(* Phases A5 and A6. *)
PassGate ==
  /\ holder = "gate" /\ LetsThrough(addrReady)
  /\ To("free")
  /\ AdvanceTo(A6)
  /\ RaiseLevel(Reachable)
  /\ UNCHANGED <<signals, cancelled, running, counted, spent, hook, cut, realm, records>>

-----------------------------------------------------------------------------
(* Node.Stop and Node.Close *)

Stop ==
  /\ holder = "free" /\ ~closed /\ started
  /\ To("stop")
  /\ UNCHANGED <<signals, level, app, realm, records, waits>>

(* The end of app.Stop, cut or not, for a failed Start, Stop and Close. *)
Stopped ==
  /\ holder \in Stopping /\ counted = 0
  /\ holder' = "free" /\ started' = FALSE
  /\ closed' = (holder = "shutdown")
  /\ UNCHANGED <<signals, joined, starts, level, app, realm, records, waits>>

(* Manager.started, which the stop of the manager clears first. *)
ManagerStarted == Realms \in running /\ hook # Realms

(* Manager.Leave, which a manager that is being stopped refuses. *)
CanLeave == ManagerStarted /\ current

(* Mutant: Close forgets the realm without leaving it. *)
CloseForgets ==
  /\ holder = "free" /\ ~closed
  /\ holder' = "leave" /\ joined' = FALSE
  /\ AdvanceTo(D1)
  /\ UNCHANGED <<signals, started, closed, starts, level, cancelled, running,
                 counted, spent, hook, cut, realm, records, waits>>

(* Close up to D1. *)
Close ==
  /\ holder = "free" /\ ~closed
  /\ holder' = "leave" /\ joined' = FALSE
  /\ AdvanceTo(D1)
  /\ IF joined /\ CanLeave
       THEN current' = FALSE /\ active' = FALSE
       ELSE UNCHANGED <<current, active>>
  /\ UNCHANGED <<signals, started, closed, starts, level, cancelled, running,
                 counted, spent, hook, cut, registered, records, waits>>

(* Mutant: the application is not stopped. *)
DrainOnly ==
  /\ holder = "leave"
  /\ holder' = "free" /\ started' = FALSE /\ closed' = TRUE
  /\ AdvanceTo(D4)
  /\ UNCHANGED <<signals, joined, starts, level, cancelled, running, counted,
                 spent, hook, cut, realm, records, waits>>

(* D2 to D4.  UnpublishPeerRecord is not called: the node's discovery is   *)
(* the discovery coordinator, which is no pkgif.DHT.                       *)
Drain ==
  /\ holder = "leave"
  /\ AdvanceTo(D4)
  /\ holder' = IF started THEN "shutdown" ELSE "free"
  /\ closed' = ~started
  /\ UNCHANGED <<signals, started, joined, starts, level, cancelled, running,
                 counted, spent, hook, cut, realm, records, waits>>

-----------------------------------------------------------------------------
(* The realm *)

(* JoinRealm, under the lock: a realm that is registered is not started    *)
(* again.                                                                  *)
Join ==
  /\ started /\ ~joined
  /\ ManagerStarted
  /\ joined' = TRUE
  /\ registered' = TRUE /\ current' = TRUE
  /\ IF registered
       THEN UNCHANGED <<active, joining>>
       ELSE active' = TRUE /\ joining' = "gate"
  /\ AdvanceTo(C)
  /\ RaiseLevel(RealmReady)
  /\ UNCHANGED <<signals, holder, started, closed, starts, cancelled, running,
                 counted, spent, hook, cut, publisher, published, provided>>

(* Mutant: n.mu is not taken. *)
JoinUnlocked == Join

JoinRealm == holder = "free" /\ Join

(* Mutant: after an error of Leave the node forgets the realm. *)
LeaveAnyway ==
  /\ holder = "free" /\ joined
  /\ joined' = FALSE /\ current' = FALSE /\ active' = FALSE
  /\ UNCHANGED <<signals, holder, started, closed, starts, level, app,
                 registered, records, waits>>

(* Node.LeaveRealm; after an error of Leave the node stays joined. *)
LeaveRealm ==
  /\ holder = "free" /\ joined /\ CanLeave
  /\ joined' = FALSE /\ current' = FALSE /\ active' = FALSE
  /\ UNCHANGED <<signals, holder, started, closed, starts, level, app,
                 registered, records, waits>>

(* Realm.Leave and Realm.Close of the user's handle, without n.mu. *)
RealmLeave ==
  /\ registered /\ CanLeave
  /\ current' = FALSE /\ active' = FALSE
  /\ UNCHANGED <<signals, node, level, app, registered, records, waits>>

-----------------------------------------------------------------------------
(* The records in the DHT *)

Publisher(s, from, to) ==
  /\ publisher[s] = from
  /\ publisher' = [publisher EXCEPT ![s] = to]
  /\ UNCHANGED <<signals, node, level, app, realm, joining, provided, waits>>

(* The bootstrap, after which the record is scheduled unless it failed. *)
Bootstrap(s) ==
  /\ \E to \in {"gate", "done"} : Publisher(s, "bootstrap", to)
  /\ UNCHANGED published

PublisherPasses(s) ==
  /\ LetsThrough(addrReady)
  /\ Publisher(s, "gate", "publish")
  /\ UNCHANGED published

(* PublishLocalPeerRecordWithVerification may find nothing to publish. *)
Publish(s) ==
  /\ Publisher(s, "publish", "done")
  /\ published' \in {published, published \/ (DHT \in running)}

(* A tick of republishLoop, which takes a record that was never published  *)
(* for one that is due.                                                    *)
Republish ==
  /\ DHT \in running
  /\ published' = TRUE
  /\ UNCHANGED <<signals, node, level, app, realm, publisher, joining,
                 provided, waits>>

(* joinV2 goes on after the signal, its time limit, and the realm's end.   *)
JoinPasses ==
  /\ joining = "gate" /\ (LetsThrough(addrReady) \/ ~active)
  /\ joining' = "publish"
  /\ UNCHANGED <<signals, node, level, app, realm, publisher, published,
                 provided, waits>>

JoinPublishes ==
  /\ joining = "publish"
  /\ joining' = "done"
  /\ provided' \in {FALSE, (DHT \in running)}
  /\ UNCHANGED <<signals, node, level, app, realm, publisher, published, waits>>

-----------------------------------------------------------------------------
(* Node.WaitReady *)

Settle(w, to) == waiter' = [waiter EXCEPT ![w] = to]

(* The call: a caller that has to wait starts its helper. *)
WaitReady(w) ==
  /\ waiter[w] = "idle" /\ holder = "free"
  /\ IF level >= Wanted
       THEN Settle(w, "reached") /\ UNCHANGED helper
       ELSE /\ Settle(w, IF w \in done THEN "cancelled" ELSE "parked")
            /\ helper' = [helper EXCEPT ![w] = "waiting"]
  /\ UNCHANGED <<signals, node, level, app, realm, records, done>>

ContextDone(w) ==
  /\ w \notin done
  /\ done' = done \cup {w}
  /\ UNCHANGED <<signals, node, level, app, realm, records, waiter, helper>>

(* Mutant: the helper wakes nobody. *)
HelperEnds(w) ==
  /\ helper[w] = "waiting" /\ w \in done /\ holder = "free"
  /\ helper' = [helper EXCEPT ![w] = "done"]
  /\ UNCHANGED <<signals, node, level, app, realm, records, waiter, done>>

Helper(w) ==
  /\ helper[w] = "waiting" /\ w \in done /\ holder = "free"
  /\ helper' = [helper EXCEPT ![w] = "done"]
  /\ Broadcast
  /\ UNCHANGED <<signals, node, level, app, realm, records, done>>

(* Back from readyLevelCond.Wait, with n.mu: the context is tested first.  *)
Wake(w) ==
  /\ waiter[w] = "woken" /\ holder = "free"
  /\ Settle(w, CASE w \in done -> "cancelled"
                 [] w \notin done /\ level >= Wanted -> "reached"
                 [] OTHER -> "parked")
  /\ UNCHANGED <<signals, node, level, app, realm, records, helper, done>>

-----------------------------------------------------------------------------
Signal == SignalsNext /\ UNCHANGED <<node, level, app, realm, records, waits>>

(* The steps of an operation that holds n.mu. *)
Operation ==
  \/ \E h \in Hooks : StartHook(h) \/ CutStart(h)
  \/ StartFails \/ Initialized \/ Listen \/ Ready \/ StartUndone
  \/ PassNAT \/ PassGate
  \/ BeginHook \/ EndHook \/ CutStop \/ Stopped \/ Drain

Next ==
  \/ Signal
  \/ Operation
  \/ Start \/ Stop \/ Close \/ EndLateHook
  \/ JoinRealm \/ LeaveRealm \/ RealmLeave
  \/ \E s \in 1 .. MaxStarts : Bootstrap(s) \/ PublisherPasses(s) \/ Publish(s)
  \/ Republish \/ JoinPasses \/ JoinPublishes
  \/ \E w \in Waiters : WaitReady(w) \/ ContextDone(w) \/ Helper(w) \/ Wake(w)

Spec == Init /\ [][Next]_vars

(* Operations go on; sync.Mutex starves nobody who waits for it. *)
FairSpec ==
  /\ Spec
  /\ WF_vars(Operation)
  /\ \A w \in Waiters : SF_vars(Helper(w)) /\ SF_vars(Wake(w))

-----------------------------------------------------------------------------
(* A node joins a realm, and a realm starts and publishes its records,     *)
(* only when phase A6 has been reached before: node_lifecycle.go sets      *)
(* started before it waits for the addresses, and it is n.mu that keeps a  *)
(* JoinRealm from going in between.                                        *)
JoinedAfterReady ==
  [][joined' \/ active' \/ joining' # "none" \/ provided' => phase >= A6]_vars

(* From the draining of connections on no realm is active, whatever failed *)
(* before Close and whoever left the realm (node_lifecycle.go, D1 and D2), *)
(* but one that the hook of an earlier stop, which ran out of time, is     *)
(* still closing: the manager then refuses the Leave of Close.             *)
LeftBeforeDrain == phase >= D2 => ~active \/ (cut /\ hook = Realms)

(* After Close no component runs, when no stop ran out of time, however    *)
(* starts and stops failed before (node_lifecycle.go, D4).                 *)
CloseReleases == closed /\ ~cut => running = {}

(* A caller that waits in WaitReady has not missed what it waits for, and  *)
(* whoever will tell it about its context has not finished: no level is    *)
(* reached and no context ends between its test and its wait, whatever     *)
(* else raises levels, wakes callers or holds n.mu (node_lifecycle.go,     *)
(* WaitReady and setReadyLevel).                                           *)
NoLostWakeUp ==
  \A w \in Waiters :
    waiter[w] = "parked" => level < Wanted /\ helper[w] = "waiting"

(* A user who leaves the realm on the realm itself leaves the node with a  *)
(* current realm that it has left: from then on it can neither leave that  *)
(* realm nor join another, stopped and started again or not, and only      *)
(* Close ends this (realm.go, Leave; node.go, JoinRealm and LeaveRealm).   *)
StrandedUntilClose ==
  [][joined /\ ~current => (joined' /\ ~current' /\ ~active') \/ Close]_vars

(* A caller of WaitReady returns once its context is done or its level is  *)
(* reached (node_lifecycle.go, WaitReady).                                 *)
WaitersReturn ==
  \A w \in Waiters :
    (waiter[w] \in {"parked", "woken"} /\ (w \in done \/ level >= Wanted))
      ~> waiter[w] \in {"reached", "cancelled"}

-----------------------------------------------------------------------------
(* What comments promise *)

(* node_lifecycle.go: Start and Stop may be called several times.  Here:   *)
(* no component of a node that has been up refuses to start.               *)
Restartable ==
  holder = "init" /\ ~cut /\ phase >= A6 /\ counted + 1 \in Hooks => ~Refuses(counted + 1)

(* coordinator.go: the DHT publication comes after the addresses are       *)
(* ready.                                                                  *)
PublishedAfterGate == published => addrReady
=============================================================================
