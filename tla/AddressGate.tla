---------------------------- MODULE AddressGate ----------------------------
(***************************************************************************)
(* When a node's addresses are ready to be published (fx.go,               *)
(* wireAddressDiscovery; internal/core/nat/service.go;                     *)
(* internal/core/reachability/coordinator.go; the AutoRelay callback of    *)
(* internal/core/relay/manager.go).                                        *)
(*                                                                         *)
(* Whoever changes the advertised addresses reads them again once it has   *)
(* let go of their lock, and starts a goroutine with what it read; that    *)
(* goroutine tests the NAT type's signal, the relay's, and the addresses   *)
(* it was given, and sets the signal that publication waits for.  Nothing  *)
(* tests again when a signal comes after the addresses.                    *)
(*                                                                         *)
(* AutoRelay reports in the same way: it makes or gives up a reservation,  *)
(* reads what it holds later and starts a goroutine with that.  A report   *)
(* and the callback it ends in are one task here.                          *)
(***************************************************************************)
CONSTANT Goroutines       \* bound: callbacks that run at once

VARIABLES
  natType,        \* s.natType; a public node and a full cone are "open"
  natTypeReady,   \* c.natTypeReady of the lifecycle coordinator
  configured,     \* Manager.HasConfiguredRelay
  relayConnected, \* c.relayConnected
  addressReady,   \* c.addressReady
  held,           \* AutoRelay has a reservation at a relay
  addrs,          \* the kinds of address that AdvertisedAddrs returns
  task            \* what each goroutine is at, and the addresses it has read

nat == <<natType, natTypeReady>>
relay == <<configured, relayConnected, held>>
gvars == <<nat, relay, addressReady, addrs, task>>

NATTypes == {"unknown", "open", "restricted", "symmetric"}
Kinds == {"direct", "relay"}

NoTask == [at |-> "idle", addrs |-> {}]

(* A task has changed AutoRelay's reservations ("held") and read them      *)
(* ("reserved"), has set the relay's signal ("connected"), changed the     *)
(* addresses ("stored"), read the direct ones ("read") and the relay's     *)
(* ("changed").                                                            *)
TaskStages == {"idle", "held", "reserved", "connected", "stored", "read", "changed"}

GateTypeOK ==
  /\ natType \in NATTypes
  /\ natTypeReady \in BOOLEAN /\ configured \in BOOLEAN
  /\ relayConnected \in BOOLEAN /\ addressReady \in BOOLEAN /\ held \in BOOLEAN
  /\ addrs \subseteq Kinds
  /\ task \in [Goroutines -> [at : TaskStages, addrs : SUBSET Kinds]]

(* LockReachabilityPublic settles the type before any detection. *)
InitGate ==
  /\ natType \in {"unknown", "open"} /\ natTypeReady = FALSE
  /\ configured = FALSE /\ relayConnected = FALSE /\ held = FALSE
  /\ addressReady = FALSE
  /\ addrs = {}
  /\ task = [g \in Goroutines |-> NoTask]

Run(g, at, as) == task' = [task EXCEPT ![g] = [at |-> at, addrs |-> as]]

-----------------------------------------------------------------------------
(* The NAT service *)

DetectNATType(t) ==
  /\ ~natTypeReady
  /\ natType' = t
  /\ UNCHANGED <<natTypeReady, relay, addressReady, addrs, task>>

(* After a detection, whatever came of it, or at once without one. *)
NotifyNATTypeReady ==
  /\ ~natTypeReady
  /\ natTypeReady' = TRUE
  /\ UNCHANGED <<natType, relay, addressReady, addrs, task>>

-----------------------------------------------------------------------------
(* The reachability coordinator and the relay manager *)

VerifyDirect(g) ==
  /\ task[g] = NoTask
  /\ addrs' = addrs \cup {"direct"}
  /\ Run(g, "stored", {})
  /\ UNCHANGED <<nat, relay, addressReady>>

ExpireDirect(g) ==
  /\ task[g] = NoTask /\ "direct" \in addrs
  /\ addrs' = addrs \ {"direct"}
  /\ Run(g, "stored", {})
  /\ UNCHANGED <<nat, relay, addressReady>>

(* The relay of the configuration, which the relay hook sets. *)
SetRelayAddr ==
  /\ ~configured
  /\ configured' = TRUE
  /\ UNCHANGED <<nat, relayConnected, held, addressReady, addrs, task>>

(* What AutoRelay's own goroutine, a closed connection or a failed refresh *)
(* does to its reservations.                                               *)
Reserve(g) ==
  /\ task[g] = NoTask /\ ~held
  /\ held' = TRUE
  /\ Run(g, "held", {})
  /\ UNCHANGED <<nat, configured, relayConnected, addressReady, addrs>>

RemoveRelay(g) ==
  /\ task[g] = NoTask /\ held
  /\ held' = FALSE
  /\ Run(g, "held", {})
  /\ UNCHANGED <<nat, configured, relayConnected, addressReady, addrs>>

(* The callback runs in a goroutine of its own. *)
NotifyAddrsChanged(g) ==
  /\ task[g].at = "held"
  /\ Run(g, "reserved", IF held THEN {"relay"} ELSE {})
  /\ UNCHANGED <<nat, relay, addressReady, addrs>>

SetRelayConnected(g) ==
  /\ task[g].at = "reserved"
  /\ relayConnected' = (relayConnected \/ task[g].addrs # {})
  /\ Run(g, "connected", task[g].addrs)
  /\ UNCHANGED <<nat, configured, held, addressReady, addrs>>

OnRelayReserved(g) ==
  /\ task[g].at = "connected"
  /\ addrs' = (addrs \ {"relay"}) \cup task[g].addrs
  /\ Run(g, "stored", {})
  /\ UNCHANGED <<nat, relay, addressReady>>

(* Mutant: the reachability coordinator is told first. *)
ReservedFirst(g) ==
  \/ /\ task[g].at = "reserved"
     /\ addrs' = (addrs \ {"relay"}) \cup task[g].addrs
     /\ \E h \in Goroutines \ {g} :
          /\ task[h] = NoTask
          /\ task' = [task EXCEPT ![g].at = "connected",
                                 ![h] = [at |-> "stored", addrs |-> {}]]
     /\ UNCHANGED <<nat, relay, addressReady>>
  \/ /\ task[g].at = "connected"
     /\ relayConnected' = (relayConnected \/ task[g].addrs # {})
     /\ task' = [task EXCEPT ![g] = NoTask]
     /\ UNCHANGED <<nat, configured, held, addressReady, addrs>>

(* bindAutoRelayCallback: the order of the two calls. *)
OnAddrsChanged(g) == SetRelayConnected(g) \/ OnRelayReserved(g)

-----------------------------------------------------------------------------
(* notifyAddressChanged of the reachability coordinator: AdvertisedAddrs   *)
(* copies the two kinds of address under a lock for each.                  *)

ReadDirect(g) ==
  /\ task[g].at = "stored"
  /\ Run(g, "read", addrs \ {"relay"})
  /\ UNCHANGED <<nat, relay, addressReady, addrs>>

ReadRelay(g) ==
  /\ task[g].at = "read"
  /\ Run(g, "changed", task[g].addrs \cup (addrs \ {"direct"}))
  /\ UNCHANGED <<nat, relay, addressReady, addrs>>

-----------------------------------------------------------------------------
(* The callback *)

Suffices(as) ==
  \/ natType = "open" /\ "direct" \in as
  \/ natType = "restricted" /\ as # {}
  \/ natType \in {"symmetric", "unknown"} /\ "relay" \in as

(* Mutant: the NAT type's signal is not tested. *)
PassesEarly(as) == (configured => relayConnected) /\ Suffices(as)

(* What is tested first no longer changes once it has let the callback     *)
(* pass, so the tests are one step.                                        *)
Passes(as) ==
  /\ natTypeReady
  /\ configured => relayConnected
  /\ Suffices(as)

OnAddressChanged(g) ==
  /\ task[g].at = "changed"
  /\ addressReady' = (addressReady \/ Passes(task[g].addrs))
  /\ task' = [task EXCEPT ![g] = NoTask]
  /\ UNCHANGED <<nat, relay, addrs>>

-----------------------------------------------------------------------------
TaskStep(g) ==
  \/ NotifyAddrsChanged(g) \/ OnAddrsChanged(g)
  \/ ReadDirect(g) \/ ReadRelay(g) \/ OnAddressChanged(g)

GateNext ==
  \/ \E t \in NATTypes : DetectNATType(t)
  \/ NotifyNATTypeReady
  \/ SetRelayAddr
  \/ \E g \in Goroutines :
       \/ VerifyDirect(g) \/ ExpireDirect(g)
       \/ Reserve(g) \/ RemoveRelay(g)
       \/ TaskStep(g)

GateSpec == InitGate /\ [][GateNext]_gvars

(* A goroutine that was started goes on. *)
GateFairness == \A g \in Goroutines : WF_gvars(TaskStep(g))

-----------------------------------------------------------------------------
(* A relay address is advertised, or on its way to a test, only when the   *)
(* relay's signal is set: the callback of AutoRelay sets it first          *)
(* (relay/manager.go, "must be called before OnRelayReserved").            *)
ConnectedBeforeAdvertised ==
  \A g \in Goroutines :
    ("relay" \in addrs \/ (task[g].at = "changed" /\ "relay" \in task[g].addrs))
      => relayConnected

(* The reservation is given up, or an older report of none can overtake    *)
(* the report of it: tasks may store in another order than they have read. *)
Withdrawn ==
  \/ ~held
  \/ \E g \in Goroutines : task[g].at \in {"reserved", "connected"} /\ task[g].addrs = {}

(* A reservation made while the NAT type is known opens the gate of a node *)
(* that is not open, and no other event is needed: its own callback finds  *)
(* every signal set and the relay's address still there, unless the        *)
(* reservation is withdrawn meanwhile.                                     *)
ReservationOpensGate ==
  \A g \in Goroutines :
    (natTypeReady /\ natType # "open" /\ task[g] = [at |-> "reserved", addrs |-> {"relay"}])
      ~> (addressReady \/ Withdrawn)

(* The gate gives the signals that the node, the DHT and the realms wait   *)
(* for, in their order and for good.                                       *)
Signals == INSTANCE GateSignals WITH natReady <- natTypeReady, addrReady <- addressReady

GateGivesSignals == Signals!SignalsSpec
=============================================================================
