# Verification of go-dep2p

TLA+ models of the parts of go-dep2p whose correctness depends on the order in
which several goroutines, events and timers act, with TLC configurations that
check them on small instances and TLAPS proofs of the properties that matter
most. Paths below are relative to the repository root.

## 1. The system

A node is built by `fx.go` from layers that talk through interfaces
(`pkg/interfaces`) and an in-process event bus.

| Component | State it keeps | Operations | Hard because |
|---|---|---|---|
| node and lifecycle (`node*.go`, `internal/core/lifecycle`) | node state, ready level, startup phase and its waiters | Start, Stop, Close, JoinRealm, AdvanceTo, WaitFor, SetAddressReady | phases completed by different goroutines, gates with timeouts, restarts |
| event bus (`internal/core/eventbus`) | per type: subscribers, emitter count, last event | Subscribe, Emit, Close | delivery never blocks and drops; nodes vanish with their last user |
| resource manager (`internal/core/resourcemgr`) | counters per scope, reference counts | OpenConnection, SetPeer, Done; streams, spans | test of a limit and addition are not atomic; several scopes per operation |
| upgrader, security, muxers, transports | one goroutine per connection | Upgrade, Close | failure between any two stages |
| swarm, host, connection manager | connections per peer, dial state, tags | dial, accept, close, trim | simultaneous dials, trimming of connections in use |
| relay, NAT, reachability, recovery, net monitor | reservations, candidate addresses, recovery state | reserve, connect, promote, recover | timeouts, retries, network changes |
| discovery (DHT, rendezvous, bootstrap, mDNS, DNS, coordinator) | routing table, records, registrations | publish, renew, unpublish, lookup, register | publication racing shutdown, gates with timeouts, TTLs |
| realm manager (`internal/realm`) | flags, the realms by name, the current one | Start, Join, Leave, Stop, Close | calls test flags before the lock; starting and stopping a realm takes time in which the rest of it runs |
| realm authentication, protocols | authenticating peers | authenticate, exchange member lists | inbound and outbound authentication of one peer together |
| realm members (`internal/realm/member`, `stability`) | member list, online count, grace periods, marks | Add, Remove, UpdateStatus, UpdateLastSeen, the event loops | five event loops, timers, tests made before the lock |
| realm witness (`internal/realm/witness`) | reports, voting sessions | report, confirm, finalise | quorums from unordered messages |
| realm routing, gateway | routes, relay sessions | find route, relay | - |
| publish/subscribe, delivery | mesh, queues, pending acknowledgements | publish, acknowledge, retry | retries and duplicates |
| messaging, streams, liveness | one stream per exchange | send, request, ping | timeouts |
| peerstore, storage, identity, metrics, configuration | books, keys, counters | get, put | - |

How the modelled parts interact: the connection layer calls the upgrader, which
charges every connection to the resource manager before and after the handshake.
Its `EvtPeerConnected` and `EvtPeerDisconnected` reach the realm through the event
bus, once for each of four subscriptions held by three goroutines. The realm
authenticates a connected peer and adds it to the member list. A disconnected
member is given a grace period, after which a timer's goroutine removes it; a
peer that disconnects and reconnects too often is *flapping*, and its events are
suppressed. Other nodes send their member lists and announce who left. The
swarm adds each upgraded connection to its pool and tells the host, whose count
of a peer's connections turns into the two events above. The gossip of a topic
keeps a mesh of connected members and drops one when the bus reports its
disconnection; the reliable publisher queues what the gossip could not send and
waits for acknowledgements that come back as gossip too. Above all of them stands
the node, whose Start runs the components' hooks and then waits for two signals
of the lifecycle coordinator: the NAT type is known, the addresses are ready. The
second is set by a callback of the reachability coordinator, which AutoRelay and
the verification of addresses drive; the goroutines that publish the node's
records in the DHT wait for it too.

What makes each component correct, whether modelled yet or not:

- *Resource manager*: charges and releases balance on every path, counters never
  go below zero, limits hold up to the races the code allows.
- *Member manager*: a member that stays disconnected is removed; one that
  reconnects in time is not; one that left stays out until it authenticates; the
  online count matches the list.
- *Realm manager*: a node is in one realm at a time; what belongs to a realm runs
  and stops with it, as its member manager does and its pubsub service does not
  (section 4); nothing stays active after Close; every call returns.
- *Lifecycle*: no waiter is released before its phase is complete, every waiter
  is released in the end, a stopped node can start again.
- *Event bus*: an event reaches every open subscription that has room, once and
  in order, the last event of a stateful type included; nothing is sent on a
  closed channel; a type's node goes with its last user and not before.
- *Witness*: one verdict for each report, based on a majority of those asked.
- *Reachability*: the address signal comes after the NAT type and the relay are
  known, and it comes once there are addresses that suffice; the addresses
  advertised are those the node has.
- *DHT records*: a record that was unpublished is not found afterwards; a
  published one is renewed before it expires.
- *Swarm and host*: a connection leaves the pool once it ends, and does not come
  back; nothing stays open after Close; a peer is not reported gone while a
  connection to it is left.
- *Connection manager*: protected connections survive trimming; trimming ends at
  the low watermark.
- *Gossip*: the mesh stays within its bounds, recovers its degree, and loses
  peers that are gone even when the bus drops the event; Stop returns.
- *Relay*: reservations and circuits stay within their limits and expire.
- *Delivery*: what becomes of a message is final: sent once, given up, or lost
  for a reason; success is reported when the required peers have the message;
  every call returns.

## 2. Modules

| Module | Models | Uses |
|---|---|---|
| `ResourceScopes` | the counters of a scope, the test of a limit, addition and release (`scope.go`, `limit.go`) | |
| `ResourceConns` | `OpenConnection`, `SetPeer`, `Done`, one goroutine per connection as `Upgrader.Upgrade` runs it | `ResourceScopes` |
| `ResourceConnsProofs` | its theorems | `ResourceConns` |
| `GracePeriod` | the false-disconnection guard: connection state machine, grace timer, flapping, protection (`antifalse.go`, `state.go`, `protection.go`, `tracker.go`) | |
| `MemberManager` | the member list and every goroutine that changes it (`manager.go`, `heartbeat.go`, `realm.go`) | `GracePeriod` |
| `MemberManagerProofs` | its theorems | `MemberManager` |
| `RealmMembership` | what a node promises: one realm at a time (`node.go`) | |
| `RealmManager` | Start, Join, Leave, Stop and Close of the realm manager by concurrent callers, with the start, stop and close of a realm (`manager.go`, `realm.go`) | `RealmMembership`, which it implements |
| `RealmManagerProofs` | its theorems | `RealmManager` |
| `GossipMesh` | the mesh of a topic: heartbeat, Join, the watcher of disconnections, Stop (`pubsub/gossipsub.go`, `mesh.go`, `heartbeat.go`, `topic.go`) | |
| `GossipMeshProofs` | its theorems | `GossipMesh` |
| `MessageFate` | what the reliable publisher promises for a message | |
| `DeliveryQueue` | its queue: Publish, the flush of the loop and of the application, overflow, expiry, closing (`delivery/publisher.go`, `queue.go`, `reliable.go`) | `MessageFate`, which it implements |
| `AckPromise` | what `PublishWithAck` promises | |
| `AckedPublish` | `PublishWithAck`, the peers and an unreliable network (`delivery/publisher.go`, `ack.go`) | `AckPromise`, which it implements |
| `DeliveryProofs` | the theorems about both | `DeliveryQueue`, `AckedPublish` |
| `SwarmHost` | the connections to one peer, from dialling to the events the host publishes (`core/swarm`, `core/host`) | |
| `EventBus` | subscriptions, emitters and the node of one event type (`core/eventbus`) | |
| `EventBusProofs` | its theorems | `EventBus` |
| `GateSignals` | the two signals the start of a node waits for, in their order and for good (`core/lifecycle/coordinator.go`) | |
| `AddressGate` | who sets them: NAT detection, verified addresses, reservations at a relay, the callback on every change (`fx.go`, `core/nat`, `core/reachability`, `core/relay`) | `GateSignals`, which it implements |
| `ConnectivityProofs` | the theorems about connections and the gate | `SwarmHost`, `AddressGate` |
| `NodeLifecycle` | a node from Start to Close, with its hooks, phases, records and the callers of WaitReady (`node_lifecycle.go`, `node.go`, `realm.go`, `core/lifecycle`) | `GateSignals` |
| `NodeLifecycleProofs` | its theorems | `NodeLifecycle` |
| `MCServices` (resource manager and event bus), `MCMemberManager`, `MCRealmManager`, `MCGossipMesh`, `MCDelivery` (both halves of the publisher), `MCHostAndRealms` (realm manager, swarm and gate), `MCNodeLifecycle` | the instances TLC checks | |

### ResourceScopes, ResourceConns

`stage[c]` is where the goroutine upgrading connection `c` stands. Each access to
the counters of a scope is a step: `CheckSystem` (the loads and comparisons of
`reserveConns`) and `AddSystem` (its additions) are separate, because the code
uses one atomic variable per counter and no lock. `CheckTransient`/`AddTransient`,
`CheckPeer`/`AddPeer` likewise. Within one test the loads of the total and of
the direction are one step. Refusals and rollbacks (`RefuseAtSystem`,
`RefuseAtTransient`, `UndoSystem`, `RefuseAtPeer`, `FailHandshake`) are actions of
their own, and `Done` releases in the order of the code. `TakePeer` is the reference
that `getPeerScope` takes before it is known whether the peer's scope has room
(`manager.go:277`); when it has none, `DropPeer` gives the reference back
(`connection_scope.go:86-89`) and the `Done` that follows releases the transient
charge. `cnt[s][d]` stands for `nconnsIn` and
`nconnsOut` of scope `s`; they are integers that nothing stops at zero, as in
the code.

Left out: the descriptor count (every connection of the upgrader uses one
descriptor, so it follows the connection count, and its limit acts like the
limit on the total), the connection's own scope (one unit, never refused),
`SetPeer` racing `Done` on one scope (the upgrader never does that),
32-bit wrap-around of the counters (2^31 connections).

### GracePeriod, MemberManager

`conn`, `timer`, `ext` are a member's `MemberConnectionState`; `removal` is the
goroutine of a timer that fired, from the moment stopping the timer comes too
late (`"fired"`) over the expiry under the state machine's lock (`"expired"`) to
the callback (`"remove"`). `recent` and `flapping` are the stability tracker,
`protected` is the protection period (`DisconnectProtectionTracker` and
`recentlyDisconnected`, which begin together and last equally long). There is
no clock: an armed timer may fire, a running window or period may end, at any
time. Two things are excluded because the code's constants exclude them: a
timer that fires while the goroutine of the one before it, 15 seconds earlier,
still runs; and a timer armed in the instant between an expiry and the deletion
of the entry that outlives the entry.

`member[p]` is `p`'s entry in the list and its `Online` flag. The event bus gives
every subscription its own channel, so `downEvts`, `upEvts` (the watchers of the
member manager) and `downStatus`, `upStatus` (the realm's loop) are four counters
of pending events. No event is lost in the model; that the bus may drop one is a
hazard of its own. `Add` is split where the code releases its locks: the tests
(`Refused`) in one step, the insertion (`InsertMember`) in a later one. The
actions and the code:

| Actions | Code |
|---|---|
| `WatchDisconnection`; `WatchReconnection`, `Recover` | `watchDisconnections`; `watchReconnections` (looks at the grace period, then recovers) |
| `HandleConnected`, `HandleDisconnected` | `handleConnectionEvents` |
| `Fire`, `Expire`/`Ignore`, `Forget`, `RemoveExpired` | the timer, `onGraceTimeoutInternal`, `onGraceTimeout`, the callback installed by `Manager.Start` |
| `Authenticate`, `RefreshMember`, `RefuseAuthenticated`, `AddAuthenticated`, `InsertMember` | `onPeerAuthenticated` and `Add` |
| `AddListed`, `InsertMember` | `mergeMemberListFromExchange`, `handleMemberSyncEntries` and `Add` |
| `MarkGracefullyLeft`, `RemoveLeft`; `ReportOffline` | `handleMemberLeave`; the heartbeat monitor |
| `Heartbeat`, `Communicate` | `HandleHeartbeatStream`, `OnMemberCommunication` |
| `CollectStale`, `RemoveStale` | `cleanupStaleMembers` |
| `TimePasses` | windows and periods that end, `Cleanup` of the tracker |

Left out: `Start`, `Stop` and `Close` of the manager and what they load from the
store; `Get`'s fallback to the store; cache, store and address book, which
follow the list under its lock; `ClearProtection`, which nothing calls.

### RealmMembership, RealmManager

Paths in this part are `internal/realm/manager.go` unless stated otherwise.
`started` and `closed` are the manager's atomic flags, which a call tests before
it takes `m.mu` (`lock`); `registered` is the key set of `m.realms`, `dropped` says
that Close has set it to nil, `current` is `m.current`. `call[c]` is what caller `c`
is doing and how far it is. A realm is its `active` flag and the state of its
member manager: the member manager starts long before the flag is set and stops
long after it is cleared, so start and stop are two steps each (`JoinNew`,
`JoinStarted`; `Deactivate`, then `LeaveOther`, `LeaveCurrent` or `LeaveForStop`),
between which everything that needs no lock goes on. `pubsub` are the realms whose
pubsub service runs; `JoinStarted` adds to it and nothing takes away.

| Actions | Code |
|---|---|
| `Start`, `JoinCall`, `LeaveCall`, `StopCall`, `CloseCall` | the tests of the flags at the start of each call |
| `LeaveInStop`, `SkipLeaveInStop` | `Stop` calling `Leave`, which tests `started` again, after `Stop` has cleared it |
| `Lock` | `m.mu.Lock` |
| `Deactivate`, `LeaveOther`, `LeaveCurrent`, `LeaveForStop`, `LeaveNothing` | `leaveCurrentRealm` and `realmImpl.stop` for its three callers |
| `JoinExisting`, `JoinNew`, `JoinStarted`, `JoinDropped` | the rest of `Join`, with `createRealm` and `realmImpl.start` |
| `CloseStopsRealm`, `CloseRealm`, `CloseDone` | `Close` and `realmImpl.Close` |
| `CloseLeft` | `Node.LeaveRealm`, which closes the realm it left without `m.mu` |
| `TestAdd`, `WriteAdd`, `WriteClosed` | `Add` of the member manager, as far as it meets `Close` |

`Start` of the manager sets its flag in one step, the calls of a realm that may
fail on a second start do not fail here because every part of a realm is new
when `Join` starts it, and the realms of a `Join` that is about to panic are not
tracked. `m.realms` keeps its entries until Close, so a name is used for one
realm only.

### GossipMesh

Paths in this part are in `internal/protocol/pubsub`. The three goroutines that
change the mesh are `routine["heartbeat"]`, `["join"]` and `["watcher"]`, each a
record of where it stands and which peers it has still to deal with. The mesh
and the topic's peer list have a lock for each single access and no lock is kept
between two of them, so counting, choosing and adding are steps of their own.
`TopicsReadable` is `gs.mu` seen by its readers: `Stop` holds it while it waits.

| Actions | Code |
|---|---|
| `Connect`, `Disconnect` | the network and the event bus, which drops what does not fit into the subscription |
| `Tick`, `HeartbeatExit`, `MaintainMesh`, `ListMesh`, `CleanupDisconnected`, `NeedMorePeers` | the heartbeat's loop, `maintainMesh`, `cleanupDisconnectedPeers` |
| `EnoughPeers`, `FindCandidates`, `SelectPeersToGraft`, `AddToMesh` | `graftPeers`, for the heartbeat and for Join, and `meshPeers.Add` |
| `NotifyPeerJoin`, `NotifyPeerLeave` | the topic's peer list and events |
| `TakeEvent`, `HandlePeerDisconnected`, `RemoveFromMesh`, `WatcherExit` | the goroutine subscribed to disconnections |
| `Join`, `CloseTopic` | `gossipSub.Join` and closing a topic |
| `StopCall`, `HeartbeatStopped`, `StopTopics` | `gossipSub.Stop` and `heartbeat.Stop` |

Scoring is off, as by default. `prunePeers` is not an action because `Add` refuses
a peer at `Dhi`, so that there never is anything to prune (`MeshBounded`). One Join
grafts at a time, and a Join waits for a Stop under way, as the service's lock
makes it. Forwarding, the caches of messages, IHAVE/IWANT and validation are
left out.

### MessageFate, DeliveryQueue

Paths in this part and the next are in `internal/protocol/pubsub/delivery`.
Messages are numbered in the order Publish received them; `dated` is the order in
which they got their `QueuedAt`, which is also that in which they become too old
(`old`). `since[m]` is a history: what has been queued while `m` waited in the queue
for the last time. `call[m]` is the call of Publish, `flush` the one
flush there may be (`p.flushing`), whoever runs it, with its message in hand;
`told`, `sent` and `tries` record callbacks, sendings and attempts to send.
`Fate` maps the state to `MessageFate`, where a message is new, accepted, and
then sent, dropped or lost for good.

| Actions | Code |
|---|---|
| `Publish`, `SendDirect`, `QueueFailed`; `PublishQueued` | `Publish`; `PublishQueued` |
| `LoopTick`, `FlushByApp`, `Take`, `FlushSend`, `FlushFail`, `EndFlush` | `flushLoop` and `FlushQueue`, with `Dequeue` |
| `Pushed`, `Unexpired`, `Expire` | `Enqueue` of a full queue, `cleanupExpiredLocked`, the passing of time |
| `CloseTopic`, `LoopExit`; `JoinAgain` | `reliableTopic.Close` and `ReliablePublisher.Stop`; `WrapTopic` of a topic already wrapped |

Left out: `ClearQueue` and the queue's `Remove` and `IncrementAttempts`, which
only tests call.

### AckPromise, AckedPublish

`progress[c]` is how far a call of `PublishWithAck` is and how it returned; `registered`,
`received` and `done` are its `PendingAck`. Messages and acknowledgements on
their way are sets: a step may deliver any of them, late or never, and a retry
sends them again. A handler of an acknowledgement, or of the cleanup, tests
whether `Done` is closed in one step (`TestDone`) and closes it in a later one
(`CloseDone`), where the second of two panics (`crashed`). The map of received
acknowledgements is written and read without a lock: where two goroutines meet in
it, the process may end (`MapRace`). `GetResult` reads what
has been received when the call returns, not why it returns (`ReturnResult`).

| Actions | Code |
|---|---|
| `PublishWithAck`, `SendRequest`, `SendFails` | `PublishWithAck` |
| `Retry`, `GiveUp`, `Cancel`, `SeeDone` | `waitForAcks`, `retryPublish` |
| `Receive` | `ProcessIncomingMessage`, `SendAck` of another peer |
| `AddAck`, `TestDone`, `CloseDone` | `HandleAck` |
| `MapRace` | `HandleAck` beside another one or beside `GetResult` |
| `CleanupPendingAck` | `CleanupPendingAcks` |
| `Broadcast`, `LoseRequest`, `LoseAck` | the gossip and the network (external) |

The encoding of messages and the discovery of critical peers are left out;
critical peers are configured without duplicates.

### SwarmHost

`stage[c]` is the goroutine that makes connection `c`, `closing[c]` how far its
end is, `pool` is `s.conns` of the peer, `list[c]` who has taken `c` from the pool to
close it. `up[c]` and `down[c]` are the goroutines that tell the host; they are not
ordered. Each event is published after the count's lock is given back; the model
folds publishing into the step that counts.

| Actions | Code |
|---|---|
| `Dial`, `DialFails`, `Make`, `AddConn`, `NotifyConnected` | `dialPeer`, `dialWorker`, accepting, `addConn`, `notifyConnected` |
| `CloseRefused` | `addConn` of a closed swarm, which closes the connection once it has let go of the lock |
| `Die`, `CloseByUser`, `NoticeDeath`, `RemoveConn`, `NotifyDisconnected` | the end of a connection: the network, a user, `handleInboundStreams`, a circuit's keep-alive, which begins with the circuit; `SwarmConn.Close` |
| `WatchDone` | the goroutine `addConn` starts for a relay circuit |
| `DropClosed` | `NewStreamWithPriority`, on finding closed connections |
| `ClosePeer`, `CloseListed` | `Swarm.ClosePeer` |
| `CloseHost`, `CloseSwarm`, `Sweep`, `SwarmCloseReturns` | `Host.Close`, `Swarm.Close` |
| `Connected`, `Disconnected` | the same methods of `host/lifecycle.go` |

Streams, the ranking of addresses, dial back-off, path health, listeners and
bandwidth are left out.

### EventBus

One event type; types share nothing but the bus's lock. `mu` and `lk` name the
holder of the bus's lock and of each node's, `reg` is the node registered, `at[a]`
the node a subscription or emitter has found. A node with its own identity is
needed because an emitter keeps its node when the bus has dropped it, and an
Emit that passed its test before Close goes to that node. Events are numbered in
the order of emission; `buf[s]` is the channel and `seen[s]` what was received last.

| Actions | Code |
|---|---|
| `FindNode`, `EnterNode` | `withNode`: find or create under `b.mu`, take the node's lock, let go of `b.mu` |
| `AddSink`, `Replay` | the callback of `Subscribe` |
| `AddEmitter` | the callback of `Emitter` |
| `BeginEmit`, `Emit` | `Emitter.Emit`: the test of `closed`, then `node.emit` under the node's lock |
| `Unsubscribe`, `FindNodeToLeave`, `EnterNode`, `RemoveSink`, `CloseChannel` | `Subscription.Close`, `removeSub` |
| `CloseEmitter`, `ReleaseNode` | `Emitter.Close` |
| `LockBus`, `DropNode` | `tryDropNode` |
| `Receive` | the subscriber, reading `Out()` |

A subscription or emitter may be made again once it is closed, which stands for
any number of them one after the other. An emitter has one Emit under way;
several goroutines emitting through one emitter are several emitters. A
subscription has a buffer (16 unless it asks for another size): handing an event
to a receiver that waits on an unbuffered channel is left out. Rejected
arguments and `GetAllEventTypes` change nothing.

### GateSignals, AddressGate

`natReady` and `addrReady` are the coordinator's signals. `addrs` has the kinds of
address `AdvertisedAddrs` would return, `held` says whether AutoRelay has a
reservation; `task[g]` is a goroutine that brings a change to the callback, and the
addresses it has read by then. Nothing is read under the lock it was changed
under: AutoRelay changes its reservations (`"held"`) and reads them later
(`"reserved"`); the coordinator stores addresses (`"stored"`) and `AdvertisedAddrs`
reads the direct ones (`"read"`) and the relay's (`"changed"`) one after the other.
Another change may come between any two. The goroutine that changes and the one it
starts for the callback are one task, because the first does nothing more.

| Actions | Code |
|---|---|
| `DetectNATType`, `NotifyNATTypeReady` | `nat.Service.DetectNATType` and the goroutine of its `Start` |
| `VerifyDirect`, `ExpireDirect` | `OnDirectAddressVerified`, `OnDirectAddressExpired` of the reachability coordinator |
| `Reserve`, `RemoveRelay`; `NotifyAddrsChanged` | `tryRelay`, `removeRelay` of AutoRelay; what they read of the reservations afterwards |
| `OnAddrsChanged`: `SetRelayConnected`, then `OnRelayReserved` | that callback, `bindAutoRelayCallback` |
| `ReadDirect`, `ReadRelay` | `AdvertisedAddrs`, called by `notifyAddressChanged` |
| `SetRelayAddr` | the same method of the relay manager |
| `OnAddressChanged`, with `Passes` and `Suffices` | the callback installed by `wireAddressDiscovery` |

A public address is the type open, as a full cone is. The three tests of the
callback are one step, because what one of them has let pass does not change
any more. The relay's connection is a signal that is never taken back. Relays are not told apart:
one reservation stands for those there are.

### NodeLifecycle

`holder` is what the operation that holds `n.mu` is at. `running` are the hooks whose
component runs, `counted` how many the Fx application takes for started, which is
what a stop goes by; `spent` are the components that a stop has used up. `hook` is the
component whose OnStop hook runs. A stop whose context ends returns while that hook
goes on by itself (`CutStop` within a hook, `EndLateHook`), and so does a start
(`CutStart`): `started` and `n.mu` are free before the hook is over. The realm
manager's hook clears `Manager.started` first (`ManagerStarted`), and its realm stays
active until the hook ends. The
hooks are those of the lifecycle coordinator, the NAT service, the relay manager,
the DHT and the realm manager, in their order; the others neither refuse a
second start nor take part in what follows. A realm is the part of `RealmManager`
that one realm needs, and `natReady`, `addrReady` change as `GateSignals` allows, of
which `AddressGate` is an implementation.

| Actions | Code |
|---|---|
| `Start`, `StartHook`, `CutStart`, `StartFails`, `Initialized`, `Listen`, `Ready`, `StartUndone`, `PassNAT`, `PassGate` | `Node.Start`, with `fx.App.Start` and the hooks |
| `Stop`, `BeginHook`, `EndHook`, `EndLateHook`, `CutStop`, `Stopped` | `Node.Stop` and the stops of a failed Start and of Close, with `fx.App.Stop` |
| `Close`, `Drain` | `Node.Close`: D1, then D2 to D4 |
| `JoinRealm`, `LeaveRealm`; `RealmLeave` | the node's methods; the realm's own `Leave`, which does not take `n.mu` |
| `Bootstrap`, `PublisherPasses`, `Publish`, `Republish` | `scheduleDHTBootstrap`, of which each start of the DHT begins one, `scheduleGlobalPeerRecordPublish`, `republishLoop` |
| `JoinPasses`, `JoinPublishes` | `joinV2` of the realm |
| `WaitReady`, `Helper`, `Wake`, `ContextDone` | `Node.WaitReady`, the goroutine that waits for its context, the return from the condition variable |
| `AdvanceTo`, `LetsThrough`, `RaiseLevel` | `Coordinator.AdvanceTo`, its waits with their time limit, `setReadyLevel` |

Fx is external: a hook that fails has those before it stopped again; a start or stop
whose context ends returns, the hook under way runs on, and the rest of the hooks
are left out. A late hook of a start has its effect at once, since nothing but
another start, which Fx refuses until the hook is over, sees when it ends; a late
hook of a stop, which a Close may meet, ends in a step of its own. Left out: `Node.state`, which
nothing but `State()` reads; the phases B1 to B3, which are signals of their own;
the callbacks for network changes and connections; `EnableBootstrap` and
`EnableRelay`, whose failures Start ignores.

## 3. Runs

| Run | Instance | Shows |
|---|---|---|
| `services` | 3 connections, 2 peers, every scope limited, `MaxRacing` 2; 2 subscriptions with room for 1 event, 2 emitters, one stateful, 3 nodes, 2 events | `Accounting`, `BoundedOvershoot`; `InOrder`, `NodeNeeded`, `LockChainsEnd`, `EmitReachesAll` |
| `member_manager` | 1 member, both callers of `Add`, threshold 2, one extension | `NeverOvercounts`, `GraceCovered`, `LeftStaysOut` |
| `member_liveness` | 1 member, authentications only, one extension, fairness | `GraceEnds` |
| `host_and_realms` | 2 callers, 2 realms, 1 authentication; a direct connection and a relay circuit; 2 callbacks at once; fairness | `ActiveIsCurrent`, `MembersRunWithRealm`, `StaysClosed`, `OneRealmAtATime`, `CallsReturn`; `PoolHasNoGhosts`, `NothingSurvivesClose`, `DisconnectedIsTrue`, `DeadLeavePool`, `EverythingCloses`; `ConnectedBeforeAdvertised`, `ReservationOpensGate`, `GateGivesSignals` |
| `realm_rejoin` | 2 callers, 2 realms, 1 authentication | `JoinedRealmRuns` is violated |
| `realm_pubsub` | the same | `PubSubStopped` is violated |
| `gossip_mesh` | 2 members, D = Dhi = 1, room for 1 event, fairness | `MeshBounded`, `DisconnectedLeaveMesh`, `MeshRecovers` |
| `gossip_stop` | the same | `StopReturns` is violated |
| `delivery` | 3 messages, queue of 2, 2 attempts, batches of 2; 1 call, 2 critical peers and 1 other, 2 handlers, 1 retry; fairness | `SentOnce`, `TriesBounded`, `LossHasCause`, `FatesAreFinal`, `QueueDrains`; `DoneMeansComplete`, `ResultIsEarned`, `AckCallsReturn` |
| `node_lifecycle` | 2 starts, a caller waiting for the level Reachable, waits that may time out, fairness | `JoinedAfterReady`, `LeftBeforeDrain`, `StrandedUntilClose`, `CloseReleases`, `NoLostWakeUp`, `WaitersReturn` |
| `node_restart` | 2 starts, no caller | `Restartable` is violated |
| `node_gate_bypassed` | 1 start, no caller, no wait times out | `PublishedAfterGate` is violated |

Some properties are proved for every value of the constants (section 5) and are not
among those of a run: the type invariants; `NothingLeaks` and `RefCoversCharges`,
which follow from `Accounting`; `CountCovers`, on which `DisconnectedIsTrue` rests;
and what is proved of the progress of each component.

*Bounds.* `MaxRacing` bounds the goroutines between a test and its addition; two
racing goroutines and a third that is not are enough to exceed every limit of
the instance, and `BoundedOvershoot` is stated in terms of it, so that with no
bound of its own the overshoot is the number of concurrent upgrades less one.
`MaxEvents` bounds the pending events of one kind for one peer: with one of each
kind the four channels already deliver in any order. `MaxDrift` bounds how often
an offline member is revived without being counted, which would otherwise lower
`onlineCount` for ever. `FlapThreshold` 2 (3 in the code) and `MaxExtensions` 1
(2 in the code) keep the instance small and still reach a flapping peer and an
exhausted extension. One member suffices because members share only the online
count and the lock of the authentications; the proofs cover any number.
Two callers of the realm manager are one that holds the lock and one that passed
its tests before and acts on them later, each any number of times; two realms
are what a switch needs. For its safety properties the proofs cover any number.
Nothing else is bounded there: the flags and the life of a realm are finite.
In `gossip_mesh` the second member is the one the first competes with for a mesh
of one, and a buffer of one drops the second disconnection; the heartbeat and
Join may each add their share to a mesh that can take one. In `delivery` a third
message overflows a queue of two, the second attempt is the last, and a retry
puts two copies of a publication on their way. Its two halves share no state, so
`MCDelivery` lets each move while the other is where it started: nothing is lost,
and their products need not be explored. `MCServices` and `MCHostAndRealms` put
components that share no state into one run in the same way. In `host_and_realms` the
direct connection and the circuit end in the code's two ways, and two
announcements are what can overtake each other. In `services` three nodes are one registered and one kept
by each of the closed emitters whose last Emit is under way; with two events one
can be replayed and one emitted beside it, and the second finds a buffer full; the
proofs cover larger buffers. No connection is made twice in
`host_and_realms`, no message published twice in `delivery`: each has an identity.
In `host_and_realms` two callbacks are the two that overtake each other or change
what the other is about to read, each any number of times. In `node_lifecycle` the second start is the one that meets what the
first left behind, after a rollback or a stop; a third meets nothing new. Callers
of WaitReady meet only in their broadcasts, and a caller that is woken for nothing
is there with one of them already, since every raise of the level wakes all. In
`node_gate_bypassed` the waits have no time limit (`GateTimesOut`), so that what TLC
finds is not due to a slow network.

*Symmetry* is used in `services` for the nodes of the event bus, which are mere
identities, and for its two subscriptions, which are alike. No run with a liveness
property uses it.

*Fairness.* `FairSpec` asks for weak fairness of the removal of each member
(timer, expiry, deletion, callback): a timer of 15 seconds fires and a started
goroutine runs to its end. The model allows the timer to be rearmed without end
by disconnections; the code's own bound on that is the flapping detection.
Nothing is asked of the network, of peers or of other handlers.
In `RealmManager` each step of a call under way is weakly fair, and the lock is
strongly fair, because a Go mutex hands itself to its first waiter once that
has waited a millisecond. No caller is obliged to call. `CallsReturn` lets a
call end with the process (`crashed`).
In `GossipMesh` the goroutines run and the ticker ticks while its context is
live; `MeshRecovers` is about a network that has come to rest and a topic that
stays joined. In `DeliveryQueue` the topic answers every call it is given, with
success or failure, and the loop ticks; a message may fail for ever. In
`AckedPublish` the topic answers and timers fire; the network owes nothing. In
`SwarmHost` goroutines that were started run; nobody is obliged to close anything
but the steps that follow a close already begun. In `AddressGate` the goroutines
run. In `NodeLifecycle` the operation that holds `n.mu` goes on: its waits have time
limits.
The callers of WaitReady and their helpers need `n.mu` again and are strongly fair,
as the callers of `RealmManager` are.

*Deadlock* is checked in `services` and in the member manager's runs. That the order
of the bus's and the node's locks leaves no two callers waiting for each other, while
others go on, is `LockChainsEnd`. Elsewhere the system really stops: after
Close, after a panic, or when all messages have found their fate.

## 4. What the code does differently from what it says

Each of these is a run that TLC finds violated.

- `JoinedRealmRuns`: who has joined a realm can use its services
  (`node.go:285`, `internal/realm/doc.go:124`), but a realm that was left stays in
  `m.realms`, and joining it again returns it stopped (`realm/manager.go:249-253`).
- `StopReturns`: `heartbeat.go:40` says that Stop waits until the heartbeat's
  goroutine has ended. `gossipSub.Stop` takes `gs.mu` (`gossipsub.go:169`) and keeps it
  while it waits, and a heartbeat inside a round needs `gs.mu` to go on: neither
  returns. `StopDeadlocks` proves that there is no way out under any scheduling.
- `PubSubStopped`: `realm.stop` stops the protocol services, pubsub among them
  (`internal/realm/realm.go:1485-1486`), but it asks the service for a method
  `Stop() error` (`protocol_factory.go:168-175`), and the service's Stop takes a context
  (`pubsub/service.go:140`). Its heartbeat and topics run on after the realm was left
  or closed. (It also follows that leaving a realm never meets the deadlock of
  `StopReturns`: only who calls the service's Stop does.)
- `Restartable`: Start may be called again after Stop (`node_lifecycle.go:44`, `196`),
  but the lifecycle hook advances to A1, which the coordinator refuses, and three
  more components refuse behind it.
- `PublishedAfterGate`: the publication must come after the address signal
  (`lifecycle/coordinator.go:373`), but the republication loop
  (`dht/dht.go:1254`) does not look at it.

Reached by the models without a run of their own:

- `GetOnlineCount` (`member/manager.go:546`) is the number of online members, but
  `UpdateLastSeen` and an `Add` of a present member set the flag `Online` without
  counting. `NeverOvercounts` is what holds: the count errs downwards only,
  possibly below zero.
- A member marked as gracefully left can come back by authentication only
  (`member/manager.go:1190-1191`), but an `Add` that passed its tests before the mark
  inserts the member after the removal. `LeftStaysOut` is what holds.
- A direct address is enough for an open node (`fx.go:622`), but the callback drops
  a change that comes before the NAT type is known, and the signal of the NAT type
  evaluates nothing again. Without another change everybody who waits for the
  addresses waits for 60 seconds. `ReservationOpensGate` is what holds.
- `AdvertisedAddrs` are the addresses that can be advertised now
  (`pkg/interfaces/reachability.go:189`), but the callbacks of a reservation and of
  its end are two goroutines (`autorelay.go:788`), and when they arrive in the
  wrong order the address of a relay that was left stays.
- D3 takes the peer record from the DHT (`node_lifecycle.go:240`), but `n.discovery`
  is the discovery coordinator and no `pkgif.DHT` (`node_lifecycle.go:289`), so that
  Close leaves it there (`Drain`).
- D4 releases everything (`node_lifecycle.go:241`), but a stop whose context ended
  (`CutStop`) clears `started` with hooks left, and Close then does not stop the
  application. `CloseReleases` is what holds.
- D1 leaves the realm before D2 drains (`node_lifecycle.go:238-239`), but a stop whose
  context ended within the realm manager's hook has cleared the manager's flag and
  not yet closed its realm: Close's Leave is refused (`realm/manager.go:679-687`), which
  is only logged (`node_lifecycle.go:263-270`), and Close drains with the realm active.
  `LeftBeforeDrain` is what holds, with this case left out.
- `Realm()` is the realm joined (`node.go:344`), but `Realm.Leave` (`realm.go:269`)
  leaves it without telling the node, whose JoinRealm and LeaveRealm fail from
  then on (`RealmLeave`). `StrandedUntilClose` says that only Close ends this.
- A reachable node has published its record (`pkg/interfaces/node.go:45`), but the
  level does not wait for the goroutine that publishes (`node_lifecycle.go:176`).
- `Limit.Conns` is called the maximum number of connections
  (`pkg/interfaces/resource.go:155`), but two goroutines that test the counter
  before either adds (`scope.go:128-161`) exceed it. `BoundedOvershoot` is what
  holds.
- The methods of the member manager may be called concurrently
  (`member/doc.go:152`), but an `Add` that passed its tests before `Close` dropped
  the map panics (`member/manager.go:247`, step `WriteClosed`). The realm manager's
  Join has the same gap (`JoinDropped`); a node, which serialises its calls, does
  not reach that one.
- Two handlers of acknowledgements, or one and the cleanup, find `Done` open and
  both close it: the second panics (`publisher.go:431`, step `CloseDone`).
- A topic that was closed and is joined again gets the stopped publisher of the
  first one: it queues what nothing flushes (`reliable.go:174`, `JoinAgain`).
- A message pushed out of a full queue or expired is reported to nobody, although
  `StatusDropped` is documented as "队列满" (queue full); `LossHasCause` says
  when that happens.
- When the end of a connection is counted before its beginning, the host keeps a
  count of one for a peer that is gone, and may report a peer gone that has just
  connected: `CountCovers` and `DisconnectedIsTrue` say how far that goes.
- `CleanupPendingAcks` removes a waiting call's entry and closes `Done`, so that the
  call returns with the status acknowledged; its result still says how many
  acknowledgements there were, which is what `ResultIsEarned` is about.
- The last event of a stateful type is lost when the type's node is dropped,
  because the last emitter and the last subscriber have closed.

## 5. Proofs

The theorems hold for any values of the constants that satisfy the modules' named
assumptions: finite sets of connections, peers and emitters, distinct scopes,
natural-number limits and bounds, buffers that are not empty. Most are of the form
`Spec => []P` and rest on an inductive invariant `IInv` of their module, of which
Init implies it, every step keeps it, and it implies `P`; the actions have a lemma
each. The others are action properties and the refinements.

`ResourceConnsProofs`. `Accounting` equates every counter with the number of
connections charged to the scope, read off the program counters, and is
inductive once it is known that `peer` is set exactly when `SetPeer` has run
(`PeerSet`). Each action moves one connection into or out of the set of one
scope's holders, so the proof rests on one lemma that adds an element to a
finite set and one that removes it. `TypeOK` (no counter is negative),
`NothingLeaks` and `RefCoversCharges` follow from `Accounting` without further
steps. For `BoundedOvershoot` the invariant `Slack` counts, with what a scope
holds, the goroutines that have been allowed to add and have not yet: this sum
grows only when a test succeeds, and then the counter itself was below the
limit and at most `MaxRacing` goroutines are in a window.

`MemberManagerProofs`. `IInv` is `TypeOK`, `Covered`, which with the type makes
`GraceCovered`, and `NeverOvercounts`; the
steps of `GracePeriod`'s operators and those of the list's methods are lemmas of
their own, and each action of `MemberManager` cites one of each. `LeftStaysOut` is
an action property: no step but an insertion by an `Add` already past its tests
makes an absent member present, and no step but `Authenticate` clears a mark.

`RealmManagerProofs`. With the manager's lock held a realm may be halfway, so
`ActiveIsCurrent` and `MembersRunWithRealm` are not inductive. `Registry` relates the
entries of `m.realms`, the realms ever created and the one being started;
`Running` names, for a realm whose member manager runs without the realm being
active, the caller that holds it halfway (`HalfwayBy`), and `CallsFit` which
operation may be at which stage. Two lemmas carry most steps: `Outside` for
those that do not hold the lock, `Unlocked` for those that give it back with no
realm halfway. `OneRealm` is a refinement: the steps that change `active` are
`Deactivate` and `CloseStopsRealm`, which empty the set of active realms because
only `current` is in it, and `JoinStarted`, which finds it empty because `current`
is nil; `CloseLeft` meets a realm already stopped.

`GossipMeshProofs`. `TypeOK` is inductive with `HasPeer`: a goroutine about to tell
the topic has a peer to tell of. `MeshBounded` follows from the test in `Add` alone,
which is one step with the addition; what the heartbeat and Join counted before
is not needed, and this is the point. `StopDeadlocks` shows that the states in
which Stop waits and the heartbeat is where it needs `gs.mu` are closed under
every step.

`DeliveryProofs`. For the queue, `Places` says that the queue and the flush hold different
messages, each once, and `MessageInv` relates, for one message, its call, its
place, its callbacks, its attempts and its tries. `MessageStep` is what a step may
do to a message: one that is accepted and neither queued nor in the flush's hand
is not touched again, from which `FatesAreFinal`, a refinement, follows message by
message. For `LossHasCause` the step that loses a message that is not too old is an
overflow. `SinceInv` says that every message behind another in the queue was queued
while that one waited, so that the front of a full queue has had the `MaxSize` - 1
others behind it and the one being pushed. Lemmas about `Pushed` and `Unexpired` carry the sequences.

For `PublishWithAck`, `Earned`: an acknowledgement on its way or received comes
from a peer that has heard the message. `Closing`: a handler about to close `Done`
has a call that is complete or registered no more, and will not be registered
again because only a call nobody knows is (`Fresh`). `ResultIsEarned` is a
refinement of `AckPromise`, in which `RequireAll` needs that as many critical peers
as there are is all of them.

`ConnectivityProofs`. A connection that has been added and is open is in the pool
or in the hands of somebody who took it from there to close it (`Kept`); one not
added yet, or refused, is in neither (`Unmade`, `Refused`); and the pool stays empty
once swept (`Swept`). `CountCovers` is inductive because both handlers change the
count together with what they have counted. `DisconnectedIsTrue` follows from it:
the count is zero when a disconnection is published, so as many ends as
beginnings have been counted, and unless some end is without its beginning they
are the ends of those. For the gate, `Reports`
says that AutoRelay's reports carry addresses of the relay only, and `Announced` says that a goroutine past the
relay's signal that carries addresses has set it, which makes
`ConnectedBeforeAdvertised` inductive; `GateGivesSignals` is a refinement in which only
`NotifyNATTypeReady` and `OnAddressChanged` are not stutters.

`NodeLifecycleProofs`. `Begun` says that a node that is started is in the gate, with
the lock held, or has been through phase A6: `JoinRealm` needs the lock free, and so
`JoinedAfterReady` follows. `Held` says that an active realm is the node's and the
running manager's current one, or that a hook running late holds it (`Orphaned`), so
that the `Close` that leaves the node's realm leaves no other active, and `Ended` that
none starts afterwards. `Hooked` says which hook runs by itself. `Halted` says that what
runs is counted unless a stop was cut, and that the count is zero whenever the
lock of a node that is not started is free, which gives `CloseReleases`. That a failed
start, a stop and a close all end in the same counting down is what the invariant
rests on, and the number of starts is arbitrary.

`EventBusProofs`. Who has found a node holds the bus's lock until it holds the
node's (`Locking`), so `DropNode`, which holds the first and waits for the second,
finds nobody between finding and entering. Therefore an open subscription is in
the list of the registered node and of no other (`Attachment`), and the registered
node counts the emitters in use, all of which have it (`Counting`): `EmitReachesAll`
follows, and so does `ClosedHearNothing`, that nothing is sent on a closed channel.
`Order` bounds every event in sight by the number emitted and says that a
subscription not yet through Subscribe has received nothing, which makes
`InOrder` inductive. The number of events, subscriptions, emitters and the sizes
of the buffers are arbitrary.

*Progress.* Liveness needs fairness, which the prover has no rule for: `GraceEnds`,
`CallsReturn`, `MeshRecovers`, `DisconnectedLeaveMesh`, `QueueDrains`, `AckCallsReturn`,
`DeadLeavePool`, `EverythingCloses`, `ReservationOpensGate` and `WaitersReturn` are only
model-checked. What they rest on is a matter of safety and is proved, for any number
of callers, peers and messages: that somebody has the next step, that each of these
steps leaves less to do, and that nobody else's step adds to it. That such steps are
then taken is the assumption of fairness, and the step from here to the liveness
property is the one left to TLC.

| Checked | Proved |
|---|---|
| `GraceEnds` | `GraceCoveredHolds` (a timer or a goroutine is there), `GraceRunsOutHolds` (a measure of what they have left; fired, expired, callback, no member) |
| `CallsReturn` | `HolderGoesOnHolds` (the guard of the holder's next step), `HolderFinishesHolds` (the set `Work` of what it has left only shrinks) |
| `DisconnectedLeaveMesh`, `MeshRecovers` | `RoundsEndHolds` (a round has 4n + 5 steps at most), `RoundCleansHolds` (it lists every disconnected peer and loses none) |
| `QueueDrains` | `NobodyOvertakesHolds` (the messages before another only get fewer), `FlushEndsHolds` (2 * `BatchSize` + 1 steps at most), `TriesBoundedHolds` |
| `AckCallsReturn` | `AckCallsEndHolds` (`AckRetries` + 1 sendings at most) |
| `DeadLeavePool`, `EverythingCloses` | `DeadAreSeenHolds` (who takes a dead connection from the pool), `OpenHasCloserHolds` (who closes one that is open after the sweep) |
| `ReservationOpensGate` | `ReservationGoesOnHolds` (five steps, of which none is lost unless the reservation is withdrawn) |
| `WaitersReturn` | `NoLostWakeUpHolds` (who is parked has missed nothing), `OperationEndsHolds` (`n.mu` is given up after nineteen steps at most) |
| no deadlock of the bus | `LockChainsEndHolds` |

`Work` of `HolderFinishes` is a set of items, each a realm and what is to be done to
it; that the next step has its guard needs `StartedIsCurrent`, that a registered realm
whose members run is the current one also between its stop and its close.
`NobodyOvertakes` is about positions in a sequence: a message pushed goes behind
all others and takes at most the front away, so that the queue is shifted
(`Shifted`) and nothing overtakes. `RoundsEnd` needs that the peer a grafter is about
to report is one it has still to deal with (`Dealing`), and counts finite sets.
`LockChainsEnd` needs to know who may hold which lock (`AtBus`, `InNode`, `Holders`).
`NoLostWakeUp` needs `Listening`, which says of a caller that has been woken and tests
again that its helper still waits or its context is done.

Every invariant, action property and refinement that a passing run checks is
proved.

## 6. Not modelled, and the plan

In this order; the components of section 1 that are not named here are I/O,
data or tables without a protocol of several steps.

1. `PeerRecords` (DHT): publish, renew, unpublish and shutdown against an abstract
   specification of a single record cell. Known from reading: the node publishes
   under the key of an empty realm, which `UnpublishPeerRecord` does not remove
   and nobody looks up; an unpublication races a publication already signed; the
   sequence number starts at one with each process, so that an older record
   hides newer ones until it expires. With no reader of the record in this
   version there is little for a property to say.
2. `ResourceStreams`: OpenStream, SetProtocol, SetService, Done, and spans, on
   `ResourceScopes`. Nothing outside the package opens a stream scope yet.
3. `WitnessVoting`: reports, confirmations and sessions; one verdict for each
   session and its justification. Not wired to the realm yet.
4. `RealmAuth`: the PSK challenge and response, inbound and outbound at once, and
   the member list exchange that follows it.
5. `ConnTrim`, `RelayReservation`, `Recovery`, and the forwarding of messages through
   the mesh with its caches and its validation.
6. `MemberManager`: Start/Stop with the store, heartbeat counters, and an abstract
   specification of membership it implements between events.

Compositions worth having next: `SwarmHost` with `EventBus` (the order in which the
host's two events reach a subscriber) and with `GossipMesh`. They are too large for
TLC as they stand; the events' order is covered in `MemberManager` by separate
channels and their loss in `GossipMesh` by its buffer.

Theorems to prove next: a single verdict in `WitnessVoting`; for `MemberManager`, the
refinement of an abstract membership between events.
