---------------------------- MODULE ResourceConns ----------------------------
(***************************************************************************)
(* Connection accounting of the resource manager                           *)
(* (internal/core/resourcemgr/manager.go, connection_scope.go), driven the *)
(* way its caller drives it: the connection upgrader                       *)
(* (internal/core/upgrader/upgrader.go), one goroutine per connection.     *)
(*                                                                         *)
(* A connection is charged to the system scope for its whole life, and to  *)
(* the transient scope until the security handshake reveals the remote     *)
(* peer, when SetPeer moves the charge to that peer's scope.  Every test   *)
(* of a limit and the addition it allows are two steps, so the goroutines  *)
(* of other connections run in between.                                    *)
(*                                                                         *)
(* The descriptor count follows the connection count (Upgrade always opens *)
(* with usefd = true) and the connection's own scope never refuses its one *)
(* unit, so neither is kept.                                               *)
(***************************************************************************)
EXTENDS ResourceScopes

CONSTANTS
  Conns,          \* connections that may be upgraded, one goroutine each
  Peers,          \* remote peers
  System,         \* the system scope
  Transient,      \* the transient scope
  NoPeer,         \* cs.peer == nil
  Limit,          \* the limit of every scope
  MaxRacing       \* bound: goroutines at once between a test and its addition

Scopes == {System, Transient} \cup Peers

ASSUME ConnsFinite == IsFiniteSet(Conns)
ASSUME ScopesDistinct ==
  /\ System # Transient
  /\ System \notin Peers /\ Transient \notin Peers
  /\ NoPeer \notin Peers
ASSUME LimitType == Limit \in [Scopes -> LimitRecord]
ASSUME RacingType == MaxRacing \in Nat \ {0}

VARIABLES
  stage,      \* where the goroutine of the connection is
  dir,     \* connectionScope.dir
  peer,    \* connectionScope.peer; SetPeer's peerScope while that is unassigned
  cnt,     \* the connection counters of every scope
  refCnt,  \* peerScope.refCnt
  closed   \* resourceManager.closed

cvars == <<stage, dir, peer, cnt, refCnt, closed>>

(***************************************************************************)
(* Program counters.  Between a test and its addition: sysAdd, transAdd,   *)
(* peerAdd.                                                                *)
(***************************************************************************)
PC == {"idle", "sysAdd", "transCheck", "transAdd", "sysUndo", "handshake",
       "peerCheck", "peerUndo", "peerAdd", "transRelease", "open", "doneSys", "doneLast", "gone"}

VarTypes ==
  /\ stage \in [Conns -> PC]
  /\ dir \in [Conns -> Dirs]
  /\ peer \in [Conns -> Peers \cup {NoPeer}]
  /\ cnt \in [Scopes -> [Dirs -> Int]]
  /\ refCnt \in [Peers -> Int]
  /\ closed \in BOOLEAN

(* The counters are signed and nothing stops them at 0, yet none of them   *)
(* ever goes below: no charge or reference is given back twice.            *)
TypeOK ==
  /\ VarTypes
  /\ cnt \in [Scopes -> [Dirs -> Nat]]
  /\ refCnt \in [Peers -> Nat]

At(c, l) == stage[c] = l
MoveTo(c, l) == stage' = [stage EXCEPT ![c] = l]

Racing == {c \in Conns : stage[c] \in {"sysAdd", "transAdd", "peerAdd"}}
MayRace == Cardinality(Racing) < MaxRacing

InitConns ==
  /\ stage = [c \in Conns |-> "idle"]
  /\ dir \in [Conns -> Dirs]
  /\ peer = [c \in Conns |-> NoPeer]
  /\ cnt = [s \in Scopes |-> NoUsage]
  /\ refCnt = [p \in Peers |-> 0]
  /\ closed = FALSE

-----------------------------------------------------------------------------
(* OpenConnection.                                                         *)

(* The manager is open and the system scope has room.                      *)
CheckSystem(c) ==
  /\ At(c, "idle") /\ ~closed /\ MayRace
  /\ Fits(cnt[System], dir[c], Limit[System])
  /\ MoveTo(c, "sysAdd")
  /\ UNCHANGED <<dir, peer, cnt, refCnt, closed>>

(* The manager is closed, or the system scope is full: nothing was charged. *)
RefuseAtSystem(c) ==
  /\ At(c, "idle")
  /\ closed \/ ~Fits(cnt[System], dir[c], Limit[System])
  /\ MoveTo(c, "gone")
  /\ UNCHANGED <<dir, peer, cnt, refCnt, closed>>

AddSystem(c) ==
  /\ At(c, "sysAdd")
  /\ cnt' = Reserve(cnt, System, dir[c])
  /\ MoveTo(c, "transCheck")
  /\ UNCHANGED <<dir, peer, refCnt, closed>>

CheckTransient(c) ==
  /\ At(c, "transCheck") /\ MayRace
  /\ Fits(cnt[Transient], dir[c], Limit[Transient])
  /\ MoveTo(c, "transAdd")
  /\ UNCHANGED <<dir, peer, cnt, refCnt, closed>>

RefuseAtTransient(c) ==
  /\ At(c, "transCheck")
  /\ ~Fits(cnt[Transient], dir[c], Limit[Transient])
  /\ MoveTo(c, "sysUndo")
  /\ UNCHANGED <<dir, peer, cnt, refCnt, closed>>

(* The transient reservation failed: the system charge is rolled back.     *)
UndoSystem(c) ==
  /\ At(c, "sysUndo")
  /\ cnt' = Release(cnt, System, dir[c])
  /\ MoveTo(c, "gone")
  /\ UNCHANGED <<dir, peer, refCnt, closed>>

AddTransient(c) ==
  /\ At(c, "transAdd")
  /\ cnt' = Reserve(cnt, Transient, dir[c])
  /\ MoveTo(c, "handshake")
  /\ UNCHANGED <<dir, peer, refCnt, closed>>

-----------------------------------------------------------------------------
(* The rest of Upgrade.                                                    *)

(* The handshake succeeded: getPeerScope hands SetPeer the scope of the    *)
(* peer with a reference taken, before it is known to have room.           *)
TakePeer(c, p) ==
  /\ At(c, "handshake")
  /\ peer' = [peer EXCEPT ![c] = p]
  /\ refCnt' = [refCnt EXCEPT ![p] = @ + 1]
  /\ MoveTo(c, "peerCheck")
  /\ UNCHANGED <<dir, cnt, closed>>

CheckPeer(c) ==
  /\ At(c, "peerCheck") /\ MayRace
  /\ Fits(cnt[peer[c]], dir[c], Limit[peer[c]])
  /\ MoveTo(c, "peerAdd")
  /\ UNCHANGED <<dir, peer, cnt, refCnt, closed>>

RefuseAtPeer(c) ==
  /\ At(c, "peerCheck")
  /\ ~Fits(cnt[peer[c]], dir[c], Limit[peer[c]])
  /\ MoveTo(c, "peerUndo")
  /\ UNCHANGED <<dir, peer, cnt, refCnt, closed>>

(* Mutant: the failure path keeps the reference.                           *)
DropNothing(c) ==
  At(c, "peerUndo") /\ peer' = [peer EXCEPT ![c] = NoPeer] /\ MoveTo(c, "doneSys")
    /\ UNCHANGED <<dir, cnt, refCnt, closed>>

(* SetPeer failed: it drops the reference and leaves cs.peer nil, so that  *)
(* the Done Upgrade calls next releases the transient charge.              *)
DropPeer(c) ==
  /\ At(c, "peerUndo")
  /\ refCnt' = [refCnt EXCEPT ![peer[c]] = @ - 1]
  /\ peer' = [peer EXCEPT ![c] = NoPeer]
  /\ MoveTo(c, "doneSys")
  /\ UNCHANGED <<dir, cnt, closed>>

AddPeer(c) ==
  /\ At(c, "peerAdd")
  /\ cnt' = Reserve(cnt, peer[c], dir[c])
  /\ MoveTo(c, "transRelease")
  /\ UNCHANGED <<dir, peer, refCnt, closed>>

(* SetPeer releases the transient charge and assigns cs.peer.              *)
ReleaseTransient(c) ==
  /\ At(c, "transRelease")
  /\ cnt' = Release(cnt, Transient, dir[c])
  /\ MoveTo(c, "open")
  /\ UNCHANGED <<dir, peer, refCnt, closed>>

(* The secure connection names no remote peer: SetPeer is not called.      *)
SkipPeer(c) ==
  /\ At(c, "handshake")
  /\ MoveTo(c, "open")
  /\ UNCHANGED <<dir, peer, cnt, refCnt, closed>>

(* Security negotiation or handshake failed: Upgrade calls Done.           *)
FailHandshake(c) ==
  /\ At(c, "handshake")
  /\ MoveTo(c, "doneSys")
  /\ UNCHANGED <<dir, peer, cnt, refCnt, closed>>

-----------------------------------------------------------------------------
(* connectionScope.Done: after a failed muxer negotiation or setup, or when *)
(* the upgraded connection is closed.                                      *)
Done(c) ==
  /\ At(c, "open")
  /\ MoveTo(c, "doneSys")
  /\ UNCHANGED <<dir, peer, cnt, refCnt, closed>>

DoneSystem(c) ==
  /\ At(c, "doneSys")
  /\ cnt' = Release(cnt, System, dir[c])
  /\ MoveTo(c, "doneLast")
  /\ UNCHANGED <<dir, peer, refCnt, closed>>

(* The peer's charge if SetPeer was called, otherwise the transient one.   *)
DoneLast(c) ==
  /\ At(c, "doneLast")
  /\ IF peer[c] # NoPeer
       THEN /\ cnt' = Release(cnt, peer[c], dir[c])
            /\ refCnt' = [refCnt EXCEPT ![peer[c]] = @ - 1]
       ELSE /\ cnt' = Release(cnt, Transient, dir[c])
            /\ UNCHANGED refCnt
  /\ MoveTo(c, "gone")
  /\ UNCHANGED <<dir, peer, closed>>

(* The same goroutine slot upgrades another connection.                    *)
Again(c, d) ==
  /\ At(c, "gone")
  /\ dir' = [dir EXCEPT ![c] = d]
  /\ peer' = [peer EXCEPT ![c] = NoPeer]
  /\ MoveTo(c, "idle")
  /\ UNCHANGED <<cnt, refCnt, closed>>

(* resourceManager.Close: open scopes keep their charges.                  *)
Close ==
  /\ ~closed
  /\ closed' = TRUE
  /\ UNCHANGED <<stage, dir, peer, cnt, refCnt>>

-----------------------------------------------------------------------------
Upgrade(c) ==
  \/ CheckSystem(c) \/ RefuseAtSystem(c) \/ AddSystem(c)
  \/ CheckTransient(c) \/ RefuseAtTransient(c) \/ UndoSystem(c)
  \/ AddTransient(c)
  \/ \E p \in Peers : TakePeer(c, p)
  \/ CheckPeer(c) \/ RefuseAtPeer(c) \/ DropPeer(c)
  \/ AddPeer(c) \/ ReleaseTransient(c) \/ SkipPeer(c) \/ FailHandshake(c)

Finish(c) == Done(c) \/ DoneSystem(c) \/ DoneLast(c)

ConnNext ==
  \/ \E c \in Conns : Upgrade(c) \/ Finish(c) \/ \E d \in Dirs : Again(c, d)
  \/ Close

ConnSpec == InitConns /\ [][ConnNext]_cvars

-----------------------------------------------------------------------------
(***************************************************************************)
(* Who is charged to a scope, read off the program counters.               *)
(***************************************************************************)
ChargedTo(c, s) ==
  \/ /\ s = System
     /\ stage[c] \in {"transCheck", "transAdd", "sysUndo", "handshake", "peerCheck",
                      "peerUndo", "peerAdd", "transRelease", "open", "doneSys"}
  \/ /\ s = Transient
     /\ \/ stage[c] \in {"handshake", "peerCheck", "peerUndo", "peerAdd", "transRelease"}
        \/ stage[c] \in {"open", "doneSys", "doneLast"} /\ peer[c] = NoPeer
  \/ /\ s \in Peers
     /\ peer[c] = s
     /\ stage[c] \in {"transRelease", "open", "doneSys", "doneLast"}

Holders(s, d) == {c \in Conns : dir[c] = d /\ ChargedTo(c, s)}

(* The connections that hold a reference to the scope of peer p.           *)
Referrers(p) == {c \in Conns : peer[c] = p /\ stage[c] \notin {"idle", "gone"}}

(***************************************************************************)
(* Every counter equals the number of connections charged to its scope,    *)
(* whatever the interleaving: no step of OpenConnection, its rollbacks,    *)
(* SetPeer or Done charges twice or forgets a charge.                      *)
(***************************************************************************)
Accounting ==
  /\ \A s \in Scopes, d \in Dirs : cnt[s][d] = Cardinality(Holders(s, d))
  /\ \A p \in Peers : refCnt[p] = Cardinality(Referrers(p))

(***************************************************************************)
(* When no connection is open or being opened, nothing is charged to any   *)
(* scope and no peer scope is referenced: refused, failed and closed       *)
(* upgrades all give back exactly what they took.                          *)
(***************************************************************************)
NothingLeaks ==
  (\A c \in Conns : stage[c] \in {"idle", "gone"}) =>
    /\ cnt = [s \in Scopes |-> NoUsage]
    /\ refCnt = [p \in Peers |-> 0]

(***************************************************************************)
(* The tests of reserveConns are not atomic with their additions, so a     *)
(* scope can exceed its limit; but only by the goroutines that raced, and  *)
(* the excess does not accumulate.                                         *)
(***************************************************************************)
BoundedOvershoot ==
  \A s \in Scopes :
    /\ Limit[s].total > 0 => Total(cnt[s]) <= Limit[s].total + MaxRacing - 1
    /\ \A d \in Dirs :
         Limit[s][d] > 0 => cnt[s][d] <= Limit[s][d] + MaxRacing - 1

(***************************************************************************)
(* A peer scope is referenced by every connection charged to it: the       *)
(* reference is taken before the charge and dropped after its release, so  *)
(* a scope with refCnt 0 could be discarded without losing a charge.       *)
(***************************************************************************)
RefCoversCharges == \A p \in Peers : Total(cnt[p]) <= refCnt[p]

-----------------------------------------------------------------------------
(***************************************************************************)
(* The inductive invariant behind the properties above.                    *)
(***************************************************************************)

(* The connections that passed the test of scope s and have yet to add.    *)
InWindow(c, s) ==
  \/ s = System /\ stage[c] = "sysAdd"
  \/ s = Transient /\ stage[c] = "transAdd"
  \/ s \in Peers /\ stage[c] = "peerAdd" /\ peer[c] = s

Window(s) == {c \in Conns : InWindow(c, s)}
WindowOf(s, d) == {c \in Conns : dir[c] = d /\ InWindow(c, s)}

(* peer is set by SetPeer, and by nothing before it.                       *)
PeerSet ==
  \A c \in Conns :
    /\ stage[c] \in {"peerCheck", "peerUndo", "peerAdd", "transRelease"} => peer[c] \in Peers
    /\ stage[c] \in {"idle", "sysAdd", "transCheck", "transAdd", "sysUndo", "handshake"}
         => peer[c] = NoPeer

(* A scope's count and the additions already allowed, together.            *)
Slack ==
  \A s \in Scopes :
    /\ Limit[s].total > 0 =>
         Total(cnt[s]) + Cardinality(Window(s)) <= Limit[s].total + MaxRacing - 1
    /\ \A d \in Dirs : Limit[s][d] > 0 =>
         cnt[s][d] + Cardinality(WindowOf(s, d)) <= Limit[s][d] + MaxRacing - 1

IInv ==
  /\ VarTypes
  /\ PeerSet
  /\ Accounting
  /\ Cardinality(Racing) <= MaxRacing
  /\ Slack

=============================================================================
