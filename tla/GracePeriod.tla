----------------------------- MODULE GracePeriod -----------------------------
(***************************************************************************)
(* The guard against false disconnections of one realm                     *)
(* (internal/realm/member/antifalse.go) with the three parts it is made of:*)
(* the connection state machine of a member (state.go), the detection of   *)
(* flapping peers (internal/realm/stability/tracker.go) and the protection *)
(* against re-adding a member just removed (protection.go).                *)
(*                                                                         *)
(* This module holds the state and one operator per method; MemberManager  *)
(* calls them from its event loops.  Time is left out: a timer that is     *)
(* armed may fire, a window or a period that is running may end.           *)
(***************************************************************************)
EXTENDS Integers, FiniteSets

CONSTANTS
  Peers,          \* members the realm may have
  FlapThreshold,  \* transitions within the window that mark a peer flapping
  MaxExtensions   \* MaxGracePeriodExtensions

ASSUME PeersFinite == IsFiniteSet(Peers)
ASSUME FlapThresholdType == FlapThreshold \in Nat \ {0}
ASSUME MaxExtensionsType == MaxExtensions \in Nat

VARIABLES
  conn,        \* memberStates[p].state; "none" when the map has no entry
  timer,       \* the grace timer of p is armed
  removal,     \* the goroutine of a timer that fired
  ext,         \* extensions of the running grace period
  recent,      \* transitions of p within the flap window, up to the threshold
  flapping,    \* the mark of a flapping peer, which IsFlapping deletes when expired
  protected    \* p was removed less than the protection period ago

graceVars == <<conn, timer, removal, ext, recent, flapping, protected>>

GraceTypeOK ==
  /\ conn \in [Peers -> {"none", "connected", "disconnecting", "disconnected"}]
  /\ timer \in [Peers -> BOOLEAN]
  /\ removal \in [Peers -> {"none", "fired", "expired", "remove"}]
  /\ ext \in [Peers -> 0..MaxExtensions]
  /\ recent \in [Peers -> 0..FlapThreshold]
  /\ flapping \in [Peers -> {"none", "marked", "expired"}]
  /\ protected \in [Peers -> BOOLEAN]

GraceInit ==
  /\ conn = [p \in Peers |-> "none"]
  /\ timer = [p \in Peers |-> FALSE]
  /\ removal = [p \in Peers |-> "none"]
  /\ ext = [p \in Peers |-> 0]
  /\ recent = [p \in Peers |-> 0]
  /\ flapping = [p \in Peers |-> "none"]
  /\ protected = [p \in Peers |-> FALSE]

-----------------------------------------------------------------------------
(* RecordTransition, and IsFlapping right after it: reaching the threshold *)
(* marks a peer without a mark, and nothing refreshes the mark afterwards; *)
(* an expired mark is deleted, and not replaced.                           *)
RecordTransition(p) ==
  LET n == IF recent[p] < FlapThreshold THEN recent[p] + 1 ELSE FlapThreshold
      marked == flapping[p] = "marked" \/ (flapping[p] = "none" /\ n = FlapThreshold)
  IN  /\ recent' = [recent EXCEPT ![p] = n]
      /\ flapping' = [flapping EXCEPT ![p] = IF marked THEN "marked" ELSE "none"]

(* Mutant: a second disconnection cancels the timer and arms no new one.   *)
OnDisconnectOnce(p) ==
  IF conn[p] = "disconnected"
    THEN UNCHANGED <<conn, timer, ext>>
    ELSE /\ conn' = [conn EXCEPT ![p] = "disconnecting"]
         /\ timer' = [timer EXCEPT ![p] = conn[p] # "disconnecting"]
         /\ ext' = [ext EXCEPT ![p] = 0]

(* OnDisconnect: an entry that is already "disconnected" is being removed  *)
(* and ignores the event; any other starts a grace period from scratch.    *)
OnDisconnect(p) ==
  IF conn[p] = "disconnected"
    THEN UNCHANGED <<conn, timer, ext>>
    ELSE /\ conn' = [conn EXCEPT ![p] = "disconnecting"]
         /\ timer' = [timer EXCEPT ![p] = TRUE]
         /\ ext' = [ext EXCEPT ![p] = 0]

(* OnPeerDisconnected: a flapping peer gets neither a removal nor a timer. *)
(* (The lookup of the entry and its OnDisconnect are one step here.)       *)
OnPeerDisconnected(p) ==
  /\ RecordTransition(p)
  /\ IF flapping'[p] = "marked" THEN UNCHANGED <<conn, timer, ext>> ELSE OnDisconnect(p)
  /\ UNCHANGED <<removal, protected>>

(* graceTimerActive holds exactly while the state is "disconnecting".      *)
IsInGracePeriod(p) == conn[p] = "disconnecting"

(* OnReconnect: ends a grace period; a peer whose period already expired   *)
(* is declared connected again, although its removal is under way.         *)
OnReconnect(p) ==
  IF conn[p] \in {"disconnecting", "disconnected"}
    THEN /\ conn' = [conn EXCEPT ![p] = "connected"]
         /\ timer' = IF conn[p] = "disconnecting" THEN [timer EXCEPT ![p] = FALSE] ELSE timer
         /\ ext' = [ext EXCEPT ![p] = 0]
    ELSE UNCHANGED <<conn, timer, ext>>

(* OnPeerReconnected: a flapping peer's timer keeps running.               *)
OnPeerReconnected(p) ==
  /\ RecordTransition(p)
  /\ IF flapping'[p] = "marked" THEN UNCHANGED <<conn, timer, ext>> ELSE OnReconnect(p)
  /\ UNCHANGED <<removal, protected>>

(* OnCommunication restarts the timer, MaxExtensions times at most.        *)
OnCommunication(p) ==
  /\ conn[p] = "disconnecting" /\ ext[p] < MaxExtensions
  /\ ext' = [ext EXCEPT ![p] = @ + 1]
  /\ timer' = [timer EXCEPT ![p] = TRUE]
  /\ UNCHANGED <<conn, removal, recent, flapping, protected>>

(* The goroutine of the timer.                                             *)
GoRemoval(p, l) == removal' = [removal EXCEPT ![p] = l]

(* The runtime starts it.  Stopping the timer after this no longer keeps   *)
(* onGraceTimeoutInternal from running.  (A period lasts 15 seconds: the   *)
(* goroutine of the one before it has ended.)                              *)
FireTimer(p) ==
  /\ timer[p] /\ removal[p] = "none"
  /\ timer' = [timer EXCEPT ![p] = FALSE]
  /\ GoRemoval(p, "fired")
  /\ UNCHANGED <<conn, ext, recent, flapping, protected>>

(* onGraceTimeoutInternal, under the lock of the state machine.            *)
ExpireGrace(p) ==
  /\ removal[p] = "fired" /\ conn[p] = "disconnecting"
  /\ GoRemoval(p, "expired")
  /\ conn' = [conn EXCEPT ![p] = "disconnected"]
  /\ UNCHANGED <<timer, ext, recent, flapping, protected>>

(* Its double check: the peer reconnected in time.                         *)
IgnoreExpiry(p) ==
  /\ removal[p] = "fired" /\ conn[p] # "disconnecting"
  /\ GoRemoval(p, "none")
  /\ UNCHANGED <<conn, timer, ext, recent, flapping, protected>>

(* Mutant: the callback that removes the member is not called.             *)
ForgetWithoutCallback(p) ==
  /\ removal[p] = "expired"
  /\ GoRemoval(p, "none")
  /\ protected' = [protected EXCEPT ![p] = TRUE]
  /\ conn' = [conn EXCEPT ![p] = "none"]
  /\ timer' = [timer EXCEPT ![p] = FALSE]
  /\ ext' = [ext EXCEPT ![p] = 0]
  /\ UNCHANGED <<recent, flapping>>

(* onGraceTimeout: the protection period begins, and the entry is deleted, *)
(* whatever it says by now.  (A timer armed since the expiry, which would  *)
(* remove the member once more, is not followed.)                          *)
ProtectAndForget(p) ==
  /\ removal[p] = "expired"
  /\ GoRemoval(p, "remove")
  /\ protected' = [protected EXCEPT ![p] = TRUE]
  /\ conn' = [conn EXCEPT ![p] = "none"]
  /\ timer' = [timer EXCEPT ![p] = FALSE]
  /\ ext' = [ext EXCEPT ![p] = 0]
  /\ UNCHANGED <<recent, flapping>>

(* The callback's own record of the removal: protection begins anew.       *)
Protect(p) ==
  /\ removal[p] = "remove"
  /\ GoRemoval(p, "none")
  /\ protected' = [protected EXCEPT ![p] = TRUE]
  /\ UNCHANGED <<conn, timer, ext, recent, flapping>>

(* ShouldRejectAdd, which deletes an expired mark when it does not reject. *)
ShouldRejectAdd(p) == protected[p] \/ flapping[p] = "marked"

AllowAdd(p) ==
  /\ ~ShouldRejectAdd(p)
  /\ flapping' = [flapping EXCEPT ![p] = "none"]
  /\ UNCHANGED <<conn, timer, removal, ext, recent, protected>>

-----------------------------------------------------------------------------
(* The passage of time.                                                    *)

(* A transition leaves the flap window.                                    *)
WindowSlides(p) ==
  /\ recent[p] > 0
  /\ recent' = [recent EXCEPT ![p] = @ - 1]
  /\ UNCHANGED <<conn, timer, removal, ext, flapping, protected>>

(* FlappingRecovery has passed since the mark, whatever happened since.    *)
FlappingEnds(p) ==
  /\ flapping[p] = "marked"
  /\ flapping' = [flapping EXCEPT ![p] = "expired"]
  /\ UNCHANGED <<conn, timer, removal, ext, recent, protected>>

(* The periodic Cleanup deletes an expired mark.                           *)
CleanupMark(p) ==
  /\ flapping[p] = "expired"
  /\ flapping' = [flapping EXCEPT ![p] = "none"]
  /\ UNCHANGED <<conn, timer, removal, ext, recent, protected>>

ProtectionEnds(p) ==
  /\ protected[p]
  /\ protected' = [protected EXCEPT ![p] = FALSE]
  /\ UNCHANGED <<conn, timer, removal, ext, recent, flapping>>

Clock(p) == WindowSlides(p) \/ FlappingEnds(p) \/ CleanupMark(p) \/ ProtectionEnds(p)
=============================================================================
