---------------------------- MODULE AckedPublish ----------------------------
(***************************************************************************)
(* PublishWithAck of the reliable publisher (pubsub/delivery/publisher.go, *)
(* ack.go) with the peers that receive and acknowledge.                    *)
(*                                                                         *)
(* A call registers what it waits for, publishes the message with a        *)
(* request for acknowledgement in front, and waits; when it has waited     *)
(* AckTimeout it publishes again, AckRetries times.  Every peer that gets  *)
(* the message sends an acknowledgement from a goroutine of its own.       *)
(* Publications and acknowledgements may be lost, duplicated by a retry,   *)
(* late, and handled in any order; several goroutines may handle           *)
(* acknowledgements, and one may clean up old calls, while the call waits. *)
(* A channel closed twice panics, and so does a map used by two at once.   *)
(***************************************************************************)
EXTENDS Naturals, FiniteSets

CONSTANTS
  Calls,        \* calls of PublishWithAck, one message each
  Critical,     \* PublisherConfig.CriticalPeers, without duplicates
  Others,       \* other peers subscribed to the topic
  Handlers,     \* goroutines in HandleAck or CleanupPendingAcks
  RequireAll,   \* PublisherConfig.RequireAllAcks
  AckRetries,   \* PublisherConfig.AckRetries
  NoCall        \* nil

ASSUME PeersAssumption == Critical # {} /\ Critical \cap Others = {} /\ IsFiniteSet(Critical)
ASSUME ConfigAssumption == RequireAll \in BOOLEAN /\ AckRetries \in Nat
ASSUME NoCallAssumption == NoCall \notin Calls

VARIABLES
  progress,     \* how far each call is, or how it has returned
  attempt,      \* PendingAck.Attempts
  registered,   \* the calls in p.pendingAcks
  received,     \* PendingAck.ReceivedAcks
  done,         \* the calls whose PendingAck.Done is closed
  result,       \* AckResult.Success of the calls that have returned
  requests,     \* messages on their way to a peer
  heard,        \* the peers that have received each call's message
  acks,         \* acknowledgements on their way back
  handler,      \* what each handler is about to do
  crashed       \* the process has panicked

net == <<requests, heard, acks>>
avars == <<progress, attempt, registered, received, done, result, requests, heard, acks,
           handler, crashed>>

Subscribers == Critical \cup Others
Returned == {"acked", "timeout", "failed", "cancelled"}

InitAcks ==
  /\ progress = [c \in Calls |-> "none"]
  /\ attempt = [c \in Calls |-> 0]
  /\ registered = {} /\ done = {}
  /\ received = [c \in Calls |-> {}]
  /\ result = [c \in Calls |-> FALSE]
  /\ requests = {} /\ acks = {}
  /\ heard = [c \in Calls |-> {}]
  /\ handler = [h \in Handlers |-> [at |-> "idle", call |-> NoCall]]
  /\ crashed = FALSE

IsComplete(acked) ==
  IF RequireAll THEN Cardinality(acked) >= Cardinality(Critical) ELSE acked # {}

-----------------------------------------------------------------------------
(* The call.  Gossip reports success when one peer of the mesh got the     *)
(* message, so any of the subscribers may miss it.                         *)

Broadcast(c) ==
  \E to \in SUBSET Subscribers : requests' = requests \cup ({c} \X to)

PublishWithAck(c) ==
  /\ progress[c] = "none"
  /\ progress' = [progress EXCEPT ![c] = "sending"]
  /\ registered' = registered \cup {c}
  /\ UNCHANGED <<attempt, received, done, result, net, handler, crashed>>

SendRequest(c) ==
  /\ progress[c] = "sending"
  /\ progress' = [progress EXCEPT ![c] = "waiting"]
  /\ Broadcast(c)
  /\ UNCHANGED <<attempt, registered, received, done, result, heard, acks, handler, crashed>>

Return(c, how) ==
  /\ progress' = [progress EXCEPT ![c] = how]
  /\ registered' = registered \ {c}
  /\ UNCHANGED <<attempt, received, done, net, handler, crashed>>

SendFails(c) ==
  /\ progress[c] = "sending"
  /\ Return(c, "failed")
  /\ UNCHANGED result

(* Mutant: a call that saw Done is successful. *)
ReturnResultOnDone(c, how) ==
  /\ Return(c, how)
  /\ result' = [result EXCEPT ![c] = (how = "acked")]

(* GetResult looks at what has been received when the call returns. *)
ReturnResult(c, how) ==
  /\ Return(c, how)
  /\ result' = [result EXCEPT ![c] = IsComplete(received[c])]

(* Mutant: retries are not counted. *)
RetryForEver(c) ==
  /\ progress[c] = "waiting" /\ attempt[c] < AckRetries
  /\ Broadcast(c)
  /\ UNCHANGED <<progress, attempt, registered, received, done, result, heard, acks, handler, crashed>>

(* AckTimeout is over.  A retry that fails is as good as lost. *)
Retry(c) ==
  /\ progress[c] = "waiting" /\ attempt[c] < AckRetries
  /\ attempt' = [attempt EXCEPT ![c] = @ + 1]
  /\ Broadcast(c)
  /\ UNCHANGED <<progress, registered, received, done, result, heard, acks, handler, crashed>>

GiveUp(c) ==
  /\ progress[c] = "waiting" /\ attempt[c] = AckRetries
  /\ ReturnResult(c, "timeout")

Cancel(c) ==
  /\ progress[c] = "waiting"
  /\ ReturnResult(c, "cancelled")

SeeDone(c) ==
  /\ progress[c] = "waiting" /\ c \in done
  /\ ReturnResult(c, "acked")

-----------------------------------------------------------------------------
(* The peers. *)

(* ProcessIncomingMessage: the acknowledgement is sent by a goroutine.     *)
Receive(c, p) ==
  /\ <<c, p>> \in requests
  /\ requests' = requests \ {<<c, p>>}
  /\ heard' = [heard EXCEPT ![c] = @ \cup {p}]
  /\ acks' = acks \cup {<<c, p>>}
  /\ UNCHANGED <<progress, attempt, registered, received, done, result, handler, crashed>>

LoseRequest(c, p) ==
  /\ <<c, p>> \in requests
  /\ requests' = requests \ {<<c, p>>}
  /\ UNCHANGED <<progress, attempt, registered, received, done, result, heard, acks, handler, crashed>>

LoseAck(c, p) ==
  /\ <<c, p>> \in acks
  /\ acks' = acks \ {<<c, p>>}
  /\ UNCHANGED <<progress, attempt, registered, received, done, result, requests, heard, handler, crashed>>

-----------------------------------------------------------------------------
(* HandleAck and CleanupPendingAcks: both look whether Done is closed and  *)
(* close it afterwards.                                                    *)

Goto(h, at, c) == handler' = [handler EXCEPT ![h] = [at |-> at, call |-> c]]

(* Mutant: any acknowledgement completes the call. *)
AddAckAny(h, c, p) ==
  /\ handler[h].at = "idle" /\ <<c, p>> \in acks
  /\ acks' = acks \ {<<c, p>>}
  /\ IF c \in registered
       THEN received' = [received EXCEPT ![c] = @ \cup ({p} \cap Critical)] /\ Goto(h, "test", c)
       ELSE UNCHANGED <<received, handler>>
  /\ UNCHANGED <<progress, attempt, registered, done, result, requests, heard, crashed>>

(* Load the call and record the acknowledgement of a peer that counts. *)
AddAck(h, c, p) ==
  /\ handler[h].at = "idle" /\ <<c, p>> \in acks
  /\ acks' = acks \ {<<c, p>>}
  /\ IF c \in registered /\ p \in Critical
       THEN /\ received' = [received EXCEPT ![c] = @ \cup {p}]
            /\ IF IsComplete(received'[c]) THEN Goto(h, "test", c) ELSE UNCHANGED handler
       ELSE UNCHANGED <<received, handler>>
  /\ UNCHANGED <<progress, attempt, registered, done, result, requests, heard, crashed>>

(* ReceivedAcks is a map that nothing locks.  When one handler adds to it  *)
(* while another does, or while the call goes through it for its result,   *)
(* the run time may notice and end the process.  That an entry gets lost   *)
(* instead is as if its acknowledgement had been.                          *)
MapRace(c) ==
  /\ c \in registered
  /\ \E h \in Handlers, p \in Critical :
       /\ handler[h].at = "idle" /\ <<c, p>> \in acks
       /\ \/ progress[c] = "waiting"
          \/ \E g \in Handlers \ {h}, q \in Critical \ {p} :
               handler[g].at = "idle" /\ <<c, q>> \in acks
  /\ crashed' = TRUE
  /\ UNCHANGED <<progress, attempt, registered, received, done, result, net, handler>>

(* The call has been registered for longer than maxAge. *)
CleanupPendingAck(h, c) ==
  /\ handler[h].at = "idle" /\ c \in registered
  /\ registered' = registered \ {c}
  /\ Goto(h, "test", c)
  /\ UNCHANGED <<progress, attempt, received, done, result, net, crashed>>

TestDone(h) ==
  /\ handler[h].at = "test"
  /\ IF handler[h].call \in done THEN Goto(h, "idle", NoCall)
     ELSE Goto(h, "close", handler[h].call)
  /\ UNCHANGED <<progress, attempt, registered, received, done, result, net, crashed>>

CloseDone(h) ==
  /\ handler[h].at = "close"
  /\ crashed' = (handler[h].call \in done)
  /\ done' = done \cup {handler[h].call}
  /\ Goto(h, "idle", NoCall)
  /\ UNCHANGED <<progress, attempt, registered, received, result, net>>

-----------------------------------------------------------------------------
Handle(h) == TestDone(h) \/ CloseDone(h)

Finish(c) == SendRequest(c) \/ SendFails(c) \/ Retry(c) \/ GiveUp(c) \/ SeeDone(c)

AckNext ==
  /\ ~crashed
  /\ \/ \E c \in Calls : PublishWithAck(c) \/ Cancel(c) \/ Finish(c)
     \/ \E c \in Calls : MapRace(c)
     \/ \E c \in Calls, p \in Subscribers : Receive(c, p) \/ LoseRequest(c, p) \/ LoseAck(c, p)
     \/ \E h \in Handlers : Handle(h)
     \/ \E h \in Handlers, c \in Calls :
          CleanupPendingAck(h, c) \/ \E p \in Subscribers : AddAck(h, c, p)

AckSpec == InitAcks /\ [][AckNext]_avars

(* The topic answers, timers fire, and goroutines run; the network need    *)
(* not deliver anything.                                                   *)
AckFairness ==
  /\ \A c \in Calls : WF_avars(~crashed /\ Finish(c))
  /\ \A h \in Handlers : WF_avars(~crashed /\ Handle(h))

FairAckSpec == AckSpec /\ AckFairness

-----------------------------------------------------------------------------
(* Properties *)

AckTypeOK ==
  /\ progress \in [Calls -> {"none", "sending", "waiting"} \cup Returned]
  /\ attempt \in [Calls -> 0..AckRetries]
  /\ registered \subseteq Calls /\ done \subseteq Calls
  /\ received \in [Calls -> SUBSET Critical]
  /\ result \in [Calls -> BOOLEAN]
  /\ requests \subseteq Calls \X Subscribers /\ acks \subseteq Calls \X Subscribers
  /\ heard \in [Calls -> SUBSET Subscribers]
  /\ handler \in [Handlers -> [at : {"idle", "test", "close"}, call : Calls \cup {NoCall}]]
  /\ crashed \in BOOLEAN

Outcome(c) ==
  IF progress[c] \notin Returned THEN "none" ELSE IF result[c] THEN "success" ELSE "failure"

AP == INSTANCE AckPromise WITH
        reached <- [c \in Calls |-> heard[c] \cap Critical],
        outcome <- [c \in Calls |-> Outcome(c)]

(* A result that says success was earned: the critical peers required have *)
(* received the message, whatever was lost, late or acknowledged by others *)
(* (doc.go: a successful result means the critical peers have confirmed).  *)
ResultIsEarned == AP!Spec

(* While a call waits, Done says what its entry says: it is closed only    *)
(* when enough critical peers have acknowledged, and never because of an   *)
(* acknowledgement from another peer, from another call, or from the clean *)
(* up of an entry that is not its own.                                     *)
DoneMeansComplete ==
  \A c \in done \cap registered : IsComplete(received[c])

(* Every call returns, also when nothing is ever acknowledged.             *)
AckCallsReturn ==
  \A c \in Calls : progress[c] = "sending" ~> (progress[c] \in Returned \/ crashed)
=============================================================================
