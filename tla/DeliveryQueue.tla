--------------------------- MODULE DeliveryQueue ---------------------------
(***************************************************************************)
(* The reliable publisher's queue (pubsub/delivery/publisher.go, queue.go) *)
(* and the topic it is wrapped around (pubsub/reliable.go).                *)
(*                                                                         *)
(* Publish hands a message to the topic and queues it when that fails.  A  *)
(* loop takes messages out of the queue again, hands them to the topic,    *)
(* and puts back what fails until it has been tried MaxAttempts times; an  *)
(* application may run the same flush itself.  The queue has a lock for    *)
(* each single call; a message being handed to the topic is in nobody's    *)
(* sight but the caller's.  A full queue drops its oldest message, and a   *)
(* message that has waited too long is dropped when the front of the queue *)
(* is next looked at.                                                      *)
(*                                                                         *)
(* Messages are numbered in the order Publish received them.  A message    *)
(* ages from the moment it is first queued, which for one that the topic   *)
(* was slow to refuse is later than its number says.                       *)
(***************************************************************************)
EXTENDS Naturals, Sequences, FiniteSets

CONSTANTS
  MaxMsgs,      \* bound: messages published
  MaxSize,      \* QueueConfig.MaxSize
  MaxAttempts,  \* QueueConfig.MaxAttempts
  BatchSize     \* PublisherConfig.FlushBatchSize

ASSUME SizeAssumption == MaxMsgs \in Nat /\ MaxSize \in Nat \ {0}
ASSUME AttemptAssumption == MaxAttempts \in Nat \ {0} /\ BatchSize \in Nat \ {0}

Msgs == 1..MaxMsgs
NoMsg == 0

VARIABLES
  created,      \* number of messages published so far
  dated,        \* the messages in the order of their QueuedAt
  old,          \* the messages that were queued longer ago than MaxAge
  call,         \* how far the call of Publish for each message is
  queue,        \* MessageQueue.queue
  since,        \* history: what was queued while each message waited in the queue
  attempts,     \* QueuedMessage.Attempts
  flush,        \* the flush in progress: p.flushing, its caller and its place
  told,         \* statuses the callbacks were called with
  sent,         \* how often the topic has sent each message
  tries,        \* how often each message was handed to the topic
  loop,         \* whether p.ctx is live, cancelled, and flushLoop has ended
  topic         \* the topic under the publisher, and whether it is joined anew

qvars == <<created, dated, old, call, queue, since, attempts, flush, told, sent, tries, loop, topic>>

NoFlush == [at |-> "none", by |-> "nobody", msg |-> NoMsg, left |-> 0]

InitQueue ==
  /\ created = 0 /\ dated = <<>> /\ old = {}
  /\ call = [m \in Msgs |-> "none"]
  /\ queue = <<>>
  /\ since = [m \in Msgs |-> {}]
  /\ attempts = [m \in Msgs |-> 0]
  /\ flush = NoFlush
  /\ told = [m \in Msgs |-> {}]
  /\ sent = [m \in Msgs |-> 0]
  /\ tries = [m \in Msgs |-> 0]
  /\ loop = "running" /\ topic = "open"

InQueue(m) == \E i \in DOMAIN queue : queue[i] = m

Tell(m, status) == told' = [told EXCEPT ![m] = @ \cup {status}]

-----------------------------------------------------------------------------
(* MessageQueue *)

(* Mutant: the front is lost one message too early. *)
PushedEarly(m) == Append(IF Len(queue) + 1 >= MaxSize THEN Tail(queue) ELSE queue, m)

(* A full queue loses its front. *)
Pushed(m) == Append(IF Len(queue) >= MaxSize THEN Tail(queue) ELSE queue, m)

Enqueue(m) ==
  /\ queue' = Pushed(m)
  /\ since' = [k \in Msgs |-> IF InQueue(k) THEN since[k] \cup {m} ELSE since[k]]

(* A message is queued for the first time. *)
EnqueueNew(m) == Enqueue(m) /\ dated' = Append(dated, m)

(* What cleanupExpiredLocked leaves: it stops at the first message that is *)
(* not too old, so that one put back behind a younger one survives.        *)
Unexpired ==
  LET fresh == {i \in DOMAIN queue : queue[i] \notin old}
      first == CHOOSE i \in fresh : \A j \in fresh : i <= j
  IN IF fresh = {} THEN <<>> ELSE SubSeq(queue, first, Len(queue))

(* Time passes, and the next message in order of age is too old. *)
Expire ==
  /\ \E i \in DOMAIN dated :
       /\ dated[i] \notin old /\ \A j \in 1..(i - 1) : dated[j] \in old
       /\ old' = old \cup {dated[i]}
  /\ UNCHANGED <<created, dated, call, queue, since, attempts, flush, told, sent, tries, loop, topic>>

-----------------------------------------------------------------------------
(* Publish and PublishQueued *)

(* A closed topic refuses the message at once. *)
Publish ==
  LET m == created + 1 IN
  /\ m \in Msgs
  /\ created' = m
  /\ call' = [call EXCEPT ![m] = IF topic = "open" THEN "sending" ELSE "refused"]
  /\ tries' = [tries EXCEPT ![m] = @ + 1]
  /\ UNCHANGED <<dated, old, queue, since, attempts, flush, told, sent, loop, topic>>

PublishQueued ==
  LET m == created + 1 IN
  /\ m \in Msgs
  /\ created' = m
  /\ call' = [call EXCEPT ![m] = "done"]
  /\ EnqueueNew(m)
  /\ Tell(m, "queued")
  /\ UNCHANGED <<old, attempts, flush, sent, tries, loop, topic>>

SendDirect(m) ==
  /\ call[m] = "sending"
  /\ call' = [call EXCEPT ![m] = "done"]
  /\ sent' = [sent EXCEPT ![m] = @ + 1]
  /\ Tell(m, "sent")
  /\ UNCHANGED <<created, dated, old, queue, since, attempts, flush, tries, loop, topic>>

QueueFailed(m) ==
  /\ call[m] \in {"sending", "refused"}
  /\ call' = [call EXCEPT ![m] = "done"]
  /\ EnqueueNew(m)
  /\ Tell(m, "queued")
  /\ UNCHANGED <<created, old, attempts, flush, sent, tries, loop, topic>>

-----------------------------------------------------------------------------
(* FlushQueue, one at a time whoever calls it *)

BeginFlush(by) ==
  /\ flush = NoFlush
  /\ flush' = [NoFlush EXCEPT !.at = "take", !.by = by, !.left = BatchSize]
  /\ UNCHANGED <<created, dated, old, call, queue, since, attempts, told, sent, tries, loop, topic>>

(* Mutant: the loop waits until a batch is full. *)
LoopTickFull == loop = "running" /\ Len(queue) >= BatchSize /\ BeginFlush("loop")

LoopTick == loop = "running" /\ queue # <<>> /\ BeginFlush("loop")

FlushByApp == queue # <<>> /\ BeginFlush("app")

Cancelled == flush.by = "loop" /\ loop # "running"

EndFlush ==
  /\ flush.at = "take"
  /\ flush.left = 0 \/ Cancelled
  /\ flush' = NoFlush
  /\ UNCHANGED <<created, dated, old, call, queue, since, attempts, told, sent, tries, loop, topic>>

(* Mutant: the message stays in the queue while it is sent. *)
TakePeek ==
  /\ flush.at = "take" /\ flush.left > 0 /\ ~Cancelled
  /\ queue' = Unexpired
  /\ IF Unexpired = <<>>
       THEN flush' = NoFlush /\ tries' = tries
       ELSE LET m == Head(Unexpired) IN
            /\ flush' = [flush EXCEPT !.at = IF topic = "open" THEN "sending" ELSE "refused",
                                      !.msg = m]
            /\ tries' = [tries EXCEPT ![m] = @ + 1]
  /\ UNCHANGED <<created, dated, old, call, since, attempts, told, sent, loop, topic>>

(* Dequeue *)
Take ==
  /\ flush.at = "take" /\ flush.left > 0 /\ ~Cancelled
  /\ IF Unexpired = <<>>
       THEN queue' = <<>> /\ flush' = NoFlush /\ UNCHANGED <<since, tries>>
       ELSE LET m == Head(Unexpired) IN
            /\ queue' = Tail(Unexpired)
            /\ since' = [since EXCEPT ![m] = {}]
            /\ flush' = [flush EXCEPT !.at = IF topic = "open" THEN "sending" ELSE "refused",
                                      !.msg = m]
            /\ tries' = [tries EXCEPT ![m] = @ + 1]
  /\ UNCHANGED <<created, dated, old, call, attempts, told, sent, loop, topic>>

NextMessage == flush' = [flush EXCEPT !.at = "take", !.msg = NoMsg, !.left = @ - 1]

FlushSend ==
  /\ flush.at = "sending"
  /\ sent' = [sent EXCEPT ![flush.msg] = @ + 1]
  /\ Tell(flush.msg, "sent")
  /\ NextMessage
  /\ UNCHANGED <<created, dated, old, call, queue, since, attempts, tries, loop, topic>>

(* Mutant: a message is dropped one attempt too late. *)
FlushFailLate ==
  LET m == flush.msg IN
  /\ flush.at \in {"sending", "refused"}
  /\ attempts' = [attempts EXCEPT ![m] = @ + 1]
  /\ IF attempts'[m] > MaxAttempts
       THEN Tell(m, "dropped") /\ UNCHANGED <<queue, since>>
       ELSE Tell(m, "failed") /\ Enqueue(m)
  /\ NextMessage
  /\ UNCHANGED <<created, dated, old, call, sent, tries, loop, topic>>

(* Mutant: a message reported as dropped goes back to the queue. *)
FlushFailRequeues ==
  LET m == flush.msg IN
  /\ flush.at \in {"sending", "refused"} /\ attempts[m] < MaxAttempts
  /\ attempts' = [attempts EXCEPT ![m] = @ + 1]
  /\ Tell(m, IF attempts'[m] >= MaxAttempts THEN "dropped" ELSE "failed")
  /\ Enqueue(m)
  /\ NextMessage
  /\ UNCHANGED <<created, dated, old, call, sent, tries, loop, topic>>

FlushFail ==
  LET m == flush.msg IN
  /\ flush.at \in {"sending", "refused"}
  /\ attempts' = [attempts EXCEPT ![m] = @ + 1]
  /\ IF attempts'[m] >= MaxAttempts
       THEN Tell(m, "dropped") /\ UNCHANGED <<queue, since>>
       ELSE Tell(m, "failed") /\ Enqueue(m)
  /\ NextMessage
  /\ UNCHANGED <<created, dated, old, call, sent, tries, loop, topic>>

-----------------------------------------------------------------------------
(* The topic is closed: first the publisher stops, and waits for its loop. *)

CloseTopic ==
  /\ loop = "running"
  /\ loop' = "cancelled"
  /\ UNCHANGED <<created, dated, old, call, queue, since, attempts, flush, told, sent, tries, topic>>

LoopExit ==
  /\ loop = "cancelled" /\ flush.by # "loop"
  /\ loop' = "ended" /\ topic' = "closed"
  /\ UNCHANGED <<created, dated, old, call, queue, since, attempts, flush, told, sent, tries>>

(* Joining it again yields the wrapper kept in ReliableTopicManager.topics, *)
(* which still publishes to the topic that was closed.                      *)
JoinAgain ==
  /\ topic = "closed"
  /\ topic' = "rejoined"
  /\ UNCHANGED <<created, dated, old, call, queue, since, attempts, flush, told, sent, tries, loop>>

-----------------------------------------------------------------------------
Flush == EndFlush \/ Take \/ FlushSend \/ FlushFail

QueueNext ==
  \/ Expire
  \/ Publish \/ PublishQueued
  \/ \E m \in Msgs : SendDirect(m) \/ QueueFailed(m)
  \/ LoopTick \/ FlushByApp \/ Flush
  \/ CloseTopic \/ LoopExit \/ JoinAgain

QueueSpec == InitQueue /\ [][QueueNext]_qvars

(* The topic answers every call, the loop ticks, and goroutines run. *)
QueueFairness ==
  /\ \A m \in Msgs : WF_qvars(SendDirect(m) \/ QueueFailed(m))
  /\ WF_qvars(LoopTick) /\ WF_qvars(Flush) /\ WF_qvars(LoopExit)

FairQueueSpec == QueueSpec /\ QueueFairness

-----------------------------------------------------------------------------
(* Properties *)

QueueTypeOK ==
  /\ created \in 0..MaxMsgs /\ dated \in Seq(Msgs) /\ old \subseteq Msgs
  /\ call \in [Msgs -> {"none", "sending", "refused", "done"}]
  /\ queue \in Seq(Msgs) /\ Len(queue) <= MaxSize
  /\ since \in [Msgs -> SUBSET Msgs]
  /\ attempts \in [Msgs -> 0..MaxAttempts]
  /\ flush \in [at : {"none", "take", "sending", "refused"}, by : {"nobody", "loop", "app"},
                msg : Msgs \cup {NoMsg}, left : 0..BatchSize]
  /\ told \in [Msgs -> SUBSET {"queued", "sent", "failed", "dropped"}]
  /\ sent \in [Msgs -> Nat] /\ tries \in [Msgs -> Nat]
  /\ loop \in {"running", "cancelled", "ended"}
  /\ topic \in {"open", "closed", "rejoined"}

(* What has become of a message. *)
Fate(m) ==
  CASE sent[m] > 0 -> "sent"
    [] "dropped" \in told[m] /\ sent[m] = 0 -> "dropped"
    [] sent[m] = 0 /\ "dropped" \notin told[m] /\ call[m] = "done" ->
         IF InQueue(m) \/ flush.msg = m THEN "accepted" ELSE "lost"
    [] OTHER -> "new"

MF == INSTANCE MessageFate WITH fate <- [m \in Msgs |-> Fate(m)]

(* A message is accepted, and then sent, given up or lost for good: one    *)
(* that was reported dropped is not sent later, and one pushed out of the  *)
(* queue does not come back (publisher.go, Publish and FlushQueue).        *)
FatesAreFinal == MF!Spec

(* The topic sends a message once, however often it was tried: never from  *)
(* Publish and from the queue, nor from two flushes.                       *)
SentOnce ==
  \A m \in Msgs :
    /\ sent[m] <= 1
    /\ sent[m] = 1 => ~InQueue(m) /\ flush.msg # m /\ call[m] = "done"

(* Each try that fails costs local subscribers a duplicate, because gossip *)
(* delivers to them before it forwards: a message is handed to the topic   *)
(* at most once by Publish and MaxAttempts times by flushes, however often *)
(* it went through the queue.                                              *)
TriesBounded == \A m \in Msgs : tries[m] <= MaxAttempts + 1

(* A message that was accepted and then lost without a word was too old,   *)
(* or as many others as the queue holds were queued while it was waiting   *)
(* there for the last time.                                                *)
LossHasCause ==
  \A m \in Msgs :
    Fate(m) = "lost" /\ m \notin old => m \notin since[m] /\ Cardinality(since[m]) >= MaxSize

(* While the loop runs, no message stays in the queue for ever, even if    *)
(* the topic never succeeds.                                               *)
QueueDrains ==
  \A m \in Msgs : InQueue(m) ~> (Fate(m) \in MF!Final \/ loop # "running")
=============================================================================
