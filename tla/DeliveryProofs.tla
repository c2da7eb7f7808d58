--------------------------- MODULE DeliveryProofs ---------------------------
(***************************************************************************)
(* The safety of the reliable publisher's queue, for any number of         *)
(* messages, size of the queue, number of attempts and batch size.         *)
(*                                                                         *)
(* Everything rests on one fact about where a message is (MessageInv): in  *)
(* the queue, in the hands of the flush, or in neither, and once accepted  *)
(* and in neither it never returns.  The queue's operations are dealt with *)
(* in lemmas of their own: what Pushed and Unexpired leave of the queue,   *)
(* and what they lose.                                                     *)
(*                                                                         *)
(* The safety of PublishWithAck, for any calls, peers, handlers and        *)
(* retries, and for both settings of RequireAllAcks.                       *)
(*                                                                         *)
(* A result is earned because an acknowledgement exists only of a peer     *)
(* that has received the message (Earned).  Done means complete because a  *)
(* handler that is about to close it holds either a complete call or one   *)
(* that is registered no more and will not be again (Closing, Fresh).      *)
(***************************************************************************)
EXTENDS DeliveryQueue, AckedPublish, FiniteSetTheorems, FunctionTheorems, SequenceTheorems,
        WellFoundedInduction, TLAPS

Elems(q) == {q[i] : i \in DOMAIN q}

Distinct(q) == \A i, j \in DOMAIN q : q[i] = q[j] => i = j

(* The queue and the flush hold different messages, each once. *)
Places ==
  /\ Distinct(queue)
  /\ flush.at \in {"sending", "refused"} <=> flush.msg # NoMsg
  /\ flush.msg # NoMsg => flush.left > 0 /\ ~InQueue(flush.msg)

Waiting(m) == InQueue(m) \/ flush.msg = m

MessageInv(m) ==
  /\ m > created => call[m] = "none"
  /\ call[m] # "done" => /\ ~Waiting(m)
                         /\ sent[m] = 0 /\ told[m] = {} /\ attempts[m] = 0 /\ tries[m] <= 1
  /\ call[m] = "none" => tries[m] = 0
  /\ Waiting(m) => /\ sent[m] = 0 /\ "dropped" \notin told[m] /\ "queued" \in told[m]
                   /\ attempts[m] < MaxAttempts
                   /\ tries[m] <= attempts[m] + (IF flush.msg = m THEN 2 ELSE 1)
  /\ sent[m] <= 1 /\ tries[m] <= MaxAttempts + 1

QueueInv == QueueTypeOK /\ Places /\ \A m \in Msgs : MessageInv(m)

-----------------------------------------------------------------------------
(* What a queue loses at its front, and gains at its end. *)

LEMMA InQueueElems == \A m : InQueue(m) <=> m \in Elems(queue)
BY DEF InQueue, Elems

LEMMA TailElems ==
  ASSUME NEW q \in Seq(Msgs), q # <<>>, Distinct(q)
  PROVE  /\ Tail(q) \in Seq(Msgs) /\ Len(Tail(q)) = Len(q) - 1
         /\ Head(q) \in Msgs
         /\ Distinct(Tail(q))
         /\ Elems(Tail(q)) = Elems(q) \ {Head(q)}
<1>1. /\ Tail(q) \in Seq(Msgs) /\ Len(Tail(q)) = Len(q) - 1
      /\ Head(q) = q[1] /\ Len(q) \in Nat /\ Len(q) > 0
      /\ \A i \in 1..Len(Tail(q)) : Tail(q)[i] = q[i + 1]
  BY HeadTailProperties, EmptySeq, LenProperties
<1>2. DOMAIN q = 1..Len(q) /\ DOMAIN Tail(q) = 1..(Len(q) - 1)
  BY <1>1
<1>3. Distinct(Tail(q))
  BY <1>1, <1>2 DEF Distinct
<1>4. Elems(Tail(q)) \subseteq Elems(q) \ {Head(q)}
  BY <1>1, <1>2 DEF Elems, Distinct
<1>5. ASSUME NEW x \in Elems(q) \ {Head(q)}
      PROVE  x \in Elems(Tail(q))
  <2>1. PICK i \in 1..Len(q) : x = q[i] /\ i # 1
    BY <1>1, <1>2, <1>5 DEF Elems
  <2>2. i - 1 \in 1..(Len(q) - 1) /\ Tail(q)[i - 1] = q[i]
    BY <1>1, <2>1
  <2> QED
    BY <1>2, <2>1, <2>2 DEF Elems
<1> QED
  BY <1>1, <1>3, <1>4, <1>5, ElementOfSeq

LEMMA AppendElems ==
  ASSUME NEW q \in Seq(Msgs), NEW m \in Msgs, Distinct(q), m \notin Elems(q)
  PROVE  /\ Append(q, m) \in Seq(Msgs) /\ Len(Append(q, m)) = Len(q) + 1
         /\ Distinct(Append(q, m))
         /\ Elems(Append(q, m)) = Elems(q) \cup {m}
<1>1. /\ Append(q, m) \in Seq(Msgs) /\ Len(Append(q, m)) = Len(q) + 1 /\ Len(q) \in Nat
      /\ \A i \in 1..Len(q) : Append(q, m)[i] = q[i]
      /\ Append(q, m)[Len(q) + 1] = m
  BY AppendProperties, LenProperties
<1>2. DOMAIN q = 1..Len(q) /\ DOMAIN Append(q, m) = 1..(Len(q) + 1)
  BY <1>1
<1>3. \A i \in 1..Len(q) : q[i] # m
  BY <1>2 DEF Elems
<1>4. Distinct(Append(q, m))
  BY <1>1, <1>2, <1>3 DEF Distinct
<1>5. Elems(Append(q, m)) = Elems(q) \cup {m}
  <2>1. \A i \in 1..(Len(q) + 1) : i \in 1..Len(q) \/ i = Len(q) + 1
    BY <1>1
  <2>2. Elems(Append(q, m)) \subseteq Elems(q) \cup {m}
    BY <1>1, <1>2, <2>1 DEF Elems
  <2>3. ASSUME NEW x \in Elems(q)
        PROVE  x \in Elems(Append(q, m))
    BY <1>1, <1>2 DEF Elems
  <2>4. m \in Elems(Append(q, m))
    BY <1>1, <1>2 DEF Elems
  <2> QED
    BY <2>2, <2>3, <2>4
<1> QED
  BY <1>1, <1>4, <1>5

(* Enqueue: the message is there afterwards, and if the queue was full its *)
(* front is not.                                                           *)
LEMMA PushedElems ==
  ASSUME NEW m \in Msgs, queue \in Seq(Msgs), Len(queue) <= MaxSize, Distinct(queue), ~InQueue(m)
  PROVE  /\ Pushed(m) \in Seq(Msgs) /\ Len(Pushed(m)) <= MaxSize
         /\ Distinct(Pushed(m))
         /\ m \in Elems(Pushed(m)) /\ Elems(Pushed(m)) \subseteq Elems(queue) \cup {m}
         /\ Len(queue) < MaxSize => Elems(queue) \subseteq Elems(Pushed(m))
         /\ Elems(queue) \ {Head(queue)} \subseteq Elems(Pushed(m))
<1>0. Len(queue) \in Nat /\ m \notin Elems(queue)
  BY InQueueElems, LenProperties
<1>1. CASE Len(queue) >= MaxSize
  <2>1. queue # <<>>
    BY <1>1, SizeAssumption, EmptySeq
  <2>2. /\ Tail(queue) \in Seq(Msgs) /\ Len(Tail(queue)) = Len(queue) - 1
        /\ Distinct(Tail(queue)) /\ Elems(Tail(queue)) \subseteq Elems(queue)
        /\ Elems(queue) \ {Head(queue)} \subseteq Elems(Tail(queue))
    <3>1. Elems(Tail(queue)) = Elems(queue) \ {Head(queue)}
      BY <2>1, TailElems
    <3> QED
      BY <2>1, <3>1, TailElems
  <2>3. Pushed(m) = Append(Tail(queue), m)
    BY <1>1 DEF Pushed
  <2>4. m \notin Elems(Tail(queue))
    BY <1>0, <2>2
  <2>5. /\ Pushed(m) \in Seq(Msgs) /\ Len(Pushed(m)) = Len(queue) - 1 + 1
        /\ Distinct(Pushed(m)) /\ Elems(Pushed(m)) = Elems(Tail(queue)) \cup {m}
    BY <2>2, <2>3, <2>4, AppendElems
  <2>6. Len(Pushed(m)) <= MaxSize /\ ~(Len(queue) < MaxSize)
    BY <1>0, <1>1, <2>5, SizeAssumption
  <2> QED
    BY <2>2, <2>5, <2>6
<1>2. CASE ~(Len(queue) >= MaxSize)
  <2>1. Pushed(m) = Append(queue, m)
    BY <1>2 DEF Pushed
  <2> QED
    BY <1>0, <1>2, <2>1, AppendElems, SizeAssumption
<1> QED
  BY <1>1, <1>2

LEMMA LeastOf ==
  ASSUME NEW T \in SUBSET Nat, T # {}
  PROVE  \E x \in T : \A y \in T : x <= y
<1>1. PICK x \in T : \A y \in T : ~ (<<y, x>> \in OpToRel(<, Nat))
  BY WFMin, NatLessThanWellFounded
<1>2. \A y \in T : ~ (y < x)
  BY <1>1 DEF OpToRel
<1> QED
  BY <1>2

(* cleanupExpiredLocked: what is gone was too old. *)
LEMMA UnexpiredElems ==
  ASSUME queue \in Seq(Msgs), Distinct(queue)
  PROVE  /\ Unexpired \in Seq(Msgs) /\ Len(Unexpired) <= Len(queue)
         /\ Distinct(Unexpired)
         /\ Elems(Unexpired) \subseteq Elems(queue)
         /\ \A m \in Elems(queue) \ Elems(Unexpired) : m \in old
<1> DEFINE fresh == {i \in DOMAIN queue : queue[i] \notin old}
           first == CHOOSE i \in fresh : \A j \in fresh : i <= j
<1>0. Len(queue) \in Nat /\ DOMAIN queue = 1..Len(queue) /\ \A i \in 1..Len(queue) : queue[i] \in Msgs
  BY LenProperties, ElementOfSeq
<1>1. CASE fresh = {}
  <2>1. Unexpired = <<>>
    BY <1>1 DEF Unexpired
  <2>2. \A i \in DOMAIN queue : queue[i] \in old
    BY <1>1
  <2>3. Elems(<<>>) = {}
    BY DEF Elems
  <2> QED
    BY <1>0, <2>1, <2>2, <2>3, EmptySeq DEF Elems, Distinct
<1>2. CASE fresh # {}
  <2>1. first \in fresh /\ \A j \in fresh : first <= j
    <3>1. fresh \in SUBSET Nat
      BY <1>0
    <3> QED
      BY <1>2, <3>1, LeastOf
  <2>2. Unexpired = SubSeq(queue, first, Len(queue))
    BY <1>2 DEF Unexpired
  <2>3. first \in 1..Len(queue)
    BY <1>0, <2>1
  <2> HIDE DEF first
  <2>4. /\ Unexpired \in Seq(Msgs) /\ Len(Unexpired) = Len(queue) - first + 1
        /\ \A i \in 1..(Len(queue) - first + 1) : Unexpired[i] = queue[first + i - 1]
    <3>1. /\ first \in Int /\ Len(queue) \in Int /\ first <= Len(queue)
          /\ \A i \in first..Len(queue) : queue[i] \in Msgs
      BY <1>0, <2>3
    <3> QED
      BY <2>2, <3>1, SubSeqProperties
  <2>5. DOMAIN Unexpired = 1..(Len(queue) - first + 1)
    BY <2>4, LenProperties
  <2>a. \A i \in DOMAIN Unexpired : first + i - 1 \in DOMAIN queue /\ Unexpired[i] = queue[first + i - 1]
    <3> SUFFICES ASSUME NEW i \in 1..(Len(queue) - first + 1)
                 PROVE  first + i - 1 \in DOMAIN queue /\ Unexpired[i] = queue[first + i - 1]
      BY <2>5
    <3>1. first + i - 1 \in 1..Len(queue)
      BY <1>0, <2>3
    <3> QED
      BY <1>0, <2>4, <3>1
  <2>6. Distinct(Unexpired)
    <3> SUFFICES ASSUME NEW i \in DOMAIN Unexpired, NEW j \in DOMAIN Unexpired,
                        Unexpired[i] = Unexpired[j]
                 PROVE  i = j
      BY DEF Distinct
    <3>1. first + i - 1 = first + j - 1
      BY <2>a DEF Distinct
    <3> QED
      BY <1>0, <2>3, <2>5, <3>1
  <2>7. Elems(Unexpired) \subseteq Elems(queue)
    BY <2>a DEF Elems
  <2>8. ASSUME NEW m \in Elems(queue), m \notin old
        PROVE  m \in Elems(Unexpired)
    <3>1. PICK i \in fresh : m = queue[i]
      BY <2>8 DEF Elems
    <3>2. i \in 1..Len(queue) /\ first <= i
      BY <1>0, <2>1
    <3>3. i - first + 1 \in 1..(Len(queue) - first + 1) /\ Unexpired[i - first + 1] = queue[i]
      <4>1. first \in Int /\ i \in Int /\ Len(queue) \in Int
        BY <1>0, <2>3, <3>2
      <4>2. i - first + 1 \in 1..(Len(queue) - first + 1) /\ first + (i - first + 1) - 1 = i
        BY ONLY <3>2, <4>1
      <4> QED
        BY ONLY <2>4, <4>2
    <3> QED
      BY <2>5, <3>1, <3>3 DEF Elems
  <2> QED
    BY <1>0, <2>3, <2>4, <2>6, <2>7, <2>8
<1> QED
  BY <1>1, <1>2

-----------------------------------------------------------------------------
(* The invariant, action by action. *)

LEMMA InitQueueInv == InitQueue => QueueInv
<1> SUFFICES ASSUME InitQueue
             PROVE  QueueInv
  OBVIOUS
<1>1. queue = <<>> /\ queue \in Seq(Msgs) /\ Len(queue) = 0
  BY EmptySeq DEF InitQueue
<1>2. QueueTypeOK
  BY <1>1, SizeAssumption, AttemptAssumption DEF InitQueue, QueueTypeOK, NoFlush, NoMsg
<1>3. \A m \in Msgs : ~Waiting(m)
  BY <1>1 DEF InitQueue, NoFlush, NoMsg, Msgs, Waiting, InQueue
<1>4. Places
  BY <1>1 DEF Places, Distinct, InitQueue, NoFlush
<1>5. \A m \in Msgs : MessageInv(m)
  BY <1>3, AttemptAssumption DEF MessageInv, InitQueue
<1> QED
  BY <1>2, <1>4, <1>5 DEF QueueInv

(* The age of each message, and what was queued while it waited. *)
HistoryOK == dated \in Seq(Msgs) /\ old \subseteq Msgs /\ since \in [Msgs -> SUBSET Msgs]

LEMMA EnqueueHistory ==
  ASSUME QueueTypeOK, NEW m \in Msgs, Enqueue(m)
  PROVE  since' \in [Msgs -> SUBSET Msgs]
BY DEF QueueTypeOK, Enqueue

LEMMA NextHistory ==
  ASSUME QueueInv, [QueueNext]_qvars
  PROVE  HistoryOK'
<1>0. /\ dated \in Seq(Msgs) /\ old \subseteq Msgs /\ since \in [Msgs -> SUBSET Msgs]
      /\ created + 1 \in Msgs \/ ~(Publish \/ PublishQueued)
      /\ QueueTypeOK
  BY DEF QueueInv, QueueTypeOK, Publish, PublishQueued
<1>1. CASE Expire
  <2>1. \A i \in DOMAIN dated : dated[i] \in Msgs
    BY <1>0, ElementOfSeq, LenProperties
  <2> QED
    BY <1>0, <1>1, <2>1 DEF Expire, HistoryOK
<1>2. ASSUME NEW m \in Msgs, EnqueueNew(m), UNCHANGED old
      PROVE  HistoryOK'
  BY <1>0, <1>2, EnqueueHistory, AppendProperties DEF EnqueueNew, HistoryOK
<1>3. CASE FlushFail
  <2>1. UNCHANGED <<dated, old>> /\ (UNCHANGED since \/ Enqueue(flush.msg))
    BY <1>3 DEF FlushFail
  <2>2. flush.msg \in Msgs
    BY <1>3 DEF FlushFail, QueueInv, QueueTypeOK, Places
  <2> QED
    BY <1>0, <2>1, <2>2, EnqueueHistory DEF HistoryOK
<1>4. CASE Take
  BY <1>0, <1>4 DEF Take, HistoryOK
<1> QED
  BY <1>0, <1>1, <1>2, <1>3, <1>4 DEF HistoryOK, QueueNext, Flush, qvars, Publish, PublishQueued,
     SendDirect, QueueFailed, LoopTick, FlushByApp, BeginFlush, EndFlush, FlushSend, CloseTopic,
     LoopExit, JoinAgain

(* A step that moves no message keeps where each of them is. *)
LEMMA SamePlaces ==
  ASSUME Places, UNCHANGED <<queue, flush>>
  PROVE  Places' /\ \A m : InQueue(m)' = InQueue(m) /\ Waiting(m)' = Waiting(m)
BY DEF Places, Distinct, Waiting, InQueue

(* Publish and PublishQueued queue a message that is nowhere yet. *)
LEMMA EnqueueInv ==
  ASSUME QueueInv, NEW m \in Msgs, call[m] # "done",
         call' = [call EXCEPT ![m] = "done"], queue' = Pushed(m), Tell(m, "queued"),
         created' \in created..MaxMsgs, created' >= m, HistoryOK',
         UNCHANGED <<attempts, flush, sent, tries, loop, topic>>
  PROVE  QueueInv'
<1> USE DEF QueueInv, HistoryOK
<1>0. ~InQueue(m) /\ flush.msg # m
  BY DEF MessageInv, Waiting
<1>1. /\ Pushed(m) \in Seq(Msgs) /\ Len(Pushed(m)) <= MaxSize /\ Distinct(Pushed(m))
      /\ m \in Elems(Pushed(m)) /\ Elems(Pushed(m)) \subseteq Elems(queue) \cup {m}
  BY <1>0, PushedElems DEF QueueTypeOK, Places
<1>2. \A n : InQueue(n)' <=> n \in Elems(queue')
  BY DEF InQueue, Elems
<1>3. \A n : n # m => (InQueue(n)' => InQueue(n)) /\ (Waiting(n)' => Waiting(n))
  BY <1>1, <1>2, InQueueElems DEF Waiting
<1>4. QueueTypeOK'
  <2>1. created' \in 0..MaxMsgs
    BY SizeAssumption DEF QueueTypeOK
  <2>2. told' \in [Msgs -> SUBSET {"queued", "sent", "failed", "dropped"}]
    BY DEF QueueTypeOK, Tell
  <2> QED
    BY <1>1, <2>1, <2>2 DEF QueueTypeOK, HistoryOK
<1>5. Places'
  BY <1>0, <1>1, <1>3 DEF Places
<1>6. ASSUME NEW n \in Msgs
      PROVE  MessageInv(n)'
  <2>1. CASE n = m
    <3>1. /\ call'[m] = "done" /\ told'[m] = told[m] \cup {"queued"} /\ flush'.msg # m
          /\ ~(m > created')
      BY <1>0, SizeAssumption DEF QueueTypeOK, Tell, Msgs
    <3>2. sent[m] = 0 /\ told[m] = {} /\ attempts[m] = 0 /\ tries[m] <= 1 /\ tries[m] \in Nat
      BY DEF MessageInv, QueueTypeOK
    <3> QED
      BY <2>1, <3>1, <3>2, AttemptAssumption DEF MessageInv
  <2>2. CASE n # m
    <3>1. /\ call'[n] = call[n] /\ told'[n] = told[n]
          /\ n > created' => n > created
      BY <2>2, SizeAssumption DEF QueueTypeOK, Tell, Msgs
    <3> QED
      BY <1>3, <2>2, <3>1 DEF MessageInv
  <2> QED
    BY <2>1, <2>2
<1> QED
  BY <1>4, <1>5, <1>6

LEMMA PublishInv ==
  ASSUME QueueInv, HistoryOK', Publish \/ PublishQueued
  PROVE  QueueInv'
<1> DEFINE m == created + 1
<1> USE DEF QueueInv, HistoryOK
<1>1. m \in Msgs /\ call[m] = "none" /\ tries[m] = 0
  BY DEF Publish, PublishQueued, MessageInv, QueueTypeOK
<1>2. created' = m /\ created' \in created..MaxMsgs /\ created' >= m
  BY <1>1 DEF Publish, PublishQueued, QueueTypeOK, Msgs
<1>3. CASE PublishQueued
  BY <1>1, <1>2, <1>3, EnqueueInv DEF PublishQueued, EnqueueNew, Enqueue
<1>4. CASE Publish
  <2>1. /\ call' \in [Msgs -> {"none", "sending", "refused", "done"}]
        /\ tries' = [tries EXCEPT ![m] = @ + 1]
        /\ call'[m] \in {"sending", "refused"}
        /\ \A n \in Msgs : n # m => call'[n] = call[n]
        /\ UNCHANGED <<queue, attempts, flush, told, sent, loop, topic>>
    BY <1>1, <1>4 DEF Publish, QueueTypeOK
  <2>2. Places' /\ \A n : Waiting(n)' = Waiting(n)
    BY <2>1, SamePlaces
  <2>3. QueueTypeOK'
    BY <1>1, <1>2, <2>1 DEF QueueTypeOK, Msgs
  <2>4. ASSUME NEW n \in Msgs
        PROVE  MessageInv(n)'
    <3>1. CASE n = m
      BY <1>1, <1>2, <2>1, <2>2, <3>1, AttemptAssumption DEF MessageInv, QueueTypeOK
    <3>2. CASE n # m
      BY <1>1, <1>2, <2>1, <2>2, <3>2 DEF MessageInv, QueueTypeOK, Msgs
    <3> QED
      BY <3>1, <3>2
  <2> QED
    BY <2>2, <2>3, <2>4
<1> QED
  BY <1>3, <1>4

LEMMA CallInv ==
  ASSUME QueueInv, HistoryOK', NEW m \in Msgs, SendDirect(m) \/ QueueFailed(m)
  PROVE  QueueInv'
<1> USE DEF QueueInv, HistoryOK
<1>1. CASE SendDirect(m)
  <2>1. Places' /\ \A n : Waiting(n)' = Waiting(n)
    BY <1>1, SamePlaces DEF SendDirect
  <2>2. QueueTypeOK'
    <3>1. call' \in [Msgs -> {"none", "sending", "refused", "done"}] /\ sent' \in [Msgs -> Nat]
      BY <1>1 DEF SendDirect, QueueTypeOK
    <3>2. told' \in [Msgs -> SUBSET {"queued", "sent", "failed", "dropped"}]
      BY <1>1 DEF SendDirect, Tell, QueueTypeOK
    <3> QED
      BY <1>1, <3>1, <3>2 DEF SendDirect, QueueTypeOK
  <2>3. ASSUME NEW n \in Msgs
        PROVE  MessageInv(n)'
    <3>1. CASE n = m
      <4>1. /\ call[m] = "sending" /\ call'[m] = "done" /\ sent'[m] = sent[m] + 1
            /\ UNCHANGED <<created, attempts, tries>>
        BY <1>1 DEF SendDirect, QueueTypeOK
      <4>2. ~Waiting(m) /\ sent[m] = 0 /\ tries[m] <= 1 /\ tries[m] \in Nat /\ ~(m > created)
        BY <4>1 DEF MessageInv, QueueTypeOK
      <4>3. tries[m] <= MaxAttempts + 1
        BY <4>2, AttemptAssumption
      <4> QED
        BY <2>1, <3>1, <4>1, <4>2, <4>3 DEF MessageInv
    <3>2. CASE n # m
      <4>1. call'[n] = call[n] /\ told'[n] = told[n] /\ sent'[n] = sent[n]
        BY <1>1, <3>2 DEF SendDirect, Tell, QueueTypeOK
      <4> QED
        BY <1>1, <2>1, <4>1 DEF SendDirect, MessageInv
    <3> QED
      BY <3>1, <3>2
  <2> QED
    BY <2>1, <2>2, <2>3
<1>2. CASE QueueFailed(m)
  <2>1. created' \in created..MaxMsgs /\ created' >= m
    BY <1>2 DEF QueueFailed, MessageInv, QueueTypeOK, Msgs
  <2> QED
    BY <1>2, <2>1, EnqueueInv DEF QueueFailed, EnqueueNew, Enqueue
<1> QED
  BY <1>1, <1>2

(* Steps of the flush that take no message and put none back. *)
LEMMA FlushBoundsInv ==
  ASSUME QueueInv, HistoryOK', LoopTick \/ FlushByApp \/ EndFlush
  PROVE  QueueInv'
<1> USE DEF QueueInv, HistoryOK
<1>1. /\ flush.msg = NoMsg /\ flush'.msg = NoMsg
      /\ flush' \in [at : {"none", "take"}, by : {"nobody", "loop", "app"},
                     msg : {NoMsg}, left : 0..BatchSize]
      /\ UNCHANGED <<created, call, queue, attempts, told, sent, tries, loop, topic>>
  <2>1. CASE EndFlush
    BY <2>1, AttemptAssumption DEF EndFlush, Places, NoFlush
  <2>2. CASE LoopTick \/ FlushByApp
    <3>1. PICK by \in {"loop", "app"} : BeginFlush(by)
      BY <2>2 DEF LoopTick, FlushByApp
    <3>2. flush' = [at |-> "take", by |-> by, msg |-> NoMsg, left |-> BatchSize]
      BY <3>1 DEF BeginFlush, NoFlush
    <3> QED
      BY <3>1, <3>2, AttemptAssumption DEF BeginFlush, NoFlush
  <2> QED
    BY <2>1, <2>2
<1>2. \A n \in Msgs : Waiting(n)' = Waiting(n)
  BY <1>1 DEF Waiting, InQueue
<1>3. QueueTypeOK'
  BY <1>1 DEF QueueTypeOK
<1>4. Places'
  BY <1>1 DEF Places, Distinct
<1>5. \A n \in Msgs : flush.msg # n /\ flush'.msg # n
  BY <1>1 DEF NoMsg, Msgs
<1>6. ASSUME NEW n \in Msgs
      PROVE  MessageInv(n)'
  BY <1>1, <1>2, <1>5 DEF MessageInv
<1> QED
  BY <1>3, <1>4, <1>6

LEMMA TakeInv ==
  ASSUME QueueInv, HistoryOK', Take
  PROVE  QueueInv'
<1> USE DEF QueueInv, HistoryOK
<1>0. /\ queue \in Seq(Msgs) /\ Len(queue) <= MaxSize /\ Distinct(queue)
      /\ flush.msg = NoMsg /\ flush.left \in 1..BatchSize
      /\ UNCHANGED <<created, call, attempts, told, sent, loop, topic>>
  BY DEF Take, QueueTypeOK, Places
<1>1. /\ Unexpired \in Seq(Msgs) /\ Len(Unexpired) <= MaxSize
      /\ Distinct(Unexpired) /\ Elems(Unexpired) \subseteq Elems(queue)
  BY <1>0, UnexpiredElems, LenProperties, SizeAssumption
<1>2. \A n : InQueue(n)' <=> n \in Elems(queue')
  BY DEF InQueue, Elems
<1>3. \A n \in Msgs : flush.msg # n
  BY <1>0 DEF NoMsg, Msgs
<1>4. CASE Unexpired = <<>>
  <2>1. queue' = <<>> /\ flush' = NoFlush /\ tries' = tries
    BY <1>4 DEF Take
  <2>2. queue' \in Seq(Msgs) /\ Len(queue') <= MaxSize /\ Elems(queue') = {} /\ Distinct(queue')
    BY <2>1, EmptySeq, SizeAssumption DEF Elems, Distinct
  <2>3. QueueTypeOK'
    BY <1>0, <2>1, <2>2, AttemptAssumption DEF QueueTypeOK, NoFlush
  <2>4. Places'
    BY <2>1, <2>2 DEF Places, NoFlush
  <2>5. \A n \in Msgs : ~Waiting(n)'
    BY <1>2, <2>1, <2>2 DEF Waiting, NoFlush, NoMsg, Msgs
  <2>6. ASSUME NEW n \in Msgs
        PROVE  MessageInv(n)'
    BY <1>0, <2>1, <2>5 DEF MessageInv
  <2> QED
    BY <2>3, <2>4, <2>6
<1>5. CASE Unexpired # <<>>
  <2>0. PICK m : m = Head(Unexpired)
    OBVIOUS
  <2>1. /\ queue' = Tail(Unexpired)
        /\ flush' = [flush EXCEPT !.at = IF topic = "open" THEN "sending" ELSE "refused", !.msg = m]
        /\ tries' = [tries EXCEPT ![m] = @ + 1]
    BY <1>5, <2>0 DEF Take
  <2>2. /\ queue' \in Seq(Msgs) /\ Len(queue') = Len(Unexpired) - 1 /\ Distinct(queue')
        /\ m \in Msgs /\ Elems(queue') = Elems(Unexpired) \ {m}
    BY <1>1, <1>5, <2>0, <2>1, TailElems
  <2>3. m \in Elems(queue)
    <3>1. Len(Unexpired) > 0 /\ m = Unexpired[1]
      BY <1>1, <1>5, <2>0, EmptySeq, LenProperties
    <3>2. m \in Elems(Unexpired)
      BY <1>1, <3>1, LenProperties DEF Elems
    <3> QED
      BY <1>1, <3>2
  <2>4. InQueue(m) /\ ~InQueue(m)' /\ \A n : InQueue(n)' => InQueue(n)
    BY <1>1, <1>2, <2>2, <2>3, InQueueElems
  <2>5. flush' \in [at : {"sending", "refused"}, by : {"nobody", "loop", "app"}, msg : {m},
                    left : 1..BatchSize]
    <3>1. flush \in [at : {"none", "take", "sending", "refused"}, by : {"nobody", "loop", "app"},
                     msg : Msgs \cup {NoMsg}, left : 0..BatchSize]
      BY DEF QueueTypeOK
    <3>2. flush' \in [at : {"sending", "refused"}, by : {"nobody", "loop", "app"}, msg : {m},
                      left : {flush.left}]
      BY <2>1, <3>1
    <3> QED
      BY <1>0, <3>2
  <2>6. QueueTypeOK'
    <3>1. Len(queue') <= MaxSize
      BY <1>1, <2>2, SizeAssumption, LenProperties
    <3>2. tries' \in [Msgs -> Nat]
      <4>1. tries \in [Msgs -> Nat]
        BY DEF QueueTypeOK
      <4> QED
        BY ONLY <2>1, <2>2, <4>1
    <3>3. flush' \in [at : {"none", "take", "sending", "refused"}, by : {"nobody", "loop", "app"},
                      msg : Msgs \cup {NoMsg}, left : 0..BatchSize]
      BY <2>2, <2>5
    <3> QED
      BY <1>0, <2>2, <3>1, <3>2, <3>3 DEF QueueTypeOK
  <2>7. m # NoMsg
    BY <2>2 DEF NoMsg, Msgs
  <2>8. Places'
    BY <2>2, <2>4, <2>5, <2>7 DEF Places
  <2>9. ASSUME NEW n \in Msgs
        PROVE  MessageInv(n)'
    <3>1. CASE n = m
      <4>1. Waiting(m) /\ flush.msg # m /\ flush'.msg = m
        BY <1>3, <2>2, <2>4, <2>5 DEF Waiting
      <4>2. tries'[m] = tries[m] + 1 /\ tries[m] <= attempts[m] + 1 /\ call[m] = "done"
        BY <2>1, <2>2, <4>1 DEF MessageInv, QueueTypeOK
      <4>3. /\ attempts[m] \in Nat /\ tries[m] \in Nat /\ attempts[m] < MaxAttempts
            /\ sent[m] = 0 /\ "dropped" \notin told[m] /\ "queued" \in told[m] /\ ~(m > created)
        BY <2>2, <4>1, <4>2 DEF MessageInv, QueueTypeOK
      <4>4. tries'[m] <= attempts[m] + 2 /\ tries'[m] <= MaxAttempts + 1
        BY <4>2, <4>3, AttemptAssumption
      <4> QED
        BY <1>0, <3>1, <4>1, <4>2, <4>3, <4>4 DEF MessageInv
    <3>2. CASE n # m
      <4>1. tries'[n] = tries[n] /\ flush'.msg # n /\ flush.msg # n /\ (Waiting(n)' => Waiting(n))
        BY <1>3, <2>1, <2>4, <2>5, <3>2 DEF Waiting, QueueTypeOK
      <4> QED
        BY <1>0, <4>1 DEF MessageInv
    <3> QED
      BY <3>1, <3>2
  <2> QED
    BY <2>6, <2>8, <2>9
<1> QED
  BY <1>4, <1>5

LEMMA NextMessageType ==
  ASSUME QueueTypeOK, flush.left > 0, NextMessage
  PROVE  /\ flush'.msg = NoMsg /\ flush'.at = "take"
         /\ flush' \in [at : {"take"}, by : {"nobody", "loop", "app"}, msg : {NoMsg}, left : 0..BatchSize]
<1>1. flush.left - 1 \in 0..BatchSize
  BY AttemptAssumption DEF QueueTypeOK
<1>2. flush' = [at |-> "take", by |-> flush.by, msg |-> NoMsg, left |-> flush.left - 1]
  BY DEF NextMessage, QueueTypeOK
<1> QED
  BY <1>1, <1>2 DEF QueueTypeOK

LEMMA FlushSendInv ==
  ASSUME QueueInv, HistoryOK', FlushSend
  PROVE  QueueInv'
<1> USE DEF QueueInv, HistoryOK
<1>0. PICK m : m = flush.msg
  OBVIOUS
<1>1. /\ m \in Msgs /\ m # NoMsg /\ flush.left > 0 /\ ~InQueue(m) /\ Waiting(m)
  BY <1>0 DEF FlushSend, Places, QueueTypeOK, Waiting
<1>2. /\ sent' = [sent EXCEPT ![m] = @ + 1]
      /\ told' = [told EXCEPT ![m] = @ \cup {"sent"}]
      /\ UNCHANGED <<created, call, queue, attempts, tries, loop, topic>>
  BY <1>0 DEF FlushSend, Tell
<1>3. /\ flush'.msg = NoMsg /\ flush'.at = "take"
      /\ flush' \in [at : {"take"}, by : {"nobody", "loop", "app"}, msg : {NoMsg}, left : 0..BatchSize]
  BY <1>1, NextMessageType DEF FlushSend
<1>4. \A n \in Msgs : /\ InQueue(n)' = InQueue(n) /\ flush'.msg # n
                      /\ Waiting(n)' <=> InQueue(n)
  BY <1>2, <1>3 DEF InQueue, Waiting, NoMsg, Msgs
<1>5. QueueTypeOK'
  <2>1. /\ sent' \in [Msgs -> Nat]
        /\ told' \in [Msgs -> SUBSET {"queued", "sent", "failed", "dropped"}]
    BY <1>1, <1>2 DEF QueueTypeOK
  <2>2. flush' \in [at : {"none", "take", "sending", "refused"}, by : {"nobody", "loop", "app"},
                    msg : Msgs \cup {NoMsg}, left : 0..BatchSize]
    BY <1>3
  <2> QED
    BY <1>2, <2>1, <2>2 DEF QueueTypeOK
<1>6. Places'
  BY <1>2, <1>3 DEF Places, Distinct
<1>7. ASSUME NEW n \in Msgs
      PROVE  MessageInv(n)'
  <2>1. CASE n = m
    <3>1. ~Waiting(m)' /\ call[m] = "done" /\ sent'[m] = 1 /\ sent[m] = 0
      BY <1>1, <1>2, <1>4 DEF MessageInv, QueueTypeOK
    <3> QED
      BY <1>1, <1>2, <2>1, <3>1 DEF MessageInv
  <2>2. CASE n # m
    <3>1. flush.msg # n /\ sent'[n] = sent[n] /\ told'[n] = told[n] /\ (Waiting(n)' => Waiting(n))
      BY <1>0, <1>2, <1>4, <2>2 DEF QueueTypeOK, Waiting
    <3> QED
      BY <1>2, <1>4, <3>1 DEF MessageInv
  <2> QED
    BY <2>1, <2>2
<1> QED
  BY <1>5, <1>6, <1>7

LEMMA FlushFailInv ==
  ASSUME QueueInv, HistoryOK', FlushFail
  PROVE  QueueInv'
<1> USE DEF QueueInv, HistoryOK
<1>0. PICK m : m = flush.msg
  OBVIOUS
<1>1. /\ m \in Msgs /\ m # NoMsg /\ flush.left > 0 /\ ~InQueue(m) /\ Waiting(m)
  BY <1>0 DEF FlushFail, Places, QueueTypeOK, Waiting
<1>2. /\ attempts' = [attempts EXCEPT ![m] = @ + 1]
      /\ IF attempts'[m] >= MaxAttempts
           THEN Tell(m, "dropped") /\ queue' = queue
           ELSE Tell(m, "failed") /\ Enqueue(m)
      /\ UNCHANGED <<created, call, sent, tries, loop, topic>>
  BY <1>0 DEF FlushFail
<1>3. /\ flush'.msg = NoMsg /\ flush'.at = "take"
      /\ flush' \in [at : {"take"}, by : {"nobody", "loop", "app"}, msg : {NoMsg}, left : 0..BatchSize]
  BY <1>1, NextMessageType DEF FlushFail
<1>4. /\ attempts'[m] = attempts[m] + 1 /\ attempts[m] < MaxAttempts /\ attempts[m] \in Nat
      /\ call[m] = "done" /\ sent[m] = 0 /\ "queued" \in told[m] /\ "dropped" \notin told[m]
      /\ tries[m] <= attempts[m] + 2 /\ tries[m] \in Nat /\ tries[m] <= MaxAttempts + 1
  BY <1>0, <1>1, <1>2 DEF MessageInv, QueueTypeOK
<1>t. \E status \in {"failed", "dropped"} : told' = [told EXCEPT ![m] = @ \cup {status}]
  BY <1>2 DEF Tell
<1>5. attempts' \in [Msgs -> 0..MaxAttempts]
  <2>1. attempts \in [Msgs -> 0..MaxAttempts]
    BY DEF QueueTypeOK
  <2>2. attempts[m] + 1 \in 0..MaxAttempts
    BY <1>4, AttemptAssumption
  <2> QED
    BY <1>2, <2>1, <2>2
<1>6. \A n \in Msgs : n # m => /\ attempts'[n] = attempts[n] /\ told'[n] = told[n]
                               /\ flush.msg # n /\ flush'.msg # n
  <2>1. \A n \in Msgs : n # m => attempts'[n] = attempts[n] /\ flush.msg # n
    BY <1>0, <1>2 DEF QueueTypeOK
  <2>2. \A n \in Msgs : flush'.msg # n
    BY <1>3 DEF NoMsg, Msgs
  <2>3. \A n \in Msgs : n # m => told'[n] = told[n]
    BY <1>t DEF QueueTypeOK
  <2> QED
    BY <2>1, <2>2, <2>3
<1>7. told' \in [Msgs -> SUBSET {"queued", "sent", "failed", "dropped"}]
  <2>1. PICK status \in {"failed", "dropped"} : told' = [told EXCEPT ![m] = @ \cup {status}]
    BY <1>t
  <2>2. told[m] \cup {status} \in SUBSET {"queued", "sent", "failed", "dropped"}
    BY <1>1 DEF QueueTypeOK
  <2> QED
    BY <2>1, <2>2 DEF QueueTypeOK
<1>8. CASE attempts'[m] >= MaxAttempts
  <2>1. queue' = queue /\ Tell(m, "dropped")
    BY <1>2, <1>8
  <2>2. \A n \in Msgs : InQueue(n)' = InQueue(n) /\ (Waiting(n)' <=> InQueue(n))
    BY <1>3, <2>1 DEF InQueue, Waiting, NoMsg, Msgs
  <2>3. QueueTypeOK'
    BY <1>2, <1>3, <1>5, <1>7, <2>1 DEF QueueTypeOK
  <2>4. Places'
    BY <1>3, <2>1 DEF Places, Distinct
  <2>5. ASSUME NEW n \in Msgs
        PROVE  MessageInv(n)'
    <3>1. CASE n = m
      BY <1>1, <1>2, <1>4, <2>2, <3>1 DEF MessageInv
    <3>2. CASE n # m
      BY <1>2, <1>6, <2>2, <3>2 DEF MessageInv, Waiting
    <3> QED
      BY <3>1, <3>2
  <2> QED
    BY <2>3, <2>4, <2>5
<1>9. CASE ~(attempts'[m] >= MaxAttempts)
  <2>1. queue' = Pushed(m) /\ Tell(m, "failed")
    BY <1>2, <1>9 DEF Enqueue
  <2>2. /\ Pushed(m) \in Seq(Msgs) /\ Len(Pushed(m)) <= MaxSize /\ Distinct(Pushed(m))
        /\ Elems(Pushed(m)) \subseteq Elems(queue) \cup {m}
    BY <1>1, PushedElems DEF QueueTypeOK, Places
  <2>3. \A n \in Msgs : n # m => (Waiting(n)' => InQueue(n))
    <3>1. \A n : InQueue(n)' <=> n \in Elems(queue')
      BY DEF InQueue, Elems
    <3> QED
      BY <1>6, <2>1, <2>2, <3>1, InQueueElems DEF Waiting
  <2>4. QueueTypeOK'
    BY <1>2, <1>3, <1>5, <1>7, <2>1, <2>2 DEF QueueTypeOK
  <2>5. Places'
    BY <1>3, <2>1, <2>2 DEF Places
  <2>6. ASSUME NEW n \in Msgs
        PROVE  MessageInv(n)'
    <3>1. CASE n = m
      <4>1. told'[m] = told[m] \cup {"failed"}
        BY <1>1, <2>1 DEF Tell, QueueTypeOK
      <4>2. attempts'[m] < MaxAttempts /\ tries[m] <= attempts'[m] + 1
        BY <1>4, <1>9, AttemptAssumption
      <4>3. flush'.msg # m /\ ~(m > created)
        BY <1>1, <1>3, <1>4 DEF MessageInv
      <4> QED
        BY <1>2, <1>4, <3>1, <4>1, <4>2, <4>3 DEF MessageInv
    <3>2. CASE n # m
      BY <1>2, <1>6, <2>3, <3>2 DEF MessageInv, Waiting
    <3> QED
      BY <3>1, <3>2
  <2> QED
    BY <2>4, <2>5, <2>6
<1> QED
  BY <1>8, <1>9

(* Steps that concern no message. *)
LEMMA OtherInv ==
  ASSUME QueueInv, HistoryOK', Expire \/ CloseTopic \/ LoopExit \/ JoinAgain \/ UNCHANGED qvars
  PROVE  QueueInv'
<1> USE DEF QueueInv, HistoryOK
<1>1. UNCHANGED <<created, call, queue, attempts, flush, told, sent, tries>>
  BY DEF Expire, CloseTopic, LoopExit, JoinAgain, qvars
<1>2. loop' \in {"running", "cancelled", "ended"} /\ topic' \in {"open", "closed", "rejoined"}
  BY DEF Expire, CloseTopic, LoopExit, JoinAgain, qvars, QueueTypeOK
<1>3. Places' /\ \A n : Waiting(n)' = Waiting(n)
  BY <1>1, SamePlaces
<1>4. QueueTypeOK'
  BY <1>1, <1>2 DEF QueueTypeOK
<1>5. \A n \in Msgs : MessageInv(n)'
  BY <1>1, <1>3 DEF MessageInv
<1> QED
  BY <1>3, <1>4, <1>5

LEMMA NextQueueInv == QueueInv /\ [QueueNext]_qvars => QueueInv'
BY NextHistory, PublishInv, CallInv, FlushBoundsInv, TakeInv, FlushSendInv, FlushFailInv, OtherInv
   DEF QueueNext, Flush

-----------------------------------------------------------------------------
(* Where a step leaves the messages of the queue. *)

(* r is what is left of q after its first d messages, and then others. *)
Shifted(q, r, d) ==
  \A i \in DOMAIN r : IF i + d <= Len(q) THEN r[i] = q[i + d] ELSE r[i] \notin Elems(q)

(* Enqueue. *)
LEMMA PushedShifted ==
  ASSUME queue \in Seq(Msgs), NEW m \in Msgs, ~InQueue(m), queue' = Pushed(m)
  PROVE  queue' \in Seq(Msgs) /\ \E d \in Nat : Shifted(queue, queue', d)
<1>1. Len(queue) \in Nat /\ DOMAIN queue = 1..Len(queue) /\ m \notin Elems(queue)
  BY InQueueElems, LenProperties
<1>2. CASE Len(queue) >= MaxSize
  <2>1. queue # <<>>
    BY <1>2, SizeAssumption, EmptySeq
  <2>2. /\ Tail(queue) \in Seq(Msgs) /\ Len(Tail(queue)) = Len(queue) - 1
        /\ \A i \in 1..Len(Tail(queue)) : Tail(queue)[i] = queue[i + 1]
    BY <2>1, HeadTailProperties
  <2>3. queue' = Append(Tail(queue), m)
    BY <1>2 DEF Pushed
  <2>4. /\ queue' \in Seq(Msgs) /\ Len(queue') = Len(queue)
        /\ \A i \in 1..(Len(queue) - 1) : queue'[i] = queue[i + 1]
        /\ queue'[Len(queue)] = m
    BY <1>1, <2>2, <2>3, AppendProperties
  <2>5. DOMAIN queue' = 1..Len(queue)
    BY <2>4, LenProperties
  <2>6. Shifted(queue, queue', 1)
    BY <1>1, <2>4, <2>5 DEF Shifted
  <2> QED
    BY <2>4, <2>6
<1>3. CASE ~(Len(queue) >= MaxSize)
  <2>1. queue' = Append(queue, m)
    BY <1>3 DEF Pushed
  <2>2. /\ queue' \in Seq(Msgs) /\ Len(queue') = Len(queue) + 1
        /\ \A i \in 1..Len(queue) : queue'[i] = queue[i]
        /\ queue'[Len(queue) + 1] = m
    BY <1>1, <2>1, AppendProperties
  <2>3. DOMAIN queue' = 1..(Len(queue) + 1)
    BY <2>2, LenProperties
  <2>4. Shifted(queue, queue', 0)
    BY <1>1, <2>2, <2>3 DEF Shifted
  <2> QED
    BY <2>2, <2>4
<1> QED
  BY <1>2, <1>3

(* Dequeue, after the expired messages at the front. *)
LEMMA TakeShifted ==
  ASSUME queue \in Seq(Msgs), Take, Unexpired # <<>>
  PROVE  queue' \in Seq(Msgs) /\ \E d \in Nat \ {0} : Shifted(queue, queue', d)
<1> DEFINE fresh == {i \in DOMAIN queue : queue[i] \notin old}
           first == CHOOSE i \in fresh : \A j \in fresh : i <= j
<1>0. Len(queue) \in Nat /\ DOMAIN queue = 1..Len(queue) /\ \A i \in 1..Len(queue) : queue[i] \in Msgs
  BY LenProperties, ElementOfSeq
<1>1. fresh # {}
  BY DEF Unexpired
<1>2. first \in fresh
  <2>1. fresh \in SUBSET Nat
    BY <1>0
  <2> QED
    BY <1>1, <2>1, LeastOf
<1>3. Unexpired = SubSeq(queue, first, Len(queue)) /\ first \in 1..Len(queue)
  BY <1>0, <1>1, <1>2 DEF Unexpired
<1> HIDE DEF first
<1>4. /\ Unexpired \in Seq(Msgs) /\ Len(Unexpired) = Len(queue) - first + 1
      /\ \A i \in 1..(Len(queue) - first + 1) : Unexpired[i] = queue[first + i - 1]
  <2>1. /\ first \in Int /\ Len(queue) \in Int /\ first <= Len(queue)
        /\ \A i \in first..Len(queue) : queue[i] \in Msgs
    BY <1>0, <1>3
  <2> QED
    BY <1>3, <2>1, SubSeqProperties
<1>5. queue' = Tail(Unexpired)
  BY DEF Take
<1>6. /\ queue' \in Seq(Msgs) /\ Len(queue') = Len(queue) - first
      /\ \A i \in 1..Len(queue') : queue'[i] = Unexpired[i + 1]
  <2>1. Len(Unexpired) - 1 = Len(queue) - first
    BY <1>0, <1>3, <1>4
  <2> QED
    BY <1>4, <1>5, <2>1, HeadTailProperties
<1>7. DOMAIN queue' = 1..(Len(queue) - first)
  BY <1>6, LenProperties
<1>8. \A i \in DOMAIN queue' : i + first \in 1..Len(queue) /\ queue'[i] = queue[i + first]
  <2> SUFFICES ASSUME NEW i \in DOMAIN queue'
               PROVE  i + first \in 1..Len(queue) /\ queue'[i] = queue[i + first]
    OBVIOUS
  <2>1. i \in Int /\ 1 <= i /\ i <= Len(queue) - first /\ first \in Int /\ first >= 1
    BY <1>0, <1>3, <1>7
  <2>2. i + 1 \in 1..(Len(queue) - first + 1) /\ first + (i + 1) - 1 = i + first
    BY <1>0, <2>1
  <2>3. Unexpired[i + 1] = queue[i + first]
    BY <1>4, <2>2
  <2> QED
    BY <1>0, <1>6, <1>7, <2>1, <2>3
<1>9. first \in Nat \ {0} /\ Shifted(queue, queue', first)
  BY <1>0, <1>3, <1>8 DEF Shifted
<1> QED
  BY <1>6, <1>9

LEMMA StayShifted ==
  ASSUME queue \in Seq(Msgs), UNCHANGED queue
  PROVE  Shifted(queue, queue', 0)
<1>1. DOMAIN queue = 1..Len(queue) /\ Len(queue) \in Nat
  BY LenProperties
<1> QED
  BY <1>1 DEF Shifted

-----------------------------------------------------------------------------
(* What was queued while a message waits: at least all that is behind it.  *)

SinceInv ==
  /\ \A m \in Msgs : flush.msg = m \/ call[m] # "done" => since[m] = {}
  /\ \A m \in Msgs : m \notin since[m]
  /\ \A i, j \in DOMAIN queue : i < j => queue[j] \in since[queue[i]]

LEMMA MsgsFinite ==
  ASSUME NEW S \in SUBSET Msgs
  PROVE  IsFiniteSet(S) /\ Cardinality(S) \in Nat
<1>1. IsFiniteSet(Msgs)
  BY SizeAssumption, FS_Interval DEF Msgs
<1> QED
  BY <1>1, FS_Subset, FS_CardinalityType

LEMMA QueueOfMsgs ==
  ASSUME QueueInv
  PROVE  /\ queue \in Seq(Msgs) /\ Distinct(queue) /\ Len(queue) \in Nat /\ Len(queue) <= MaxSize
         /\ DOMAIN queue = 1..Len(queue)
         /\ \A i \in DOMAIN queue : queue[i] \in Msgs /\ InQueue(queue[i])
BY ElementOfSeq, LenProperties DEF QueueInv, QueueTypeOK, Places, InQueue

(* Enqueue of a message that waits nowhere else afterwards. *)
LEMMA EnqueueSince ==
  ASSUME QueueInv, QueueInv', SinceInv, NEW m \in Msgs, ~InQueue(m), Enqueue(m), since[m] = {},
         \A k \in Msgs : flush'.msg = k => flush.msg = k,
         \A k \in Msgs : call'[k] # "done" => call[k] # "done"
  PROVE  SinceInv'
<1>0. /\ queue' \in Seq(Msgs) /\ Distinct(queue') /\ queue' = Pushed(m)
      /\ since' = [k \in Msgs |-> IF InQueue(k) THEN since[k] \cup {m} ELSE since[k]]
      /\ \A k \in Msgs : since[k] \subseteq since'[k]
  BY QueueOfMsgs DEF Enqueue, QueueInv, QueueTypeOK, Places
<1>1. \A k \in Msgs : InQueue(k) => flush.msg # k /\ call[k] = "done"
  BY DEF QueueInv, Places, MessageInv, Waiting, NoMsg, Msgs
<1>2. ASSUME NEW k \in Msgs, flush'.msg = k \/ call'[k] # "done"
      PROVE  since'[k] = {}
  BY <1>0, <1>1, <1>2 DEF SinceInv
<1>3. \A k \in Msgs : k \notin since'[k]
  BY <1>0 DEF SinceInv
<1>4. ASSUME NEW i \in DOMAIN queue', NEW j \in DOMAIN queue', i < j
      PROVE  queue'[j] \in since'[queue'[i]]
  <2>0. DOMAIN queue' = 1..Len(queue') /\ Len(queue') \in Nat /\ queue'[i] # queue'[j]
    BY <1>0, <1>4, LenProperties DEF Distinct
  <2>1. PICK d \in Nat : Shifted(queue, queue', d)
    BY <1>0, QueueOfMsgs, PushedShifted
  <2>2. \A k \in DOMAIN queue' : queue'[k] = m \/ queue'[k] \in Elems(queue)
    <3>1. Elems(queue') \subseteq Elems(queue) \cup {m}
      BY <1>0, PushedElems, QueueOfMsgs
    <3> QED
      BY <3>1 DEF Elems
  <2>3. \A k \in DOMAIN queue' :
          IF k + d <= Len(queue)
            THEN k + d \in DOMAIN queue /\ queue'[k] = queue[k + d]
            ELSE queue'[k] = m
    BY <2>0, <2>1, <2>2, QueueOfMsgs DEF Shifted
  <2>4. CASE j + d <= Len(queue)
    <3>1. i + d <= Len(queue) /\ i + d < j + d
      BY <1>4, <2>0, <2>4, QueueOfMsgs
    <3>2. queue[j + d] \in since[queue[i + d]] /\ queue[i + d] \in Msgs
      BY <2>3, <2>4, <3>1, QueueOfMsgs DEF SinceInv
    <3> QED
      BY <1>0, <2>3, <2>4, <3>1, <3>2
  <2>5. CASE ~(j + d <= Len(queue))
    <3>1. queue'[j] = m /\ queue'[i] \in Elems(queue)
      BY <2>0, <2>2, <2>3, <2>5
    <3>2. InQueue(queue'[i]) /\ queue'[i] \in Msgs
      BY <3>1, InQueueElems, QueueOfMsgs DEF Elems
    <3> QED
      BY <1>0, <3>1, <3>2
  <2> QED
    BY <2>4, <2>5
<1> QED
  BY <1>2, <1>3, <1>4 DEF SinceInv

LEMMA TakeSince ==
  ASSUME QueueInv, QueueInv', SinceInv, Take
  PROVE  SinceInv'
<1>1. CASE Unexpired = <<>>
  <2>1. queue' = <<>> /\ flush' = NoFlush /\ UNCHANGED <<call, since>>
    BY <1>1 DEF Take
  <2> QED
    BY <2>1 DEF SinceInv, NoFlush, NoMsg, Msgs
<1>2. CASE Unexpired # <<>>
  <2>0. PICK m : m = Head(Unexpired)
    OBVIOUS
  <2>1. /\ Unexpired \in Seq(Msgs) /\ Distinct(Unexpired) /\ Elems(Unexpired) \subseteq Elems(queue)
    BY UnexpiredElems, QueueOfMsgs
  <2>2. /\ m \in Msgs /\ queue' = Tail(Unexpired) /\ Elems(queue') = Elems(Unexpired) \ {m}
        /\ flush'.msg = m /\ UNCHANGED call
        /\ since' = [since EXCEPT ![m] = {}] /\ since \in [Msgs -> SUBSET Msgs]
    BY <1>2, <2>0, <2>1, TailElems DEF Take, QueueInv, QueueTypeOK
  <2>3. PICK d \in Nat \ {0} : Shifted(queue, queue', d)
    BY <1>2, QueueOfMsgs, TakeShifted
  <2>4. /\ Len(queue') \in Nat /\ DOMAIN queue' = 1..Len(queue')
        /\ \A i \in DOMAIN queue' : queue'[i] \in Elems(queue) /\ queue'[i] # m
    <3>1. queue' \in Seq(Msgs)
      BY DEF QueueInv, QueueTypeOK
    <3>2. \A i \in DOMAIN queue' : queue'[i] \in Elems(Unexpired) \ {m}
      BY <2>2 DEF Elems
    <3> QED
      BY <2>1, <3>1, <3>2, LenProperties
  <2>5. \A i \in DOMAIN queue' : i + d \in DOMAIN queue /\ queue'[i] = queue[i + d]
    BY <2>3, <2>4, QueueOfMsgs DEF Shifted
  <2>6. ASSUME NEW i \in DOMAIN queue', NEW j \in DOMAIN queue', i < j
        PROVE  queue'[j] \in since'[queue'[i]]
    <3>1. i + d < j + d
      BY <2>4, <2>6
    <3>2. queue[j + d] \in since[queue[i + d]] /\ queue[i + d] \in Msgs
      BY <2>5, <3>1, QueueOfMsgs DEF SinceInv
    <3> QED
      BY <2>2, <2>4, <2>5, <3>2
  <2>7. \A k \in Msgs : flush'.msg = k \/ call'[k] # "done" => since'[k] = {}
    BY <2>2 DEF SinceInv
  <2>8. \A k \in Msgs : k \notin since'[k]
    BY <2>2 DEF SinceInv
  <2> QED
    BY <2>6, <2>7, <2>8 DEF SinceInv
<1> QED
  BY <1>1, <1>2

LEMMA NextSince ==
  ASSUME QueueInv, QueueInv', SinceInv, [QueueNext]_qvars
  PROVE  SinceInv'
<1>1. ASSUME UNCHANGED <<queue, since>>,
             \A k \in Msgs : flush'.msg = k => flush.msg = k,
             \A k \in Msgs : call'[k] # "done" => call[k] # "done"
      PROVE  SinceInv'
  BY <1>1 DEF SinceInv
<1>2. ASSUME NEW m \in Msgs, EnqueueNew(m), call[m] # "done", UNCHANGED flush,
             call' = [call EXCEPT ![m] = "done"]
      PROVE  SinceInv'
  <2>1. ~InQueue(m) /\ since[m] = {}
    BY <1>2 DEF QueueInv, MessageInv, Waiting, SinceInv
  <2>2. \A k \in Msgs : call'[k] # "done" => call[k] # "done"
    BY <1>2 DEF QueueInv, QueueTypeOK
  <2> QED
    BY <1>2, <2>1, <2>2, EnqueueSince DEF EnqueueNew
<1>3. CASE Publish \/ PublishQueued
  <2>1. /\ created + 1 \in Msgs /\ call[created + 1] = "none"
        /\ DOMAIN call = Msgs
    BY <1>3 DEF Publish, PublishQueued, QueueInv, MessageInv, QueueTypeOK
  <2>2. CASE Publish
    <3>1. \A k \in Msgs : call'[k] # "done" => call[k] # "done"
      BY <2>1, <2>2 DEF Publish
    <3> QED
      BY <1>1, <2>2, <3>1 DEF Publish
  <2>3. CASE PublishQueued
    BY <1>2, <2>1, <2>3 DEF PublishQueued
  <2> QED
    BY <1>3, <2>2, <2>3
<1>4. ASSUME NEW m \in Msgs, QueueFailed(m)
      PROVE  SinceInv'
  BY <1>2, <1>4 DEF QueueFailed
<1>5. ASSUME NEW m \in Msgs, SendDirect(m)
      PROVE  SinceInv'
  <2>1. \A k \in Msgs : call'[k] # "done" => call[k] # "done"
    BY <1>5 DEF SendDirect, QueueInv, QueueTypeOK
  <2> QED
    BY <1>1, <1>5, <2>1 DEF SendDirect
<1>6. CASE FlushSend \/ FlushFail
  <2>0. PICK m : m = flush.msg
    OBVIOUS
  <2>1. m \in Msgs /\ m # NoMsg /\ flush.left > 0 /\ ~InQueue(m)
    BY <1>6, <2>0 DEF FlushSend, FlushFail, QueueInv, Places, QueueTypeOK
  <2>2. flush'.msg = NoMsg /\ call' = call
    BY <1>6, <2>1, NextMessageType DEF FlushSend, FlushFail, QueueInv
  <2>3. UNCHANGED <<queue, since>> \/ Enqueue(m)
    BY <1>6, <2>0 DEF FlushSend, FlushFail
  <2>4. since[m] = {}
    BY <2>0, <2>1 DEF SinceInv
  <2>5. \A k \in Msgs : flush'.msg # k
    BY <2>2 DEF NoMsg, Msgs
  <2> QED
    BY <1>1, <2>1, <2>2, <2>3, <2>4, <2>5, EnqueueSince
<1>7. CASE LoopTick \/ FlushByApp \/ EndFlush
  <2>1. flush'.msg = NoMsg /\ UNCHANGED <<call, queue, since>>
    <3>1. ASSUME NEW by, BeginFlush(by)
          PROVE  flush'.msg = NoMsg /\ UNCHANGED <<call, queue, since>>
      BY <3>1 DEF BeginFlush, NoFlush
    <3> QED
      BY <1>7, <3>1 DEF LoopTick, FlushByApp, EndFlush, NoFlush
  <2>2. \A k \in Msgs : flush'.msg # k
    BY <2>1 DEF NoMsg, Msgs
  <2> QED
    BY <1>1, <2>1, <2>2
<1>8. CASE Expire \/ CloseTopic \/ LoopExit \/ JoinAgain \/ UNCHANGED qvars
  BY <1>1, <1>8 DEF Expire, CloseTopic, LoopExit, JoinAgain, qvars
<1> QED
  BY <1>3, <1>4, <1>5, <1>6, <1>7, <1>8, TakeSince DEF QueueNext, Flush

(* A full queue: with the message that pushes it out, as many others as    *)
(* the queue holds were queued while its front waited.                     *)
LEMMA FullQueue ==
  ASSUME QueueInv, SinceInv, NEW m \in Msgs, ~InQueue(m), Len(queue) >= MaxSize, Enqueue(m)
  PROVE  queue # <<>> /\ Head(queue) \in Msgs /\ Cardinality(since'[Head(queue)]) >= MaxSize
<1> DEFINE first == Head(queue)
           Q == Elems(queue)
           R == (Q \ {first}) \cup {m}
<1>0. queue \in Seq(Msgs) /\ Len(queue) = MaxSize /\ Distinct(queue) /\ MaxSize \in Nat \ {0}
  <2>1. queue \in Seq(Msgs) /\ Distinct(queue) /\ Len(queue) \in Nat /\ Len(queue) <= MaxSize
    BY QueueOfMsgs
  <2> QED
    BY <2>1, SizeAssumption
<1>1. /\ DOMAIN queue = 1..MaxSize /\ queue \in [1..MaxSize -> Q]
      /\ queue # <<>> /\ first = queue[1] /\ first \in Msgs /\ InQueue(first) /\ first \in Q
  BY <1>0, QueueOfMsgs, EmptySeq, HeadTailProperties DEF Elems
<1>2. queue \in Bijection(1..MaxSize, Q)
  <2>1. \A i, j \in 1..MaxSize : queue[i] = queue[j] => i = j
    BY <1>0, <1>1 DEF Distinct
  <2>2. \A x \in Q : \E i \in 1..MaxSize : queue[i] = x
    BY <1>1 DEF Elems
  <2> QED
    BY <1>1, <2>1, <2>2, Fun_IsBij
<1>3. IsFiniteSet(Q) /\ Cardinality(Q) = MaxSize
  <2>1. ExistsBijection(1..MaxSize, Q)
    BY <1>2, Fun_ExistsBij
  <2>2. IsFiniteSet(1..MaxSize) /\ Cardinality(1..MaxSize) = MaxSize
    BY <1>0, FS_Interval
  <2> QED
    BY <2>1, <2>2, FS_Bijection
<1>4. IsFiniteSet(R) /\ Cardinality(R) = MaxSize
  <2>1. IsFiniteSet(Q \ {first}) /\ Cardinality(Q \ {first}) = MaxSize - 1
    BY <1>1, <1>3, FS_RemoveElement
  <2>2. m \notin Q \ {first}
    BY InQueueElems
  <2>3. IsFiniteSet(R) /\ Cardinality(R) = MaxSize - 1 + 1
    BY <2>1, <2>2, FS_AddElement
  <2> QED
    BY <1>0, <2>3
<1>5. R \subseteq since'[first]
  <2>1. since'[first] = since[first] \cup {m}
    BY <1>1 DEF Enqueue
  <2>2. ASSUME NEW x \in Q \ {first}
        PROVE  x \in since[first]
    <3>1. PICK j \in 1..MaxSize : x = queue[j] /\ j # 1
      BY <1>1, <2>2 DEF Elems
    <3>2. 1 \in DOMAIN queue /\ j \in DOMAIN queue /\ 1 < j
      BY <1>0, <1>1, <3>1
    <3> QED
      BY <1>1, <3>1, <3>2 DEF SinceInv
  <2> QED
    BY <2>1, <2>2
<1>6. IsFiniteSet(since'[first]) /\ Cardinality(since'[first]) \in Nat
  <2>1. since'[first] \in SUBSET Msgs
    BY <1>1, EnqueueHistory DEF QueueInv
  <2> QED
    BY <2>1, MsgsFinite
<1>7. Cardinality(R) <= Cardinality(since'[first])
  BY <1>4, <1>5, <1>6, FS_Subset
<1> QED
  BY <1>0, <1>1, <1>4, <1>6, <1>7

-----------------------------------------------------------------------------
(* What a step does to one message. *)

(* A message that is done and nowhere is not touched again. *)
Untouched(m) ==
  /\ ~Waiting(m)' /\ call'[m] = "done" /\ sent'[m] = sent[m]
  /\ "dropped" \in told'[m] <=> "dropped" \in told[m]

MessageStep(m) ==
  /\ sent'[m] >= sent[m] /\ told[m] \subseteq told'[m]
  /\ call[m] = "done" => call'[m] = "done"
  /\ call[m] = "done" /\ ~Waiting(m) => Untouched(m)
  /\ call[m] # "done" /\ call'[m] = "done" => sent'[m] > 0 \/ Waiting(m)'

(* A message that waits no longer, without a word from the flush, was too  *)
(* old or was pushed out of a full queue.                                  *)
LossStep(m) ==
  Waiting(m) /\ ~Waiting(m)' /\ sent'[m] = 0 /\ "dropped" \notin told'[m] =>
    m \in old \/ Cardinality(since'[m]) >= MaxSize

(* A step that queues message m and touches no other. *)
LEMMA EnqueueStep ==
  ASSUME QueueInv, SinceInv, NEW m \in Msgs, ~InQueue(m), Enqueue(m),
         \A n \in Msgs : n # m => flush'.msg = n \/ flush.msg # n,
         NEW n \in Msgs, n # m
  PROVE  /\ Waiting(m)'
         /\ ~Waiting(n) /\ flush'.msg # n => ~Waiting(n)'
         /\ LossStep(n)
<1>1. /\ m \in Elems(Pushed(m)) /\ Elems(Pushed(m)) \subseteq Elems(queue) \cup {m}
      /\ Len(queue) < MaxSize => Elems(queue) \subseteq Elems(Pushed(m))
      /\ Elems(queue) \ {Head(queue)} \subseteq Elems(Pushed(m))
  BY PushedElems DEF QueueInv, QueueTypeOK, Places
<1>2. \A k : InQueue(k)' <=> k \in Elems(Pushed(m))
  BY DEF InQueue, Elems, Enqueue
<1>3. Waiting(m)' /\ (~Waiting(n) /\ flush'.msg # n => ~Waiting(n)')
  BY <1>1, <1>2, InQueueElems DEF Waiting
<1>4. CASE Len(queue) < MaxSize
  BY <1>1, <1>2, <1>4, InQueueElems DEF Waiting, LossStep
<1>5. CASE Len(queue) >= MaxSize
  <2>1. Cardinality(since'[Head(queue)]) >= MaxSize
    BY <1>5, FullQueue
  <2>2. n # Head(queue) /\ Waiting(n) => Waiting(n)'
    BY <1>1, <1>2, InQueueElems DEF Waiting
  <2>3. CASE n = Head(queue)
    <3>1. Cardinality(since'[n]) >= MaxSize
      BY <2>1, <2>3
    <3> QED
      BY <1>3, <3>1 DEF LossStep
  <2>4. CASE n # Head(queue)
    BY <1>3, <2>2, <2>4 DEF LossStep
  <2> QED
    BY <2>3, <2>4
<1>6. Len(queue) \in Nat /\ MaxSize \in Nat
  BY LenProperties, SizeAssumption DEF QueueInv, QueueTypeOK
<1> QED
  BY <1>3, <1>4, <1>5, <1>6

LEMMA QueueFailedStep ==
  ASSUME QueueInv, SinceInv, NEW m \in Msgs, call[m] # "done",
         call' = [call EXCEPT ![m] = "done"], Enqueue(m), Tell(m, "queued"),
         UNCHANGED <<flush, sent>>, NEW n \in Msgs
  PROVE  MessageStep(n) /\ LossStep(n)
<1>1. /\ told'[m] = told[m] \cup {"queued"}
      /\ \A k \in Msgs : k # m => told'[k] = told[k] /\ call'[k] = call[k]
      /\ call'[m] = "done" /\ sent[n] \in Nat
  BY DEF QueueInv, QueueTypeOK, Tell
<1>2. ~Waiting(m) /\ ~InQueue(m)
  BY DEF QueueInv, MessageInv, Waiting
<1>3. CASE n # m
  BY <1>1, <1>2, <1>3, EnqueueStep DEF MessageStep, Untouched, Waiting
<1>4. CASE n = m
  <2>1. Waiting(m)'
    <3>1. m \in Elems(queue')
      BY <1>2, PushedElems DEF QueueInv, QueueTypeOK, Places, Enqueue
    <3> QED
      BY <3>1 DEF Waiting, InQueue, Elems
  <2> QED
    BY <1>1, <1>2, <1>4, <2>1 DEF MessageStep, LossStep
<1> QED
  BY <1>3, <1>4

(* A step that tells nothing and adds nothing to the queue or the flush. *)
LEMMA QuietStep ==
  ASSUME QueueInv, NEW n \in Msgs, UNCHANGED <<told, sent>>,
         call[n] = "done" <=> call'[n] = "done",
         Waiting(n)' => Waiting(n),
         Waiting(n) /\ ~Waiting(n)' => n \in old
  PROVE  MessageStep(n) /\ LossStep(n)
BY DEF QueueInv, QueueTypeOK, MessageStep, Untouched, LossStep

LEMMA TakeStep ==
  ASSUME QueueInv, QueueInv', Take, NEW n \in Msgs
  PROVE  MessageStep(n) /\ LossStep(n)
<1>0. /\ queue \in Seq(Msgs) /\ Len(queue) <= MaxSize /\ Distinct(queue)
      /\ flush.msg = NoMsg /\ flush.msg # n
      /\ UNCHANGED <<call, told, sent>>
  BY DEF QueueInv, Take, QueueTypeOK, Places, NoMsg, Msgs
<1>1. /\ Unexpired \in Seq(Msgs) /\ Distinct(Unexpired) /\ Elems(Unexpired) \subseteq Elems(queue)
      /\ \A m \in Elems(queue) \ Elems(Unexpired) : m \in old
  BY <1>0, UnexpiredElems
<1>2. \A k : InQueue(k)' <=> k \in Elems(queue')
  BY DEF InQueue, Elems
<1>3. Waiting(n)' <=> n \in Elems(Unexpired)
  <2>1. CASE Unexpired = <<>>
    <3>1. n \notin Elems(Unexpired) /\ queue' = Unexpired /\ flush' = NoFlush
      BY <2>1 DEF Take, Elems
    <3> QED
      BY <1>2, <3>1 DEF Waiting, NoFlush, NoMsg, Msgs
  <2>2. CASE Unexpired # <<>>
    <3>0. PICK m : m = Head(Unexpired)
      OBVIOUS
    <3>1. Elems(queue') = Elems(Unexpired) \ {m} /\ flush'.msg = m
      BY <1>1, <2>2, <3>0, TailElems DEF Take, QueueInv, QueueTypeOK
    <3>2. m \in Elems(Unexpired)
      BY <1>1, <2>2, <3>0, EmptySeq, LenProperties DEF Elems
    <3> QED
      BY <1>2, <3>1, <3>2 DEF Waiting
  <2> QED
    BY <2>1, <2>2
<1> QED
  BY <1>0, <1>1, <1>3, InQueueElems, QuietStep DEF Waiting

LEMMA FlushedStep ==
  ASSUME QueueInv, QueueInv', SinceInv, FlushSend \/ FlushFail, NEW n \in Msgs
  PROVE  MessageStep(n) /\ LossStep(n)
<1>0. PICK m : m = flush.msg
  OBVIOUS
<1>1. m \in Msgs /\ m # NoMsg /\ flush.left > 0 /\ ~InQueue(m) /\ Waiting(m) /\ call[m] = "done"
  BY <1>0 DEF FlushSend, FlushFail, QueueInv, Places, QueueTypeOK, Waiting, MessageInv
<1>2. flush'.msg = NoMsg /\ flush'.msg # n /\ call' = call
  BY <1>1, NextMessageType DEF FlushSend, FlushFail, QueueInv, NoMsg, Msgs
<1>3. /\ \E status \in {"sent", "failed", "dropped"} : told' = [told EXCEPT ![m] = @ \cup {status}]
      /\ sent' \in {sent, [sent EXCEPT ![m] = @ + 1]}
  BY <1>0 DEF FlushSend, FlushFail, Tell
<1>4. /\ told[m] \subseteq told'[m] /\ sent'[m] >= sent[m]
      /\ \A k \in Msgs : k # m => told'[k] = told[k] /\ sent'[k] = sent[k]
      /\ sent[n] \in Nat
  <2>1. DOMAIN told = Msgs /\ sent \in [Msgs -> Nat]
    BY DEF QueueInv, QueueTypeOK
  <2>2. told[m] \subseteq told'[m] /\ \A k \in Msgs : k # m => told'[k] = told[k]
    BY <1>1, <1>3, <2>1
  <2> QED
    BY <1>1, <1>3, <2>1, <2>2
<1>7. attempts'[m] \in Nat /\ MaxAttempts \in Nat
  <2>1. attempts' \in [Msgs -> 0..MaxAttempts]
    BY DEF QueueInv, QueueTypeOK
  <2> QED
    BY <1>1, <2>1, AttemptAssumption
<1>5. CASE FlushFail /\ attempts'[m] < MaxAttempts
  <2>0. ~(attempts'[m] >= MaxAttempts)
    BY <1>5, <1>7
  <2>1. Enqueue(m)
    BY <1>0, <1>5, <2>0 DEF FlushFail
  <2>2. \A k \in Msgs : k # m => flush.msg # k
    BY <1>0
  <2>3. Waiting(m)'
    <3>1. m \in Elems(queue')
      BY <1>1, <2>1, PushedElems DEF QueueInv, QueueTypeOK, Places, Enqueue
    <3> QED
      BY <3>1 DEF Waiting, InQueue, Elems
  <2>4. CASE n = m
    BY <1>1, <1>2, <1>4, <2>3, <2>4 DEF MessageStep, LossStep
  <2>5. CASE n # m
    BY <1>1, <1>2, <1>4, <2>1, <2>2, <2>5, EnqueueStep DEF MessageStep, Untouched
  <2> QED
    BY <2>4, <2>5
<1>6. CASE FlushSend \/ (FlushFail /\ ~(attempts'[m] < MaxAttempts))
  <2>1. queue' = queue /\ (sent'[m] > 0 \/ "dropped" \in told'[m])
    <3>1. CASE FlushSend
      BY <1>0, <1>1, <3>1 DEF FlushSend, QueueInv, QueueTypeOK
    <3>2. CASE FlushFail /\ ~(attempts'[m] < MaxAttempts)
      <4>1. attempts'[m] >= MaxAttempts
        BY <1>7, <3>2
      <4>2. queue' = queue /\ Tell(m, "dropped")
        BY <1>0, <3>2, <4>1 DEF FlushFail
      <4> QED
        BY <1>1, <4>2 DEF Tell, QueueInv, QueueTypeOK
    <3> QED
      BY <1>6, <3>1, <3>2
  <2>2. InQueue(n)' = InQueue(n)
    BY <2>1 DEF InQueue
  <2>3. CASE n = m
    BY <1>1, <1>2, <1>4, <2>1, <2>3 DEF MessageStep, LossStep, QueueInv, QueueTypeOK
  <2>4. CASE n # m
    BY <1>0, <1>2, <1>4, <2>2, <2>4 DEF MessageStep, Untouched, LossStep, Waiting
  <2> QED
    BY <2>3, <2>4
<1> QED
  BY <1>5, <1>6, <1>7

LEMMA StepOfMessage ==
  ASSUME QueueInv, QueueInv', SinceInv, [QueueNext]_qvars, NEW n \in Msgs
  PROVE  MessageStep(n) /\ LossStep(n)
<1>1. CASE Expire \/ CloseTopic \/ LoopExit \/ JoinAgain \/ UNCHANGED qvars
  <2>1. UNCHANGED <<call, queue, flush, told, sent>>
    BY <1>1 DEF Expire, CloseTopic, LoopExit, JoinAgain, qvars
  <2> QED
    BY <2>1, QuietStep, SamePlaces DEF QueueInv
<1>2. CASE Publish
  <2>1. UNCHANGED <<queue, flush, told, sent>> /\ call[created + 1] = "none"
    BY <1>2 DEF Publish, QueueInv, MessageInv, QueueTypeOK
  <2>2. call[n] = "done" <=> call'[n] = "done"
    BY <1>2, <2>1 DEF Publish, QueueInv, QueueTypeOK
  <2> QED
    BY <2>1, <2>2, QuietStep, SamePlaces DEF QueueInv
<1>3. CASE PublishQueued
  <2>1. created + 1 \in Msgs /\ call[created + 1] = "none"
    BY <1>3 DEF PublishQueued, QueueInv, MessageInv, QueueTypeOK
  <2> QED
    BY <1>3, <2>1, QueueFailedStep DEF PublishQueued, EnqueueNew
<1>4. ASSUME NEW m \in Msgs, SendDirect(m) \/ QueueFailed(m)
      PROVE  MessageStep(n) /\ LossStep(n)
  <2>1. CASE QueueFailed(m)
    BY <2>1, QueueFailedStep DEF QueueFailed, EnqueueNew
  <2>2. CASE SendDirect(m)
    <3>1. /\ \A k : Waiting(k)' = Waiting(k)
          /\ sent'[m] = sent[m] + 1 /\ sent[m] \in Nat /\ told'[m] = told[m] \cup {"sent"}
          /\ n # m => sent'[n] = sent[n] /\ told'[n] = told[n] /\ call'[n] = call[n]
          /\ sent[n] \in Nat
      BY <2>2, SamePlaces DEF SendDirect, Tell, QueueInv, QueueTypeOK
    <3>2. call[m] # "done" /\ ~Waiting(m)
      BY <2>2 DEF SendDirect, QueueInv, MessageInv
    <3> QED
      BY <3>1, <3>2 DEF MessageStep, Untouched, LossStep
  <2> QED
    BY <1>4, <2>1, <2>2
<1>5. CASE LoopTick \/ FlushByApp \/ EndFlush
  <2>1. UNCHANGED <<call, queue, told, sent>> /\ flush.msg = NoMsg /\ flush'.msg = NoMsg
    <3>1. CASE EndFlush
      BY <3>1 DEF EndFlush, NoFlush, QueueInv, Places
    <3>2. ASSUME NEW by, BeginFlush(by)
          PROVE  flush.msg = NoMsg /\ flush'.msg = NoMsg /\ UNCHANGED <<call, queue, told, sent>>
      <4>1. flush' = [at |-> "take", by |-> by, msg |-> NoMsg, left |-> BatchSize]
        BY <3>2 DEF BeginFlush, NoFlush
      <4> QED
        BY <3>2, <4>1 DEF BeginFlush, NoFlush
    <3> QED
      BY <1>5, <3>1, <3>2 DEF LoopTick, FlushByApp
  <2>2. Waiting(n)' = Waiting(n)
    BY <2>1 DEF Waiting, InQueue
  <2> QED
    BY <2>1, <2>2, QuietStep
<1> QED
  BY <1>1, <1>2, <1>3, <1>4, <1>5, TakeStep, FlushedStep DEF QueueNext, Flush

THEOREM QueueInvariant == QueueSpec => []QueueInv
BY InitQueueInv, NextQueueInv, PTL DEF QueueSpec

(* All that is behind a message in the queue was queued while it waits.    *)
THEOREM SinceInvariant == QueueSpec => []SinceInv
<1>1. InitQueue => SinceInv
  BY DEF InitQueue, SinceInv
<1>2. QueueInv /\ QueueInv' /\ SinceInv /\ [QueueNext]_qvars => SinceInv'
  BY NextSince
<1> QED
  BY <1>1, <1>2, QueueInvariant, PTL DEF QueueSpec

(* Types are kept, the queue within its size and the attempts within       *)
(* MaxAttempts (queue.go, Enqueue; publisher.go, FlushQueue).              *)
THEOREM QueueTypeCorrect == QueueSpec => []QueueTypeOK
<1>1. QueueInv => QueueTypeOK
  BY DEF QueueInv
<1> QED
  BY <1>1, QueueInvariant, PTL

(* No message is sent twice or waits once it has been sent, whichever of   *)
(* Publish, the loop and the application's flush gets it to the topic.     *)
THEOREM SentOnceHolds == QueueSpec => []SentOnce
<1>1. QueueInv => SentOnce
  <2> SUFFICES ASSUME QueueInv, NEW m \in Msgs
               PROVE  /\ sent[m] <= 1
                      /\ sent[m] = 1 => ~InQueue(m) /\ flush.msg # m /\ call[m] = "done"
    BY DEF SentOnce
  <2> QED
    BY DEF QueueInv, MessageInv, Waiting
<1> QED
  BY <1>1, QueueInvariant, PTL

(* A message is handed to the topic MaxAttempts + 1 times at most.         *)
THEOREM TriesBoundedHolds == QueueSpec => []TriesBounded
<1>1. QueueInv => TriesBounded
  BY DEF QueueInv, MessageInv, TriesBounded
<1> QED
  BY <1>1, QueueInvariant, PTL

-----------------------------------------------------------------------------
(* The queue is drained: what waits comes forward, and every flush ends.   *)

(* The messages that are in the queue before m. *)
Ahead(m) == {k \in Msgs : \E i, j \in DOMAIN queue : i < j /\ queue[i] = k /\ queue[j] = m}

(* No message in the queue is overtaken, neither by new ones nor by one    *)
(* that is put back, and each time one is taken out every other one that   *)
(* stays has fewer before it.                                              *)
NobodyOvertakes ==
  [][\A m \in Msgs :
       InQueue(m) /\ InQueue(m)' =>
         /\ Ahead(m)' \subseteq Ahead(m)
         /\ Take => Ahead(m)' # Ahead(m)]_qvars

(* What a shift does to the messages ahead of one that stays. *)
LEMMA ShiftedAhead ==
  ASSUME queue \in Seq(Msgs), queue' \in Seq(Msgs), Distinct(queue),
         NEW d \in Nat, Shifted(queue, queue', d),
         NEW m \in Msgs, InQueue(m), InQueue(m)'
  PROVE  /\ Ahead(m)' \subseteq Ahead(m)
         /\ d > 0 => Ahead(m)' # Ahead(m)
<1>1. /\ Len(queue) \in Nat /\ DOMAIN queue = 1..Len(queue) /\ DOMAIN queue' \subseteq Nat \ {0}
      /\ \A i \in DOMAIN queue : queue[i] \in Msgs
  BY LenProperties, ElementOfSeq
<1>2. m \in Elems(queue)
  BY DEF InQueue, Elems
<1>3. \A j \in DOMAIN queue' : queue'[j] = m => j + d \in DOMAIN queue /\ queue[j + d] = m
  BY <1>1, <1>2 DEF Shifted
<1>4. ASSUME NEW k \in Ahead(m)'
      PROVE  k \in Ahead(m)
  <2>1. PICK i \in DOMAIN queue', j \in DOMAIN queue' : i < j /\ queue'[i] = k /\ queue'[j] = m
    BY <1>4 DEF Ahead
  <2>2. j + d \in DOMAIN queue /\ queue[j + d] = m
    BY <1>3, <2>1
  <2>3. i + d \in DOMAIN queue /\ i + d < j + d
    BY <1>1, <2>1, <2>2
  <2>4. queue[i + d] = k
    BY <1>1, <2>1, <2>3 DEF Shifted
  <2> QED
    BY <1>1, <2>2, <2>3, <2>4 DEF Ahead
<1>5. ASSUME d > 0
      PROVE  Ahead(m)' # Ahead(m)
  <2>1. PICK j \in DOMAIN queue' : queue'[j] = m
    BY DEF InQueue
  <2>2. j + d \in DOMAIN queue /\ queue[j + d] = m
    BY <1>3, <2>1
  <2>3. d \in DOMAIN queue /\ d < j + d
    BY <1>1, <1>5, <2>2
  <2>4. queue[d] \in Ahead(m)
    BY <1>1, <2>2, <2>3 DEF Ahead
  <2>5. queue[d] \notin Ahead(m)'
    <3> SUFFICES ASSUME NEW i \in DOMAIN queue', queue'[i] = queue[d]
                 PROVE  FALSE
      BY DEF Ahead
    <3>1. queue[d] \in Elems(queue)
      BY <2>3 DEF Elems
    <3>2. i + d <= Len(queue) /\ queue[i + d] = queue[d]
      BY <3>1 DEF Shifted
    <3>3. i + d \in DOMAIN queue /\ i + d # d
      BY <1>1, <2>3, <3>2
    <3> QED
      BY <2>3, <3>2, <3>3 DEF Distinct
  <2> QED
    BY <2>4, <2>5
<1> QED
  BY <1>4, <1>5

(* A message that waits in the queue comes forward and never falls back    *)
(* (queue.go, Enqueue, Dequeue and cleanupExpiredLocked; publisher.go,     *)
(* FlushQueue): with a loop that goes on ticking, none waits for ever.     *)
THEOREM NobodyOvertakesHolds == QueueSpec => NobodyOvertakes
<1>1. QueueInv /\ QueueInv' /\ [QueueNext]_qvars =>
        [\A m \in Msgs :
           InQueue(m) /\ InQueue(m)' =>
             /\ Ahead(m)' \subseteq Ahead(m)
             /\ Take => Ahead(m)' # Ahead(m)]_qvars
  <2> SUFFICES ASSUME QueueInv, QueueInv', QueueNext, NEW m \in Msgs, InQueue(m), InQueue(m)'
               PROVE  /\ Ahead(m)' \subseteq Ahead(m)
                      /\ Take => Ahead(m)' # Ahead(m)
    OBVIOUS
  <2>0. queue \in Seq(Msgs) /\ queue' \in Seq(Msgs) /\ Distinct(queue)
    BY DEF QueueInv, QueueTypeOK, Places
  <2>1. CASE Take
    <3>1. queue' # <<>>
      BY DEF InQueue
    <3>2. Unexpired # <<>>
      BY <2>1, <3>1 DEF Take
    <3>3. PICK d \in Nat \ {0} : Shifted(queue, queue', d)
      BY <2>0, <2>1, <3>2, TakeShifted
    <3> QED
      BY <2>0, <3>3, ShiftedAhead
  <2>2. ASSUME ~Take
        PROVE  Ahead(m)' \subseteq Ahead(m)
    <3>1. queue' = queue \/ \E k \in Msgs : ~InQueue(k) /\ queue' = Pushed(k)
      <4>1. CASE PublishQueued
        <5>1. created + 1 \in Msgs /\ queue' = Pushed(created + 1) /\ created + 1 > created
          BY <4>1 DEF PublishQueued, EnqueueNew, Enqueue, QueueInv, QueueTypeOK
        <5>2. MessageInv(created + 1)
          BY <5>1 DEF QueueInv
        <5>3. call[created + 1] = "none"
          BY <5>1, <5>2 DEF MessageInv
        <5>4. ~InQueue(created + 1)
          BY <5>2, <5>3 DEF MessageInv, Waiting
        <5> QED
          BY <5>1, <5>4
      <4>2. ASSUME NEW k \in Msgs, QueueFailed(k)
            PROVE  ~InQueue(k) /\ queue' = Pushed(k)
        BY <4>2 DEF QueueFailed, EnqueueNew, Enqueue, QueueInv, MessageInv, Waiting
      <4>3. CASE FlushFail
        <5>1. flush.msg \in Msgs /\ ~InQueue(flush.msg)
          BY <4>3 DEF FlushFail, QueueInv, QueueTypeOK, Places
        <5> QED
          BY <4>3, <5>1 DEF FlushFail, Enqueue
      <4> QED
        BY <2>2, <4>1, <4>2, <4>3 DEF QueueNext, Flush, Expire, Publish, SendDirect, LoopTick,
           FlushByApp, BeginFlush, EndFlush, FlushSend, CloseTopic, LoopExit, JoinAgain
    <3>2. \E d \in Nat : Shifted(queue, queue', d)
      BY <2>0, <3>1, PushedShifted, StayShifted
    <3> QED
      BY <2>0, <3>2, ShiftedAhead
  <2> QED
    BY <2>1, <2>2
<1> QED
  BY <1>1, QueueInvariant, PTL DEF QueueSpec, NobodyOvertakes

(* What the flush in progress has left to do, in steps.                    *)
FlushLeft ==
  CASE flush.at = "none" -> 0
    [] flush.at = "take" -> 2 * flush.left + 1
    [] OTHER -> 2 * flush.left

(* A flush ends after 2 * BatchSize + 1 steps of its own at most, however  *)
(* many messages are published or put back meanwhile.                      *)
FlushEnds ==
  [][/\ Flush => FlushLeft' < FlushLeft
     /\ flush # NoFlush /\ ~Flush => FlushLeft' = FlushLeft]_qvars

(* A flush comes to its end by its own steps, whoever began it and         *)
(* whatever fails (publisher.go, FlushQueue), and gives up p.flushing.     *)
THEOREM FlushEndsHolds == QueueSpec => FlushEnds
<1>1. QueueInv /\ QueueInv' /\ [QueueNext]_qvars =>
        [/\ Flush => FlushLeft' < FlushLeft
         /\ flush # NoFlush /\ ~Flush => FlushLeft' = FlushLeft]_qvars
  <2> SUFFICES ASSUME QueueInv, QueueInv', QueueNext
               PROVE  /\ Flush => FlushLeft' < FlushLeft
                      /\ flush # NoFlush /\ ~Flush => FlushLeft' = FlushLeft
    OBVIOUS
  <2>1. /\ flush.left \in Nat /\ flush.at \in {"none", "take", "sending", "refused"}
        /\ flush.at \in {"sending", "refused"} => flush.left > 0
        /\ flush'.left \in Nat /\ flush'.at \in {"none", "take", "sending", "refused"}
    BY AttemptAssumption DEF QueueInv, QueueTypeOK, Places
  <2>0. /\ flush.at = "none" => FlushLeft = 0
        /\ flush.at = "take" => FlushLeft = 2 * flush.left + 1
        /\ flush.at \in {"sending", "refused"} => FlushLeft = 2 * flush.left
        /\ flush'.at = "none" => FlushLeft' = 0
        /\ flush'.at = "take" => FlushLeft' = 2 * flush'.left + 1
        /\ flush'.at \in {"sending", "refused"} => FlushLeft' = 2 * flush'.left
    BY DEF FlushLeft
  <2>2. CASE EndFlush
    <3>1. flush.at = "take" /\ flush'.at = "none"
      BY <2>2 DEF EndFlush, NoFlush
    <3>2. FlushLeft = 2 * flush.left + 1 /\ FlushLeft' = 0
      BY ONLY <2>0, <3>1
    <3>3. FlushLeft' < FlushLeft
      BY ONLY <2>1, <3>2
    <3>4. Flush
      BY <2>2 DEF Flush
    <3> QED
      BY ONLY <3>3, <3>4
  <2>3. CASE Take
    <3>1. /\ flush.at = "take"
          /\ flush'.at = "none" \/ (flush'.at \in {"sending", "refused"} /\ flush'.left = flush.left)
      <4>1. CASE Unexpired = <<>>
        BY <2>3, <4>1 DEF Take, NoFlush
      <4>2. CASE Unexpired # <<>>
        <5>1. flush' = [flush EXCEPT !.at = IF topic = "open" THEN "sending" ELSE "refused",
                                     !.msg = Head(Unexpired)]
          BY <2>3, <4>2 DEF Take
        <5>2. flush'.at \in {"sending", "refused"} /\ flush'.left = flush.left
          BY <5>1 DEF QueueInv, QueueTypeOK
        <5> QED
          BY <2>3, <5>2 DEF Take
      <4> QED
        BY <4>1, <4>2
    <3>2. /\ FlushLeft = 2 * flush.left + 1
          /\ FlushLeft' = 0 \/ FlushLeft' = 2 * flush.left
      BY ONLY <2>0, <3>1
    <3>3. FlushLeft' < FlushLeft
      BY ONLY <2>1, <3>2
    <3>4. Flush
      BY <2>3 DEF Flush
    <3> QED
      BY ONLY <3>3, <3>4
  <2>4. CASE FlushSend \/ FlushFail
    <3>1. flush.at \in {"sending", "refused"} /\ NextMessage
      BY <2>4 DEF FlushSend, FlushFail
    <3>2. flush'.at = "take" /\ flush'.left = flush.left - 1
      BY <3>1 DEF NextMessage, QueueInv, QueueTypeOK
    <3>3. FlushLeft' = 2 * (flush.left - 1) + 1 /\ FlushLeft = 2 * flush.left
      BY ONLY <2>0, <3>1, <3>2
    <3>4. FlushLeft' < FlushLeft
      BY ONLY <2>1, <3>3
    <3>5. Flush
      BY <2>4 DEF Flush
    <3> QED
      BY ONLY <3>4, <3>5
  <2>5. flush # NoFlush /\ ~Flush => flush' = flush
    BY DEF QueueNext, Expire, Publish, PublishQueued, SendDirect, QueueFailed, LoopTick,
       FlushByApp, BeginFlush, CloseTopic, LoopExit, JoinAgain
  <2>6. flush # NoFlush /\ ~Flush => FlushLeft' = FlushLeft
    BY <2>5 DEF FlushLeft
  <2> QED
    BY <2>2, <2>3, <2>4, <2>6 DEF Flush
<1> QED
  BY <1>1, QueueInvariant, PTL DEF QueueSpec, FlushEnds

-----------------------------------------------------------------------------
(* The fate of a message, read off the invariant. *)

FateRead ==
  \A m \in Msgs :
    /\ sent[m] \in Nat
    /\ sent[m] > 0 => Fate(m) = "sent"
    /\ sent[m] = 0 /\ "dropped" \in told[m] => Fate(m) = "dropped"
    /\ sent[m] = 0 /\ "dropped" \notin told[m] /\ call[m] = "done" =>
         Fate(m) = IF Waiting(m) THEN "accepted" ELSE "lost"
    /\ call[m] # "done" => Fate(m) = "new"

LEMMA FateIs == QueueInv => FateRead
<1> SUFFICES ASSUME QueueInv, NEW m \in Msgs
             PROVE  /\ sent[m] \in Nat
                    /\ sent[m] > 0 => Fate(m) = "sent"
                    /\ sent[m] = 0 /\ "dropped" \in told[m] => Fate(m) = "dropped"
                    /\ sent[m] = 0 /\ "dropped" \notin told[m] /\ call[m] = "done" =>
                         Fate(m) = IF Waiting(m) THEN "accepted" ELSE "lost"
                    /\ call[m] # "done" => Fate(m) = "new"
  BY DEF FateRead
<1>1. sent[m] \in Nat
  BY DEF QueueInv, QueueTypeOK
<1>2. CASE sent[m] > 0
  BY <1>1, <1>2 DEF Fate, QueueInv, MessageInv
<1>3. CASE sent[m] = 0 /\ "dropped" \in told[m]
  BY <1>3 DEF Fate, QueueInv, MessageInv
<1>4. CASE sent[m] = 0 /\ "dropped" \notin told[m]
  BY <1>4 DEF Fate, QueueInv, MessageInv, Waiting
<1> QED
  BY <1>1, <1>2, <1>3, <1>4

LEMMA FateNext == QueueInv' => FateRead'
BY FateIs, PTL

(* Every behaviour of the queue is one of MessageFate: a message is        *)
(* accepted and then sent, given up or lost, for good.                     *)
THEOREM FatesAreFinalHolds == QueueSpec => FatesAreFinal
<1>1. InitQueue => MF!Init
  <2> SUFFICES ASSUME InitQueue
               PROVE  [m \in Msgs |-> Fate(m)] = [m \in Msgs |-> "new"]
    BY DEF MF!Init
  <2>1. \A m \in Msgs : Fate(m) = "new"
    BY InitQueueInv, FateIs DEF InitQueue, FateRead
  <2> QED
    BY <2>1
<1>2. QueueInv /\ QueueInv' /\ SinceInv /\ [QueueNext]_qvars => [MF!Next]_[m \in Msgs |-> Fate(m)]
  <2> SUFFICES ASSUME QueueInv, QueueInv', SinceInv, [QueueNext]_qvars
               PROVE  MF!Next
    OBVIOUS
  <2>1. ASSUME NEW m \in Msgs
        PROVE  /\ MF!Moves(Fate(m), Fate(m)')
               /\ Fate(m)' \in {"new", "accepted"} \cup MF!Final
    <3>1. MessageStep(m)
      BY <2>1, StepOfMessage
    <3>2. FateRead /\ FateRead'
      BY FateIs, FateNext
    <3>3. CASE call[m] # "done"
      <4>1. Fate(m) = "new"
        BY <3>2, <3>3 DEF FateRead
      <4>2. call'[m] # "done" => Fate(m)' = "new"
        BY <3>2 DEF FateRead
      <4>3. call'[m] = "done" => Fate(m)' \in {"sent", "accepted"}
        <5>1. call'[m] = "done" /\ ~(sent'[m] > 0) => sent'[m] = 0 /\ Waiting(m)'
          BY <3>1, <3>2, <3>3 DEF MessageStep, FateRead
        <5>2. Waiting(m)' => "dropped" \notin told'[m]
          BY DEF QueueInv, MessageInv
        <5> QED
          BY <3>2, <5>1, <5>2 DEF FateRead
      <4> QED
        BY <4>1, <4>2, <4>3 DEF MF!Moves, MF!Final
    <3>4. CASE call[m] = "done"
      <4>1. call'[m] = "done" /\ sent'[m] >= sent[m] /\ told[m] \subseteq told'[m]
        BY <3>1, <3>4 DEF MessageStep
      <4>2. Fate(m)' \in {"accepted"} \cup MF!Final
        BY <3>2, <4>1 DEF FateRead, MF!Final
      <4>3. CASE Waiting(m)
        <5>1. Fate(m) = "accepted"
          BY <3>2, <3>4, <4>3 DEF FateRead, QueueInv, MessageInv
        <5> QED
          BY <4>2, <5>1 DEF MF!Moves
      <4>4. CASE ~Waiting(m)
        <5>1. Untouched(m)
          BY <3>1, <3>4, <4>4 DEF MessageStep
        <5>2. Fate(m)' = Fate(m)
          BY <3>2, <3>4, <4>4, <5>1 DEF FateRead, Untouched
        <5> QED
          BY <4>2, <5>2 DEF MF!Moves
      <4> QED
        BY <4>3, <4>4
    <3> QED
      BY <3>3, <3>4
  <2> QED
    BY <2>1 DEF MF!Next
<1> QED
  BY <1>1, <1>2, QueueInvariant, SinceInvariant, PTL DEF QueueSpec, FatesAreFinal, MF!Spec

(* What is not in the queue keeps the history it had when it last was.     *)
LEMMA HistoryKept ==
  ASSUME QueueInv, [QueueNext]_qvars, NEW m \in Msgs, ~InQueue(m)
  PROVE  since'[m] = since[m]
<1>1. ASSUME NEW k, Enqueue(k)
      PROVE  since'[m] = since[m]
  BY <1>1 DEF Enqueue
<1>2. CASE Take
  <2>1. CASE Unexpired = <<>>
    BY <1>2, <2>1 DEF Take
  <2>2. CASE Unexpired # <<>>
    <3>1. Head(Unexpired) \in Elems(queue)
      <4>1. Unexpired \in Seq(Msgs) /\ Elems(Unexpired) \subseteq Elems(queue)
        BY QueueOfMsgs, UnexpiredElems
      <4>2. Len(Unexpired) > 0 /\ Head(Unexpired) = Unexpired[1]
        BY <2>2, <4>1, EmptySeq, LenProperties
      <4>3. Head(Unexpired) \in Elems(Unexpired)
        BY <4>1, <4>2, LenProperties DEF Elems
      <4> QED
        BY <4>1, <4>3
    <3> QED
      BY <1>2, <2>2, <3>1, InQueueElems DEF Take, QueueInv, QueueTypeOK
  <2> QED
    BY <2>1, <2>2
<1>3. CASE FlushFail
  BY <1>1, <1>3 DEF FlushFail
<1> QED
  BY <1>1, <1>2, <1>3 DEF QueueNext, Flush, qvars, Expire, Publish, PublishQueued, EnqueueNew,
     SendDirect, QueueFailed, LoopTick, FlushByApp, BeginFlush, EndFlush, FlushSend,
     CloseTopic, LoopExit, JoinAgain

(* What is lost from the queue without a callback was too old, or as many  *)
(* others as the queue holds were queued while it waited there.            *)
THEOREM LossHasCauseHolds == QueueSpec => []LossHasCause
<1>1. InitQueue => LossHasCause
  BY InitQueueInv, FateIs DEF InitQueue, FateRead, LossHasCause
<1>2. QueueInv /\ QueueInv' /\ SinceInv /\ SinceInv' /\ LossHasCause /\ [QueueNext]_qvars =>
        LossHasCause'
  <2> SUFFICES ASSUME QueueInv, QueueInv', SinceInv, SinceInv', LossHasCause, [QueueNext]_qvars,
                      NEW m \in Msgs, Fate(m)' = "lost", m \notin old'
               PROVE  Cardinality(since'[m]) >= MaxSize
    BY DEF LossHasCause, SinceInv
  <2>1. MessageStep(m) /\ LossStep(m)
    BY StepOfMessage
  <2>2. old \subseteq old'
    BY DEF QueueNext, Flush, qvars, Expire, Publish, PublishQueued, EnqueueNew,
       SendDirect, QueueFailed, LoopTick, FlushByApp, BeginFlush, EndFlush, Take, FlushSend,
       FlushFail, CloseTopic, LoopExit, JoinAgain
  <2>3. /\ sent'[m] = 0 /\ "dropped" \notin told'[m] /\ call'[m] = "done" /\ ~Waiting(m)'
        /\ sent[m] \in Nat /\ sent'[m] \in Nat
    <3>1. FateRead /\ FateRead'
      BY FateIs, FateNext
    <3> QED
      BY <3>1 DEF FateRead
  <2>4. CASE Fate(m) = "lost"
    <3>1. Cardinality(since[m]) >= MaxSize
      BY <2>2, <2>4 DEF LossHasCause
    <3>2. ~InQueue(m)
      <4>1. FateRead
        BY FateIs
      <4>2. sent[m] = 0 /\ "dropped" \notin told[m]
        BY <2>1, <2>3 DEF MessageStep
      <4>3. call[m] = "done"
        BY <2>4, <4>1 DEF FateRead
      <4> QED
        BY <2>4, <4>1, <4>2, <4>3 DEF FateRead, Waiting
    <3>3. since'[m] = since[m]
      BY <3>2, HistoryKept
    <3> QED
      BY <3>1, <3>3
  <2>5. CASE Fate(m) # "lost"
    <3>1. Waiting(m)
      <4>1. FateRead
        BY FateIs
      <4>2. sent[m] = 0 /\ "dropped" \notin told[m]
        BY <2>1, <2>3 DEF MessageStep
      <4> QED
        BY <2>1, <2>3, <2>5, <4>1, <4>2 DEF MessageStep, FateRead
    <3> QED
      BY <2>1, <2>2, <2>3, <3>1 DEF LossStep
  <2> QED
    BY <2>4, <2>5
<1> QED
  BY <1>1, <1>2, QueueInvariant, SinceInvariant, PTL DEF QueueSpec

-----------------------------------------------------------------------------
(* PublishWithAck. *)

Earned ==
  \A c \in Calls :
    /\ received[c] \subseteq heard[c]
    /\ \A p \in Subscribers : <<c, p>> \in acks => p \in heard[c]
    /\ result[c] => IsComplete(received[c])

(* A call that has not begun is known to nobody. *)
Fresh ==
  \A c \in Calls :
    progress[c] = "none" => /\ c \notin registered /\ c \notin done /\ ~result[c]
                         /\ \A h \in Handlers : handler[h].call # c

Closing ==
  \A h \in Handlers :
    handler[h].at \in {"test", "close"} =>
      /\ handler[h].call \in Calls
      /\ handler[h].call \in registered => IsComplete(received[handler[h].call])

AckInv == AckTypeOK /\ Earned /\ Fresh /\ Closing /\ DoneMeansComplete

-----------------------------------------------------------------------------
LEMMA CriticalFinite ==
  ASSUME NEW S \in SUBSET Critical
  PROVE  /\ IsFiniteSet(S) /\ Cardinality(S) \in Nat /\ Cardinality(S) <= Cardinality(Critical)
         /\ Cardinality(S) >= Cardinality(Critical) => S = Critical
<1>1. IsFiniteSet(S) /\ Cardinality(S) <= Cardinality(Critical)
      /\ (Cardinality(S) = Cardinality(Critical) => S = Critical)
  BY PeersAssumption, FS_Subset
<1> QED
  BY <1>1, PeersAssumption, FS_CardinalityType

(* What has been acknowledged stays acknowledged. *)
LEMMA CompleteGrows ==
  ASSUME NEW S \in SUBSET Critical, NEW T \in SUBSET Critical, S \subseteq T, IsComplete(S)
  PROVE  IsComplete(T)
<1>1. CASE RequireAll
  <2>1. S = Critical
    BY <1>1, CriticalFinite DEF IsComplete
  <2>2. T = S
    BY <2>1
  <2> QED
    BY <2>2
<1>2. CASE ~RequireAll
  BY <1>2 DEF IsComplete
<1> QED
  BY <1>1, <1>2

-----------------------------------------------------------------------------
(* The invariant, action by action. *)

LEMMA InitAckInv == InitAcks => AckInv
<1> SUFFICES ASSUME InitAcks
             PROVE  AckInv
  OBVIOUS
<1>1. AckTypeOK
  <2>1. result \in [Calls -> BOOLEAN]
    BY Zenon DEF InitAcks
  <2>2. 0 \in 0..AckRetries
    BY ConfigAssumption
  <2>3. attempt \in [Calls -> 0..AckRetries]
    BY <2>2, Zenon DEF InitAcks
  <2> QED
    BY <2>1, <2>3 DEF InitAcks, AckTypeOK
<1>2. Earned
  BY DEF InitAcks, Earned
<1>3. Fresh
  BY NoCallAssumption DEF InitAcks, Fresh
<1>4. Closing /\ DoneMeansComplete
  BY DEF InitAcks, Closing, DoneMeansComplete
<1> QED
  BY <1>1, <1>2, <1>3, <1>4 DEF AckInv

LEMMA BroadcastInv ==
  ASSUME AckInv, NEW c \in Calls, SendRequest(c) \/ Retry(c)
  PROVE  AckInv'
<1>1. UNCHANGED <<registered, received, done, result, heard, acks, handler, crashed>>
  BY DEF SendRequest, Retry
<1>2. PICK to \in SUBSET Subscribers : requests' = requests \cup ({c} \X to)
  BY DEF SendRequest, Retry, Broadcast
<1>3. requests' \subseteq Calls \X Subscribers
  BY <1>2 DEF AckInv, AckTypeOK
<1>4. /\ progress' \in [Calls -> {"none", "sending", "waiting"} \cup Returned]
      /\ attempt' \in [Calls -> 0..AckRetries]
      /\ \A d \in Calls : progress'[d] = "none" => progress[d] = "none"
  BY ConfigAssumption DEF SendRequest, Retry, AckInv, AckTypeOK
<1>5. AckTypeOK'
  BY <1>1, <1>3, <1>4 DEF AckInv, AckTypeOK
<1>6. Earned' /\ Closing' /\ DoneMeansComplete'
  BY <1>1 DEF AckInv, Earned, Closing, DoneMeansComplete
<1>7. Fresh'
  BY <1>1, <1>4 DEF AckInv, Fresh
<1> QED
  BY <1>5, <1>6, <1>7 DEF AckInv

LEMMA BeginInv ==
  ASSUME AckInv, NEW c \in Calls, PublishWithAck(c)
  PROVE  AckInv'
<1>1. /\ UNCHANGED <<attempt, received, done, result, net, handler, crashed>>
      /\ registered' = registered \cup {c} /\ c \notin registered /\ c \notin done
      /\ progress' = [progress EXCEPT ![c] = "sending"]
      /\ \A h \in Handlers : handler[h].call # c
  BY DEF PublishWithAck, AckInv, Fresh
<1>2. AckTypeOK'
  BY <1>1 DEF AckInv, AckTypeOK, net
<1>3. Earned' /\ Closing' /\ DoneMeansComplete'
  BY <1>1 DEF AckInv, Earned, Closing, DoneMeansComplete, net
<1>4. Fresh'
  BY <1>1 DEF AckInv, AckTypeOK, Fresh
<1> QED
  BY <1>2, <1>3, <1>4 DEF AckInv

(* A call returns: it is registered no more, and says what it has received. *)
LEMMA ReturnInv ==
  ASSUME AckInv, NEW c \in Calls, SendFails(c) \/ GiveUp(c) \/ Cancel(c) \/ SeeDone(c)
  PROVE  AckInv'
<1>1. PICK how \in Returned : Return(c, how)
  BY DEF SendFails, GiveUp, Cancel, SeeDone, ReturnResult, Returned
<1>2. result' \in {result, [result EXCEPT ![c] = IsComplete(received[c])]}
  BY DEF SendFails, GiveUp, Cancel, SeeDone, ReturnResult
<1>3. /\ UNCHANGED <<attempt, received, done, net, handler, crashed>>
      /\ registered' = registered \ {c} /\ progress' = [progress EXCEPT ![c] = how]
  BY <1>1 DEF Return
<1>4. IsComplete(received[c]) \in BOOLEAN
  <2>1. CASE RequireAll
    <3>1. (Cardinality(received[c]) >= Cardinality(Critical)) \in BOOLEAN
      BY CriticalFinite, SMT DEF AckInv, AckTypeOK
    <3> QED
      BY <2>1, <3>1, Zenon DEF IsComplete
  <2>2. CASE ~RequireAll
    BY <2>2, Zenon DEF IsComplete
  <2> QED
    BY <2>1, <2>2
<1>5. /\ result' \in [Calls -> BOOLEAN]
      /\ \A d \in Calls : result'[d] => result[d] \/ (d = c /\ IsComplete(received[c]))
  <2>1. result \in [Calls -> BOOLEAN]
    BY DEF AckInv, AckTypeOK
  <2>2. CASE result' = result
    <3>1. result' \in [Calls -> BOOLEAN]
      BY <2>1, <2>2, Zenon
    <3>2. \A d \in Calls : result'[d] => result[d]
      BY <2>2, Zenon
    <3> QED
      BY <3>1, <3>2
  <2>3. CASE result' = [result EXCEPT ![c] = IsComplete(received[c])]
    <3>1. PICK b \in BOOLEAN : b = IsComplete(received[c])
      BY <1>4
    <3>2. result' = [result EXCEPT ![c] = b]
      BY <2>3, <3>1
    <3>3. result' \in [Calls -> BOOLEAN]
      BY <2>1, <3>2
    <3>4. \A d \in Calls : result'[d] => result[d] \/ (d = c /\ b)
      BY <2>1, <3>2
    <3> QED
      BY <3>1, <3>3, <3>4
  <2> QED
    BY <1>2, <2>2, <2>3
<1>6. AckTypeOK'
  BY <1>3, <1>5 DEF AckInv, AckTypeOK, net, Returned
<1>7. Earned' /\ Closing' /\ DoneMeansComplete'
  BY <1>3, <1>5 DEF AckInv, Earned, Closing, DoneMeansComplete, net
<1>8. Fresh'
  <2>1. ASSUME NEW d \in Calls, progress'[d] = "none"
        PROVE  d # c /\ progress[d] = "none"
    BY <1>3, <2>1 DEF AckInv, AckTypeOK, Returned
  <2> QED
    BY <1>3, <1>5, <2>1 DEF AckInv, Fresh
<1> QED
  BY <1>6, <1>7, <1>8 DEF AckInv

LEMMA NetworkInv ==
  ASSUME AckInv, NEW c \in Calls, NEW p \in Subscribers,
         Receive(c, p) \/ LoseRequest(c, p) \/ LoseAck(c, p)
  PROVE  AckInv'
<1>1. UNCHANGED <<progress, attempt, registered, received, done, result, handler, crashed>>
  BY DEF Receive, LoseRequest, LoseAck
<1>2. /\ requests' \subseteq requests /\ acks' \subseteq acks \cup {<<c, p>>}
      /\ heard' \in {heard, [heard EXCEPT ![c] = @ \cup {p}]}
      /\ heard' = heard => acks' \subseteq acks \/ p \in heard[c]
  BY DEF Receive, LoseRequest, LoseAck, AckInv, AckTypeOK
<1>3. /\ heard' \in [Calls -> SUBSET Subscribers]
      /\ \A d \in Calls : heard[d] \subseteq heard'[d]
      /\ p \in heard'[c] \/ acks' \subseteq acks
  BY <1>2 DEF AckInv, AckTypeOK
<1>4. AckTypeOK'
  BY <1>1, <1>2, <1>3 DEF AckInv, AckTypeOK
<1>5. Earned'
  BY <1>1, <1>2, <1>3 DEF AckInv, Earned
<1>6. Fresh' /\ Closing' /\ DoneMeansComplete'
  BY <1>1 DEF AckInv, Fresh, Closing, DoneMeansComplete
<1> QED
  BY <1>4, <1>5, <1>6 DEF AckInv

LEMMA AddAckInv ==
  ASSUME AckInv, NEW h \in Handlers, NEW c \in Calls, NEW p \in Subscribers, AddAck(h, c, p)
  PROVE  AckInv'
<1>1. /\ UNCHANGED <<progress, attempt, registered, done, result, requests, heard, crashed>>
      /\ acks' = acks \ {<<c, p>>} /\ p \in heard[c]
  BY DEF AddAck, AckInv, Earned
<1>2. CASE ~(c \in registered /\ p \in Critical)
  <2>1. UNCHANGED <<received, handler>>
    BY <1>2 DEF AddAck
  <2> QED
    BY <1>1, <2>1 DEF AckInv, AckTypeOK, Earned, Fresh, Closing, DoneMeansComplete
<1>3. CASE c \in registered /\ p \in Critical
  <2>1. /\ received' = [received EXCEPT ![c] = @ \cup {p}]
        /\ IF IsComplete(received'[c]) THEN Goto(h, "test", c) ELSE UNCHANGED handler
    BY <1>3 DEF AddAck
  <2>2. /\ received' \in [Calls -> SUBSET Critical]
        /\ \A d \in Calls : received[d] \subseteq received'[d] /\ received'[d] \subseteq heard'[d]
    BY <1>1, <1>3, <2>1 DEF AckInv, AckTypeOK, Earned
  <2>3. \A d \in Calls : IsComplete(received[d]) => IsComplete(received'[d])
    BY <2>2, CompleteGrows DEF AckInv, AckTypeOK
  <2>4. /\ handler' \in [Handlers -> [at : {"idle", "test", "close"}, call : Calls \cup {NoCall}]]
        /\ \A g \in Handlers : \/ handler'[g] = handler[g]
                               \/ handler'[g].call = c /\ IsComplete(received'[c])
    BY <2>1 DEF Goto, AckInv, AckTypeOK
  <2>5. progress[c] # "none"
    BY <1>3 DEF AckInv, Fresh
  <2>6. AckTypeOK'
    BY <1>1, <2>2, <2>4 DEF AckInv, AckTypeOK
  <2>7. Earned'
    BY <1>1, <2>2, <2>3 DEF AckInv, Earned
  <2>8. Fresh'
    BY <1>1, <2>4, <2>5 DEF AckInv, Fresh
  <2>9. Closing' /\ DoneMeansComplete'
    BY <1>1, <2>3, <2>4 DEF AckInv, AckTypeOK, Closing, DoneMeansComplete
  <2> QED
    BY <2>6, <2>7, <2>8, <2>9 DEF AckInv
<1> QED
  BY <1>2, <1>3

LEMMA HandlerInv ==
  ASSUME AckInv, NEW h \in Handlers, Handle(h) \/ \E c \in Calls : CleanupPendingAck(h, c)
  PROVE  AckInv'
<1>1. CASE TestDone(h)
  <2>1. /\ UNCHANGED <<progress, attempt, registered, received, done, result, net, crashed>>
        /\ handler' \in [Handlers -> [at : {"idle", "test", "close"}, call : Calls \cup {NoCall}]]
        /\ handler[h].at = "test"
        /\ \A g \in Handlers : handler'[g].call \in {handler[g].call, NoCall}
                               /\ (handler'[g] = handler[g] \/ g = h)
        /\ handler'[h].at = "close" => handler'[h].call = handler[h].call
        /\ handler'[h].at # "test"
    <3>1. handler \in [Handlers -> [at : {"idle", "test", "close"}, call : Calls \cup {NoCall}]]
      BY DEF AckInv, AckTypeOK
    <3>2. \/ handler' = [handler EXCEPT ![h] = [at |-> "idle", call |-> NoCall]]
          \/ handler' = [handler EXCEPT ![h] = [at |-> "close", call |-> handler[h].call]]
      BY <1>1 DEF TestDone, Goto
    <3>3. /\ handler[h].at = "test"
          /\ UNCHANGED <<progress, attempt, registered, received, done, result, net, crashed>>
      BY <1>1 DEF TestDone
    <3> QED
      BY <3>1, <3>2, <3>3
  <2>2. AckTypeOK' /\ Earned' /\ DoneMeansComplete'
    BY <2>1 DEF AckInv, AckTypeOK, Earned, DoneMeansComplete, net
  <2>3. Fresh'
    BY <2>1, NoCallAssumption DEF AckInv, Fresh
  <2>4. Closing'
    BY <2>1 DEF AckInv, Closing
  <2> QED
    BY <2>2, <2>3, <2>4 DEF AckInv
<1>2. CASE CloseDone(h)
  <2>1. /\ UNCHANGED <<progress, attempt, registered, received, result, net>>
        /\ crashed' \in BOOLEAN
        /\ done' = done \cup {handler[h].call}
        /\ handler' = [handler EXCEPT ![h] = [at |-> "idle", call |-> NoCall]]
        /\ handler[h].at = "close" /\ handler[h].call \in Calls
        /\ handler[h].call \in registered => IsComplete(received[handler[h].call])
    BY <1>2 DEF CloseDone, Goto, AckInv, Closing
  <2>2. AckTypeOK'
    BY <2>1 DEF AckInv, AckTypeOK, net
  <2>3. Earned' /\ DoneMeansComplete' /\ Closing'
    BY <2>1 DEF AckInv, AckTypeOK, Earned, DoneMeansComplete, Closing, net
  <2>4. Fresh'
    BY <2>1, NoCallAssumption DEF AckInv, AckTypeOK, Fresh
  <2> QED
    BY <2>2, <2>3, <2>4 DEF AckInv
<1>3. ASSUME NEW c \in Calls, CleanupPendingAck(h, c)
      PROVE  AckInv'
  <2>1. /\ UNCHANGED <<progress, attempt, received, done, result, net, crashed>>
        /\ registered' = registered \ {c} /\ c \in registered /\ progress[c] # "none"
        /\ handler' = [handler EXCEPT ![h] = [at |-> "test", call |-> c]]
    BY <1>3 DEF CleanupPendingAck, Goto, AckInv, Fresh
  <2>2. AckTypeOK'
    BY <2>1 DEF AckInv, AckTypeOK, net
  <2>3. Earned' /\ DoneMeansComplete' /\ Closing'
    BY <2>1 DEF AckInv, AckTypeOK, Earned, DoneMeansComplete, Closing, net
  <2>4. Fresh'
    BY <2>1 DEF AckInv, AckTypeOK, Fresh
  <2> QED
    BY <2>2, <2>3, <2>4 DEF AckInv
<1> QED
  BY <1>1, <1>2, <1>3 DEF Handle

LEMMA NextAckInv == AckInv /\ [AckNext]_avars => AckInv'
<1>1. ASSUME AckInv, UNCHANGED avars
      PROVE  AckInv'
  BY <1>1 DEF avars, AckInv, AckTypeOK, Earned, Fresh, Closing, DoneMeansComplete
<1>2. ASSUME AckInv, NEW c \in Calls, MapRace(c)
      PROVE  AckInv'
  BY <1>2 DEF MapRace, net, AckInv, AckTypeOK, Earned, Fresh, Closing, DoneMeansComplete
<1> QED
  BY <1>1, <1>2, BroadcastInv, BeginInv, ReturnInv, NetworkInv, AddAckInv, HandlerInv
     DEF AckNext, Finish

-----------------------------------------------------------------------------
THEOREM AckInvariant == AckSpec => []AckInv
BY InitAckInv, NextAckInv, PTL DEF AckSpec

(* Types are kept; a call publishes AckRetries + 1 times at most.          *)
THEOREM AckTypeCorrect == AckSpec => []AckTypeOK
<1>1. AckInv => AckTypeOK
  BY DEF AckInv
<1> QED
  BY <1>1, AckInvariant, PTL

(* Done is closed, of a call still registered, only when enough critical   *)
(* peers have acknowledged it (publisher.go, HandleAck).                   *)
THEOREM DoneMeansCompleteHolds == AckSpec => []DoneMeansComplete
<1>1. AckInv => DoneMeansComplete
  BY DEF AckInv
<1> QED
  BY <1>1, AckInvariant, PTL

LEMMA CompleteIsEnough ==
  ASSUME NEW S \in SUBSET Critical, NEW T \in SUBSET Critical, S \subseteq T, IsComplete(S)
  PROVE  AP!Enough(T)
<1>1. CASE RequireAll
  <2>1. S = Critical
    BY <1>1, CriticalFinite DEF IsComplete
  <2> QED
    BY <1>1, <2>1 DEF AP!Enough
<1>2. CASE ~RequireAll
  BY <1>2 DEF IsComplete, AP!Enough
<1> QED
  BY <1>1, <1>2

(* The calls implement AckPromise: a call that reports success has been    *)
(* received by the critical peers it required.                             *)
THEOREM ResultIsEarnedHolds == AckSpec => ResultIsEarned
<1> DEFINE reach == [c \in Calls |-> heard[c] \cap Critical]
           out == [c \in Calls |-> Outcome(c)]
<1>1. InitAcks => AP!Init
  BY DEF InitAcks, AP!Init, Outcome, Returned
<1>2. AckInv /\ [AckNext]_avars => [AP!Next]_<<reach, out>>
  <2> SUFFICES ASSUME AckInv, [AckNext]_avars
               PROVE  AP!Next \/ UNCHANGED <<reach, out>>
    OBVIOUS
  <2>1. ASSUME UNCHANGED <<heard, progress, result>>
        PROVE  UNCHANGED <<reach, out>>
    BY <2>1 DEF Outcome
  <2>2. ASSUME NEW c \in Calls, NEW how \in Returned, Return(c, how),
               progress[c] \notin Returned,
               \/ result' = result
               \/ result' = [result EXCEPT ![c] = IsComplete(received[c])]
        PROVE  AP!Next
    <3>1. heard' = heard /\ progress' = [progress EXCEPT ![c] = how]
      BY <2>2 DEF Return, net
    <3>2. PICK outcome \in {"success", "failure"} : outcome = Outcome(c)'
      BY <2>2, <3>1 DEF Outcome, AckInv, AckTypeOK
    <3>3. Outcome(c) = "none"
      BY <2>2 DEF Outcome
    <3>4. \A d \in Calls : d # c => Outcome(d)' = Outcome(d)
      BY <2>2, <3>1 DEF Outcome, AckInv, AckTypeOK
    <3>5. outcome = "success" => IsComplete(received[c])
      <4>1. outcome = "success" => result'[c]
        BY <3>2 DEF Outcome
      <4>2. result'[c] => result[c] \/ IsComplete(received[c])
        BY <2>2 DEF AckInv, AckTypeOK
      <4> QED
        BY <4>1, <4>2 DEF AckInv, Earned
    <3>6. outcome = "success" => AP!Enough(reach[c])
      <4>1. received[c] \in SUBSET Critical /\ received[c] \subseteq heard[c] \cap Critical
        BY DEF AckInv, AckTypeOK, Earned
      <4> QED
        BY <3>5, <4>1, CompleteIsEnough
    <3>7. out' = [out EXCEPT ![c] = outcome] /\ reach' = reach
      BY <3>1, <3>2, <3>4
    <3> QED
      BY <3>3, <3>6, <3>7 DEF AP!Next, AP!Return
  <2>3. ASSUME NEW c \in Calls, SendFails(c) \/ GiveUp(c) \/ Cancel(c) \/ SeeDone(c)
        PROVE  AP!Next
    BY <2>2, <2>3 DEF SendFails, GiveUp, Cancel, SeeDone, ReturnResult, Returned
  <2>4. ASSUME NEW c \in Calls, NEW p \in Subscribers, Receive(c, p)
        PROVE  AP!Next \/ UNCHANGED <<reach, out>>
    <3>1. heard' = [heard EXCEPT ![c] = @ \cup {p}] /\ progress' = progress /\ result' = result
      BY <2>4 DEF Receive
    <3>2. out' = out
      BY <3>1 DEF Outcome
    <3>3. CASE p \in Critical
      <4>1. reach' = [reach EXCEPT ![c] = @ \cup {p}]
        BY <3>1, <3>3 DEF AckInv, AckTypeOK
      <4> QED
        BY <3>2, <3>3, <4>1 DEF AP!Next, AP!Reach
    <3>4. CASE p \notin Critical
      BY <3>1, <3>2, <3>4 DEF AckInv, AckTypeOK
    <3> QED
      BY <3>3, <3>4
  <2>5. ASSUME NEW c \in Calls, PublishWithAck(c) \/ SendRequest(c) \/ Retry(c)
        PROVE  UNCHANGED <<reach, out>>
    <3>1. /\ heard' = heard /\ result' = result
          /\ \A d \in Calls : /\ progress[d] \notin Returned => progress'[d] \notin Returned
                              /\ progress[d] \in Returned => progress'[d] = progress[d]
      BY <2>5 DEF PublishWithAck, SendRequest, Retry, net, Returned, AckInv, AckTypeOK
    <3> QED
      BY <3>1 DEF Outcome
  <2>6. ASSUME NEW h \in Handlers, NEW c \in Calls,
               CleanupPendingAck(h, c) \/ \E p \in Subscribers : AddAck(h, c, p)
        PROVE  UNCHANGED <<reach, out>>
    BY <2>1, <2>6 DEF CleanupPendingAck, AddAck, net
  <2>7. ASSUME NEW h \in Handlers, Handle(h)
        PROVE  UNCHANGED <<reach, out>>
    BY <2>1, <2>7 DEF Handle, TestDone, CloseDone, net
  <2>8. ASSUME NEW c \in Calls, NEW p \in Subscribers, LoseRequest(c, p) \/ LoseAck(c, p)
        PROVE  UNCHANGED <<reach, out>>
    BY <2>1, <2>8 DEF LoseRequest, LoseAck
  <2>9. ASSUME UNCHANGED avars \/ \E c \in Calls : MapRace(c)
        PROVE  UNCHANGED <<reach, out>>
    BY <2>1, <2>9 DEF avars, MapRace, net
  <2> QED
    BY <2>3, <2>4, <2>5, <2>6, <2>7, <2>8, <2>9 DEF AckNext, Finish
<1> QED
  BY <1>1, <1>2, AckInvariant, PTL DEF AckSpec, ResultIsEarned, AP!Spec

-----------------------------------------------------------------------------
(* The calls return *)

(* What a call of PublishWithAck has left to do at most, in steps.         *)
CallLeft(c) ==
  CASE progress[c] = "sending" -> AckRetries + 2
    [] progress[c] = "waiting" -> AckRetries - attempt[c] + 1
    [] OTHER -> 0

(* A call sends AckRetries + 1 times at most and then returns, whatever    *)
(* peers and handlers do: none of their steps gives it another try.        *)
AckCallsEnd ==
  [][\A c \in Calls :
       /\ Finish(c) => CallLeft(c)' < CallLeft(c)
       /\ progress[c] # "none" => CallLeft(c)' <= CallLeft(c)]_avars

(* Every call comes to its end by its own steps (publisher.go,             *)
(* PublishWithAck and waitForAck), for any number of peers and handlers.   *)
THEOREM AckCallsEndHolds == AckSpec => AckCallsEnd
<1>1. AckInv /\ AckInv' /\ [AckNext]_avars =>
        [\A c \in Calls :
           /\ Finish(c) => CallLeft(c)' < CallLeft(c)
           /\ progress[c] # "none" => CallLeft(c)' <= CallLeft(c)]_avars
  <2> SUFFICES ASSUME AckInv, AckInv', AckNext, NEW c \in Calls
               PROVE  /\ Finish(c) => CallLeft(c)' < CallLeft(c)
                      /\ progress[c] # "none" => CallLeft(c)' <= CallLeft(c)
    OBVIOUS
  <2>1. /\ attempt[c] \in 0..AckRetries /\ attempt'[c] \in 0..AckRetries /\ AckRetries \in Nat
        /\ attempt \in [Calls -> 0..AckRetries]
        /\ progress \in [Calls -> {"none", "sending", "waiting"} \cup Returned]
        /\ progress[c] \in {"none", "sending", "waiting"} \cup Returned
        /\ progress'[c] \in {"none", "sending", "waiting"} \cup Returned
    BY ConfigAssumption DEF AckInv, AckTypeOK
  <2>2. /\ CallLeft(c) \in Nat /\ CallLeft(c)' \in Nat
        /\ progress'[c] \in Returned => CallLeft(c)' = 0
        /\ progress'[c] = "waiting" => CallLeft(c)' = AckRetries - attempt'[c] + 1
        /\ progress[c] = "waiting" => CallLeft(c) = AckRetries - attempt[c] + 1
        /\ progress[c] = "sending" => CallLeft(c) = AckRetries + 2
    BY <2>1 DEF CallLeft, Returned
  <2>3. CASE SendRequest(c)
    <3>1. progress[c] = "sending" /\ progress'[c] = "waiting" /\ attempt'[c] = attempt[c]
      BY <2>1, <2>3 DEF SendRequest
    <3> QED
      BY <2>1, <2>2, <3>1
  <2>4. CASE Retry(c)
    <3>1. progress[c] = "waiting" /\ progress'[c] = "waiting" /\ attempt'[c] = attempt[c] + 1
      BY <2>1, <2>4 DEF Retry
    <3> QED
      BY <2>1, <2>2, <3>1
  <2>5. CASE SendFails(c) \/ GiveUp(c) \/ SeeDone(c) \/ Cancel(c)
    <3>1. progress[c] \in {"sending", "waiting"} /\ progress'[c] \in Returned
      BY <2>1, <2>5 DEF SendFails, GiveUp, SeeDone, Cancel, ReturnResult, Return, Returned
    <3> QED
      BY <2>1, <2>2, <3>1
  <2>6. ASSUME ~Finish(c), ~Cancel(c), progress[c] # "none"
        PROVE  progress'[c] = progress[c] /\ attempt'[c] = attempt[c]
    <3>1. ASSUME NEW d \in Calls, PublishWithAck(d) \/ Cancel(d) \/ Finish(d)
          PROVE  progress'[c] = progress[c] /\ attempt'[c] = attempt[c]
      <4>1. d # c \/ PublishWithAck(c)
        BY <2>6, <3>1
      <4>2. d # c
        BY <2>6, <4>1 DEF PublishWithAck
      <4> QED
        BY <2>1, <3>1, <4>2 DEF PublishWithAck, Cancel, Finish, SendRequest, SendFails, Retry, GiveUp,
           SeeDone, ReturnResult, Return
    <3> QED
      BY <3>1 DEF AckNext, Receive, LoseRequest, LoseAck, Handle, TestDone, CloseDone,
         CleanupPendingAck, AddAck, MapRace
  <2>7. ~Finish(c) /\ ~Cancel(c) /\ progress[c] # "none" => CallLeft(c)' = CallLeft(c)
    BY <2>6 DEF CallLeft
  <2> QED
    BY <2>2, <2>3, <2>4, <2>5, <2>7 DEF Finish
<1> QED
  BY <1>1, AckInvariant, PTL DEF AckSpec, AckCallsEnd
===============================================================================
