---------------------------- MODULE MpscChannel ----------------------------
(***************************************************************************)
(* The multi-producer single-consumer channel of coroutine/channel.rs, in  *)
(* its bounded form (channel, Sender, Receiver) and its unbounded form     *)
(* (unbounded_channel, UnboundedSender, UnboundedReceiver), used by some   *)
(* sender tasks and one receiver task.                                     *)
(*                                                                         *)
(* Every operation is one critical section of the mutex around MpscInner,  *)
(* so it is one action.  The scheduler (Scheduler.tla) appears as woken:   *)
(* waking a task puts it in the run queue, and a task in the run queue is  *)
(* polled.  A sender that drops a pending send (a timeout around it, or    *)
(* select) leaves its waker in the channel and keeps its handle.           *)
(***************************************************************************)
EXTENDS Naturals, Sequences, FiniteSets

CONSTANTS
  Senders,      \* tasks that may hold a sender handle
  First,        \* the task the first handle is given to
  Rx,           \* the receiver task
  Kinds,        \* which constructors the program may call
  Capacity,     \* the capacity given to channel
  MaxItems,     \* bound: messages a sender tries to send
  MaxAbandons   \* bound: sends that are dropped while they wait

ASSUME ChannelTasks ==
  First \in Senders /\ Rx \notin Senders /\ IsFiniteSet(Senders)
ASSUME ChannelKinds == Kinds \subseteq {"bounded", "unbounded"}
ASSUME ChannelBounds ==
  Capacity \in Nat /\ MaxItems \in Nat /\ MaxAbandons \in Nat

VARIABLES
  kind,        \* which constructor made the channel
  queue,       \* MpscInner::queue; an item is <<sender, its number>>
  recvWaker,   \* MpscInner::recv_waker is set
  sendWakers,  \* MpscInner::send_wakers, the tasks whose wakers are queued
  senders,     \* MpscInner::senders
  closed,      \* MpscInner::closed
  pc,          \* where each sender task is
  rpc,         \* where the receiver is
  woken,       \* woken[t]: t is in the scheduler's queue
  tried,       \* tried[s]: bounded count of sends s has begun
  abandons,    \* bounded count of dropped sends
  sent,        \* history: sent[s]: how many sends of s returned Ok
  got,         \* history: got[s]: the last item of s the receiver was handed
  refused,     \* history: some send returned Err
  lost         \* history: a sender was woken and did not use it

cvars == <<queue, recvWaker, sendWakers, senders, closed>>
hvars == <<sent, got, refused, lost>>
vars == <<kind, cvars, pc, rpc, woken, tried, abandons, hvars>>

\* The tasks that own a sender handle.
Live(s) == pc[s] \in {"idle", "sendwait"}

Init ==
  /\ kind \in Kinds
  /\ queue = <<>>
  /\ recvWaker = FALSE
  /\ sendWakers = <<>>
  /\ senders = 1
  /\ closed = FALSE
  /\ pc = [s \in Senders |-> IF s = First THEN "idle" ELSE "none"]
  /\ rpc = "idle"
  /\ woken = [t \in Senders \cup {Rx} |-> FALSE]
  /\ tried = [s \in Senders |-> 0]
  /\ abandons = 0
  /\ sent = [s \in Senders |-> 0]
  /\ got = [s \in Senders |-> 0]
  /\ refused = FALSE
  /\ lost = FALSE

-----------------------------------------------------------------------------
\* Sender::send, the poll of SendFut, and UnboundedSender::send, which never waits.

\* s begins a send, or its suspended send is polled because s was woken.
Sends(s) ==
  \/ /\ pc[s] = "idle" /\ tried[s] < MaxItems
     /\ tried' = [tried EXCEPT ![s] = @ + 1]
  \/ pc[s] = "sendwait" /\ woken[s] /\ UNCHANGED tried

\* The poll takes a suspended sender off the run queue.
Resumed(s) == IF pc[s] = "sendwait" THEN [woken EXCEPT ![s] = FALSE] ELSE woken

\* channel: capacity.max(1).
Places == IF Capacity = 0 THEN 1 ELSE Capacity

Full == kind = "bounded" /\ Len(queue) >= Places

\* Mutation of WakeReceiver: the waker is taken and dropped.
WakeReceiverNever(w) ==
  /\ recvWaker' = FALSE
  /\ woken' = w

\* recv_waker.take() and wake, on top of the run queue w.
WakeReceiver(w) ==
  /\ recvWaker' = FALSE
  /\ woken' = [w EXCEPT ![Rx] = @ \/ recvWaker]

SendRefused(s) ==
  /\ Sends(s)
  /\ closed
  /\ pc' = [pc EXCEPT ![s] = "idle"]
  /\ woken' = Resumed(s)
  /\ refused' = TRUE
  /\ UNCHANGED <<kind, cvars, rpc, abandons, sent, got, lost>>

\* Mutation of SendItem: push_front instead of push_back.
SendItemFront(s) ==
  /\ Sends(s)
  /\ ~closed
  /\ ~Full
  /\ queue' = <<<<s, sent[s] + 1>>>> \o queue
  /\ sent' = [sent EXCEPT ![s] = @ + 1]
  /\ WakeReceiver(Resumed(s))
  /\ pc' = [pc EXCEPT ![s] = "idle"]
  /\ UNCHANGED <<kind, sendWakers, senders, closed, rpc, abandons,
                 got, refused, lost>>

SendItem(s) ==
  /\ Sends(s)
  /\ ~closed
  /\ ~Full
  /\ queue' = Append(queue, <<s, sent[s] + 1>>)
  /\ sent' = [sent EXCEPT ![s] = @ + 1]
  /\ WakeReceiver(Resumed(s))
  /\ pc' = [pc EXCEPT ![s] = "idle"]
  /\ UNCHANGED <<kind, sendWakers, senders, closed, rpc, abandons,
                 got, refused, lost>>

SendSuspend(s) ==
  /\ Sends(s)
  /\ ~closed
  /\ Full
  /\ sendWakers' = Append(sendWakers, s)
  /\ pc' = [pc EXCEPT ![s] = "sendwait"]
  /\ woken' = Resumed(s)
  /\ UNCHANGED <<kind, queue, recvWaker, senders, closed, rpc, abandons, hvars>>

\* A waiting send is dropped: nothing in the channel changes.
Abandon(s) ==
  /\ pc[s] = "sendwait"
  /\ abandons < MaxAbandons
  /\ abandons' = abandons + 1
  /\ lost' = (lost \/ woken[s])
  /\ pc' = [pc EXCEPT ![s] = "idle"]
  /\ UNCHANGED <<kind, cvars, rpc, woken, tried, sent, got, refused>>

-----------------------------------------------------------------------------
\* Clone of a sender handle: UnboundedSender's counts the new handle, the clone
\* that is derived for Sender only clones the Arc.
CountClone == senders' = IF kind = "unbounded" THEN senders + 1 ELSE senders

Clone(s, u) ==
  /\ pc[s] = "idle"
  /\ pc[u] = "none"
  /\ pc' = [pc EXCEPT ![u] = "idle"]
  /\ CountClone
  /\ UNCHANGED <<kind, queue, recvWaker, sendWakers, closed, rpc, woken, tried,
                 abandons, hvars>>

\* Mutation of DropSender: a plain subtraction.
DropSenderWraps(s) ==
  /\ pc[s] = "idle"
  /\ pc' = [pc EXCEPT ![s] = "dropped"]
  /\ senders' = senders - 1
  /\ IF senders = 1
     THEN closed' = TRUE /\ WakeReceiver(woken)
     ELSE UNCHANGED <<closed, recvWaker, woken>>
  /\ UNCHANGED <<kind, queue, sendWakers, rpc, tried, abandons, hvars>>

\* Mutation of DropSender: the receiver is not told that the channel was closed.
DropSenderSilent(s) == LET left == IF senders = 0 THEN 0 ELSE senders - 1 IN
  /\ pc[s] = "idle"
  /\ pc' = [pc EXCEPT ![s] = "dropped"]
  /\ senders' = left
  /\ closed' = (left = 0)
  /\ UNCHANGED <<kind, queue, recvWaker, sendWakers, rpc, woken, tried, abandons,
                 hvars>>

\* Drop for Sender: saturating_sub, and the last one closes the channel.  The
\* senders that wait are not woken.
DropSender(s) == LET left == IF senders = 0 THEN 0 ELSE senders - 1 IN
  /\ pc[s] = "idle"
  /\ pc' = [pc EXCEPT ![s] = "dropped"]
  /\ senders' = left
  /\ IF left = 0
     THEN closed' = TRUE /\ WakeReceiver(woken)
     ELSE UNCHANGED <<closed, recvWaker, woken>>
  /\ UNCHANGED <<kind, queue, sendWakers, rpc, tried, abandons, hvars>>

-----------------------------------------------------------------------------
\* Receiver::recv, the poll of RecvFut.

Receives == rpc = "idle" \/ (rpc = "wait" /\ woken[Rx])

\* Mutation of WakeSender: a waker is called only if the queue was full before.
WakeSenderFull(w) ==
  IF sendWakers = <<>> \/ ~Full
  THEN /\ woken' = w
       /\ UNCHANGED <<sendWakers, lost>>
  ELSE LET s == Head(sendWakers) IN
       /\ sendWakers' = Tail(sendWakers)
       /\ woken' = [w EXCEPT ![s] = TRUE]
       /\ lost' = (lost \/ pc[s] # "sendwait" \/ woken[s])

\* send_wakers.pop_front() and wake, on top of the run queue w.
WakeSender(w) ==
  IF sendWakers = <<>>
  THEN /\ woken' = w
       /\ UNCHANGED <<sendWakers, lost>>
  ELSE LET s == Head(sendWakers) IN
       /\ sendWakers' = Tail(sendWakers)
       /\ woken' = [w EXCEPT ![s] = TRUE]
       /\ lost' = (lost \/ pc[s] # "sendwait" \/ woken[s])

RecvItem ==
  /\ Receives
  /\ queue # <<>>
  /\ queue' = Tail(queue)
  /\ got' = [got EXCEPT ![Head(queue)[1]] = Head(queue)[2]]
  /\ WakeSender([woken EXCEPT ![Rx] = FALSE])
  /\ rpc' = "idle"
  /\ UNCHANGED <<kind, recvWaker, senders, closed, pc, tried, abandons,
                 sent, refused>>

\* Mutation of RecvNone: the flag is looked at before the queue.
RecvNoneEager ==
  /\ Receives
  /\ closed
  /\ rpc' = "done"
  /\ woken' = [woken EXCEPT ![Rx] = FALSE]
  /\ UNCHANGED <<kind, cvars, pc, tried, abandons, hvars>>

RecvNone ==
  /\ Receives
  /\ queue = <<>>
  /\ closed
  /\ rpc' = "done"
  /\ woken' = [woken EXCEPT ![Rx] = FALSE]
  /\ UNCHANGED <<kind, cvars, pc, tried, abandons, hvars>>

RecvSuspend ==
  /\ Receives
  /\ queue = <<>>
  /\ ~closed
  /\ recvWaker' = TRUE
  /\ rpc' = "wait"
  /\ woken' = [woken EXCEPT ![Rx] = FALSE]
  /\ UNCHANGED <<kind, queue, sendWakers, senders, closed, pc, tried, abandons,
                 hvars>>

-----------------------------------------------------------------------------
SenderStep(s) ==
  \/ SendRefused(s) \/ SendItem(s) \/ SendSuspend(s) \/ DropSender(s)
  \/ \E u \in Senders : Clone(s, u)

ReceiverStep == RecvItem \/ RecvNone \/ RecvSuspend

Next ==
  \/ \E s \in Senders : SenderStep(s) \/ Abandon(s)
  \/ ReceiverStep

Spec == Init /\ [][Next]_vars

\* A task that is running or in the run queue is run; a sender ends by dropping its
\* handle, the receiver goes on until recv returns None.
Fairness == WF_vars(ReceiverStep) /\ \A s \in Senders : WF_vars(SenderStep(s))

FairSpec == Spec /\ Fairness

-----------------------------------------------------------------------------
\* Properties.

\* Types: the count of senders never goes below zero (saturating_sub), although clones
\* of a bounded sender are dropped without having been counted.
TypeOK ==
  /\ kind \in Kinds
  /\ queue \in Seq(Senders \X Nat)
  /\ recvWaker \in BOOLEAN
  /\ sendWakers \in Seq(Senders)
  /\ senders \in Nat
  /\ closed \in BOOLEAN
  /\ pc \in [Senders -> {"none", "idle", "sendwait", "dropped"}]
  /\ rpc \in {"idle", "wait", "done"}
  /\ woken \in [Senders \cup {Rx} -> BOOLEAN]
  /\ tried \in [Senders -> 0 .. MaxItems]
  /\ abandons \in 0 .. MaxAbandons
  /\ sent \in [Senders -> Nat]
  /\ got \in [Senders -> Nat]
  /\ refused \in BOOLEAN
  /\ lost \in BOOLEAN

\* Exactly once and in order: the queue holds, for every sender, the items whose
\* send returned Ok and that were not received yet, each of them once and in the
\* order they were sent, whichever sends suspended, were dropped or raced with a
\* close.
InOrder ==
  /\ \A s \in Senders : got[s] <= sent[s]
  /\ \A i \in DOMAIN queue :
       queue[i][2] \in got[queue[i][1]] + 1 .. sent[queue[i][1]]
  /\ \A i, j \in DOMAIN queue :
       i < j /\ queue[i][1] = queue[j][1] => queue[i][2] < queue[j][2]
  /\ \A s \in Senders : \A n \in got[s] + 1 .. sent[s] :
       \E i \in DOMAIN queue : queue[i] = <<s, n>>

\* The end of the stream is final and complete: once recv returned None, every
\* accepted item was received, nothing can be accepted any more, and of an
\* unbounded channel all handles are gone.
EndIsFinal == rpc = "done" =>
  /\ closed
  /\ \A s \in Senders : got[s] = sent[s]
  /\ kind = "unbounded" => \A s \in Senders : ~Live(s)

\* The users of the channel see a stream: from send to recv, and from the drop of the
\* last handle to None, the channel behaves as ChannelStream allows.
Stream == INSTANCE ChannelStream WITH
  phase <- IF rpc = "done" THEN "ended" ELSE IF closed THEN "closed" ELSE "open"

ImplementsStream == Stream!Spec

\* A bounded channel never holds more than its capacity, and every free place has
\* a sender on its way to it as long as another one sleeps: unless a wake went to
\* a send that was dropped, or the channel was closed.
EveryPlaceClaimed == LET waiting == {s \in Senders : pc[s] = "sendwait"} IN
  kind = "bounded" =>
    /\ Len(queue) <= Places
    /\ ~lost /\ ~closed /\ (\E s \in waiting : ~woken[s]) =>
         Cardinality({s \in waiting : woken[s]}) >= Places - Len(queue)

\* Every message whose send returned Ok reaches the receiver, even after a close
\* and after lost sender wakes: the receiver's waker is never left behind.
Delivered == \A s \in Senders : \A n \in 1 .. MaxItems :
  sent[s] >= n ~> got[s] >= n

\* The channel is closed although a handle is still in use.
ClosedEarly == closed /\ \E s \in Senders : Live(s)

\* The receiver comes to the end of the stream and every sender gets its answers:
\* unless a wake was lost or the channel was closed under a live sender.
AllFinish ==
  <>(lost \/ ClosedEarly \/ (rpc = "done" /\ \A s \in Senders : ~Live(s)))

\* "MPSC Channel (Multi-Producer Single-Consumer)": several producers can use the
\* channel, so a send is not refused while its producer and the receiver live.
MultiProducer == ~refused
=============================================================================
