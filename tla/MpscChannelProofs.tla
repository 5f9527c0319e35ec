------------------------- MODULE MpscChannelProofs -------------------------
(***************************************************************************)
(* Proofs about MpscChannel.tla, for any finite set of senders, any        *)
(* capacity and both kinds of channel: messages are delivered once and in  *)
(* order (InOrder), the end of the stream is final (EndIsFinal), and the   *)
(* places of a bounded channel are claimed (EveryPlaceClaimed).            *)
(***************************************************************************)
EXTENDS MpscChannel, FiniteSetTheorems, TLAPS

LiveSet == {s \in Senders : Live(s)}

\* The handles of an unbounded channel are counted, so it is closed only when the
\* last one is dropped.
HandlesCounted == kind = "unbounded" =>
  /\ senders = Cardinality(LiveSet)
  /\ closed => LiveSet = {}

\* After recv returned None the channel stays closed and empty.
EndKept == rpc = "done" => closed /\ queue = <<>>

\* Exactly-once delivery is inductive with the types.  The end of the stream needs
\* two more facts: that nothing enters a closed channel and that an unbounded
\* channel counts its handles.
IInv == TypeOK /\ InOrder /\ EndKept /\ HandlesCounted

\* The initial states satisfy the invariant.
LEMMA InitInv == Init => IInv
<1> SUFFICES ASSUME Init PROVE IInv
  OBVIOUS
<1>1. TypeOK
  <2>1. queue \in Seq(Senders \X Nat) /\ sendWakers \in Seq(Senders)
    BY DEF Init
  <2>2. 0 \in 0 .. MaxItems /\ 0 \in 0 .. MaxAbandons
    BY ChannelBounds
  <2>3. /\ tried \in [Senders -> 0 .. MaxItems] /\ abandons \in 0 .. MaxAbandons
        /\ sent \in [Senders -> Nat] /\ got \in [Senders -> Nat]
    BY <2>2 DEF Init
  <2>4. woken \in [Senders \cup {Rx} -> BOOLEAN]
    BY DEF Init
  <2> QED BY <2>1, <2>3, <2>4 DEF Init, TypeOK
<1>2. InOrder
  BY DEF Init, InOrder
<1>3. EndKept
  BY DEF Init, EndKept
<1>4. HandlesCounted
  <2>1. LiveSet = {First}
    BY ChannelTasks DEF Init, LiveSet, Live
  <2> QED BY <2>1, FS_Singleton DEF Init, HandlesCounted
<1> QED BY <1>1, <1>2, <1>3, <1>4 DEF IInv

\* A send that begins or resumes keeps its counters in range.
LEMMA SendsEffect ==
  ASSUME TypeOK, NEW s \in Senders, Sends(s)
  PROVE  /\ tried' \in [Senders -> 0 .. MaxItems]
         /\ Resumed(s) \in [Senders \cup {Rx} -> BOOLEAN]
         /\ pc[s] \in {"idle", "sendwait"}
BY ChannelBounds DEF TypeOK, Sends, Resumed

\* Waking the receiver only touches its waker and the run queue.
LEMMA WakeReceiverEffect ==
  ASSUME NEW w \in [Senders \cup {Rx} -> BOOLEAN], recvWaker \in BOOLEAN,
         WakeReceiver(w)
  PROVE  recvWaker' \in BOOLEAN /\ woken' \in [Senders \cup {Rx} -> BOOLEAN]
BY DEF WakeReceiver

\* Types are preserved.
LEMMA TypeInv == TypeOK /\ [Next]_vars => TypeOK'
<1> SUFFICES ASSUME TypeOK, [Next]_vars PROVE TypeOK'
  OBVIOUS
<1>1. ASSUME NEW s \in Senders, SendRefused(s) PROVE TypeOK'
  BY <1>1, SendsEffect DEF TypeOK, SendRefused, cvars
<1>2. ASSUME NEW s \in Senders, SendItem(s) PROVE TypeOK'
  <2>1. <<s, sent[s] + 1>> \in Senders \X Nat
    BY DEF TypeOK
  <2>2. queue' \in Seq(Senders \X Nat)
    BY <1>2, <2>1 DEF SendItem, TypeOK
  <2>3. recvWaker' \in BOOLEAN /\ woken' \in [Senders \cup {Rx} -> BOOLEAN]
    BY <1>2, SendsEffect, WakeReceiverEffect DEF SendItem, TypeOK
  <2>4. sent' \in [Senders -> Nat]
    BY <1>2 DEF SendItem, TypeOK
  <2> QED BY <1>2, <2>2, <2>3, <2>4, SendsEffect DEF TypeOK, SendItem
<1>3. ASSUME NEW s \in Senders, SendSuspend(s) PROVE TypeOK'
  <2>1. sendWakers' \in Seq(Senders)
    BY <1>3 DEF SendSuspend, TypeOK
  <2> QED BY <1>3, <2>1, SendsEffect DEF TypeOK, SendSuspend, hvars
<1>4. ASSUME NEW s \in Senders, Abandon(s) PROVE TypeOK'
  BY <1>4, ChannelBounds DEF TypeOK, Abandon, cvars
<1>5. ASSUME NEW s \in Senders, NEW u \in Senders, Clone(s, u) PROVE TypeOK'
  BY <1>5 DEF TypeOK, Clone, CountClone, hvars
<1>6. ASSUME NEW s \in Senders, DropSender(s) PROVE TypeOK'
  <2>1. senders' \in Nat
    BY <1>6 DEF DropSender, TypeOK
  <2>2. /\ recvWaker' \in BOOLEAN /\ woken' \in [Senders \cup {Rx} -> BOOLEAN]
        /\ closed' \in BOOLEAN
    BY <1>6, WakeReceiverEffect DEF DropSender, TypeOK
  <2> QED BY <1>6, <2>1, <2>2 DEF TypeOK, DropSender, hvars
<1>7. CASE RecvItem
  <2>1. queue \in Seq(Senders \X Nat) /\ queue # <<>>
    BY <1>7 DEF RecvItem, TypeOK
  <2>2. Head(queue) \in Senders \X Nat /\ Tail(queue) \in Seq(Senders \X Nat)
    BY <2>1
  <2>3. sendWakers # <<>> =>
          Head(sendWakers) \in Senders /\ Tail(sendWakers) \in Seq(Senders)
    BY DEF TypeOK
  <2> QED BY <1>7, <2>2, <2>3 DEF TypeOK, RecvItem, WakeSender
<1>8. CASE RecvNone \/ RecvSuspend
  BY <1>8 DEF TypeOK, RecvNone, RecvSuspend, cvars, hvars
<1>9. CASE UNCHANGED vars
  BY <1>9 DEF TypeOK, vars, cvars, hvars
<1> QED BY <1>1, <1>2, <1>3, <1>4, <1>5, <1>6, <1>7, <1>8, <1>9
        DEF Next, SenderStep, ReceiverStep

-----------------------------------------------------------------------------
\* Delivery.

\* An accepted item goes to the end of the queue with the next number of its sender.
LEMMA SendInOrder ==
  ASSUME TypeOK, InOrder, NEW s \in Senders, SendItem(s)
  PROVE  InOrder'
<1> DEFINE n == sent[s] + 1
           k == Len(queue) + 1
<1>1. /\ queue \in Seq(Senders \X Nat) /\ k \in Nat
      /\ sent \in [Senders -> Nat] /\ got \in [Senders -> Nat]
  BY DEF TypeOK
<1>2. /\ queue' = Append(queue, <<s, n>>) /\ got' = got
      /\ sent' = [sent EXCEPT ![s] = n]
  BY DEF SendItem
<1>3. /\ DOMAIN queue' = DOMAIN queue \cup {k} /\ k \notin DOMAIN queue
      /\ queue'[k] = <<s, n>>
      /\ \A i \in DOMAIN queue : queue'[i] = queue[i] /\ i < k
  <2>1. <<s, n>> \in Senders \X Nat
    BY <1>1
  <2>2. DOMAIN queue = 1 .. Len(queue) /\ DOMAIN queue' = 1 .. k
    BY <1>1, <1>2, <2>1
  <2> QED BY <1>1, <1>2, <2>1, <2>2
<1>4. \A i \in DOMAIN queue : queue[i] = <<queue[i][1], queue[i][2]>>
                              /\ queue[i][1] \in Senders /\ queue[i][2] \in Nat
  BY <1>1
<1>5. \A x \in Senders : got'[x] <= sent'[x]
  BY <1>1, <1>2 DEF InOrder
<1>6. \A i \in DOMAIN queue' :
        queue'[i][2] \in got'[queue'[i][1]] + 1 .. sent'[queue'[i][1]]
  <2>1. n \in got[s] + 1 .. n /\ sent'[s] = n
    BY <1>1, <1>2 DEF InOrder
  <2>2. \A i \in DOMAIN queue :
          queue[i][2] \in got[queue[i][1]] + 1 .. sent'[queue[i][1]]
    <3> SUFFICES ASSUME NEW i \in DOMAIN queue, NEW x \in Senders, x = queue[i][1]
                 PROVE  queue[i][2] \in got[x] + 1 .. sent'[x]
      BY <1>4
    <3>1. queue[i][2] \in got[x] + 1 .. sent[x]
      BY DEF InOrder
    <3>2. sent'[x] \in Nat /\ sent[x] <= sent'[x]
      BY <1>1, <1>2, SMTT(30)
    <3> QED BY <1>1, <3>1, <3>2, SMTT(30)
  <2> QED BY <1>2, <1>3, <2>1, <2>2
<1>7. \A i, j \in DOMAIN queue' :
        i < j /\ queue'[i][1] = queue'[j][1] => queue'[i][2] < queue'[j][2]
  <2>1. \A i \in DOMAIN queue : queue[i][1] = s => queue[i][2] < n
    BY <1>1, <1>4 DEF InOrder
  <2>2. \A i \in DOMAIN queue : ~(k < i)
    BY <1>1
  <2>3. ~(k < k) /\ queue'[k][1] = s /\ queue'[k][2] = n
    BY <1>1, <1>3
  <2>4. \A i, j \in DOMAIN queue :
          i < j /\ queue[i][1] = queue[j][1] => queue[i][2] < queue[j][2]
    BY DEF InOrder
  <2> HIDE DEF n, k
  <2> QED BY <1>3, <2>1, <2>2, <2>3, <2>4
<1>8. ASSUME NEW x \in Senders, NEW m \in got'[x] + 1 .. sent'[x]
      PROVE  \E i \in DOMAIN queue' : queue'[i] = <<x, m>>
  <2>1. CASE x = s /\ m = n
    BY <1>3, <2>1
  <2>2. CASE m \in got[x] + 1 .. sent[x]
    BY <1>3, <2>2 DEF InOrder
  <2>3. sent'[x] = sent[x] \/ (x = s /\ sent'[x] = sent[x] + 1)
    BY <1>1, <1>2
  <2>4. got[x] \in Nat /\ sent[x] \in Nat /\ m \in got[x] + 1 .. sent'[x]
    BY <1>1, <1>2, <1>8
  <2>5. m \in got[x] + 1 .. sent[x] \/ (x = s /\ m = sent[x] + 1)
    BY <2>3, <2>4
  <2> QED BY <2>1, <2>2, <2>5
<1> QED BY <1>5, <1>6, <1>7, <1>8 DEF InOrder

\* The item at the head of the queue is the next one of its sender.
LEMMA HeadIsNext ==
  ASSUME TypeOK, InOrder, queue # <<>>, NEW s \in Senders, s = queue[1][1]
  PROVE  queue[1] = <<s, got[s] + 1>> /\ got[s] + 1 <= sent[s]
<1>1. /\ queue \in Seq(Senders \X Nat) /\ Len(queue) \in Nat
      /\ sent \in [Senders -> Nat] /\ got \in [Senders -> Nat]
      /\ 1 \in DOMAIN queue
  BY DEF TypeOK
<1>2. queue[1][2] \in got[s] + 1 .. sent[s] /\ queue[1] = <<s, queue[1][2]>>
  BY <1>1 DEF InOrder
<1>3. got[s] + 1 \in got[s] + 1 .. sent[s]
  BY <1>1, <1>2
<1>4. PICK i \in DOMAIN queue : queue[i] = <<s, got[s] + 1>>
  BY <1>3 DEF InOrder
<1>5. i = 1 \/ 1 < i
  BY <1>1
<1>6. 1 < i => queue[1][2] < queue[i][2]
  BY <1>1, <1>4 DEF InOrder
<1> QED BY <1>1, <1>2, <1>3, <1>4, <1>5, <1>6

\* Receiving takes the next item of its sender and shifts the others.
LEMMA RecvInOrder ==
  ASSUME TypeOK, InOrder, RecvItem
  PROVE  InOrder'
<1> DEFINE s == queue[1][1]
<1>1. /\ queue \in Seq(Senders \X Nat) /\ Len(queue) \in Nat /\ queue # <<>>
      /\ sent \in [Senders -> Nat] /\ got \in [Senders -> Nat]
      /\ s \in Senders /\ 1 \in DOMAIN queue
  BY DEF TypeOK, RecvItem
<1>2. queue[1] = <<s, got[s] + 1>> /\ got[s] + 1 <= sent[s]
  BY <1>1, HeadIsNext
<1>3. /\ queue' = Tail(queue) /\ sent' = sent
      /\ got' = [got EXCEPT ![s] = got[s] + 1]
  <2>1. Head(queue) = <<s, got[s] + 1>>
    BY <1>1, <1>2
  <2>2. Head(queue)[1] = s /\ Head(queue)[2] = got[s] + 1
    BY <1>1, <2>1
  <2>3. got' = [got EXCEPT ![Head(queue)[1]] = Head(queue)[2]]
    BY DEF RecvItem
  <2> QED BY <2>2, <2>3 DEF RecvItem
<1>4. /\ \A i \in DOMAIN queue' : i + 1 \in DOMAIN queue /\ queue'[i] = queue[i + 1]
      /\ \A i \in DOMAIN queue : i # 1 => i - 1 \in DOMAIN queue'
                                         /\ queue'[i - 1] = queue[i]
      /\ \A i \in DOMAIN queue' : i \in Nat /\ 1 < i + 1
  <2>1. Len(queue) # 0 /\ DOMAIN queue = 1 .. Len(queue)
    BY <1>1
  <2>2. DOMAIN queue' = 1 .. Len(queue) - 1
    BY <1>1, <1>3
  <2>3. \A i \in DOMAIN queue' : queue'[i] = queue[i + 1]
    BY <1>1, <1>3, <2>1, <2>2
  <2> DEFINE l == Len(queue)
  <2>n. l \in Nat /\ l # 0 /\ DOMAIN queue = 1 .. l /\ DOMAIN queue' = 1 .. l - 1
    BY <1>1, <2>1, <2>2
  <2> HIDE DEF l
  <2>4. \A i \in DOMAIN queue : i # 1 => i - 1 \in DOMAIN queue' /\ i - 1 + 1 = i
    BY <2>n
  <2>5. \A i \in DOMAIN queue' : i + 1 \in DOMAIN queue /\ i \in Nat /\ 1 < i + 1
    BY <2>n
  <2> QED BY <2>3, <2>4, <2>5
<1>5. \A i \in DOMAIN queue : queue[i] = <<queue[i][1], queue[i][2]>>
                              /\ queue[i][1] \in Senders /\ queue[i][2] \in Nat
  BY <1>1
<1>6. \A x \in Senders : got'[x] <= sent'[x]
  BY <1>1, <1>2, <1>3 DEF InOrder
<1>7. \A i \in DOMAIN queue' :
        queue'[i][2] \in got'[queue'[i][1]] + 1 .. sent'[queue'[i][1]]
  <2>1. \A i \in DOMAIN queue : 1 < i /\ queue[i][1] = s => got[s] + 1 < queue[i][2]
    BY <1>1, <1>2 DEF InOrder
  <2>2. \A i \in DOMAIN queue : 1 < i =>
          queue[i][2] \in got'[queue[i][1]] + 1 .. sent[queue[i][1]]
    <3> SUFFICES ASSUME NEW i \in DOMAIN queue, 1 < i,
                        NEW x \in Senders, x = queue[i][1]
                 PROVE  queue[i][2] \in got'[x] + 1 .. sent[x]
      BY <1>5
    <3>1. queue[i][2] \in got[x] + 1 .. sent[x] /\ queue[i][2] \in Nat
      BY <1>5 DEF InOrder
    <3>2. x = s => got[x] + 1 < queue[i][2] /\ got'[x] = got[x] + 1
      BY <1>1, <1>3, <2>1
    <3>3. x # s => got'[x] = got[x]
      BY <1>1, <1>3
    <3>4. got[x] \in Nat /\ sent[x] \in Nat
      BY <1>1
    <3> HIDE DEF s
    <3> QED BY <3>1, <3>2, <3>3, <3>4
  <2> QED BY <1>3, <1>4, <2>2
<1>8. \A i, j \in DOMAIN queue' :
        i < j /\ queue'[i][1] = queue'[j][1] => queue'[i][2] < queue'[j][2]
  <2>1. \A i, j \in DOMAIN queue' : i < j => i + 1 < j + 1
    BY <1>4
  <2> QED BY <1>4, <2>1 DEF InOrder
<1>9. ASSUME NEW x \in Senders, NEW m \in got'[x] + 1 .. sent'[x]
      PROVE  \E i \in DOMAIN queue' : queue'[i] = <<x, m>>
  <2>1. m \in got[x] + 1 .. sent[x] /\ (x = s => m # got[s] + 1)
    BY <1>1, <1>3, <1>9
  <2>2. PICK i \in DOMAIN queue : queue[i] = <<x, m>>
    BY <2>1 DEF InOrder
  <2>3. i # 1
    BY <1>2, <2>1, <2>2
  <2> QED BY <1>4, <2>2, <2>3
<1> QED BY <1>6, <1>7, <1>8, <1>9 DEF InOrder

\* Every step keeps the delivery in order.
LEMMA OrderInv == TypeOK /\ InOrder /\ [Next]_vars => InOrder'
<1> SUFFICES ASSUME TypeOK, InOrder, [Next]_vars PROVE InOrder'
  OBVIOUS
<1>1. CASE UNCHANGED <<queue, sent, got>>
  BY <1>1 DEF InOrder
<1>2. ASSUME NEW s \in Senders, SenderStep(s) \/ Abandon(s) PROVE InOrder'
  BY <1>1, <1>2, SendInOrder
     DEF SenderStep, SendRefused, SendSuspend, Abandon, Clone, DropSender, cvars, hvars
<1>3. CASE ReceiverStep
  BY <1>1, <1>3, RecvInOrder DEF ReceiverStep, RecvNone, RecvSuspend, cvars, hvars
<1> QED BY <1>1, <1>2, <1>3 DEF Next, vars, cvars, hvars

-----------------------------------------------------------------------------
\* The end of the stream.

\* A closed channel stays closed and accepts nothing.
LEMMA EndInv == TypeOK /\ EndKept /\ [Next]_vars => EndKept'
<1> SUFFICES ASSUME TypeOK, EndKept, [Next]_vars PROVE EndKept'
  OBVIOUS
<1>1. ASSUME NEW s \in Senders, SenderStep(s) \/ Abandon(s) PROVE EndKept'
  BY <1>1 DEF EndKept, SenderStep, SendItem, SendRefused, SendSuspend, Abandon, Clone,
              DropSender, cvars, hvars
<1>2. CASE ReceiverStep
  BY <1>2 DEF EndKept, ReceiverStep, Receives, RecvItem, RecvNone, RecvSuspend, cvars
<1> QED BY <1>1, <1>2 DEF Next, EndKept, vars, cvars

\* A step that neither makes nor drops a handle keeps the count.
LEMMA CountKept ==
  ASSUME HandlesCounted, \A s \in Senders : Live(s)' <=> Live(s),
         UNCHANGED <<kind, senders, closed>>
  PROVE  HandlesCounted'
<1>1. LiveSet' = LiveSet
  BY DEF LiveSet
<1> QED BY <1>1 DEF HandlesCounted

\* clone and drop keep the count of an unbounded channel equal to its handles.
LEMMA CountInv == TypeOK /\ HandlesCounted /\ [Next]_vars => HandlesCounted'
<1> SUFFICES ASSUME TypeOK, HandlesCounted, [Next]_vars PROVE HandlesCounted'
  OBVIOUS
<1>f. IsFiniteSet(LiveSet) /\ Cardinality(LiveSet) \in Nat
  <2>1. IsFiniteSet(LiveSet)
    BY ChannelTasks, FS_Subset DEF LiveSet
  <2> QED BY <2>1, FS_CardinalityType
<1>1. ASSUME NEW s \in Senders, SendRefused(s) \/ SendItem(s) \/ SendSuspend(s)
      PROVE  HandlesCounted'
  <2>1. pc[s] \in {"idle", "sendwait"} /\ UNCHANGED <<kind, senders, closed>>
    BY <1>1, SendsEffect DEF SendRefused, SendItem, SendSuspend, cvars
  <2>2. \A x \in Senders : Live(x)' <=> Live(x)
    BY <1>1, <2>1 DEF SendRefused, SendItem, SendSuspend, Live, TypeOK
  <2> QED BY <2>1, <2>2, CountKept
<1>2. ASSUME NEW s \in Senders, Abandon(s) PROVE HandlesCounted'
  <2>1. \A x \in Senders : Live(x)' <=> Live(x)
    BY <1>2 DEF Abandon, Live, TypeOK
  <2> QED BY <1>2, <2>1, CountKept DEF Abandon, cvars
<1>3. ASSUME NEW s \in Senders, NEW u \in Senders, Clone(s, u) PROVE HandlesCounted'
  <2>1. u \notin LiveSet /\ LiveSet' = LiveSet \cup {u} /\ s \in LiveSet
    BY <1>3 DEF Clone, LiveSet, Live, TypeOK
  <2>2. Cardinality(LiveSet') = Cardinality(LiveSet) + 1
    BY <1>f, <2>1, FS_AddElement
  <2> QED BY <1>3, <2>1, <2>2 DEF Clone, CountClone, HandlesCounted
<1>4. ASSUME NEW s \in Senders, DropSender(s) PROVE HandlesCounted'
  <2>1. s \in LiveSet /\ LiveSet' = LiveSet \ {s}
    BY <1>4 DEF DropSender, LiveSet, Live, TypeOK
  <2>2. Cardinality(LiveSet') = Cardinality(LiveSet) - 1 /\ IsFiniteSet(LiveSet')
    BY <1>f, <2>1, FS_RemoveElement
  <2>3. Cardinality(LiveSet') = 0 => LiveSet' = {}
    BY <2>2, FS_EmptySet
  <2>4. Cardinality(LiveSet') \in Nat
    BY <2>2, FS_CardinalityType
  <2> QED BY <1>f, <1>4, <2>1, <2>2, <2>3, <2>4 DEF DropSender, HandlesCounted, TypeOK
<1>5. CASE ReceiverStep \/ UNCHANGED vars
  <2>1. UNCHANGED <<kind, senders, closed, pc>>
    BY <1>5 DEF ReceiverStep, RecvItem, RecvNone, RecvSuspend, vars, cvars
  <2> QED BY <2>1, CountKept DEF Live
<1> QED BY <1>1, <1>2, <1>3, <1>4, <1>5 DEF Next, SenderStep

-----------------------------------------------------------------------------
\* The channel keeps its inductive invariant.
THEOREM Invariance == Spec => []IInv
<1>1. IInv /\ [Next]_vars => IInv'
  BY TypeInv, OrderInv, EndInv, CountInv DEF IInv
<1> QED BY <1>1, InitInv, PTL DEF Spec

\* The count of senders never goes below zero and the queues keep their types, although
\* clones of a bounded sender are dropped without having been counted.
THEOREM TypeCorrect == Spec => []TypeOK
BY Invariance, PTL DEF IInv

\* Every message whose send returned Ok is in the queue or was received, once and
\* in its sender's order, for any number of senders, any capacity, and suspended or
\* dropped sends.
THEOREM DeliveryInOrder == Spec => []InOrder
BY Invariance, PTL DEF IInv

\* When the queue is empty every accepted message was received.
LEMMA EmptyIsReceived ==
  ASSUME TypeOK, InOrder, queue = <<>>
  PROVE  got = sent
<1>1. ASSUME NEW s \in Senders PROVE got[s] = sent[s]
  <2>1. got[s] \in Nat /\ sent[s] \in Nat /\ got[s] <= sent[s]
    BY DEF TypeOK, InOrder
  <2>2. got[s] + 1 .. sent[s] = {}
    BY DEF InOrder
  <2>3. got[s] < sent[s] => got[s] + 1 \in got[s] + 1 .. sent[s]
    BY <2>1
  <2> QED BY <2>1, <2>2, <2>3
<1> QED BY <1>1 DEF TypeOK

\* Once recv has returned None nothing was lost and nothing can follow; an unbounded
\* channel ends only when every handle is gone.
THEOREM FinalEnd == Spec => []EndIsFinal
<1>1. IInv => EndIsFinal
  <2> SUFFICES ASSUME IInv, rpc = "done" PROVE EndIsFinal
    BY DEF EndIsFinal
  <2>1. closed /\ queue = <<>>
    BY DEF IInv, EndKept
  <2>2. got = sent
    BY <2>1, EmptyIsReceived DEF IInv
  <2>3. kind = "unbounded" => \A s \in Senders : ~Live(s)
    BY <2>1 DEF IInv, HandlesCounted, LiveSet
  <2> QED BY <2>1, <2>2, <2>3 DEF EndIsFinal
<1> QED BY <1>1, Invariance, PTL

-----------------------------------------------------------------------------
\* The channel implements ChannelStream.

\* A send that returns Ok is accepted.
LEMMA SendAccepts ==
  ASSUME IInv, NEW s \in Senders, SendItem(s)
  PROVE  Stream!Accept(s)
<1>1. ~closed /\ rpc # "done" /\ UNCHANGED <<closed, rpc, got>> /\ sent' = [sent EXCEPT ![s] = @ + 1]
  BY DEF SendItem, IInv, EndKept
<1> QED BY <1>1 DEF Stream!Accept

\* recv hands over the next message of some sender.
LEMMA RecvDelivers ==
  ASSUME IInv, RecvItem
  PROVE  \E s \in Senders : Stream!Deliver(s)
<1>1. /\ queue # <<>> /\ rpc # "done" /\ rpc' # "done" /\ UNCHANGED <<closed, sent>>
      /\ got' = [got EXCEPT ![Head(queue)[1]] = Head(queue)[2]]
  BY DEF RecvItem, Receives
<1>2. queue \in Seq(Senders \X Nat) /\ queue[1] \in Senders \X Nat /\ Head(queue) = queue[1]
  BY <1>1 DEF IInv, TypeOK
<1>3. PICK s \in Senders : s = queue[1][1]
  BY <1>2
<1>4. queue[1] = <<s, got[s] + 1>> /\ got[s] + 1 <= sent[s]
  BY <1>1, <1>3, HeadIsNext DEF IInv
<1>5. got' = [got EXCEPT ![s] = got[s] + 1] /\ got[s] < sent[s]
  <2>1. got[s] \in Nat /\ sent[s] \in Nat
    BY DEF IInv, TypeOK
  <2>2. got[s] < sent[s]
    BY <1>4, <2>1
  <2>3. Head(queue)[1] = s
    BY <1>2, <1>3
  <2>4. Head(queue)[2] = got[s] + 1
    <3>1. <<s, got[s] + 1>>[2] = got[s] + 1
      OBVIOUS
    <3> QED BY <1>2, <1>4, <3>1, Zenon
  <2> QED BY <1>1, <2>2, <2>3, <2>4
<1> QED BY <1>1, <1>5 DEF Stream!Deliver

\* None ends the stream.
LEMMA NoneEnds ==
  ASSUME IInv, RecvNone
  PROVE  Stream!End
<1>1. /\ queue = <<>> /\ closed /\ rpc # "done" /\ rpc' = "done"
      /\ UNCHANGED <<closed, sent, got>>
  BY DEF RecvNone, Receives, cvars, hvars
<1>2. got = sent
  BY <1>1, EmptyIsReceived DEF IInv
<1> QED BY <1>1, <1>2 DEF Stream!End

\* Dropping a handle closes the stream or is invisible there.
LEMMA DropCloses ==
  ASSUME IInv, NEW s \in Senders, DropSender(s)
  PROVE  Stream!Close \/ UNCHANGED Stream!svars
<1>1. UNCHANGED <<rpc, sent, got>> /\ (closed' \/ closed' = closed) /\ (rpc = "done" => closed)
  BY DEF DropSender, hvars, IInv, EndKept
<1>2. closed \in BOOLEAN /\ closed' \in BOOLEAN /\ (closed => closed')
  BY DEF DropSender, IInv, TypeOK
<1>3. CASE ~closed /\ closed'
  BY <1>1, <1>3 DEF Stream!Close
<1>4. CASE closed' = closed
  BY <1>1, <1>4 DEF Stream!svars
<1> QED BY <1>2, <1>3, <1>4

\* Every step of the channel is a step of the stream or invisible there.
LEMMA StreamStep == IInv /\ [Next]_vars => [Stream!Next]_(Stream!svars)
<1> SUFFICES ASSUME IInv, [Next]_vars PROVE Stream!Next \/ UNCHANGED Stream!svars
  OBVIOUS
<1>1. ASSUME NEW s \in Senders, SendItem(s) PROVE Stream!Next
  BY <1>1, SendAccepts DEF Stream!Next
<1>2. ASSUME NEW s \in Senders, DropSender(s) PROVE Stream!Next \/ UNCHANGED Stream!svars
  BY <1>2, DropCloses DEF Stream!Next
<1>3. CASE RecvItem
  BY <1>3, RecvDelivers DEF Stream!Next
<1>4. CASE RecvNone
  BY <1>4, NoneEnds DEF Stream!Next
<1>5. ASSUME \/ UNCHANGED vars \/ RecvSuspend
             \/ \E s \in Senders : \/ SendRefused(s) \/ SendSuspend(s) \/ Abandon(s)
                                   \/ \E u \in Senders : Clone(s, u)
      PROVE  UNCHANGED Stream!svars
  <2>1. UNCHANGED <<closed, sent, got>> /\ (rpc' = "done" <=> rpc = "done")
    BY <1>5 DEF vars, cvars, hvars, RecvSuspend, Receives, SendRefused, SendSuspend, Abandon, Clone
  <2> QED BY <2>1 DEF Stream!svars
<1> QED BY <1>1, <1>2, <1>3, <1>4, <1>5 DEF Next, SenderStep, ReceiverStep

\* channel.rs: for any number of senders and any capacity, what users see of the channel
\* is ChannelStream: messages are received one after the other as they were accepted,
\* nothing is accepted after the close, and None comes after the last message.
THEOREM Refinement == Spec => ImplementsStream
<1>1. Init => Stream!Init
  BY DEF Init, Stream!Init
<1> QED BY <1>1, StreamStep, Invariance, PTL DEF Spec, ImplementsStream, Stream!Spec

-----------------------------------------------------------------------------
\* The places of a bounded channel.

\* The sends that wait for a place, and those of them that were woken.
Waiting == {s \in Senders : pc[s] = "sendwait"}
OnTheirWay == {s \in Waiting : woken[s]}

\* The strengthening of EveryPlaceClaimed: a waiting send that was not woken has its
\* waker in the channel, so the next receive finds one to call.
PlacesInv == kind = "bounded" =>
  /\ Len(queue) <= Places
  /\ \A s \in Waiting : woken[s] \/ \E i \in DOMAIN sendWakers : sendWakers[i] = s
  /\ ~lost /\ ~closed /\ Waiting # OnTheirWay =>
       Cardinality(OnTheirWay) + Len(queue) >= Places

\* There are finitely many senders.
LEMMA OnTheirWayFinite == IsFiniteSet(OnTheirWay) /\ Cardinality(OnTheirWay) \in Nat
<1>1. IsFiniteSet(OnTheirWay)
  BY ChannelTasks, FS_Subset DEF OnTheirWay, Waiting
<1> QED BY <1>1, FS_CardinalityType

\* The numbers PlacesInv is about.
LEMMA PlacesTypes ==
  ASSUME TypeOK
  PROVE  Places \in Nat \ {0} /\ Len(queue) \in Nat
BY ChannelBounds DEF TypeOK, Places

\* Steps that leave the queue, the wakers and the waiting sends alone.
LEMMA PlacesKept ==
  ASSUME PlacesInv, UNCHANGED <<kind, queue, sendWakers, lost>>, closed => closed',
         \A s \in Senders : pc'[s] = "sendwait" <=> pc[s] = "sendwait",
         \A s \in Senders : woken'[s] = woken[s]
  PROVE  PlacesInv'
<1>1. Waiting' = Waiting
  BY DEF Waiting
<1>2. OnTheirWay' = OnTheirWay
  BY <1>1 DEF OnTheirWay, Waiting
<1> QED BY <1>1, <1>2 DEF PlacesInv, Waiting, Places

\* A send that is accepted takes the place it was woken for, or one nobody claimed.
LEMMA SendPlaces ==
  ASSUME TypeOK, PlacesInv, NEW s \in Senders, SendItem(s)
  PROVE  PlacesInv'
<1> SUFFICES ASSUME kind = "bounded" PROVE PlacesInv'
  BY DEF PlacesInv, SendItem
<1>1. /\ UNCHANGED <<kind, sendWakers, lost, closed>> /\ ~Full
      /\ \A u \in Senders : u # s => pc'[u] = pc[u]
      /\ pc'[s] = "idle" /\ pc[s] \in {"idle", "sendwait"} /\ (pc[s] = "sendwait" => woken[s])
  BY SendsEffect DEF SendItem, TypeOK, Sends
<1>2. \A u \in Senders : u # s => woken'[u] = woken[u]
  BY ChannelTasks DEF SendItem, WakeReceiver, Resumed, TypeOK
<1>3. Len(queue') = Len(queue) + 1
  <2>1. <<s, sent[s] + 1>> \in Senders \X Nat
    BY DEF TypeOK
  <2> QED BY <2>1 DEF SendItem, TypeOK
<1>4. Len(queue') <= Places
  BY <1>1, <1>3, PlacesTypes DEF Full
<1>5. Waiting' = Waiting \ {s} /\ OnTheirWay' = OnTheirWay \ {s}
  BY <1>1, <1>2 DEF Waiting, OnTheirWay
<1>6. \A u \in Waiting' : woken'[u] \/ \E i \in DOMAIN sendWakers' : sendWakers'[i] = u
  BY <1>1, <1>2, <1>5 DEF PlacesInv, Waiting
<1>7. Cardinality(OnTheirWay') >= Cardinality(OnTheirWay) - 1
  <2>1. CASE s \in OnTheirWay
    <3>1. Cardinality(OnTheirWay') = Cardinality(OnTheirWay) - 1
      BY <1>5, <2>1, OnTheirWayFinite, FS_RemoveElement
    <3> QED BY <3>1, OnTheirWayFinite
  <2>2. CASE s \notin OnTheirWay
    <3>1. OnTheirWay' = OnTheirWay
      BY <1>5, <2>2
    <3> QED BY <3>1, OnTheirWayFinite
  <2> QED BY <2>1, <2>2
<1>8. Waiting' # OnTheirWay' => Waiting # OnTheirWay
  BY <1>1, <1>5 DEF OnTheirWay, Waiting
<1>9. Cardinality(OnTheirWay') \in Nat
  <2>1. IsFiniteSet(OnTheirWay')
    BY <1>5, OnTheirWayFinite, FS_Subset
  <2> QED BY <2>1, FS_CardinalityType
<1>10. ~lost' /\ ~closed' /\ Waiting' # OnTheirWay' =>
         Cardinality(OnTheirWay') + Len(queue') >= Places
  BY <1>1, <1>3, <1>7, <1>8, <1>9, OnTheirWayFinite, PlacesTypes DEF PlacesInv
<1> QED BY <1>4, <1>6, <1>10 DEF PlacesInv, Places

\* What Append does to a queue.
LEMMA AppendParts ==
  ASSUME NEW T, NEW q \in Seq(T), NEW e \in T
  PROVE  /\ DOMAIN Append(q, e) = 1 .. Len(q) + 1 /\ Len(q) \in Nat
         /\ DOMAIN q = 1 .. Len(q)
         /\ Append(q, e)[Len(q) + 1] = e
         /\ \A i \in DOMAIN q : Append(q, e)[i] = q[i]
OBVIOUS

\* A send waits only when no place is free.
LEMMA SuspendPlaces ==
  ASSUME TypeOK, PlacesInv, NEW s \in Senders, SendSuspend(s)
  PROVE  PlacesInv'
<1> SUFFICES ASSUME kind = "bounded" PROVE PlacesInv'
  BY DEF PlacesInv, SendSuspend
<1>1. /\ UNCHANGED <<kind, queue, lost, closed>> /\ Full
      /\ sendWakers' = Append(sendWakers, s)
      /\ \A u \in Senders : u # s => pc'[u] = pc[u] /\ woken'[u] = woken[u]
  BY DEF SendSuspend, TypeOK, Resumed, hvars
<1>2. /\ DOMAIN sendWakers' = 1 .. Len(sendWakers) + 1 /\ Len(sendWakers) \in Nat
      /\ DOMAIN sendWakers = 1 .. Len(sendWakers)
      /\ sendWakers'[Len(sendWakers) + 1] = s
      /\ \A i \in DOMAIN sendWakers : sendWakers'[i] = sendWakers[i]
  <2>1. sendWakers \in Seq(Senders)
    BY DEF TypeOK
  <2> QED BY <1>1, <2>1, AppendParts
<1>3. Len(sendWakers) + 1 \in DOMAIN sendWakers' /\ DOMAIN sendWakers \subseteq DOMAIN sendWakers'
  BY <1>2
<1>4. \A u \in Waiting' : woken'[u] \/ \E i \in DOMAIN sendWakers' : sendWakers'[i] = u
  BY <1>1, <1>2, <1>3 DEF PlacesInv, Waiting
<1>5. Cardinality(OnTheirWay') \in Nat
  <2>1. IsFiniteSet(OnTheirWay')
    BY ChannelTasks, FS_Subset DEF OnTheirWay, Waiting
  <2> QED BY <2>1, FS_CardinalityType
<1>6. Len(queue') >= Places
  BY <1>1 DEF Full
<1>7. Cardinality(OnTheirWay') + Len(queue') >= Places
  BY <1>1, <1>5, <1>6, PlacesTypes
<1> QED BY <1>1, <1>4, <1>7 DEF PlacesInv, Places

\* Dropping a waiting send loses a wake, or it was not one of those on their way.
LEMMA AbandonPlaces ==
  ASSUME TypeOK, PlacesInv, NEW s \in Senders, Abandon(s)
  PROVE  PlacesInv'
<1>1. /\ UNCHANGED <<kind, queue, closed, sendWakers, woken>>
      /\ pc'[s] = "idle" /\ \A u \in Senders : u # s => pc'[u] = pc[u]
      /\ pc[s] = "sendwait"
      /\ ~lost' => ~lost /\ ~woken[s]
  BY DEF Abandon, TypeOK, cvars
<1>2. Waiting' = Waiting \ {s}
  BY <1>1 DEF Waiting
<1>3. ~lost' => OnTheirWay' = OnTheirWay
  BY <1>1, <1>2 DEF OnTheirWay
<1>4. ~lost' /\ Waiting' # OnTheirWay' => Waiting # OnTheirWay
  BY <1>1 DEF OnTheirWay, Waiting
<1> QED BY <1>1, <1>2, <1>3, <1>4 DEF PlacesInv, Places

\* A receive frees a place and wakes a send for it, if one still sleeps.
LEMMA RecvPlaces ==
  ASSUME TypeOK, PlacesInv, RecvItem
  PROVE  PlacesInv'
<1> SUFFICES ASSUME kind = "bounded" PROVE PlacesInv'
  BY DEF PlacesInv, RecvItem
<1>1. /\ UNCHANGED <<kind, pc, closed>> /\ queue' = Tail(queue) /\ queue # <<>>
      /\ WakeSender([woken EXCEPT ![Rx] = FALSE])
  BY DEF RecvItem
<1>2. Len(queue') = Len(queue) - 1 /\ Len(queue') \in Nat
  BY <1>1 DEF TypeOK
<1>3. Len(queue') <= Places
  BY <1>2, PlacesTypes DEF PlacesInv
<1>4. Waiting' = Waiting
  BY <1>1 DEF Waiting
<1>5. CASE sendWakers = <<>>
  <2>1. sendWakers' = sendWakers /\ \A u \in Senders : woken'[u] = woken[u]
    BY <1>1, <1>5, ChannelTasks DEF WakeSender, TypeOK
  <2>2. \A u \in Waiting : woken[u]
    BY <1>5 DEF PlacesInv
  <2>3. Waiting' = OnTheirWay'
    BY <1>4, <2>1, <2>2 DEF OnTheirWay, Waiting
  <2> QED BY <1>3, <2>3 DEF PlacesInv, Places, OnTheirWay
<1>6. CASE sendWakers # <<>>
  <2>1. PICK h \in Senders : h = Head(sendWakers)
    BY <1>6 DEF TypeOK
  <2>2. /\ sendWakers' = Tail(sendWakers)
        /\ \A u \in Senders : u # h => woken'[u] = woken[u]
        /\ woken'[h] = TRUE
        /\ lost' = (lost \/ pc[h] # "sendwait" \/ woken[h])
    BY <1>1, <1>6, <2>1, ChannelTasks DEF WakeSender, TypeOK
  <2>3. ASSUME NEW u \in Waiting'
        PROVE  woken'[u] \/ \E i \in DOMAIN sendWakers' : sendWakers'[i] = u
    <3>1. u \in Senders /\ u \in Waiting
      BY <1>4, <2>3 DEF Waiting
    <3>2. CASE u = h
      BY <2>2, <3>2
    <3>3. CASE u # h /\ woken[u]
      BY <2>2, <3>1, <3>3
    <3>4. CASE u # h /\ ~woken[u]
      <4>1. PICK i \in DOMAIN sendWakers : sendWakers[i] = u
        BY <3>1, <3>4 DEF PlacesInv
      <4>2. i # 1
        BY <2>1, <3>4, <4>1, <1>6 DEF TypeOK
      <4>3. i - 1 \in DOMAIN Tail(sendWakers) /\ Tail(sendWakers)[i - 1] = sendWakers[i]
        <5>1. /\ sendWakers \in Seq(Senders) /\ Len(sendWakers) \in Nat
              /\ DOMAIN sendWakers = 1 .. Len(sendWakers)
          BY DEF TypeOK
        <5>2. DOMAIN Tail(sendWakers) = 1 .. Len(sendWakers) - 1
          BY <1>6, <5>1
        <5>3. i - 1 \in 1 .. Len(sendWakers) - 1
          BY <4>2, <5>1
        <5> QED BY <1>6, <5>1, <5>2, <5>3
      <4> QED BY <2>2, <4>1, <4>3
    <3> QED BY <3>2, <3>3, <3>4
  <2>4. ASSUME ~lost', ~closed', Waiting' # OnTheirWay'
        PROVE  Cardinality(OnTheirWay') + Len(queue') >= Places
    <3>1. ~lost /\ pc[h] = "sendwait" /\ ~woken[h]
      BY <2>2, <2>4, Zenon
    <3>2. h \notin OnTheirWay /\ h \in Waiting
      BY <3>1 DEF OnTheirWay, Waiting
    <3>3. OnTheirWay' = OnTheirWay \cup {h}
      BY <1>4, <2>2, <3>2 DEF OnTheirWay, Waiting
    <3>4. Cardinality(OnTheirWay') = Cardinality(OnTheirWay) + 1
      BY <3>2, <3>3, OnTheirWayFinite, FS_AddElement
    <3>5. Waiting # OnTheirWay
      BY <3>2
    <3>6. Cardinality(OnTheirWay) + Len(queue) >= Places
      BY <1>1, <2>4, <3>1, <3>5 DEF PlacesInv
    <3> QED BY <1>2, <3>4, <3>6, OnTheirWayFinite, PlacesTypes
  <2> QED BY <1>3, <2>3, <2>4 DEF PlacesInv, Places
<1> QED BY <1>5, <1>6

\* Every step keeps the places accounted for.
LEMMA PlacesNext == IInv /\ PlacesInv /\ [Next]_vars => PlacesInv'
<1> SUFFICES ASSUME TypeOK, PlacesInv, [Next]_vars PROVE PlacesInv'
  BY DEF IInv
<1>1. ASSUME NEW s \in Senders, SendRefused(s) PROVE PlacesInv'
  <2>1. /\ UNCHANGED <<kind, queue, sendWakers, lost, closed>> /\ closed
        /\ \A u \in Senders : u # s => pc'[u] = pc[u] /\ woken'[u] = woken[u]
        /\ pc'[s] = "idle"
    BY <1>1 DEF SendRefused, Resumed, TypeOK, cvars
  <2> QED BY <2>1 DEF PlacesInv, Waiting, Places
<1>2. ASSUME NEW s \in Senders, NEW u \in Senders, Clone(s, u) PROVE PlacesInv'
  BY <1>2, PlacesKept DEF Clone, TypeOK, hvars
<1>3. ASSUME NEW s \in Senders, DropSender(s) PROVE PlacesInv'
  <2>1. /\ UNCHANGED <<kind, queue, sendWakers, lost>> /\ (closed => closed')
        /\ \A u \in Senders : pc'[u] = "sendwait" <=> pc[u] = "sendwait"
    BY <1>3 DEF DropSender, TypeOK, hvars
  <2>2. \A u \in Senders : woken'[u] = woken[u]
    BY <1>3, ChannelTasks DEF DropSender, WakeReceiver, TypeOK
  <2> QED BY <2>1, <2>2, PlacesKept
<1>4. CASE RecvNone \/ RecvSuspend
  <2>1. /\ UNCHANGED <<kind, queue, sendWakers, lost, closed, pc>>
        /\ \A u \in Senders : woken'[u] = woken[u]
    BY <1>4, ChannelTasks DEF RecvNone, RecvSuspend, TypeOK, cvars, hvars
  <2> QED BY <2>1, PlacesKept
<1>5. CASE UNCHANGED vars
  BY <1>5, PlacesKept DEF vars, cvars, hvars
<1> QED BY <1>1, <1>2, <1>3, <1>4, <1>5, SendPlaces, SuspendPlaces, AbandonPlaces, RecvPlaces
        DEF Next, SenderStep, ReceiverStep

\* For any capacity and any number of senders: the queue stays within the capacity, and
\* as long as no wake is lost no free place is left while a sender sleeps unclaimed.
THEOREM PlacesClaimed == Spec => []EveryPlaceClaimed
<1>1. Init => PlacesInv
  <2> SUFFICES ASSUME Init PROVE PlacesInv
    OBVIOUS
  <2>1. Waiting = {} /\ Len(queue) = 0
    BY DEF Init, Waiting
  <2>2. Waiting = OnTheirWay
    BY <2>1 DEF OnTheirWay
  <2>3. 0 <= Places
    BY ChannelBounds DEF Places
  <2> QED BY <2>1, <2>2, <2>3 DEF PlacesInv
<1>2. IInv /\ PlacesInv => EveryPlaceClaimed
  <2> SUFFICES ASSUME TypeOK, PlacesInv, kind = "bounded" PROVE EveryPlaceClaimed
    BY DEF IInv, EveryPlaceClaimed
  <2>1. ASSUME ~lost, ~closed, NEW s \in Waiting, ~woken[s]
        PROVE  Cardinality(OnTheirWay) >= Places - Len(queue)
    <3>1. Waiting # OnTheirWay
      BY <2>1 DEF OnTheirWay
    <3> QED BY <2>1, <3>1, OnTheirWayFinite, PlacesTypes DEF PlacesInv
  <2>2. Len(queue) <= Places
    BY DEF PlacesInv
  <2> QED BY <2>1, <2>2 DEF EveryPlaceClaimed, OnTheirWay, Waiting
<1> QED BY <1>1, <1>2, PlacesNext, Invariance, PTL DEF Spec
=============================================================================
