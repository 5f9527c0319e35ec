-------------------------- MODULE ActorSystemProofs -------------------------
(***************************************************************************)
(* Proofs about ActorSystem.tla, for any number of actors and messages:    *)
(* types, that the alive flag tells the truth, that shutdown forgets no    *)
(* actor and joins what it listed, and that messages are handled once and  *)
(* in order.                                                               *)
(***************************************************************************)
EXTENDS ActorSystem, TLAPS

\* Only a Stop of shutdown is sent without a number.
Numbered == \A a \in Actors : \A i \in DOMAIN mailbox[a] :
  mailbox[a][i][1] # "stop" => mailbox[a][i][2] # 0

\* Every ask has a reply channel of its own.
OwnChannels ==
  /\ \A n \in 1 .. MaxSends : chan[n] \in {0, n}
  /\ asking # 0 => chan[asking] = asking

-----------------------------------------------------------------------------
\* Envelopes, and the three things that happen to a mailbox.

\* The positions of an actor's thread.
LEMMA PcNames ==
  /\ {"none", "prestart", "loop", "timedout", "handling"} \subseteq ThreadPcs
  /\ {"unregister", "drop", "ended"} \subseteq ThreadPcs
BY DEF ThreadPcs

\* How far a spawn got.
LEMMA CallNames ==
  ASSUME NEW a \in Actors, NEW k \in {"start", "list", "register"}
  PROVE  <<a, k>> \in Calls /\ <<a, k>>[1] = a /\ <<a, k>>[2] = k
BY DEF Calls

\* An envelope is made of a kind and a number.
LEMMA EnvelopeParts ==
  ASSUME NEW k \in {"tell", "ask", "stop"}, NEW n \in 0 .. MaxSends
  PROVE  <<k, n>> \in Envelopes /\ <<k, n>>[1] = k /\ <<k, n>>[2] = n
BY DEF Envelopes

\* The parts of an envelope have their types.
LEMMA EnvelopeTypes ==
  ASSUME NEW e \in Envelopes
  PROVE  e[1] \in {"tell", "ask", "stop"} /\ e[2] \in 0 .. MaxSends /\ e[2] \in Nat
BY ActorBound DEF Envelopes

\* A spawner that is inside spawn has an actor and a step, another one has neither.
LEMMA SpawnParts ==
  ASSUME TypeOK, NEW p \in Spawners
  PROVE  /\ spawning[p] = None => spawning[p][2] = "none" /\ spawning[p][1] = NoActor
         /\ spawning[p] # None => /\ spawning[p][1] \in Actors
                                  /\ spawning[p][2] \in {"start", "list", "register"}
<1>1. spawning[p] \in Calls
  BY DEF TypeOK
<1> QED BY <1>1 DEF Calls, None

\* q is the mailbox m with e at its end.
Grown(q, m, e) ==
  /\ q \in Seq(Envelopes) /\ Len(m) \in Nat
  /\ DOMAIN q = 1 .. Len(m) + 1 /\ DOMAIN m = 1 .. Len(m)
  /\ q[Len(m) + 1] = e
  /\ \A i \in DOMAIN m : i \in DOMAIN q /\ q[i] = m[i]

\* A send puts the envelope at the end.
LEMMA AppendGrows ==
  ASSUME NEW m \in Seq(Envelopes), NEW e \in Envelopes
  PROVE  Grown(Append(m, e), m, e)
BY DEF Grown

\* q is the mailbox m without its first envelope.
Shrunk(q, m) ==
  /\ q \in Seq(Envelopes) /\ Len(m) \in Nat /\ 1 \in DOMAIN m /\ m[1] \in Envelopes
  /\ Head(m) = m[1]
  /\ \A i \in DOMAIN q : i \in Nat /\ i + 1 \in DOMAIN m /\ q[i] = m[i + 1]
  /\ \A i \in DOMAIN m : i \in Nat /\ (i # 1 => i - 1 \in DOMAIN q /\ q[i - 1] = m[i])

\* A receive takes the first envelope out.
LEMMA TailShrinks ==
  ASSUME NEW m \in Seq(Envelopes), m # <<>>
  PROVE  Shrunk(Tail(m), m)
<1>1. /\ Len(m) \in Nat /\ Len(m) # 0 /\ DOMAIN m = 1 .. Len(m) /\ Tail(m) \in Seq(Envelopes)
      /\ Head(m) = m[1] /\ \A i \in DOMAIN m : m[i] \in Envelopes
  OBVIOUS
<1>2. /\ DOMAIN Tail(m) = 1 .. Len(m) - 1
      /\ \A i \in 1 .. Len(m) - 1 : Tail(m)[i] = m[i + 1]
  BY <1>1
<1>3. ASSUME NEW l \in Nat, l # 0
      PROVE  /\ \A i \in 1 .. l - 1 : i \in Nat /\ i + 1 \in 1 .. l
             /\ \A i \in 1 .. l : i # 1 => i - 1 \in 1 .. l - 1 /\ (i - 1) + 1 = i
             /\ 1 \in 1 .. l
  BY <1>3
<1>4. /\ \A i \in DOMAIN Tail(m) : i \in Nat /\ i + 1 \in DOMAIN m
      /\ \A i \in DOMAIN m : i # 1 => i - 1 \in DOMAIN Tail(m) /\ (i - 1) + 1 = i
      /\ 1 \in DOMAIN m
  BY <1>1, <1>2, <1>3
<1>5. \A i \in DOMAIN m : i # 1 => Tail(m)[i - 1] = m[i]
  <2> SUFFICES ASSUME NEW i \in DOMAIN m, i # 1 PROVE Tail(m)[i - 1] = m[i]
    OBVIOUS
  <2>1. i - 1 \in 1 .. Len(m) - 1 /\ (i - 1) + 1 = i
    BY <1>2, <1>4
  <2> QED BY <1>2, <2>1
<1>6. \A i \in DOMAIN m : i \in Nat
  BY <1>1
<1> QED BY <1>1, <1>2, <1>4, <1>5, <1>6 DEF Shrunk

-----------------------------------------------------------------------------
\* Types.

\* Dropping reply senders keeps the types of the reply channels.
LEMMA DropRepliesType ==
  ASSUME TypeOK, NEW S, DropReplies(S)
  PROVE  replies' \in [1 .. MaxSends -> Channels] /\ chan' = chan /\ from' = from
BY DEF TypeOK, DropReplies, Channels

\* The steps of spawn.
LEMMA SpawnType ==
  ASSUME TypeOK, NEW p \in Spawners, SpawnStep(p) \/ \E a \in Actors : SpawnCheck(p, a)
  PROVE  TypeOK'
<1>1. ASSUME NEW a \in Actors, SpawnCheck(p, a) PROVE TypeOK'
  BY <1>1, CallNames DEF TypeOK, SpawnCheck, avars, svars, kvars, rvars, hvars
<1>2. CASE SpawnStep(p)
  <2>1. spawning[p][2] \in {"start", "list", "register"}
    BY <1>2 DEF SpawnStep, StartThread, ListThread, Register
  <2>2. spawning[p][1] \in Actors
    BY <2>1, SpawnParts
  <2>3. CASE StartThread(p)
    BY <2>2, <2>3, CallNames, PcNames DEF TypeOK, StartThread, svars, kvars, rvars, hvars
  <2>4. CASE ListThread(p)
    BY <2>2, <2>4, CallNames DEF TypeOK, ListThread, avars, kvars, rvars, hvars
  <2>5. CASE Register(p)
    <3>1. None \in Calls
      BY DEF Calls
    <3> QED BY <2>2, <2>5, <3>1 DEF TypeOK, Register, avars, rvars, hvars
  <2> QED BY <1>2, <2>3, <2>4, <2>5 DEF SpawnStep
<1> QED BY <1>1, <1>2

\* The steps of an actor's thread.
LEMMA ActorType ==
  ASSUME TypeOK, Numbered, NEW a \in Actors, ActorStep(a) \/ Reply(a)
  PROVE  TypeOK'
<1> USE DEF svars, kvars, rvars, hvars, avars
<1>1. CASE PreStart(a) \/ ReceiveTimeout(a) \/ TimeoutCheck(a) \/ LeaveLoop(a)
  BY <1>1, PcNames, ZenonT(30) DEF TypeOK, PreStart, ReceiveTimeout, TimeoutCheck, LeaveLoop
<1>2. CASE Unregister(a)
  BY <1>2, PcNames DEF TypeOK, Unregister
<1>3. CASE Reply(a)
  <2>1. current[a][2] \in 0 .. MaxSends
    BY EnvelopeTypes, ActorBound DEF TypeOK, NoEnvelope
  <2> QED BY <1>3, <2>1 DEF TypeOK, Reply, Channels
<1>4. CASE Receive(a)
  <2>1. Shrunk(Tail(mailbox[a]), mailbox[a])
    BY <1>4, TailShrinks DEF Receive, TypeOK
  <2>2. PICK e \in Envelopes : e = Head(mailbox[a]) /\ e = mailbox[a][1]
    BY <2>1 DEF Shrunk
  <2>3. mailbox' \in [Actors -> Seq(Envelopes)]
    BY <1>4, <2>1 DEF Receive, TypeOK, Shrunk
  <2>4. handled' \in [Actors -> Seq(1 .. MaxSends)]
    <3>1. CASE e[1] = "stop"
      BY <1>4, <2>2, <3>1 DEF Receive, TypeOK
    <3>2. CASE e[1] # "stop"
      <4>1. e[2] # 0
        BY <2>1, <2>2, <3>2 DEF Numbered, Shrunk
      <4>2. e[2] \in 1 .. MaxSends
        BY <4>1, EnvelopeTypes, ActorBound
      <4>3. handled' = [handled EXCEPT ![a] = Append(@, e[2])]
        BY <1>4, <2>2, <3>2 DEF Receive
      <4> QED BY <4>2, <4>3 DEF TypeOK
    <3> QED BY <3>1, <3>2
  <2>5. /\ apc' \in [Actors -> ThreadPcs] /\ stopped' \in [Actors -> BOOLEAN]
        /\ current' \in [Actors -> Envelopes \cup {NoEnvelope}]
    <3>1. CASE e[1] = "stop"
      BY <1>4, <2>2, <3>1 DEF Receive, TypeOK
    <3>2. CASE e[1] # "stop"
      <4>1. /\ apc' = [apc EXCEPT ![a] = "handling"] /\ stopped' = stopped
            /\ current' = [current EXCEPT ![a] = e]
        BY <1>4, <2>2, <3>2 DEF Receive
      <4> QED BY <4>1, PcNames DEF TypeOK
    <3> QED BY <3>1, <3>2
  <2> QED BY <1>4, <2>3, <2>4, <2>5 DEF TypeOK, Receive
<1>5. CASE HandlerReturns(a) \/ UserCodePanics(a) \/ ThreadEnds(a)
  <2>1. replies' \in [1 .. MaxSends -> Channels] /\ chan' = chan /\ from' = from
    BY <1>5, DropRepliesType DEF HandlerReturns, UserCodePanics, ThreadEnds
  <2>2. mailbox' \in [Actors -> Seq(Envelopes)]
    <3>1. mailbox' = mailbox \/ mailbox' = [mailbox EXCEPT ![a] = <<>>]
      BY <1>5 DEF HandlerReturns, UserCodePanics, ThreadEnds
    <3>2. <<>> \in Seq(Envelopes)
      OBVIOUS
    <3> QED BY <3>1, <3>2 DEF TypeOK
  <2> QED BY <1>5, <2>1, <2>2, PcNames, ZenonT(30) DEF TypeOK, HandlerReturns, UserCodePanics, ThreadEnds
<1> QED BY <1>1, <1>2, <1>3, <1>4, <1>5 DEF ActorStep

\* What a send of the client does to the mailboxes.
LEMMA SendEffect ==
  ASSUME TypeOK, NEW a \in Actors, ClientSends(a)
  PROVE  /\ nsent' = nsent + 1 /\ nsent' \in 1 .. MaxSends /\ nsent \in Nat
         /\ \E e \in Envelopes : /\ e[2] = nsent'
                                 /\ mailbox' = [mailbox EXCEPT ![a] = Append(@, e)]
                                 /\ Grown(mailbox'[a], mailbox[a], e)
<1>1. nsent' = nsent + 1 /\ nsent' \in 1 .. MaxSends /\ nsent \in Nat
  BY ActorBound DEF TypeOK, ClientSends, Tell, Stop, Ask
<1>2. PICK k \in {"tell", "ask", "stop"} :
        mailbox' = [mailbox EXCEPT ![a] = Append(@, <<k, nsent'>>)]
  BY DEF ClientSends, Tell, Stop, Ask
<1>3. PICK e \in Envelopes : e = <<k, nsent'>> /\ e[2] = nsent'
  <2>1. nsent' \in 0 .. MaxSends
    BY <1>1, ActorBound
  <2> QED BY <2>1, EnvelopeParts, ZenonT(30)
<1>4. mailbox' = [mailbox EXCEPT ![a] = Append(@, e)]
  BY <1>2, <1>3
<1>5. Grown(mailbox'[a], mailbox[a], e)
  BY <1>4, AppendGrows DEF TypeOK
<1> QED BY <1>1, <1>3, <1>4, <1>5

\* The steps of the client.
LEMMA ClientType ==
  ASSUME TypeOK, OwnChannels, AskReturns \/ \E a \in Actors : ClientSends(a)
  PROVE  TypeOK'
<1> USE DEF svars, kvars, rvars, hvars, avars
<1>1. CASE AskReturns
  <2>1. asking \in 1 .. MaxSends /\ chan[asking] = asking
    BY <1>1, ActorBound DEF TypeOK, AskReturns, OwnChannels
  <2>2. from[chan[asking]] \in 0 .. MaxSends
    BY <2>1 DEF TypeOK
  <2>3. /\ replies' \in [1 .. MaxSends -> Channels]
        /\ answered' \in [1 .. MaxSends -> 0 .. MaxSends]
    BY <1>1, <2>2 DEF TypeOK, AskReturns, Channels
  <2>4. asking' \in 0 .. MaxSends
    BY <1>1, ActorBound DEF AskReturns
  <2> QED BY <1>1, <2>3, <2>4 DEF TypeOK, AskReturns
<1>2. ASSUME NEW a \in Actors, ClientSends(a) PROVE TypeOK'
  <2>1. nsent' \in 1 .. MaxSends
    BY <1>2, SendEffect
  <2>2. mailbox' \in [Actors -> Seq(Envelopes)]
    BY <1>2, SendEffect DEF TypeOK, Grown
  <2>3. nsent' \in 0 .. MaxSends /\ asking' \in 0 .. MaxSends
    BY <1>2, <2>1, ActorBound DEF ClientSends, Tell, Stop, Ask, TypeOK
  <2>4. chan' \in [1 .. MaxSends -> 0 .. MaxSends]
    BY <1>2, <2>3 DEF ClientSends, Tell, Stop, Ask, TypeOK
  <2> QED BY <1>2, <2>1, <2>2, <2>3, <2>4 DEF TypeOK, ClientSends, Tell, Stop, Ask, Channels
<1> QED BY <1>1, <1>2

\* What the drain of shutdown does to the mailboxes.
LEMMA DrainEffect ==
  ASSUME TypeOK, ShutdownDrain
  PROVE  /\ mailbox' \in [Actors -> Seq(Envelopes)]
         /\ \E e \in Envelopes : /\ e[1] = "stop" /\ e[2] = 0
                                 /\ \A a \in Actors :
                                      IF a \in registry /\ alive[a] /\ Open(a)
                                      THEN Grown(mailbox'[a], mailbox[a], e)
                                      ELSE mailbox'[a] = mailbox[a]
<1>1. PICK e \in Envelopes : e = <<"stop", 0>> /\ e[1] = "stop" /\ e[2] = 0
  <2>1. 0 \in 0 .. MaxSends
    BY ActorBound
  <2> QED BY <2>1, EnvelopeParts
<1>2. mailbox' = [a \in Actors |-> IF a \in registry /\ alive[a] /\ Open(a)
                                   THEN Append(mailbox[a], e) ELSE mailbox[a]]
  BY <1>1 DEF ShutdownDrain
<1>3. \A a \in Actors : IF a \in registry /\ alive[a] /\ Open(a)
                        THEN Grown(mailbox'[a], mailbox[a], e)
                        ELSE mailbox'[a] = mailbox[a]
  BY <1>2, AppendGrows DEF TypeOK
<1>4. \A a \in Actors : mailbox'[a] \in Seq(Envelopes)
  BY <1>3 DEF Grown, TypeOK
<1> QED BY <1>1, <1>2, <1>3, <1>4

\* The steps of shutdown.
LEMMA ShutdownType ==
  ASSUME TypeOK, ShutdownStep
  PROVE  TypeOK'
<1> USE DEF svars, kvars, rvars, hvars, avars
<1>1. CASE ShutdownDrain
  BY <1>1, DrainEffect DEF TypeOK, ShutdownDrain
<1>2. CASE ShutdownFlag \/ ShutdownLock \/ ShutdownJoined
  BY <1>2 DEF TypeOK, ShutdownFlag, ShutdownLock, ShutdownJoined
<1> QED BY <1>1, <1>2 DEF ShutdownStep

\* Types are preserved.
LEMMA TypePreserved == TypeOK /\ Numbered /\ OwnChannels /\ [Next]_vars => TypeOK'
<1> SUFFICES ASSUME TypeOK, Numbered, OwnChannels, [Next]_vars PROVE TypeOK'
  OBVIOUS
<1>1. CASE UNCHANGED vars
  BY <1>1 DEF TypeOK, vars, avars, svars, kvars, rvars, hvars
<1> QED BY <1>1, SpawnType, ActorType, ClientType, ShutdownType DEF Next

-----------------------------------------------------------------------------
\* The alive flag, and what shutdown forgets.

\* An actor that is being spawned is spawned by one thread, and has no thread yet
\* before thread::spawn.
SpawnedOnce ==
  /\ \A p \in Spawners : spawning[p][2] = "start" => apc[spawning[p][1]] = "none"
  /\ \A p, q \in Spawners :
       spawning[p][1] = spawning[q][1] /\ spawning[p] # None => p = q

\* The flag is up until the loop is left, and down afterwards; ctx.stop() is only
\* seen at the head of the loop.
FlagInv == \A a \in Actors :
  /\ apc[a] \in {"none", "prestart", "loop", "timedout", "handling"} => alive[a]
  /\ apc[a] \in {"unregister", "drop"} => ~alive[a]
  /\ apc[a] = "ended" /\ a \notin Panicky => ~alive[a]
  /\ apc[a] \in {"none", "prestart", "timedout", "handling"} => ~stopped[a]

\* A thread that runs is in the list, was taken out of it by the shutdown that is
\* joining, or is about to be listed.
Listed == \A a \in Actors : apc[a] \notin {"none", "ended"} =>
  \/ a \in threads
  \/ spc = "join" /\ a \in joining
  \/ \E p \in Spawners : spawning[p][1] = a /\ spawning[p][2] = "list"

LifeInv == SpawnedOnce /\ FlagInv /\ NoActorForgotten /\ Listed
-----------------------------------------------------------------------------
\* Messages.

\* Every message is in one mailbox or was handled by one actor, has a number that was
\* given out, and every actor's messages, those it handled and those it has yet to
\* receive, are in the order of their numbers.
MailInv ==
  /\ Numbered
  /\ \A a \in Actors : \A i \in DOMAIN mailbox[a] : mailbox[a][i][2] <= nsent
  /\ \A a \in Actors : \A i, j \in DOMAIN mailbox[a] :
       i < j /\ mailbox[a][j][2] # 0 => mailbox[a][i][2] < mailbox[a][j][2]
  /\ \A a, b \in Actors : \A i \in DOMAIN mailbox[a], j \in DOMAIN mailbox[b] :
       mailbox[a][i][2] = mailbox[b][j][2] /\ mailbox[a][i][2] # 0 => a = b
  /\ \A a, b \in Actors : \A i \in DOMAIN mailbox[a], k \in DOMAIN handled[b] :
       mailbox[a][i][2] # handled[b][k]
  /\ \A a \in Actors : \A i \in DOMAIN mailbox[a], k \in DOMAIN handled[a] :
       mailbox[a][i][2] # 0 => handled[a][k] < mailbox[a][i][2]
  /\ \A a \in Actors : \A k \in DOMAIN handled[a] : handled[a][k] <= nsent
  /\ \A a \in Actors : \A k, l \in DOMAIN handled[a] : k < l => handled[a][k] < handled[a][l]
  /\ \A a, b \in Actors : \A k \in DOMAIN handled[a], l \in DOMAIN handled[b] :
       handled[a][k] = handled[b][l] => a = b

WasHandled(n) == \E a \in Actors : \E k \in DOMAIN handled[a] : handled[a][k] = n

\* What an ask returned was put into its own channel by its own handler.
ReplyInv ==
  /\ OwnChannels
  /\ \A a \in Actors : current[a][1] = "ask" => WasHandled(current[a][2])
  /\ \A c \in 1 .. MaxSends : from[c] # 0 => from[c] = c /\ WasHandled(c)
  /\ \A n \in 1 .. MaxSends : answered[n] # 0 => answered[n] = n /\ WasHandled(n)

\* A spawner goes on to the next step of spawn.
LEMMA SpawnMoves ==
  ASSUME TypeOK, NEW p \in Spawners, NEW a \in Actors, NEW k \in {"start", "list", "register"},
         spawning' = [spawning EXCEPT ![p] = <<a, k>>]
  PROVE  /\ spawning'[p][1] = a /\ spawning'[p][2] = k /\ spawning'[p] # None
         /\ \A q \in Spawners : q # p => spawning'[q] = spawning[q]
<1>1. spawning'[p] = <<a, k>> /\ \A q \in Spawners : q # p => spawning'[q] = spawning[q]
  BY DEF TypeOK
<1>2. <<a, k>>[1] = a /\ <<a, k>>[2] = k
  BY CallNames
<1>3. None[2] = "none"
  BY DEF None
<1> QED BY <1>1, <1>2, <1>3

\* A spawner is done.
LEMMA SpawnEnds ==
  ASSUME TypeOK, NEW p \in Spawners, spawning' = [spawning EXCEPT ![p] = None]
  PROVE  /\ spawning'[p][1] = NoActor /\ spawning'[p][2] = "none" /\ spawning'[p] = None
         /\ \A q \in Spawners : q # p => spawning'[q] = spawning[q]
<1>1. spawning'[p] = None /\ \A q \in Spawners : q # p => spawning'[q] = spawning[q]
  BY DEF TypeOK
<1>2. None[1] = NoActor /\ None[2] = "none"
  BY DEF None
<1> QED BY <1>1, <1>2

\* What an actor's thread and the client leave alone, and where the thread goes.
LEMMA ActorMoves ==
  ASSUME TypeOK, NEW a \in Actors, ActorStep(a) \/ Reply(a)
  PROVE  /\ spawning' = spawning /\ threads' = threads /\ spc' = spc /\ joining' = joining
         /\ apc[a] \notin {"none", "ended"} /\ apc'[a] # "none"
         /\ apc' \in [Actors -> ThreadPcs]
         /\ \A b \in Actors : b # a => apc'[b] = apc[b]
<1> USE DEF svars, kvars, rvars, hvars, avars
<1>1. CASE Receive(a)
  <2>1. apc' = apc \/ apc' = [apc EXCEPT ![a] = "handling"]
    BY <1>1 DEF Receive
  <2> QED BY <1>1, <2>1, PcNames DEF Receive, TypeOK
<1>2. CASE Reply(a)
  BY <1>2 DEF Reply, TypeOK
<1>3. CASE PreStart(a) \/ ReceiveTimeout(a) \/ TimeoutCheck(a) \/ LeaveLoop(a)
  BY <1>3, PcNames, ZenonT(30) DEF PreStart, ReceiveTimeout, TimeoutCheck, LeaveLoop, TypeOK
<1>4. CASE HandlerReturns(a) \/ UserCodePanics(a)
  BY <1>4, PcNames, ZenonT(30) DEF HandlerReturns, UserCodePanics, TypeOK, InUserCode
<1>5. CASE Unregister(a) \/ ThreadEnds(a)
  BY <1>5, PcNames DEF Unregister, ThreadEnds, TypeOK
<1> QED BY <1>1, <1>2, <1>3, <1>4, <1>5 DEF ActorStep

\* SpawnCheck makes sure that nobody else spawns the same actor.
LEMMA SpawnedOncePreserved == TypeOK /\ SpawnedOnce /\ [Next]_vars => SpawnedOnce'
<1> SUFFICES ASSUME TypeOK, SpawnedOnce, [Next]_vars PROVE SpawnedOnce'
  OBVIOUS
<1> USE DEF svars, kvars, rvars, hvars, avars
<1>1. CASE UNCHANGED vars \/ AskReturns \/ ShutdownStep \/ \E a \in Actors : ClientSends(a)
  <2>1. spawning' = spawning /\ apc' = apc
    BY <1>1 DEF vars, AskReturns, ShutdownStep, ShutdownFlag, ShutdownDrain, ShutdownLock,
                ShutdownJoined, ClientSends, Tell, Stop, Ask
  <2> QED BY <2>1 DEF SpawnedOnce
<1>2. ASSUME NEW a \in Actors, ActorStep(a) \/ Reply(a) PROVE SpawnedOnce'
  BY <1>2, ActorMoves, SpawnParts DEF SpawnedOnce
<1>3. ASSUME NEW p \in Spawners, NEW a \in Actors, SpawnCheck(p, a) PROVE SpawnedOnce'
  <2>1. /\ spawning' = [spawning EXCEPT ![p] = <<a, "start">>] /\ apc' = apc
        /\ apc[a] = "none" /\ \A q \in Spawners : spawning[q][1] # a
    BY <1>3 DEF SpawnCheck
  <2>2. /\ spawning'[p][1] = a /\ spawning'[p][2] = "start" /\ spawning'[p] # None
        /\ \A q \in Spawners : q # p => spawning'[q] = spawning[q]
    BY <2>1, SpawnMoves
  <2> QED BY <2>1, <2>2 DEF SpawnedOnce
<1>4. ASSUME NEW p \in Spawners, SpawnStep(p) PROVE SpawnedOnce'
  <2>1. spawning[p][2] \in {"start", "list", "register"}
    BY <1>4 DEF SpawnStep, StartThread, ListThread, Register
  <2>2. spawning[p] # None /\ spawning[p][1] \in Actors
    BY <2>1, SpawnParts
  <2>3. PICK a \in Actors : a = spawning[p][1]
    BY <2>2
  <2>4. CASE StartThread(p)
    <3>1. spawning' = [spawning EXCEPT ![p] = <<a, "list">>]
          /\ apc' = [apc EXCEPT ![a] = "prestart"]
      BY <2>3, <2>4 DEF StartThread
    <3>2. /\ spawning'[p][1] = a /\ spawning'[p][2] = "list" /\ spawning'[p] # None
          /\ \A q \in Spawners : q # p => spawning'[q] = spawning[q]
      BY <3>1, SpawnMoves
    <3>3. \A q \in Spawners : q # p => spawning[q][1] # a
      BY <2>2, <2>3 DEF SpawnedOnce
    <3>4. \A b \in Actors : b # a => apc'[b] = apc[b]
      BY <3>1 DEF TypeOK
    <3>5. \A q \in Spawners : spawning'[q][2] = "start" => apc'[spawning'[q][1]] = "none"
      <4> SUFFICES ASSUME NEW q \in Spawners, spawning'[q][2] = "start"
                   PROVE  apc'[spawning'[q][1]] = "none"
        OBVIOUS
      <4>1. q # p /\ spawning'[q] = spawning[q] /\ spawning[q][1] # a
        BY <3>2, <3>3
      <4>2. spawning[q][1] \in Actors
        BY <4>1, SpawnParts
      <4> QED BY <3>4, <4>1, <4>2 DEF SpawnedOnce
    <3>6. \A q, r \in Spawners :
            spawning'[q][1] = spawning'[r][1] /\ spawning'[q] # None => q = r
      BY <2>2, <2>3, <3>2, <3>3 DEF SpawnedOnce
    <3> QED BY <3>5, <3>6 DEF SpawnedOnce
  <2>5. CASE ListThread(p)
    <3>1. spawning' = [spawning EXCEPT ![p] = <<a, "register">>] /\ apc' = apc
      BY <2>3, <2>5 DEF ListThread
    <3>2. /\ spawning'[p][1] = a /\ spawning'[p][2] = "register" /\ spawning'[p] # None
          /\ \A q \in Spawners : q # p => spawning'[q] = spawning[q]
      BY <3>1, SpawnMoves
    <3> QED BY <2>2, <2>3, <3>1, <3>2 DEF SpawnedOnce
  <2>6. CASE Register(p)
    <3>1. spawning' = [spawning EXCEPT ![p] = None] /\ apc' = apc
      BY <2>6 DEF Register
    <3>2. /\ spawning'[p][1] = NoActor /\ spawning'[p][2] = "none" /\ spawning'[p] = None
          /\ \A q \in Spawners : q # p => spawning'[q] = spawning[q]
      BY <3>1, SpawnEnds
    <3>3. \A q \in Spawners : spawning[q] # None => spawning[q][1] # NoActor
      BY SpawnParts, ActorNames DEF Spawners
    <3> QED BY <3>1, <3>2, <3>3 DEF SpawnedOnce
  <2> QED BY <1>4, <2>4, <2>5, <2>6 DEF SpawnStep
<1> QED BY <1>1, <1>2, <1>3, <1>4 DEF Next

\* The flag is only lowered by the thread itself, when it leaves the loop.
LEMMA FlagPreserved == TypeOK /\ SpawnedOnce /\ FlagInv /\ [Next]_vars => FlagInv'
<1> SUFFICES ASSUME TypeOK, SpawnedOnce, FlagInv, [Next]_vars PROVE FlagInv'
  OBVIOUS
<1> USE DEF svars, kvars, rvars, hvars, avars
<1>1. CASE \/ UNCHANGED vars \/ AskReturns \/ ShutdownStep \/ \E a \in Actors : ClientSends(a)
           \/ \E p \in Spawners : ListThread(p) \/ Register(p) \/ \E a \in Actors : SpawnCheck(p, a)
           \/ \E a \in Actors : Reply(a)
  <2>1. alive' = alive /\ stopped' = stopped /\ apc' = apc
    <3>1. CASE UNCHANGED vars \/ AskReturns \/ ShutdownStep
      BY <3>1 DEF vars, AskReturns, ShutdownStep, ShutdownFlag, ShutdownDrain, ShutdownLock,
                  ShutdownJoined
    <3>2. CASE \E a \in Actors : ClientSends(a) \/ Reply(a)
      BY <3>2 DEF ClientSends, Tell, Stop, Ask, Reply
    <3>3. ASSUME NEW p \in Spawners, ListThread(p) \/ Register(p) \/ \E a \in Actors : SpawnCheck(p, a)
          PROVE  alive' = alive /\ stopped' = stopped /\ apc' = apc
      BY <3>3 DEF ListThread, Register, SpawnCheck
    <3> QED BY <1>1, <3>1, <3>2, <3>3
  <2> QED BY <2>1 DEF FlagInv
<1>2. ASSUME NEW p \in Spawners, StartThread(p) PROVE FlagInv'
  <2>1. spawning[p][2] = "start" /\ alive' = alive /\ stopped' = stopped
        /\ apc' = [apc EXCEPT ![spawning[p][1]] = "prestart"]
    BY <1>2 DEF StartThread
  <2>2. spawning[p][1] \in Actors
    BY <2>1, SpawnParts
  <2>3. apc[spawning[p][1]] = "none"
    BY <2>1 DEF SpawnedOnce
  <2> QED BY <2>1, <2>2, <2>3 DEF FlagInv, TypeOK
<1>3. ASSUME NEW a \in Actors, PreStart(a) \/ TimeoutCheck(a) \/ LeaveLoop(a) PROVE FlagInv'
  BY <1>3 DEF FlagInv, TypeOK, PreStart, TimeoutCheck, LeaveLoop
<1>4. ASSUME NEW a \in Actors, HandlerReturns(a) PROVE FlagInv'
  BY <1>4 DEF FlagInv, TypeOK, HandlerReturns
<1>5. ASSUME NEW a \in Actors, UserCodePanics(a) PROVE FlagInv'
  BY <1>5 DEF FlagInv, TypeOK, UserCodePanics
<1>6. ASSUME NEW a \in Actors, Receive(a) PROVE FlagInv'
  <2>1. /\ apc[a] = "loop" /\ ~stopped[a] /\ alive' = alive
        /\ \/ stopped' = [stopped EXCEPT ![a] = TRUE] /\ apc' = apc
           \/ stopped' = stopped /\ apc' = [apc EXCEPT ![a] = "handling"]
    BY <1>6 DEF Receive
  <2> QED BY <2>1 DEF FlagInv, TypeOK
<1>7. ASSUME NEW a \in Actors, Unregister(a) \/ ReceiveTimeout(a) \/ ThreadEnds(a) PROVE FlagInv'
  BY <1>7 DEF FlagInv, TypeOK, Unregister, ReceiveTimeout, ThreadEnds
<1> QED BY <1>1, <1>2, <1>3, <1>4, <1>5, <1>6, <1>7 DEF Next, SpawnStep, ActorStep

\* A thread leaves the list only when shutdown takes it out to join it.
LEMMA ListedPreserved == TypeOK /\ Listed /\ [Next]_vars => Listed'
<1> SUFFICES ASSUME TypeOK, Listed, [Next]_vars PROVE Listed'
  OBVIOUS
<1> USE DEF svars, kvars, rvars, hvars, avars
<1>1. CASE UNCHANGED vars \/ AskReturns \/ \E a \in Actors : ClientSends(a)
  <2>1. spawning' = spawning /\ apc' = apc /\ threads' = threads /\ spc' = spc /\ joining' = joining
    BY <1>1 DEF vars, AskReturns, ClientSends, Tell, Stop, Ask
  <2> QED BY <2>1 DEF Listed
<1>2. ASSUME NEW a \in Actors, ActorStep(a) \/ Reply(a) PROVE Listed'
  BY <1>2, ActorMoves DEF Listed
<1>3. ASSUME NEW p \in Spawners, NEW a \in Actors, SpawnCheck(p, a) PROVE Listed'
  <2>1. /\ spawning' = [spawning EXCEPT ![p] = <<a, "start">>] /\ apc' = apc
        /\ threads' = threads /\ spc' = spc /\ joining' = joining /\ spawning[p] = None
    BY <1>3 DEF SpawnCheck, Free
  <2>2. \A q \in Spawners : q # p => spawning'[q] = spawning[q]
    BY <2>1, SpawnMoves
  <2>3. spawning[p][2] = "none"
    BY <2>1, SpawnParts
  <2> QED BY <2>1, <2>2, <2>3 DEF Listed
<1>4. ASSUME NEW p \in Spawners, SpawnStep(p) PROVE Listed'
  <2>1. spawning[p][2] \in {"start", "list", "register"}
    BY <1>4 DEF SpawnStep, StartThread, ListThread, Register
  <2>2. PICK a \in Actors : a = spawning[p][1]
    BY <2>1, SpawnParts
  <2>3. CASE StartThread(p)
    <3>1. spawning' = [spawning EXCEPT ![p] = <<a, "list">>]
          /\ apc' = [apc EXCEPT ![a] = "prestart"] /\ spawning[p][2] = "start"
          /\ threads' = threads /\ spc' = spc /\ joining' = joining
      BY <2>2, <2>3 DEF StartThread
    <3>2. /\ spawning'[p][1] = a /\ spawning'[p][2] = "list"
          /\ \A q \in Spawners : q # p => spawning'[q] = spawning[q]
      BY <3>1, SpawnMoves
    <3>3. \A b \in Actors : b # a => apc'[b] = apc[b]
      BY <3>1 DEF TypeOK
    <3> QED BY <3>1, <3>2, <3>3 DEF Listed
  <2>4. CASE ListThread(p)
    <3>1. spawning' = [spawning EXCEPT ![p] = <<a, "register">>] /\ apc' = apc
          /\ threads' = threads \cup {a} /\ spc' = spc /\ joining' = joining
      BY <2>2, <2>4 DEF ListThread
    <3>2. \A q \in Spawners : q # p => spawning'[q] = spawning[q]
      BY <3>1, SpawnMoves
    <3> QED BY <2>2, <3>1, <3>2 DEF Listed
  <2>5. CASE Register(p)
    <3>1. spawning' = [spawning EXCEPT ![p] = None] /\ apc' = apc /\ spawning[p][2] = "register"
          /\ threads' = threads /\ spc' = spc /\ joining' = joining
      BY <2>5 DEF Register
    <3>2. \A q \in Spawners : q # p => spawning'[q] = spawning[q]
      BY <3>1, SpawnEnds
    <3> QED BY <3>1, <3>2 DEF Listed
  <2> QED BY <1>4, <2>3, <2>4, <2>5 DEF SpawnStep
<1>5. CASE ShutdownFlag \/ ShutdownDrain \/ ShutdownLock
  BY <1>5 DEF Listed, ShutdownFlag, ShutdownDrain, ShutdownLock
<1>6. CASE ShutdownJoined
  BY <1>6 DEF Listed, ShutdownJoined
<1> QED BY <1>1, <1>2, <1>3, <1>4, <1>5, <1>6 DEF Next, ShutdownStep

\* A Stop in a mailbox stays there until it is received or the cell is dropped.
LEMMA StopStays ==
  ASSUME TypeOK, NEW a \in Actors, HasStop(a), NEW e, Grown(mailbox'[a], mailbox[a], e)
  PROVE  HasStop(a)'
BY DEF HasStop, Grown

\* An actor whose state is left alone is not forgotten.
LEMMA NotForgotten ==
  ASSUME NoActorForgotten, NEW a \in Actors, apc'[a] = apc[a], stopped'[a] = stopped[a],
         HasStop(a) => HasStop(a)', a \in registry => a \in registry', InSpawn(a) => InSpawn(a)'
  PROVE  (Active(a) /\ ~InSpawn(a) => a \in registry \/ HasStop(a) \/ stopped[a])'
BY DEF NoActorForgotten, Active

\* The drain stops who is registered; who registers later is in the registry again.
LEMMA ForgottenPreserved ==
  TypeOK /\ SpawnedOnce /\ FlagInv /\ NoActorForgotten /\ [Next]_vars => NoActorForgotten'
<1> SUFFICES ASSUME TypeOK, SpawnedOnce, FlagInv, NoActorForgotten, [Next]_vars,
                    NEW b \in Actors
             PROVE  (Active(b) /\ ~InSpawn(b) => b \in registry \/ HasStop(b) \/ stopped[b])'
  BY DEF NoActorForgotten
<1> DEFINE Kept == (Active(b) /\ ~InSpawn(b) => b \in registry \/ HasStop(b) \/ stopped[b])'
<1> USE DEF svars, kvars, rvars, hvars, avars
<1>1. CASE UNCHANGED vars \/ AskReturns \/ ShutdownFlag \/ ShutdownLock \/ ShutdownJoined
  BY <1>1, NotForgotten DEF vars, AskReturns, ShutdownFlag, ShutdownLock, ShutdownJoined, HasStop,
                            InSpawn
<1>2. CASE ShutdownDrain
  <2>1. /\ apc' = apc /\ alive' = alive /\ stopped' = stopped /\ spawning' = spawning
    BY <1>2 DEF ShutdownDrain
  <2>2. PICK e \in Envelopes : /\ e[1] = "stop"
                              /\ IF b \in registry /\ alive[b] /\ Open(b)
                                 THEN Grown(mailbox'[b], mailbox[b], e)
                                 ELSE mailbox'[b] = mailbox[b]
    BY <1>2, DrainEffect
  <2>3. CASE b \in registry /\ Active(b)
    <3>1. alive[b] /\ Open(b)
      BY <2>3 DEF Active, FlagInv, Open
    <3>2. HasStop(b)'
      BY <2>2, <2>3, <3>1 DEF HasStop, Grown
    <3> QED BY <3>2
  <2>4. CASE b \notin registry
    BY <2>1, <2>2, <2>4, NotForgotten DEF HasStop, InSpawn
  <2>5. CASE ~Active(b)
    BY <2>1, <2>5 DEF Active
  <2> QED BY <2>3, <2>4, <2>5
<1>3. ASSUME NEW a \in Actors, ClientSends(a) PROVE Kept
  <2>1. /\ apc' = apc /\ stopped' = stopped /\ spawning' = spawning /\ registry' = registry
    BY <1>3 DEF ClientSends, Tell, Stop, Ask
  <2>2. PICK e \in Envelopes : /\ mailbox' = [mailbox EXCEPT ![a] = Append(@, e)]
                              /\ Grown(mailbox'[a], mailbox[a], e)
    BY <1>3, SendEffect
  <2>3. HasStop(b) => HasStop(b)'
    <3>1. CASE b = a
      BY <2>2, <3>1, StopStays
    <3>2. CASE b # a
      BY <2>2, <3>2 DEF HasStop, TypeOK
    <3> QED BY <3>1, <3>2
  <2> QED BY <2>1, <2>3, NotForgotten DEF InSpawn
<1>4. ASSUME NEW a \in Actors, Receive(a) PROVE Kept
  <2>1. /\ spawning' = spawning /\ registry' = registry /\ mailbox[a] # <<>>
        /\ mailbox' = [mailbox EXCEPT ![a] = Tail(@)]
    BY <1>4 DEF Receive
  <2>2. CASE b # a
    <3>1. apc'[b] = apc[b] /\ stopped'[b] = stopped[b] /\ mailbox'[b] = mailbox[b]
      BY <1>4, <2>2 DEF Receive, TypeOK
    <3> QED BY <2>1, <3>1, NotForgotten DEF InSpawn, HasStop
  <2>3. CASE b = a
    <3>1. Shrunk(mailbox'[a], mailbox[a])
      BY <2>1, TailShrinks DEF TypeOK
    <3>2. PICK e \in Envelopes : e = Head(mailbox[a]) /\ e = mailbox[a][1]
      BY <3>1 DEF Shrunk
    <3>3. CASE e[1] = "stop"
      <4>1. stopped'[a]
        BY <1>4, <3>2, <3>3 DEF Receive, TypeOK
      <4> QED BY <2>3, <4>1
    <3>4. CASE e[1] # "stop"
      <4>1. apc[a] = "loop" /\ stopped' = stopped
        BY <1>4, <3>2, <3>4 DEF Receive
      <4>2. HasStop(a) => HasStop(a)'
        BY <3>1, <3>2, <3>4, ZenonT(30) DEF HasStop, Shrunk
      <4>3. InSpawn(a)' = InSpawn(a)
        BY <2>1 DEF InSpawn
      <4> QED BY <2>1, <2>3, <4>1, <4>2, <4>3 DEF NoActorForgotten, Active
    <3> QED BY <3>3, <3>4
  <2> QED BY <2>2, <2>3
<1>5. ASSUME NEW a \in Actors,
             PreStart(a) \/ ReceiveTimeout(a) \/ TimeoutCheck(a) \/ HandlerReturns(a) \/ LeaveLoop(a)
      PROVE  Kept
  <2>1. spawning' = spawning /\ registry' = registry /\ mailbox' = mailbox
    BY <1>5 DEF PreStart, ReceiveTimeout, TimeoutCheck, HandlerReturns, LeaveLoop
  <2>2. HasStop(b)' = HasStop(b) /\ InSpawn(b)' = InSpawn(b)
    BY <2>1 DEF HasStop, InSpawn
  <2>3. CASE b # a
    <3>1. apc'[b] = apc[b] /\ stopped'[b] = stopped[b]
      BY <1>5, <2>3 DEF PreStart, ReceiveTimeout, TimeoutCheck, HandlerReturns, LeaveLoop, TypeOK
    <3> QED BY <2>1, <2>2, <3>1, NotForgotten
  <2>4. CASE b = a
    <3>1. /\ Active(a)' => Active(a)
          /\ Active(a)' => (stopped[a] => stopped'[a])
      BY <1>5 DEF PreStart, ReceiveTimeout, TimeoutCheck, HandlerReturns, LeaveLoop, TypeOK, Active,
                  FlagInv
    <3> QED BY <2>1, <2>2, <2>4, <3>1 DEF NoActorForgotten
  <2> QED BY <2>3, <2>4
<1>6. ASSUME NEW a \in Actors, UserCodePanics(a) \/ ThreadEnds(a) \/ Unregister(a) PROVE Kept
  <2>1. /\ spawning' = spawning /\ stopped' = stopped
        /\ \A c \in Actors : c # a => apc'[c] = apc[c] /\ mailbox'[c] = mailbox[c]
        /\ \A c \in Actors : c # a /\ c \in registry => c \in registry'
        /\ apc'[a] \in {"ended", "drop"}
    BY <1>6 DEF UserCodePanics, ThreadEnds, Unregister, TypeOK
  <2>2. CASE b = a
    BY <2>1, <2>2 DEF Active
  <2>3. CASE b # a
    BY <2>1, <2>3, NotForgotten DEF HasStop, InSpawn
  <2> QED BY <2>2, <2>3
<1>7. ASSUME NEW a \in Actors, Reply(a) PROVE Kept
  BY <1>7, NotForgotten DEF Reply, HasStop, InSpawn
<1>8. ASSUME NEW p \in Spawners, NEW a \in Actors, SpawnCheck(p, a) PROVE Kept
  <2>1. /\ spawning' = [spawning EXCEPT ![p] = <<a, "start">>] /\ spawning[p] = None
        /\ apc' = apc /\ stopped' = stopped /\ mailbox' = mailbox /\ registry' = registry
    BY <1>8 DEF SpawnCheck, Free
  <2>2. \A q \in Spawners : q # p => spawning'[q] = spawning[q]
    BY <2>1, SpawnMoves
  <2>3. spawning[p][1] # b
    BY <2>1, SpawnParts, ActorNames DEF Spawners
  <2>4. InSpawn(b) => InSpawn(b)'
    BY <2>2, <2>3 DEF InSpawn
  <2> QED BY <2>1, <2>4, NotForgotten DEF HasStop
<1>9. ASSUME NEW p \in Spawners, SpawnStep(p) PROVE Kept
  <2>1. spawning[p][2] \in {"start", "list", "register"}
    BY <1>9 DEF SpawnStep, StartThread, ListThread, Register
  <2>2. PICK a \in Actors : a = spawning[p][1]
    BY <2>1, SpawnParts
  <2>3. CASE StartThread(p) \/ ListThread(p)
    <3>1. PICK k \in {"list", "register"} : spawning' = [spawning EXCEPT ![p] = <<a, k>>]
      BY <2>2, <2>3 DEF StartThread, ListThread
    <3>2. /\ spawning'[p][1] = a /\ \A q \in Spawners : q # p => spawning'[q] = spawning[q]
      BY <3>1, SpawnMoves
    <3>3. InSpawn(b) => InSpawn(b)'
      BY <2>2, <3>2 DEF InSpawn
    <3>4. stopped' = stopped /\ mailbox' = mailbox /\ registry' = registry
          /\ \A c \in Actors : c # a => apc'[c] = apc[c]
      BY <2>2, <2>3 DEF StartThread, ListThread, TypeOK
    <3>5. CASE b = a
      BY <3>2, <3>5 DEF InSpawn
    <3>6. CASE b # a
      BY <3>3, <3>4, <3>6, NotForgotten DEF HasStop
    <3> QED BY <3>5, <3>6
  <2>4. CASE Register(p)
    <3>1. /\ spawning' = [spawning EXCEPT ![p] = None] /\ registry' = registry \cup {a}
          /\ stopped' = stopped /\ mailbox' = mailbox /\ apc' = apc
      BY <2>2, <2>4 DEF Register
    <3>2. \A q \in Spawners : q # p => spawning'[q] = spawning[q]
      BY <3>1, SpawnEnds
    <3>3. CASE b = a
      BY <3>1, <3>3
    <3>4. CASE b # a
      <4>1. InSpawn(b) => InSpawn(b)'
        BY <2>2, <3>2, <3>4 DEF InSpawn
      <4> QED BY <3>1, <4>1, NotForgotten DEF HasStop
    <3> QED BY <3>3, <3>4
  <2> QED BY <1>9, <2>3, <2>4 DEF SpawnStep
<1> HIDE DEF Kept
<1>10. Kept
  BY <1>1, <1>2, <1>3, <1>4, <1>5, <1>6, <1>7, <1>8, <1>9 DEF Next, SpawnStep, ActorStep, ShutdownStep, Kept
<1> QED BY <1>10 DEF Kept
\* The numbers in mailboxes, and the message an actor takes next.
LEMMA MailNumbers ==
  ASSUME TypeOK, NEW a \in Actors, NEW i \in DOMAIN mailbox[a]
  PROVE  mailbox[a][i] \in Envelopes /\ mailbox[a][i][2] \in Nat /\ i \in Nat
<1>1. mailbox[a] \in Seq(Envelopes)
  BY DEF TypeOK
<1>2. mailbox[a][i] \in Envelopes /\ i \in Nat
  BY <1>1
<1> QED BY <1>2, EnvelopeTypes

\* The histories of handled messages hold numbers.
LEMMA HandledNumbers ==
  ASSUME TypeOK, NEW a \in Actors
  PROVE  /\ Len(handled[a]) \in Nat /\ DOMAIN handled[a] = 1 .. Len(handled[a])
         /\ \A k \in DOMAIN handled[a] : handled[a][k] \in Nat /\ handled[a][k] # 0 /\ k \in Nat
<1>1. handled[a] \in Seq(1 .. MaxSends)
  BY DEF TypeOK
<1> QED BY <1>1, ActorBound

\* What MailInv says of the histories alone, when they do not change.
LEMMA HistoryKept ==
  ASSUME TypeOK, MailInv, handled' = handled, nsent \in Nat, nsent' = nsent \/ nsent' = nsent + 1
  PROVE  /\ \A a \in Actors : \A k \in DOMAIN handled'[a] : handled'[a][k] <= nsent'
         /\ \A a \in Actors : \A k, l \in DOMAIN handled'[a] :
              k < l => handled'[a][k] < handled'[a][l]
         /\ \A a, b \in Actors : \A k \in DOMAIN handled'[a], l \in DOMAIN handled'[b] :
              handled'[a][k] = handled'[b][l] => a = b
BY HandledNumbers DEF MailInv

\* A message that is sent has a number of its own, above all others.
LEMMA SendMail ==
  ASSUME TypeOK, MailInv, NEW a \in Actors, ClientSends(a)
  PROVE  MailInv'
<1>1. nsent' = nsent + 1 /\ nsent \in Nat /\ handled' = handled
  BY SendEffect DEF ClientSends, Tell, Stop, Ask, hvars
<1>2. PICK e \in Envelopes : /\ e[2] = nsent'
                            /\ mailbox' = [mailbox EXCEPT ![a] = Append(@, e)]
                            /\ Grown(mailbox'[a], mailbox[a], e)
  BY SendEffect
<1>3. \A b \in Actors : b # a => mailbox'[b] = mailbox[b]
  BY <1>2 DEF TypeOK
<1>4. \A b \in Actors : \A i \in DOMAIN mailbox'[b] :
        \/ i \in DOMAIN mailbox[b] /\ mailbox'[b][i] = mailbox[b][i]
        \/ /\ b = a /\ mailbox'[b][i][2] = nsent' /\ i \notin DOMAIN mailbox[b]
           /\ \A j \in DOMAIN mailbox'[b] : j <= i
           /\ \A j \in DOMAIN mailbox'[b] : j = i \/ j \in DOMAIN mailbox[b]
  BY <1>2, <1>3 DEF Grown
<1>5. \A b \in Actors : \A i \in DOMAIN mailbox[b] :
        mailbox[b][i][2] \in Nat /\ mailbox[b][i][2] < nsent' /\ i \in Nat
  BY <1>1, MailNumbers DEF MailInv
<1>6. Numbered'
  <2> SUFFICES ASSUME NEW b \in Actors, NEW i \in DOMAIN mailbox'[b], mailbox'[b][i][1] # "stop"
               PROVE  mailbox'[b][i][2] # 0
    BY DEF Numbered
  <2> QED BY <1>1, <1>4 DEF MailInv, Numbered
<1>7. \A b \in Actors : \A i \in DOMAIN mailbox'[b] : mailbox'[b][i][2] <= nsent'
  BY <1>1, <1>4, <1>5
<1>8. \A b \in Actors : \A i, j \in DOMAIN mailbox'[b] :
        i < j /\ mailbox'[b][j][2] # 0 => mailbox'[b][i][2] < mailbox'[b][j][2]
  <2> SUFFICES ASSUME NEW b \in Actors, NEW i \in DOMAIN mailbox'[b], NEW j \in DOMAIN mailbox'[b],
                      i < j, mailbox'[b][j][2] # 0
               PROVE  mailbox'[b][i][2] < mailbox'[b][j][2]
    OBVIOUS
  <2>1. i \in Nat /\ j \in Nat
    <3>1. mailbox'[b] \in Seq(Envelopes)
      BY <1>2, <1>3 DEF Grown, TypeOK
    <3> QED BY <3>1
  <2>2. i \in DOMAIN mailbox[b] /\ mailbox'[b][i] = mailbox[b][i]
    BY <1>4, <2>1
  <2>3. CASE j \in DOMAIN mailbox[b] /\ mailbox'[b][j] = mailbox[b][j]
    BY <2>2, <2>3 DEF MailInv
  <2>4. CASE mailbox'[b][j][2] = nsent'
    BY <1>5, <2>2, <2>4
  <2> QED BY <1>4, <2>3, <2>4
<1>9. \A b, c \in Actors : \A i \in DOMAIN mailbox'[b], j \in DOMAIN mailbox'[c] :
        mailbox'[b][i][2] = mailbox'[c][j][2] /\ mailbox'[b][i][2] # 0 => b = c
  <2> SUFFICES ASSUME NEW b \in Actors, NEW c \in Actors,
                      NEW i \in DOMAIN mailbox'[b], NEW j \in DOMAIN mailbox'[c],
                      mailbox'[b][i][2] = mailbox'[c][j][2], mailbox'[b][i][2] # 0, b # c
               PROVE  FALSE
    OBVIOUS
  <2>1. \A d \in Actors : \A k \in DOMAIN mailbox[d] : mailbox[d][k][2] # nsent'
    BY <1>1, <1>5
  <2> QED BY <1>4, <2>1 DEF MailInv
<1>10. \A b \in Actors : \A k \in DOMAIN handled[b] : handled[b][k] < nsent'
  BY <1>1, HandledNumbers DEF MailInv
<1>11. \A b, c \in Actors : \A i \in DOMAIN mailbox'[b], k \in DOMAIN handled'[c] :
         mailbox'[b][i][2] # handled'[c][k]
  <2>1. \A b \in Actors : \A k \in DOMAIN handled[b] : handled[b][k] # nsent'
    BY <1>1, <1>10, HandledNumbers
  <2> QED BY <1>1, <1>4, <2>1 DEF MailInv
<1>12. \A b \in Actors : \A i \in DOMAIN mailbox'[b], k \in DOMAIN handled'[b] :
         mailbox'[b][i][2] # 0 => handled'[b][k] < mailbox'[b][i][2]
  BY <1>1, <1>4, <1>10 DEF MailInv
<1> QED BY <1>1, <1>6, <1>7, <1>8, <1>9, <1>11, <1>12, HistoryKept DEF MailInv

\* The Stop of shutdown has no number.
LEMMA DrainMail ==
  ASSUME TypeOK, MailInv, ShutdownDrain
  PROVE  MailInv'
<1>1. nsent' = nsent /\ nsent \in Nat /\ handled' = handled
  BY ActorBound DEF ShutdownDrain, kvars, rvars, hvars, TypeOK
<1>2. PICK e \in Envelopes : /\ e[1] = "stop" /\ e[2] = 0
                            /\ \A b \in Actors :
                                 IF b \in registry /\ alive[b] /\ Open(b)
                                 THEN Grown(mailbox'[b], mailbox[b], e)
                                 ELSE mailbox'[b] = mailbox[b]
  BY DrainEffect
<1>3. \A b \in Actors : \A i \in DOMAIN mailbox'[b] :
        \/ i \in DOMAIN mailbox[b] /\ mailbox'[b][i] = mailbox[b][i]
        \/ /\ mailbox'[b][i] = e
           /\ \A j \in DOMAIN mailbox'[b] : j <= i
  BY <1>2 DEF Grown
<1>4. Numbered'
  <2> SUFFICES ASSUME NEW b \in Actors, NEW i \in DOMAIN mailbox'[b], mailbox'[b][i][1] # "stop"
               PROVE  mailbox'[b][i][2] # 0
    BY DEF Numbered
  <2> QED BY <1>2, <1>3 DEF MailInv, Numbered
<1>5. \A b \in Actors : \A i \in DOMAIN mailbox'[b] : mailbox'[b][i][2] <= nsent'
  BY <1>1, <1>2, <1>3 DEF MailInv
<1>6. \A b \in Actors : \A i, j \in DOMAIN mailbox'[b] :
        i < j /\ mailbox'[b][j][2] # 0 => mailbox'[b][i][2] < mailbox'[b][j][2]
  <2> SUFFICES ASSUME NEW b \in Actors, NEW i \in DOMAIN mailbox'[b], NEW j \in DOMAIN mailbox'[b],
                      i < j, mailbox'[b][j][2] # 0
               PROVE  mailbox'[b][i][2] < mailbox'[b][j][2]
    OBVIOUS
  <2>1. i \in Nat /\ j \in Nat
    <3>1. mailbox'[b] \in Seq(Envelopes)
      BY DrainEffect
    <3> QED BY <3>1
  <2>2. i \in DOMAIN mailbox[b] /\ mailbox'[b][i] = mailbox[b][i]
    BY <1>3, <2>1
  <2>3. j \in DOMAIN mailbox[b] /\ mailbox'[b][j] = mailbox[b][j]
    BY <1>2, <1>3
  <2> QED BY <2>2, <2>3 DEF MailInv
<1>7. \A b, c \in Actors : \A i \in DOMAIN mailbox'[b], j \in DOMAIN mailbox'[c] :
        mailbox'[b][i][2] = mailbox'[c][j][2] /\ mailbox'[b][i][2] # 0 => b = c
  BY <1>2, <1>3 DEF MailInv
<1>8. \A b, c \in Actors : \A i \in DOMAIN mailbox'[b], k \in DOMAIN handled'[c] :
         mailbox'[b][i][2] # handled'[c][k]
  <2>1. \A b \in Actors : \A k \in DOMAIN handled[b] : handled[b][k] # 0
    BY HandledNumbers
  <2> QED BY <1>1, <1>2, <1>3, <2>1 DEF MailInv
<1>9. \A b \in Actors : \A i \in DOMAIN mailbox'[b], k \in DOMAIN handled'[b] :
        mailbox'[b][i][2] # 0 => handled'[b][k] < mailbox'[b][i][2]
  BY <1>1, <1>2, <1>3 DEF MailInv
<1> QED BY <1>1, <1>4, <1>5, <1>6, <1>7, <1>8, <1>9, HistoryKept DEF MailInv

\* A mailbox that is emptied, and nothing else, changes nothing for the others.
LEMMA EmptyMail ==
  ASSUME TypeOK, MailInv, nsent' = nsent, handled' = handled,
         \A b \in Actors : mailbox'[b] = mailbox[b] \/ mailbox'[b] = <<>>
  PROVE  MailInv'
<1>1. \A b \in Actors : \A i \in DOMAIN mailbox'[b] :
        mailbox'[b] = mailbox[b] /\ i \in DOMAIN mailbox[b]
  <2>1. DOMAIN <<>> = {}
    OBVIOUS
  <2> QED BY <2>1
<1> QED BY <1>1 DEF MailInv, Numbered

\* An envelope that is received is the oldest of its mailbox, and is handled once.
LEMMA ReceiveMail ==
  ASSUME TypeOK, MailInv, NEW a \in Actors, Receive(a)
  PROVE  /\ MailInv'
         /\ \A n : WasHandled(n) => WasHandled(n)'
         /\ current'[a] = current[a] \/ WasHandled(current[a][2])'
<1>1. /\ nsent' = nsent /\ nsent \in Nat /\ mailbox' = [mailbox EXCEPT ![a] = Tail(@)]
      /\ mailbox[a] # <<>>
  BY ActorBound DEF Receive, kvars, rvars, hvars, TypeOK
<1>2. Shrunk(mailbox'[a], mailbox[a])
  BY <1>1, TailShrinks DEF TypeOK
<1>3. PICK e \in Envelopes : e = Head(mailbox[a]) /\ e = mailbox[a][1]
  BY <1>2 DEF Shrunk
<1>4. \A b \in Actors : b # a => mailbox'[b] = mailbox[b]
  BY <1>1 DEF TypeOK
<1>5. \A i \in DOMAIN mailbox'[a] : /\ i \in Nat /\ i + 1 \in DOMAIN mailbox[a]
                                   /\ mailbox'[a][i] = mailbox[a][i + 1]
  BY <1>2 DEF Shrunk
<1>6. \A b \in Actors : \A i \in DOMAIN mailbox'[b] :
        \E j \in DOMAIN mailbox[b] : mailbox'[b][i] = mailbox[b][j] /\ (b = a => j = i + 1 /\ i \in Nat)
  <2> SUFFICES ASSUME NEW b \in Actors, NEW i \in DOMAIN mailbox'[b]
               PROVE \E j \in DOMAIN mailbox[b] : mailbox'[b][i] = mailbox[b][j] /\ (b = a => j = i + 1 /\ i \in Nat)
    OBVIOUS
  <2>1. CASE b = a
    BY <1>5, <2>1
  <2>2. CASE b # a
    BY <1>4, <2>2
  <2> QED BY <2>1, <2>2
<1>7. Numbered'
  BY <1>6 DEF MailInv, Numbered
<1>8. \A b \in Actors : \A i \in DOMAIN mailbox'[b] : mailbox'[b][i][2] <= nsent'
  BY <1>1, <1>6 DEF MailInv
<1>9. \A b \in Actors : \A i, j \in DOMAIN mailbox'[b] :
        i < j /\ mailbox'[b][j][2] # 0 => mailbox'[b][i][2] < mailbox'[b][j][2]
  <2> SUFFICES ASSUME NEW b \in Actors, NEW i \in DOMAIN mailbox'[b], NEW j \in DOMAIN mailbox'[b],
                      i < j, mailbox'[b][j][2] # 0
               PROVE  mailbox'[b][i][2] < mailbox'[b][j][2]
    OBVIOUS
  <2>1. CASE b = a
    <3>1. i + 1 < j + 1
      BY <1>5, <2>1
    <3> QED BY <1>5, <2>1, <3>1 DEF MailInv
  <2>2. CASE b # a
    BY <1>4, <2>2 DEF MailInv
  <2> QED BY <2>1, <2>2
<1>10. \A b, c \in Actors : \A i \in DOMAIN mailbox'[b], j \in DOMAIN mailbox'[c] :
        mailbox'[b][i][2] = mailbox'[c][j][2] /\ mailbox'[b][i][2] # 0 => b = c
  BY <1>6 DEF MailInv
<1>11. CASE e[1] = "stop"
  <2>1. handled' = handled /\ current' = current
    BY <1>3, <1>11 DEF Receive
  <2>2. \A b, c \in Actors : \A i \in DOMAIN mailbox'[b], k \in DOMAIN handled'[c] :
          mailbox'[b][i][2] # handled'[c][k]
    BY <1>6, <2>1 DEF MailInv
  <2>3. \A b \in Actors : \A i \in DOMAIN mailbox'[b], k \in DOMAIN handled'[b] :
          mailbox'[b][i][2] # 0 => handled'[b][k] < mailbox'[b][i][2]
    BY <1>6, <2>1 DEF MailInv
  <2>4. MailInv'
    BY <1>1, <1>7, <1>8, <1>9, <1>10, <2>1, <2>2, <2>3, HistoryKept DEF MailInv
  <2>5. \A n : WasHandled(n) => WasHandled(n)'
    BY <2>1 DEF WasHandled
  <2> QED BY <2>1, <2>4, <2>5
<1>12. CASE e[1] # "stop"
  <2>1. handled' = [handled EXCEPT ![a] = Append(@, e[2])] /\ current'[a] = e
    BY <1>3, <1>12 DEF Receive, TypeOK
  <2>2. PICK n \in Nat : n = e[2] /\ n # 0 /\ 1 \in DOMAIN mailbox[a] /\ n = mailbox[a][1][2]
    BY <1>2, <1>3, <1>12, EnvelopeTypes DEF MailInv, Numbered, Shrunk
  <2>3. n \in 1 .. MaxSends
    BY <1>3, <2>2, EnvelopeTypes, ActorBound
  <2>4. /\ \A b \in Actors : b # a => handled'[b] = handled[b]
        /\ handled'[a] = Append(handled[a], n) /\ handled[a] \in Seq(1 .. MaxSends)
    BY <2>1, <2>2 DEF TypeOK
  <2>5. PICK last \in Nat :
          /\ \A k \in DOMAIN handled[a] : k \in Nat /\ k < last
          /\ \A k \in DOMAIN handled[a] : k \in DOMAIN handled'[a] /\ handled'[a][k] = handled[a][k]
          /\ last \in DOMAIN handled'[a] /\ handled'[a][last] = n
          /\ \A k \in DOMAIN handled'[a] : k \in DOMAIN handled[a] \/ k = last
    <3>1. PICK l \in Nat : l = Len(handled[a])
      BY <2>4
    <3>2. DOMAIN handled'[a] = 1 .. l + 1 /\ DOMAIN handled[a] = 1 .. l /\ handled'[a][l + 1] = n
      BY <2>3, <2>4, <3>1
    <3>3. \A k \in DOMAIN handled[a] : handled'[a][k] = handled[a][k]
      BY <2>3, <2>4, <3>1
    <3>4. l + 1 \in Nat
      BY <3>1
    <3>5. \A k \in DOMAIN handled[a] : k \in Nat /\ k < l + 1 /\ k \in DOMAIN handled'[a]
      BY <3>2
    <3>6. l + 1 \in DOMAIN handled'[a] /\ \A k \in DOMAIN handled'[a] : k \in DOMAIN handled[a] \/ k = l + 1
      BY <3>2
    <3> QED BY <3>2, <3>3, <3>4, <3>5, <3>6
  <2>6. \A b \in Actors : \A k \in DOMAIN handled'[b] :
          \/ k \in DOMAIN handled[b] /\ handled'[b][k] = handled[b][k]
          \/ b = a /\ k = last /\ handled'[b][k] = n
    BY <2>4, <2>5
  <2>7. \A b \in Actors : \A k \in DOMAIN handled[b] : handled[b][k] # n
    BY <2>2 DEF MailInv
  <2>8. \A k \in DOMAIN handled[a] : handled[a][k] < n
    BY <2>2 DEF MailInv
  <2>9. \A i \in DOMAIN mailbox'[a] : mailbox'[a][i][2] # 0 => n < mailbox'[a][i][2]
    <3> SUFFICES ASSUME NEW i \in DOMAIN mailbox'[a], mailbox'[a][i][2] # 0
                 PROVE  n < mailbox'[a][i][2]
      OBVIOUS
    <3>1. i \in Nat /\ i + 1 \in DOMAIN mailbox[a] /\ mailbox'[a][i] = mailbox[a][i + 1]
      BY <1>5
    <3>2. i # 0
      <4>1. mailbox'[a] \in Seq(Envelopes)
        BY <1>2 DEF Shrunk
      <4> QED BY <4>1
    <3>3. 1 < i + 1
      BY <3>1, <3>2
    <3> QED BY <2>2, <3>1, <3>3 DEF MailInv
  <2>10. \A b \in Actors : \A i \in DOMAIN mailbox'[b] : mailbox'[b][i][2] # n
    <3> SUFFICES ASSUME NEW b \in Actors, NEW i \in DOMAIN mailbox'[b], mailbox'[b][i][2] = n
                 PROVE  FALSE
      OBVIOUS
    <3>1. PICK j \in DOMAIN mailbox[b] : mailbox'[b][i] = mailbox[b][j]
      BY <1>6
    <3>2. b = a
      BY <2>2, <3>1 DEF MailInv
    <3> QED BY <2>2, <2>9, <3>2
  <2>11. \A b, c \in Actors : \A i \in DOMAIN mailbox'[b], k \in DOMAIN handled'[c] :
           mailbox'[b][i][2] # handled'[c][k]
    BY <1>6, <2>6, <2>10 DEF MailInv
  <2>12. \A b \in Actors : \A i \in DOMAIN mailbox'[b], k \in DOMAIN handled'[b] :
           mailbox'[b][i][2] # 0 => handled'[b][k] < mailbox'[b][i][2]
    BY <1>6, <2>6, <2>9 DEF MailInv
  <2>13. n <= nsent
    BY <2>2 DEF MailInv
  <2>14. \A b \in Actors : \A k \in DOMAIN handled'[b] : handled'[b][k] <= nsent'
    BY <1>1, <2>6, <2>13 DEF MailInv
  <2>15. \A b \in Actors : \A k, l \in DOMAIN handled'[b] : k < l => handled'[b][k] < handled'[b][l]
    <3> SUFFICES ASSUME NEW b \in Actors, NEW k \in DOMAIN handled'[b], NEW l \in DOMAIN handled'[b],
                        k < l
                 PROVE  handled'[b][k] < handled'[b][l]
      OBVIOUS
    <3>1. CASE l \in DOMAIN handled[b] /\ handled'[b][l] = handled[b][l]
      <4>1. k \in DOMAIN handled[b] /\ handled'[b][k] = handled[b][k]
        BY <2>5, <2>6, <3>1
      <4> QED BY <3>1, <4>1 DEF MailInv
    <3>2. CASE b = a /\ l = last /\ handled'[b][l] = n
      <4>1. k \in DOMAIN handled[b] /\ handled'[b][k] = handled[b][k]
        BY <2>5, <2>6, <3>2
      <4> QED BY <2>8, <3>2, <4>1
    <3> QED BY <2>6, <3>1, <3>2
  <2>16. \A b, c \in Actors : \A k \in DOMAIN handled'[b], l \in DOMAIN handled'[c] :
           handled'[b][k] = handled'[c][l] => b = c
    BY <2>6, <2>7 DEF MailInv
  <2>17. MailInv'
    BY <1>7, <1>8, <1>9, <1>10, <2>11, <2>12, <2>14, <2>15, <2>16 DEF MailInv
  <2>18. \A m : WasHandled(m) => WasHandled(m)'
    <3> SUFFICES ASSUME NEW m, NEW b \in Actors, NEW k \in DOMAIN handled[b], handled[b][k] = m
                 PROVE  WasHandled(m)'
      BY DEF WasHandled
    <3>1. k \in DOMAIN handled'[b] /\ handled'[b][k] = m
      BY <2>4, <2>5
    <3> QED BY <3>1 DEF WasHandled
  <2>19. WasHandled(current[a][2])'
    BY <2>1, <2>2, <2>5 DEF WasHandled
  <2> QED BY <2>17, <2>18, <2>19
<1> QED BY <1>11, <1>12

\* The other steps leave the history alone, and the numbers of what is in mailboxes.
LEMMA MailPreserved == TypeOK /\ MailInv /\ [Next]_vars => MailInv'
<1> SUFFICES ASSUME TypeOK, MailInv, [Next]_vars PROVE MailInv'
  OBVIOUS
<1> USE DEF svars, kvars, rvars, hvars, avars
<1>1. CASE UNCHANGED vars \/ AskReturns \/ ShutdownFlag \/ ShutdownLock \/ ShutdownJoined
  <2>1. mailbox' = mailbox /\ nsent' = nsent /\ handled' = handled
    BY <1>1 DEF vars, AskReturns, ShutdownFlag, ShutdownLock, ShutdownJoined
  <2> QED BY <2>1, EmptyMail
<1>2. ASSUME NEW p \in Spawners, SpawnStep(p) \/ \E a \in Actors : SpawnCheck(p, a) PROVE MailInv'
  <2>1. mailbox' = mailbox /\ nsent' = nsent /\ handled' = handled
    BY <1>2 DEF SpawnStep, StartThread, ListThread, Register, SpawnCheck
  <2> QED BY <2>1, EmptyMail
<1>3. ASSUME NEW a \in Actors, UserCodePanics(a) \/ ThreadEnds(a) PROVE MailInv'
  <2>1. nsent' = nsent /\ handled' = handled /\ mailbox' = [mailbox EXCEPT ![a] = <<>>]
    BY <1>3 DEF UserCodePanics, ThreadEnds
  <2>2. \A b \in Actors : mailbox'[b] = mailbox[b] \/ mailbox'[b] = <<>>
    BY <2>1 DEF TypeOK
  <2> QED BY <2>1, <2>2, EmptyMail
<1>4. ASSUME NEW a \in Actors,
             \/ PreStart(a) \/ ReceiveTimeout(a) \/ TimeoutCheck(a) \/ HandlerReturns(a)
             \/ LeaveLoop(a) \/ Unregister(a) \/ Reply(a)
      PROVE  MailInv'
  <2>1. mailbox' = mailbox /\ nsent' = nsent /\ handled' = handled
    BY <1>4 DEF PreStart, ReceiveTimeout, TimeoutCheck, HandlerReturns, LeaveLoop, Unregister, Reply
  <2> QED BY <2>1, EmptyMail
<1> QED BY <1>1, <1>2, <1>3, <1>4, SendMail, DrainMail, ReceiveMail
        DEF Next, ActorStep, ShutdownStep

\* Only the handler of an ask answers it, through its own channel.
LEMMA ReplyPreserved == TypeOK /\ MailInv /\ ReplyInv /\ [Next]_vars => ReplyInv'
<1> SUFFICES ASSUME TypeOK, MailInv, ReplyInv, [Next]_vars PROVE ReplyInv'
  OBVIOUS
<1> USE DEF svars, kvars, rvars, hvars, avars
<1>1. ASSUME handled' = handled, current' = current, answered' = answered, OwnChannels', from' = from
      PROVE  ReplyInv'
  <2>1. \A n : WasHandled(n)' = WasHandled(n)
    BY <1>1 DEF WasHandled
  <2> QED BY <1>1, <2>1 DEF ReplyInv, WasHandled
<1>2. CASE UNCHANGED vars \/ ShutdownStep
  BY <1>1, <1>2 DEF ReplyInv, OwnChannels, vars, ShutdownStep, ShutdownFlag, ShutdownDrain, ShutdownLock,
                    ShutdownJoined
<1>3. CASE AskReturns
  <2>1. asking \in 1 .. MaxSends /\ chan[asking] = asking
    BY <1>3, ActorBound DEF AskReturns, ReplyInv, OwnChannels, TypeOK
  <2>2. /\ handled' = handled /\ current' = current /\ from' = from /\ chan' = chan /\ asking' = 0
        /\ answered' = answered \/ answered' = [answered EXCEPT ![asking] = from[asking]]
    BY <1>3, <2>1 DEF AskReturns
  <2>3. \A n : WasHandled(n)' = WasHandled(n)
    BY <2>2 DEF WasHandled
  <2>4. \A n \in 1 .. MaxSends : answered'[n] # 0 => answered'[n] = n /\ WasHandled(n)
    BY <2>1, <2>2 DEF ReplyInv, TypeOK
  <2>5. OwnChannels'
    BY <2>2 DEF ReplyInv, OwnChannels
  <2> QED BY <2>2, <2>3, <2>4, <2>5 DEF ReplyInv, WasHandled
<1>4. ASSUME NEW p \in Spawners, SpawnStep(p) \/ \E a \in Actors : SpawnCheck(p, a) PROVE ReplyInv'
  BY <1>1, <1>4 DEF ReplyInv, OwnChannels, SpawnStep, StartThread, ListThread, Register, SpawnCheck
<1>5. ASSUME NEW a \in Actors,
             PreStart(a) \/ ReceiveTimeout(a) \/ TimeoutCheck(a) \/ LeaveLoop(a) \/ Unregister(a)
      PROVE  ReplyInv'
  BY <1>1, <1>5 DEF ReplyInv, OwnChannels, PreStart, ReceiveTimeout, TimeoutCheck, LeaveLoop, Unregister
<1>6. ASSUME NEW a \in Actors, ClientSends(a) PROVE ReplyInv'
  <2>1. nsent' \in 1 .. MaxSends
    BY <1>6, SendEffect
  <2>2. OwnChannels'
    <3>1. CASE Ask(a)
      <4>1. chan' = [chan EXCEPT ![nsent'] = nsent'] /\ asking' = nsent'
        BY <3>1 DEF Ask
      <4> QED BY <2>1, <4>1 DEF ReplyInv, OwnChannels, TypeOK
    <3>2. CASE ~Ask(a)
      BY <1>6, <3>2 DEF ClientSends, Tell, Stop, ReplyInv, OwnChannels
    <3> QED BY <3>1, <3>2
  <2>3. handled' = handled /\ current' = current /\ answered' = answered /\ from' = from
    BY <1>6 DEF ClientSends, Tell, Stop, Ask
  <2> QED BY <1>1, <2>2, <2>3
<1>7. ASSUME NEW a \in Actors, Reply(a) PROVE ReplyInv'
  <2>1. PICK n : n = current[a][2]
    OBVIOUS
  <2>2. /\ handled' = handled /\ current' = current /\ answered' = answered /\ current[a][1] = "ask"
        /\ chan' = chan /\ asking' = asking /\ from' = [from EXCEPT ![chan[n]] = n]
    BY <1>7, <2>1 DEF Reply
  <2>3. WasHandled(n)
    BY <2>1, <2>2 DEF ReplyInv
  <2>4. n \in 1 .. MaxSends
    <3>1. PICK b \in Actors : \E k \in DOMAIN handled[b] : handled[b][k] = n
      BY <2>3 DEF WasHandled
    <3>2. handled[b] \in Seq(1 .. MaxSends)
      BY DEF TypeOK
    <3>3. \A k \in DOMAIN handled[b] : handled[b][k] \in 1 .. MaxSends
      BY <3>2, ActorBound
    <3> QED BY <3>1, <3>3
  <2>5. \A c \in 1 .. MaxSends : from'[c] # from[c] => c = n /\ from'[c] = n
    BY <2>2, <2>4 DEF ReplyInv, OwnChannels, TypeOK
  <2>6. \A m : WasHandled(m)' = WasHandled(m)
    BY <2>2 DEF WasHandled
  <2>7. \A c \in 1 .. MaxSends : from'[c] # 0 => from'[c] = c /\ WasHandled(c)
    BY <2>3, <2>5 DEF ReplyInv
  <2>8. OwnChannels'
    BY <2>2 DEF ReplyInv, OwnChannels
  <2> QED BY <2>2, <2>6, <2>7, <2>8 DEF ReplyInv, WasHandled
<1>8. ASSUME NEW a \in Actors, HandlerReturns(a) \/ UserCodePanics(a) \/ ThreadEnds(a) PROVE ReplyInv'
  <2>1. handled' = handled /\ answered' = answered /\ asking' = asking
    BY <1>8 DEF HandlerReturns, UserCodePanics, ThreadEnds
  <2>2. from' = from /\ chan' = chan
    BY <1>8 DEF HandlerReturns, UserCodePanics, ThreadEnds, DropReplies
  <2>3. NoEnvelope[1] = "none"
    BY DEF NoEnvelope
  <2>4. current' = current \/ current' = [current EXCEPT ![a] = NoEnvelope]
    BY <1>8 DEF HandlerReturns, UserCodePanics, ThreadEnds
  <2>5. \A b \in Actors : current'[b][1] = "ask" => current'[b] = current[b]
    BY <2>3, <2>4 DEF TypeOK
  <2>6. \A n : WasHandled(n)' = WasHandled(n)
    BY <2>1 DEF WasHandled
  <2>7. \A b \in Actors : current'[b][1] = "ask" => WasHandled(current[b][2])'
    BY <2>1, <2>5 DEF ReplyInv, WasHandled
  <2>8. OwnChannels'
    BY <2>1, <2>2 DEF ReplyInv, OwnChannels
  <2> QED BY <2>1, <2>2, <2>6, <2>7, <2>8 DEF ReplyInv, WasHandled
<1>9. ASSUME NEW a \in Actors, Receive(a) PROVE ReplyInv'
  <2>1. /\ \A n : WasHandled(n) => WasHandled(n)'
        /\ current'[a] = current[a] \/ WasHandled(current[a][2])'
    BY <1>9, ReceiveMail
  <2>2. /\ UNCHANGED <<from, chan, asking, answered>>
        /\ \A b \in Actors : b # a => current'[b] = current[b]
    BY <1>9 DEF Receive, TypeOK
  <2>3. /\ \A c \in 1 .. MaxSends : from'[c] # 0 => from'[c] = c /\ WasHandled(c)'
        /\ \A n \in 1 .. MaxSends : answered'[n] # 0 => answered'[n] = n /\ WasHandled(n)'
        /\ OwnChannels'
    BY <2>1, <2>2 DEF ReplyInv, OwnChannels
  <2>4. ASSUME NEW b \in Actors, current'[b][1] = "ask" PROVE WasHandled(current[b][2])'
    <3>1. CASE current'[b] = current[b]
      <4>1. WasHandled(current[b][2])
        BY <2>4, <3>1 DEF ReplyInv
      <4>2. PICK n : n = current[b][2]
        OBVIOUS
      <4>3. WasHandled(n)'
        BY <2>1, <4>1, <4>2
      <4> QED BY <3>1, <4>2, <4>3 DEF WasHandled
    <3>2. CASE current'[b] # current[b]
      BY <2>1, <2>2, <3>2
    <3> QED BY <3>1, <3>2
  <2> QED BY <2>3, <2>4 DEF ReplyInv
<1> QED BY <1>2, <1>3, <1>4, <1>5, <1>6, <1>7, <1>8, <1>9 DEF Next, ActorStep

-----------------------------------------------------------------------------
\* The theorems.

IInv == TypeOK /\ LifeInv /\ MailInv /\ ReplyInv

\* The initial state: nothing is spawned and nothing was sent.
LEMMA InitInv == Init => IInv
<1> SUFFICES ASSUME Init PROVE IInv
  OBVIOUS
<1>1. \A p \in Spawners : spawning[p] = None /\ spawning[p][2] = "none"
  BY DEF Init, None
<1>2. TypeOK
  <2>1. None \in Calls /\ 0 \in 0 .. MaxSends /\ "none" \in Channels
    BY ActorBound DEF Calls, Channels
  <2>2. <<>> \in Seq(Envelopes) /\ <<>> \in Seq(1 .. MaxSends)
    OBVIOUS
  <2> QED BY <2>1, <2>2, PcNames DEF Init, TypeOK
<1>3. LifeInv
  BY <1>1 DEF Init, LifeInv, SpawnedOnce, FlagInv, NoActorForgotten, Active, Listed
<1>4. MailInv
  <2>1. DOMAIN <<>> = {} /\ \A a \in Actors : mailbox[a] = <<>> /\ handled[a] = <<>>
    BY DEF Init
  <2> QED BY <2>1 DEF MailInv, Numbered
<1>5. ReplyInv
  <2>1. NoEnvelope[1] = "none"
    BY DEF NoEnvelope
  <2> QED BY <2>1, ActorBound DEF Init, ReplyInv, OwnChannels
<1> QED BY <1>2, <1>3, <1>4, <1>5 DEF IInv

\* Every step keeps the inductive invariant.
LEMMA StepInv == IInv /\ [Next]_vars => IInv'
<1> SUFFICES ASSUME IInv, [Next]_vars PROVE IInv'
  OBVIOUS
<1>1. /\ TypeOK /\ SpawnedOnce /\ FlagInv /\ NoActorForgotten /\ Listed
      /\ MailInv /\ Numbered /\ ReplyInv /\ OwnChannels
  BY DEF IInv, LifeInv, MailInv, ReplyInv
<1>2. TypeOK'
  BY <1>1, TypePreserved
<1>3. LifeInv'
  BY <1>1, SpawnedOncePreserved, FlagPreserved, ForgottenPreserved, ListedPreserved DEF LifeInv
<1>4. MailInv' /\ ReplyInv'
  BY <1>1, MailPreserved, ReplyPreserved
<1> QED BY <1>2, <1>3, <1>4 DEF IInv

\* The inductive invariant.
THEOREM Invariance == Spec => []IInv
BY InitInv, StepInv, PTL DEF Spec

\* Every state of the actor runtime is well typed: the thread list and the registry
\* only hold actors, and no handler is started on a message without a number.
THEOREM TypeCorrect == Spec => []TypeOK
<1>1. IInv => TypeOK
  BY DEF IInv
<1> QED BY <1>1, Invariance, PTL

\* is_alive tells the truth, in every interleaving of run, spawn and shutdown.
THEOREM AliveTruthful == Spec => []AliveIsTrue
<1>1. IInv => AliveIsTrue
  <2> SUFFICES ASSUME IInv PROVE AliveIsTrue
    OBVIOUS
  <2>1. FlagInv
    BY DEF IInv, LifeInv
  <2> QED BY <2>1 DEF FlagInv, AliveIsTrue, Active
<1> QED BY <1>1, Invariance, PTL

\* shutdown forgets no actor: one in its loop is still registered, will see a Stop,
\* or is being spawned.
THEOREM ShutdownForgetsNobody == Spec => []NoActorForgotten
<1>1. IInv => NoActorForgotten
  BY DEF IInv, LifeInv
<1> QED BY <1>1, Invariance, PTL

\* When shutdown has returned, every thread that was in the list has ended: one that
\* runs was listed later.
THEOREM ShutdownJoinsListed == Spec => []ShutdownJoins
<1>1. IInv => ShutdownJoins
  <2> SUFFICES ASSUME IInv PROVE ShutdownJoins
    OBVIOUS
  <2>1. Listed
    BY DEF IInv, LifeInv
  <2> QED BY <2>1 DEF Listed, ShutdownJoins, InSpawn
<1> QED BY <1>1, Invariance, PTL

\* Every actor handles its messages in the order of their sends, nothing is handled
\* twice, and what an ask returns comes from the handler of that ask, for any number of
\* actors and messages.
THEOREM HandledOnce == Spec => []OnceAndInOrder
<1>1. IInv => OnceAndInOrder
  BY DEF IInv, MailInv, ReplyInv, WasHandled, OnceAndInOrder
<1> QED BY <1>1, Invariance, PTL
=============================================================================
