---------------------------- MODULE ActorSystem ----------------------------
(***************************************************************************)
(* The actor runtime of agam_runtime/src/actor.rs: ActorSystem::spawn and  *)
(* shutdown, ActorRef::tell, ask and stop, and ActorCell::run, one thread  *)
(* per actor.                                                              *)
(*                                                                         *)
(* The other threads are Client, which spawns actors, sends and asks, and  *)
(* the one that calls shutdown.  Handlers, pre_start and post_stop are user*)
(* code: they may spawn other actors, stop their actor, fail or panic, and *)
(* a handler may answer an ask.                                            *)
(* One action is one critical section, or one access to shared state.      *)
(*                                                                         *)
(* Watchers and Terminated messages are left out: no code calls watch, so  *)
(* the list that run drains is always empty.                               *)
(***************************************************************************)
EXTENDS Naturals, Sequences

CONSTANTS
  Actors,     \* actors the program may spawn
  Client,     \* the thread that uses the actor system
  NoActor,
  Nesting,    \* actors that another actor may spawn
  Panicky,    \* actors whose code may panic
  MaxSends    \* bound: messages the client sends

Spawners == Actors \cup {Client}

ASSUME ActorNames ==
  Client \notin Actors /\ NoActor \notin Spawners
ASSUME ActorSets == Nesting \subseteq Actors /\ Panicky \subseteq Actors
ASSUME ActorBound == MaxSends \in Nat

VARIABLES
  apc,        \* where the thread of each actor is
  alive,      \* alive[a]: the AtomicBool of a's ActorRef
  stopped,    \* stopped[a]: ActorContext::stopped
  mailbox,    \* mailbox[a]: numbered envelopes, <<what, number>>
  current,    \* current[a]: the envelope whose handler runs
  spawning,   \* spawning[p]: the actor p is spawning, and how far it got
  registry,   \* ActorSystemInner::registry
  threads,    \* ActorSystemInner::threads
  held,       \* shutdown holds the lock of threads while it joins
  shutdown,   \* ActorSystemInner::is_shutdown
  spc,        \* where the thread that calls shutdown is
  joining,    \* the threads it took out of the list
  refs,       \* the actors whose ActorRef the client has
  asking,     \* number of the ask the client waits for, 0 if none
  chan,       \* chan[n]: the reply channel whose sender message n carries, 0 if none
  replies,    \* replies[c]: the state of reply channel c
  from,       \* from[c]: the message whose handler put a reply into channel c
  nsent,      \* bounded count of messages
  handled,    \* history: handled[a], the messages whose handler a started, in that order
  answered    \* history: answered[n], the message whose handler sent what ask n returned

avars == <<apc, alive, stopped, mailbox, current>>
svars == <<registry, threads, held, shutdown, spc, joining>>
rvars == <<chan, replies, from>>
hvars == <<handled, answered>>
kvars == <<refs, asking, rvars, nsent>>
vars == <<avars, spawning, svars, kvars, hvars>>

None == <<NoActor, "none">>

\* What an actor whose handler does not run has in current.
NoEnvelope == <<"none", 0>>

\* The thread of a runs, and has not left its message loop.
Active(a) == apc[a] \in {"prestart", "loop", "timedout", "handling"}

\* The thread of a is in pre_start, in handle or, after the loop, in post_stop.
InUserCode(a) == apc[a] \in {"prestart", "handling"}
                 \/ (apc[a] = "loop" /\ stopped[a])

\* The receiving end of a's mailbox exists.
Open(a) == apc[a] \notin {"none", "ended"}

Init ==
  /\ apc = [a \in Actors |-> "none"]
  /\ alive = [a \in Actors |-> TRUE]
  /\ stopped = [a \in Actors |-> FALSE]
  /\ mailbox = [a \in Actors |-> <<>>]
  /\ current = [a \in Actors |-> NoEnvelope]
  /\ spawning = [p \in Spawners |-> None]
  /\ registry = {}
  /\ threads = {}
  /\ held = FALSE
  /\ shutdown = FALSE
  /\ spc = "idle"
  /\ joining = {}
  /\ refs = {}
  /\ asking = 0
  /\ chan = [n \in 1 .. MaxSends |-> 0]
  /\ replies = [c \in 1 .. MaxSends |-> "none"]
  /\ from = [c \in 1 .. MaxSends |-> 0]
  /\ nsent = 0
  /\ handled = [a \in Actors |-> <<>>]
  /\ answered = [n \in 1 .. MaxSends |-> 0]

-----------------------------------------------------------------------------
\* ActorSystem::spawn, in the client or in a handler.

\* p's code runs and is not inside a call.
Free(p) ==
  /\ spawning[p] = None
  /\ IF p = Client THEN asking = 0 ELSE InUserCode(p)

\* The shutdown check.  After shutdown, spawn returns an error.
SpawnCheck(p, a) ==
  /\ Free(p)
  /\ apc[a] = "none" /\ \A q \in Spawners : spawning[q][1] # a
  /\ p \in Actors => a \in Nesting
  /\ ~shutdown
  /\ spawning' = [spawning EXCEPT ![p] = <<a, "start">>]
  /\ UNCHANGED <<avars, svars, kvars, hvars>>

\* thread::spawn.
StartThread(p) == LET a == spawning[p][1] IN
  /\ spawning[p][2] = "start"
  /\ apc' = [apc EXCEPT ![a] = "prestart"]
  /\ spawning' = [spawning EXCEPT ![p] = <<a, "list">>]
  /\ UNCHANGED <<alive, stopped, mailbox, current, svars, kvars, hvars>>

\* threads.lock() and push.
ListThread(p) == LET a == spawning[p][1] IN
  /\ spawning[p][2] = "list"
  /\ ~held
  /\ threads' = threads \cup {a}
  /\ spawning' = [spawning EXCEPT ![p] = <<a, "register">>]
  /\ UNCHANGED <<avars, registry, held, shutdown, spc, joining, kvars, hvars>>

\* registry.write() and insert, also if the actor has ended in the meantime.
Register(p) == LET a == spawning[p][1] IN
  /\ spawning[p][2] = "register"
  /\ registry' = registry \cup {a}
  /\ spawning' = [spawning EXCEPT ![p] = None]
  /\ refs' = IF p = Client THEN refs \cup {a} ELSE refs
  /\ UNCHANGED <<avars, threads, held, shutdown, spc, joining, asking, rvars,
                 nsent, hvars>>

-----------------------------------------------------------------------------
\* ActorCell::run.

\* pre_start succeeds, perhaps after ctx.stop(), or fails: then the actor is not
\* taken out of the registry.
PreStart(a) ==
  /\ apc[a] = "prestart" /\ spawning[a] = None
  /\ \/ /\ apc' = [apc EXCEPT ![a] = "loop"]
        /\ \E stop \in BOOLEAN : stopped' = [stopped EXCEPT ![a] = stop]
        /\ UNCHANGED alive
     \/ /\ alive' = [alive EXCEPT ![a] = FALSE]
        /\ apc' = [apc EXCEPT ![a] = "drop"]
        /\ UNCHANGED stopped
  /\ UNCHANGED <<mailbox, current, spawning, svars, kvars, hvars>>

\* Mutation of Receive: the mailbox is a stack.
ReceiveLast(a) == LET e == mailbox[a][Len(mailbox[a])] IN
  /\ apc[a] = "loop" /\ ~stopped[a]
  /\ mailbox[a] # <<>>
  /\ mailbox' = [mailbox EXCEPT ![a] = SubSeq(@, 1, Len(@) - 1)]
  /\ IF e[1] = "stop"
     THEN /\ stopped' = [stopped EXCEPT ![a] = TRUE]
          /\ UNCHANGED <<apc, current, handled>>
     ELSE /\ apc' = [apc EXCEPT ![a] = "handling"]
          /\ current' = [current EXCEPT ![a] = e]
          /\ handled' = [handled EXCEPT ![a] = Append(@, e[2])]
          /\ UNCHANGED stopped
  /\ UNCHANGED <<alive, spawning, svars, kvars, answered>>

\* recv_timeout returns an envelope.
Receive(a) == LET e == Head(mailbox[a]) IN
  /\ apc[a] = "loop" /\ ~stopped[a]
  /\ mailbox[a] # <<>>
  /\ mailbox' = [mailbox EXCEPT ![a] = Tail(@)]
  /\ IF e[1] = "stop"
     THEN /\ stopped' = [stopped EXCEPT ![a] = TRUE]
          /\ UNCHANGED <<apc, current, handled>>
     ELSE /\ apc' = [apc EXCEPT ![a] = "handling"]
          /\ current' = [current EXCEPT ![a] = e]
          /\ handled' = [handled EXCEPT ![a] = Append(@, e[2])]
          /\ UNCHANGED stopped
  /\ UNCHANGED <<alive, spawning, svars, kvars, answered>>

\* recv_timeout times out after 50 ms.
ReceiveTimeout(a) ==
  /\ apc[a] = "loop" /\ ~stopped[a]
  /\ mailbox[a] = <<>>
  /\ apc' = [apc EXCEPT ![a] = "timedout"]
  /\ UNCHANGED <<alive, stopped, mailbox, current, spawning, svars, kvars, hvars>>

\* Mutation of TimeoutCheck: the actor only stops on a Stop message.
TimeoutIgnored(a) ==
  /\ apc[a] = "timedout"
  /\ apc' = [apc EXCEPT ![a] = "loop"]
  /\ UNCHANGED <<alive, stopped, mailbox, current, spawning, svars, kvars, hvars>>

\* Then the actor stops if the system is shut down.
TimeoutCheck(a) ==
  /\ apc[a] = "timedout"
  /\ apc' = [apc EXCEPT ![a] = "loop"]
  /\ stopped' = [stopped EXCEPT ![a] = shutdown]
  /\ UNCHANGED <<alive, mailbox, current, spawning, svars, kvars, hvars>>

\* The handler answers the ask it was given, through the sender in the message.
Reply(a) == LET n == current[a][2] IN
  /\ apc[a] = "handling" /\ spawning[a] = None
  /\ current[a][1] = "ask" /\ replies[chan[n]] = "open"
  /\ replies' = [replies EXCEPT ![chan[n]] = "sent"]
  /\ from' = [from EXCEPT ![chan[n]] = n]
  /\ UNCHANGED <<avars, spawning, svars, refs, asking, chan, nsent, hvars>>

\* The reply senders among the envelopes in S are dropped.
DropReplies(S) ==
  /\ replies' = [c \in 1 .. MaxSends |->
                   IF replies[c] = "open" /\ \E n \in 1 .. MaxSends :
                        chan[n] = c /\ <<"ask", n>> \in S
                   THEN "dropped" ELSE replies[c]]
  /\ UNCHANGED <<chan, from>>

\* The handler returns Ok, or it called ctx.stop() or returned Err: the loop ends.
HandlerReturns(a) ==
  /\ apc[a] = "handling" /\ spawning[a] = None
  /\ \E stop \in BOOLEAN : stopped' = [stopped EXCEPT ![a] = stop]
  /\ apc' = [apc EXCEPT ![a] = "loop"]
  /\ DropReplies({current[a]})
  /\ current' = [current EXCEPT ![a] = NoEnvelope]
  /\ UNCHANGED <<alive, mailbox, spawning, svars, refs, asking, nsent, hvars>>

\* User code panics: the thread ends there, with the flag still up.
UserCodePanics(a) ==
  /\ InUserCode(a) /\ spawning[a] = None
  /\ a \in Panicky
  /\ apc' = [apc EXCEPT ![a] = "ended"]
  /\ DropReplies({current[a]} \cup {mailbox[a][i] : i \in DOMAIN mailbox[a]})
  /\ mailbox' = [mailbox EXCEPT ![a] = <<>>]
  /\ current' = [current EXCEPT ![a] = NoEnvelope]
  /\ UNCHANGED <<alive, stopped, spawning, svars, refs, asking, nsent, hvars>>

\* Mutation of LeaveLoop: the flag stays up.
LeaveLoopAlive(a) ==
  /\ apc[a] = "loop" /\ stopped[a] /\ spawning[a] = None
  /\ apc' = [apc EXCEPT ![a] = "unregister"]
  /\ UNCHANGED <<alive, stopped, mailbox, current, spawning, svars, kvars, hvars>>

\* After the loop: post_stop, then the flag.
LeaveLoop(a) ==
  /\ apc[a] = "loop" /\ stopped[a] /\ spawning[a] = None
  /\ alive' = [alive EXCEPT ![a] = FALSE]
  /\ apc' = [apc EXCEPT ![a] = "unregister"]
  /\ UNCHANGED <<stopped, mailbox, current, spawning, svars, kvars, hvars>>

\* unregister_actor.
Unregister(a) ==
  /\ apc[a] = "unregister"
  /\ registry' = registry \ {a}
  /\ apc' = [apc EXCEPT ![a] = "drop"]
  /\ UNCHANGED <<alive, stopped, mailbox, current, spawning, threads, held,
                 shutdown, spc, joining, kvars, hvars>>

\* run returns: the cell is dropped with its mailbox, and the thread ends.
ThreadEnds(a) ==
  /\ apc[a] = "drop"
  /\ apc' = [apc EXCEPT ![a] = "ended"]
  /\ DropReplies({mailbox[a][i] : i \in DOMAIN mailbox[a]})
  /\ mailbox' = [mailbox EXCEPT ![a] = <<>>]
  /\ UNCHANGED <<alive, stopped, current, spawning, svars, refs, asking, nsent,
                 hvars>>

-----------------------------------------------------------------------------
\* ActorRef.  A send to an actor that is not alive, or whose receiver is gone,
\* changes nothing: tell and ask return an error, stop returns Ok.

Accepts(a) == a \in refs /\ alive[a] /\ Open(a)

Tell(a) ==
  /\ Free(Client) /\ Accepts(a) /\ nsent < MaxSends
  /\ nsent' = nsent + 1
  /\ mailbox' = [mailbox EXCEPT ![a] = Append(@, <<"tell", nsent'>>)]
  /\ UNCHANGED <<apc, alive, stopped, current, spawning, svars, refs, asking,
                 rvars, hvars>>

Stop(a) ==
  /\ Free(Client) /\ Accepts(a) /\ nsent < MaxSends
  /\ nsent' = nsent + 1
  /\ mailbox' = [mailbox EXCEPT ![a] = Append(@, <<"stop", nsent'>>)]
  /\ UNCHANGED <<apc, alive, stopped, current, spawning, svars, refs, asking,
                 rvars, hvars>>

\* Mutation of Ask: all asks of the client use one reply channel.
AskSharedChannel(a) ==
  /\ Free(Client) /\ Accepts(a) /\ nsent < MaxSends
  /\ nsent' = nsent + 1
  /\ mailbox' = [mailbox EXCEPT ![a] = Append(@, <<"ask", nsent'>>)]
  /\ chan' = [chan EXCEPT ![nsent'] = 1]
  /\ replies' = [replies EXCEPT ![1] = "open"]
  /\ asking' = nsent'
  /\ UNCHANGED <<apc, alive, stopped, current, spawning, svars, refs, from, hvars>>

\* ask: make a reply channel, tell a message that carries its sender, then wait.
Ask(a) ==
  /\ Free(Client) /\ Accepts(a) /\ nsent < MaxSends
  /\ nsent' = nsent + 1
  /\ mailbox' = [mailbox EXCEPT ![a] = Append(@, <<"ask", nsent'>>)]
  /\ chan' = [chan EXCEPT ![nsent'] = nsent']
  /\ replies' = [replies EXCEPT ![nsent'] = "open"]
  /\ asking' = nsent'
  /\ UNCHANGED <<apc, alive, stopped, current, spawning, svars, refs, from, hvars>>

\* recv_timeout returns the reply, an error because the sender was dropped, or the
\* timeout, after which a late reply goes nowhere.
AskReturns == LET c == chan[asking] IN
  /\ asking # 0
  /\ \/ /\ replies[c] = "sent"
        /\ replies' = [replies EXCEPT ![c] = "taken"]
        /\ answered' = [answered EXCEPT ![asking] = from[c]]
     \/ replies[c] = "dropped" /\ UNCHANGED <<replies, answered>>
     \/ /\ replies[c] = "open"
        /\ replies' = [replies EXCEPT ![c] = "timedout"]
        /\ UNCHANGED answered
  /\ asking' = 0
  /\ UNCHANGED <<avars, spawning, svars, refs, chan, from, nsent, handled>>

-----------------------------------------------------------------------------
\* ActorSystem::shutdown.

ShutdownFlag ==
  /\ spc = "idle"
  /\ shutdown' = TRUE
  /\ spc' = "drain"
  /\ UNCHANGED <<avars, spawning, registry, threads, held, joining, kvars, hvars>>

\* Mutation of ShutdownDrain: the map is cleared and nobody is stopped.
ShutdownClear ==
  /\ spc = "drain"
  /\ registry' = {}
  /\ spc' = "lock"
  /\ UNCHANGED <<avars, spawning, threads, held, shutdown, joining, kvars, hvars>>

\* Under the registry's write lock: stop every registered actor, drain the map.
ShutdownDrain ==
  /\ spc = "drain"
  /\ mailbox' = [a \in Actors |->
                   IF a \in registry /\ alive[a] /\ Open(a)
                   THEN Append(mailbox[a], <<"stop", 0>>) ELSE mailbox[a]]
  /\ registry' = {}
  /\ spc' = "lock"
  /\ UNCHANGED <<apc, alive, stopped, current, spawning, threads, held, shutdown,
                 joining, kvars, hvars>>

\* Mutation of ShutdownLock: the threads are taken out of the list and detached.
ShutdownDetaches ==
  /\ spc = "lock"
  /\ held' = TRUE
  /\ threads' = {}
  /\ spc' = "join"
  /\ UNCHANGED <<avars, spawning, registry, shutdown, joining, kvars, hvars>>

\* threads.lock(), which is kept until every thread in the list was joined.
ShutdownLock ==
  /\ spc = "lock"
  /\ held' = TRUE
  /\ joining' = threads
  /\ threads' = {}
  /\ spc' = "join"
  /\ UNCHANGED <<avars, spawning, registry, shutdown, kvars, hvars>>

ShutdownJoined ==
  /\ spc = "join"
  /\ \A a \in joining : apc[a] = "ended"
  /\ held' = FALSE
  /\ spc' = "done"
  /\ UNCHANGED <<avars, spawning, registry, threads, shutdown, joining, kvars,
                 hvars>>

-----------------------------------------------------------------------------
SpawnStep(p) ==
  \/ StartThread(p) \/ ListThread(p) \/ Register(p)

ActorStep(a) ==
  \/ PreStart(a) \/ Receive(a) \/ ReceiveTimeout(a) \/ TimeoutCheck(a)
  \/ HandlerReturns(a) \/ UserCodePanics(a)
  \/ LeaveLoop(a) \/ Unregister(a) \/ ThreadEnds(a)

ClientSends(a) == Tell(a) \/ Stop(a) \/ Ask(a)

ShutdownStep == ShutdownFlag \/ ShutdownDrain \/ ShutdownLock \/ ShutdownJoined

Next ==
  \/ \E p \in Spawners : SpawnStep(p) \/ \E a \in Actors : SpawnCheck(p, a)
  \/ \E a \in Actors : ActorStep(a) \/ Reply(a) \/ ClientSends(a)
  \/ AskReturns
  \/ ShutdownStep

Spec == Init /\ [][Next]_vars

\* Every thread keeps running: a call that has begun goes on unless it waits for a
\* lock, a handler returns, and shutdown is called in the end.
Fairness ==
  /\ \A p \in Spawners : WF_vars(SpawnStep(p))
  /\ \A a \in Actors : WF_vars(ActorStep(a))
  /\ WF_vars(AskReturns)
  /\ WF_vars(ShutdownStep)

FairSpec == Spec /\ Fairness

-----------------------------------------------------------------------------
\* Properties.

Envelopes == {"tell", "ask", "stop"} \X (0 .. MaxSends)
Calls == {None} \cup Actors \X {"start", "list", "register"}
Channels == {"none", "open", "sent", "dropped", "taken", "timedout"}
ThreadPcs == {"none", "prestart", "loop", "timedout", "handling", "unregister", "drop",
              "ended"}

\* Types: the lists of shutdown only hold actor threads, and mailboxes only numbered
\* envelopes.
TypeOK ==
  /\ apc \in [Actors -> ThreadPcs]
  /\ alive \in [Actors -> BOOLEAN]
  /\ stopped \in [Actors -> BOOLEAN]
  /\ mailbox \in [Actors -> Seq(Envelopes)]
  /\ current \in [Actors -> Envelopes \cup {NoEnvelope}]
  /\ spawning \in [Spawners -> Calls]
  /\ registry \subseteq Actors /\ threads \subseteq Actors
  /\ joining \subseteq Actors /\ refs \subseteq Actors
  /\ held \in BOOLEAN /\ shutdown \in BOOLEAN
  /\ spc \in {"idle", "drain", "lock", "join", "done"}
  /\ asking \in 0 .. MaxSends
  /\ chan \in [1 .. MaxSends -> 0 .. MaxSends]
  /\ replies \in [1 .. MaxSends -> Channels]
  /\ from \in [1 .. MaxSends -> 0 .. MaxSends]
  /\ nsent \in 0 .. MaxSends
  /\ handled \in [Actors -> Seq(1 .. MaxSends)]
  /\ answered \in [1 .. MaxSends -> 0 .. MaxSends]

\* The actor a is being spawned.
InSpawn(a) == \E p \in Spawners : spawning[p][1] = a

HasStop(a) == \E i \in DOMAIN mailbox[a] : mailbox[a][i][1] = "stop"

\* Shutdown forgets no actor: one that is still in its loop is registered, or a Stop
\* is in its mailbox or was taken, or it is still being spawned.  A registered actor is
\* stopped by the drain; one that is registered after the drain, or is being spawned
\* while it happens, only ends because its 50 ms timeout looks at the flag.
NoActorForgotten == \A a \in Actors :
  Active(a) /\ ~InSpawn(a) => a \in registry \/ HasStop(a) \/ stopped[a]

\* Shutdown joins what it promises: when it has returned, a thread that still runs
\* was listed after shutdown took the list.
ShutdownJoins == spc = "done" => \A a \in Actors :
  apc[a] \notin {"none", "ended"} => a \in threads \/ InSpawn(a)

\* is_alive tells the truth: an actor whose flag is down handles nothing any more,
\* and one that has ended has its flag down, unless its code panicked.
AliveIsTrue == \A a \in Actors :
  /\ ~alive[a] => ~Active(a)
  /\ apc[a] = "ended" /\ a \notin Panicky => ~alive[a]

\* Every actor starts its handlers in the order in which the messages were sent to it,
\* each message is handled once and by one actor, and what an ask returns is what the
\* handler of that very ask replied: a reply that comes after the timeout is not taken
\* for the answer to a later ask.
OnceAndInOrder ==
  /\ \A a \in Actors : \A i, j \in DOMAIN handled[a] :
       i < j => handled[a][i] < handled[a][j]
  /\ \A a, b \in Actors : \A i \in DOMAIN handled[a], j \in DOMAIN handled[b] :
       handled[a][i] = handled[b][j] => a = b
  /\ \A n \in 1 .. MaxSends : answered[n] # 0 =>
       answered[n] = n /\ \E a \in Actors : \E i \in DOMAIN handled[a] : handled[a][i] = n

\* A handler waits in spawn for the lock that shutdown holds while it joins.
SpawnBlocked(a) == held /\ spawning[a][2] = "list"

\* Once shutdown was called every actor thread ends, also one whose spawn raced with
\* it and that was never sent a Stop; unless a handler is blocked in spawn.
AllActorsEnd ==
  shutdown ~> \/ \A a \in Actors : apc[a] \in {"none", "ended"}
              \/ \E a \in Actors : SpawnBlocked(a)

\* "Gracefully shutdown all actors in the system and join worker threads.": the call
\* comes back.
ShutdownReturns == shutdown ~> spc = "done"
=============================================================================
