--------------------------- MODULE OneshotChannel ---------------------------
(***************************************************************************)
(* The oneshot channel of coroutine/channel.rs: one task sends or just     *)
(* drops its OneshotSender, one task awaits the OneshotReceiver.           *)
(***************************************************************************)
EXTENDS AsyncTasks

CONSTANTS OneSender, OneReceiver

ASSUME OneTasks == {OneSender, OneReceiver} \subseteq Tasks /\ OneSender # OneReceiver

VARIABLES
  oneValue, oneWaker, oneClosed,   \* OneshotInner: value is Some, the task in waker
  oneSent,                         \* send() returned Ok
  oneGot                           \* what the receiver's await returned

onevars == <<oneValue, oneWaker, oneClosed, oneSent, oneGot>>

OneInit ==
  /\ oneValue = FALSE
  /\ oneWaker = {}
  /\ oneClosed = FALSE
  /\ oneSent = FALSE
  /\ oneGot = "nothing"

\* OneshotSender::send up to the release of the mutex.  The sender is the only one
\* that closes, by its own drop, so its value is never refused.
OneSend ==
  /\ pc[OneSender] = "start"
  /\ ~oneClosed
  /\ oneValue' = TRUE
  /\ oneSent' = TRUE
  /\ oneWaker' = {}
  /\ Goto(OneSender, "held", oneWaker)
  /\ UNCHANGED <<oneClosed, oneGot>>

\* Drop for OneshotSender: at the end of send, or without it.
OneDropSender ==
  /\ pc[OneSender] \in {"start", "held"}
  /\ oneClosed' = TRUE
  /\ oneWaker' = {}
  /\ Goto(OneSender, "done", oneWaker)
  /\ UNCHANGED <<oneValue, oneSent, oneGot>>

\* Poll of OneshotReceiver, to which a value that is there may be hidden.
OneReceive(hidden) ==
  /\ Runs(OneReceiver)
  /\ \/ /\ oneValue /\ ~hidden
        /\ oneValue' = FALSE
        /\ oneGot' = "value"
        /\ Goto(OneReceiver, "done", {})
        /\ UNCHANGED oneWaker
     \/ /\ ~oneValue \/ hidden
        /\ oneClosed
        /\ oneGot' = "closed"
        /\ Goto(OneReceiver, "done", {})
        /\ UNCHANGED <<oneWaker, oneValue>>
     \/ /\ ~oneValue /\ ~oneClosed
        /\ oneWaker' = {OneReceiver}
        /\ Goto(OneReceiver, "wait", {})
        /\ UNCHANGED <<oneValue, oneGot>>
  /\ UNCHANGED <<oneClosed, oneSent>>

\* Mutation of OneRecvPoll: closed is looked at before the value.
OneRecvPollClosedFirst == OneReceive(oneClosed)

OneRecvPoll == OneReceive(FALSE)

OneStep(t) ==
  \/ t = OneSender /\ (OneSend \/ OneDropSender)
  \/ t = OneReceiver /\ OneRecvPoll

OneNext ==
  /\ subject = "oneshot"
  /\ \E t \in Tasks : OneStep(t) \/ ((Cancel(t) \/ Nudge(t)) /\ UNCHANGED onevars)

-----------------------------------------------------------------------------
OneTypeOK ==
  /\ oneValue \in BOOLEAN /\ oneClosed \in BOOLEAN /\ oneSent \in BOOLEAN
  /\ oneWaker \subseteq {OneReceiver}
  /\ oneGot \in {"nothing", "value", "closed"}

\* The receiver gets the value that was sent, although the drop that follows every
\* send closes the channel and may come first; it is told "closed" only when nothing
\* was sent; and while it waits with nothing to find, its waker is stored.
OneDelivers == subject = "oneshot" =>
  /\ pc[OneReceiver] = "done" => oneGot = (IF oneSent THEN "value" ELSE "closed")
  /\ Waiting(OneReceiver) /\ ~woken[OneReceiver] =>
       oneWaker = {OneReceiver} /\ ~oneValue /\ ~oneClosed

\* The two tasks see a stream of at most one message: the receiver's "closed" is its end.
OneStream == INSTANCE ChannelStream WITH
  Senders <- {OneSender},
  sent <- [s \in {OneSender} |-> IF oneSent THEN 1 ELSE 0],
  got <- [s \in {OneSender} |-> IF oneGot = "value" THEN 1 ELSE 0],
  phase <- IF oneGot = "closed" THEN "ended" ELSE IF oneClosed THEN "closed" ELSE "open"

OneImplementsStream == OneStream!Spec
=============================================================================
