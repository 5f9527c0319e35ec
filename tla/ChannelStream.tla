--------------------------- MODULE ChannelStream ----------------------------
(***************************************************************************)
(* What the channels of coroutine/channel.rs promise to their users,       *)
(* whatever tasks do with wakers, timeouts and handles: an open channel    *)
(* accepts messages, the receiver gets each sender's messages one after    *)
(* the other, none twice and none left out, a closed channel accepts       *)
(* nothing and still hands out what it accepted, and the receiver is told  *)
(* of the end once, after the last message.                                *)
(*                                                                         *)
(* MpscChannel.tla and OneshotChannel.tla are shown to implement this      *)
(* specification.                                                          *)
(***************************************************************************)
EXTENDS Naturals

CONSTANT Senders   \* the tasks that may send

VARIABLES
  sent,    \* sent[s]: how many messages of s were accepted
  got,     \* got[s]: how many of them the receiver has
  phase    \* "open", "closed", and "ended" when the receiver knows it

svars == <<sent, got, phase>>

Init ==
  /\ sent = [s \in Senders |-> 0]
  /\ got = [s \in Senders |-> 0]
  /\ phase = "open"

Accept(s) ==
  /\ phase = "open"
  /\ sent' = [sent EXCEPT ![s] = @ + 1]
  /\ UNCHANGED <<got, phase>>

Deliver(s) ==
  /\ phase # "ended"
  /\ got[s] < sent[s]
  /\ got' = [got EXCEPT ![s] = @ + 1]
  /\ UNCHANGED <<sent, phase>>

Close ==
  /\ phase = "open"
  /\ phase' = "closed"
  /\ UNCHANGED <<sent, got>>

End ==
  /\ phase = "closed"
  /\ got = sent
  /\ phase' = "ended"
  /\ UNCHANGED <<sent, got>>

Next == Close \/ End \/ \E s \in Senders : Accept(s) \/ Deliver(s)

Spec == Init /\ [][Next]_svars
=============================================================================
