----------------------------- MODULE AsyncPipe ------------------------------
(***************************************************************************)
(* AsyncPipe of coroutine/io.rs.  Writers call write_all with PipeBytes    *)
(* bytes each, readers read until end of file, and somebody closes the     *)
(* pipe.  There is one waker slot per direction.                           *)
(***************************************************************************)
EXTENDS AsyncTasks

CONSTANTS
  PipeWriters, PipeReaders,
  Capacity,     \* capacity after max(1)
  BufLen,       \* length of the buffer given to read
  PipeBytes     \* bytes each writer writes

ASSUME PipeBounds ==
  /\ PipeWriters \cup PipeReaders \subseteq Tasks
  /\ PipeWriters \cap PipeReaders = {}
  /\ Capacity \in Nat \ {0} /\ BufLen \in Nat \ {0} /\ PipeBytes \in Nat

VARIABLES
  buffer, readWaker, writeWaker, pipeClosed,   \* PipeState; a waker slot is a set
  offset,      \* offset[t]: how far write_all of t is
  broken,      \* writers that got BrokenPipe
  got, sent    \* history: the bytes read and written, in order

pipevars == <<buffer, readWaker, writeWaker, pipeClosed, offset, broken, got, sent>>

PipeInit ==
  /\ buffer = <<>> /\ got = <<>> /\ sent = <<>>
  /\ readWaker = {} /\ writeWaker = {}
  /\ pipeClosed = FALSE
  /\ offset = [t \in Tasks |-> 0]
  /\ broken = {}

\* The step of t's poll that returns Pending: its waker takes the slot, whoever had it.
Park(t, slot) ==
  /\ pc' = [pc EXCEPT ![t] = "wait"]
  /\ woken' = [woken EXCEPT ![t] = FALSE]
  /\ lost' = (lost \/ \E u \in slot : u # t /\ Waiting(u) /\ ~woken[u])
  /\ UNCHANGED <<subject, nudged>>

\* Poll of ReadFut: what is there up to the buffer's length, also after close, and a
\* wake; then 0 for end of file, which ends the reader.
Drain(t, wakes) ==
  /\ t \in PipeReaders /\ Runs(t)
  /\ \/ LET n == IF BufLen < Len(buffer) THEN BufLen ELSE Len(buffer) IN
        /\ buffer # <<>>
        /\ got' = got \o SubSeq(buffer, 1, n)
        /\ buffer' = SubSeq(buffer, n + 1, Len(buffer))
        /\ writeWaker' = writeWaker \ wakes
        /\ Goto(t, "start", wakes)
        /\ UNCHANGED readWaker
     \/ /\ buffer = <<>> /\ pipeClosed
        /\ Goto(t, "done", {})
        /\ UNCHANGED <<buffer, got, readWaker, writeWaker>>
     \/ /\ buffer = <<>> /\ ~pipeClosed
        /\ readWaker' = {t}
        /\ Park(t, readWaker)
        /\ UNCHANGED <<buffer, got, writeWaker>>
  /\ UNCHANGED <<pipeClosed, offset, broken, sent>>

\* Mutation of PipeRead: a full buffer is drained without waking the writer.
PipeReadSilent(t) == Drain(t, {})

PipeRead(t) == Drain(t, writeWaker)

\* Poll of WriteFut inside write_all: as many of the bytes that are left as fit.
PipeWrite(t) ==
  LET free == IF Capacity > Len(buffer) THEN Capacity - Len(buffer) ELSE 0
      left == PipeBytes - offset[t]
      n == IF left < free THEN left ELSE free
      bytes == [i \in 1 .. n |-> <<t, offset[t] + i>>]
  IN
  /\ t \in PipeWriters /\ Runs(t) /\ left > 0
  /\ \/ /\ pipeClosed
        /\ broken' = broken \cup {t}
        /\ Goto(t, "done", {})
        /\ UNCHANGED <<buffer, sent, offset, readWaker, writeWaker>>
     \/ /\ ~pipeClosed /\ free > 0
        /\ buffer' = buffer \o bytes
        /\ sent' = sent \o bytes
        /\ offset' = [offset EXCEPT ![t] = @ + n]
        /\ readWaker' = {}
        /\ Goto(t, IF n = left THEN "done" ELSE "start", readWaker)
        /\ UNCHANGED <<writeWaker, broken>>
     \/ /\ ~pipeClosed /\ free = 0
        /\ writeWaker' = {t}
        /\ Park(t, writeWaker)
        /\ UNCHANGED <<buffer, sent, offset, readWaker, broken>>
  /\ UNCHANGED <<pipeClosed, got>>

\* AsyncPipe::close, by whoever shares the pipe, at any time.
PipeClose ==
  LET S == readWaker \cup writeWaker IN
  /\ ~pipeClosed
  /\ pipeClosed' = TRUE
  /\ readWaker' = {} /\ writeWaker' = {}
  /\ woken' = [u \in Tasks |-> woken[u] \/ u \in S]
  /\ lost' = (lost \/ \E u \in S : ~Waiting(u))
  /\ UNCHANGED <<subject, pc, nudged, buffer, offset, broken, got, sent>>

PipeStep(t) == PipeRead(t) \/ PipeWrite(t)

PipeNext ==
  /\ subject = "pipe"
  /\ \/ \E t \in Tasks : PipeStep(t) \/ ((Cancel(t) \/ Nudge(t)) /\ UNCHANGED pipevars)
     \/ PipeClose

-----------------------------------------------------------------------------
PipeTypeOK ==
  /\ Len(buffer) <= Capacity
  /\ readWaker \subseteq PipeReaders /\ writeWaker \subseteq PipeWriters
  /\ Cardinality(readWaker) <= 1 /\ Cardinality(writeWaker) <= 1
  /\ offset \in [Tasks -> 0 .. PipeBytes]

\* The pipe is a stream: what readers got, followed by what is buffered, is what was
\* written, each writer's bytes in order, none twice and none left out; a reader sees
\* end of file only once everything written before the close was read.
PipeStream == subject = "pipe" =>
  /\ got \o buffer = sent
  /\ \A k \in DOMAIN sent : sent[k][1] \in PipeWriters /\ sent[k][2] \in 1 .. offset[sent[k][1]]
  /\ \A k, l \in DOMAIN sent :
       k < l /\ sent[k][1] = sent[l][1] => sent[k][2] < sent[l][2]
  /\ \A t \in PipeWriters : \A i \in 1 .. offset[t] : \E k \in DOMAIN sent : sent[k] = <<t, i>>
  /\ \A t \in PipeReaders : pc[t] = "done" => pipeClosed /\ buffer = <<>>

\* A reader sleeps only on an empty open pipe with its waker stored and a writer only
\* on a full one, unless a second reader or writer has taken the slot or a wake went
\* to a task that was gone.
PipeNoStall == subject = "pipe" /\ ~lost => \A t \in Tasks : Waiting(t) /\ ~woken[t] =>
  /\ ~pipeClosed
  /\ t \in PipeReaders => buffer = <<>> /\ t \in readWaker
  /\ t \in PipeWriters => Len(buffer) = Capacity /\ t \in writeWaker
=============================================================================
