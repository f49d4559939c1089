------------------------------- MODULE XFifo --------------------------------
(***************************************************************************)
(* The cross-connect FIFO between the boards (src/src/ioboard.c): a ring   *)
(* of Size bytes with a read index, a write index and a count.             *)
(***************************************************************************)
EXTENDS Integers, Sequences

CONSTANTS
  Size,   \* XFIFO_SIZE, 512 in the code
  Values, \* the bytes put
  Nothing \* what *data stays when xfifo_get returns -1

ASSUME SizeAssumption == Size \in Nat \ {0}

VARIABLES
  buf, rd, wr, count, \* xfifo_t
  answer              \* what the last call returned

vars == <<buf, rd, wr, count, answer>>

Slots == 0 .. Size - 1

\* The bytes waiting, oldest first.
Items == [i \in 1 .. count |-> buf[(rd + i - 1) % Size]]

Queue == INSTANCE BoundedQueue WITH Capacity <- Size, items <- Items

\* xfifo_init clears the structure; the bytes it leaves in the ring are never
\* read, and stand for Nothing.
Init ==
  /\ buf = [i \in Slots |-> Nothing]
  /\ rd = 0
  /\ wr = 0
  /\ count = 0
  /\ answer = Queue!Got(Nothing)

\* Mutants of Put: the write index does not wrap; a full ring takes one more.
PutNoWrap(v) ==
  \/ /\ count >= Size
     /\ answer' = Queue!Refused
     /\ UNCHANGED <<buf, rd, wr, count>>
  \/ /\ count < Size
     /\ buf' = [buf EXCEPT ![wr] = v]
     /\ wr' = wr + 1
     /\ count' = count + 1
     /\ answer' = Queue!Accepted
     /\ UNCHANGED rd
PutPastFull(v) ==
  \/ /\ count > Size
     /\ answer' = Queue!Refused
     /\ UNCHANGED <<buf, rd, wr, count>>
  \/ /\ count <= Size
     /\ buf' = [buf EXCEPT ![wr] = v]
     /\ wr' = (wr + 1) % Size
     /\ count' = count + 1
     /\ answer' = Queue!Accepted
     /\ UNCHANGED rd

Put(v) ==
  \/ /\ count >= Size
     /\ answer' = Queue!Refused
     /\ UNCHANGED <<buf, rd, wr, count>>
  \/ /\ count < Size
     /\ buf' = [buf EXCEPT ![wr] = v]
     /\ wr' = (wr + 1) % Size
     /\ count' = count + 1
     /\ answer' = Queue!Accepted
     /\ UNCHANGED rd

Get ==
  \/ /\ count <= 0
     /\ answer' = Queue!Got(Nothing)
     /\ UNCHANGED <<buf, rd, wr, count>>
  \/ /\ count > 0
     /\ answer' = Queue!Got(buf[rd])
     /\ rd' = (rd + 1) % Size
     /\ count' = count - 1
     /\ UNCHANGED <<buf, wr>>

Next == Get \/ \E v \in Values : Put(v)

Spec == Init /\ [][Next]_vars

-----------------------------------------------------------------------------
(* Properties.                                                             *)

\* The indices stay in the ring, and the three fields agree: the write index
\* is count slots after the read index, whatever the wrap-arounds.
RingInv ==
  /\ buf \in [Slots -> Values \cup {Nothing}]
  /\ rd \in Slots
  /\ wr \in Slots
  /\ count \in 0 .. Size
  /\ wr = (rd + count) % Size

\* The ring is a bounded FIFO: bytes come out in the order they went in, none
\* is overwritten before it is read, and a byte is refused exactly when Size
\* bytes are waiting.
ImplementsQueue == Queue!Spec
=============================================================================
