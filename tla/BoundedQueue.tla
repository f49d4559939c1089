---------------------------- MODULE BoundedQueue ----------------------------
(***************************************************************************)
(* A bounded FIFO that never blocks: a value offered to a full queue is    *)
(* refused, and taking from an empty queue yields nothing.  It is what the *)
(* two boards expect of the FIFOs between them.                            *)
(***************************************************************************)
EXTENDS Integers, Sequences

CONSTANTS Capacity, Values, Nothing

\* items: the values in the queue, oldest first; answer: what the last
\* operation reported.
VARIABLES items, answer

vars == <<items, answer>>

Accepted == [op |-> "put", ok |-> TRUE]
Refused  == [op |-> "put", ok |-> FALSE]
Got(v)   == [op |-> "get", value |-> v]

Init ==
  /\ items = <<>>
  /\ answer = Got(Nothing)

Put(v) ==
  \/ /\ Len(items) < Capacity
     /\ items' = Append(items, v)
     /\ answer' = Accepted
  \/ /\ Len(items) = Capacity
     /\ UNCHANGED items
     /\ answer' = Refused

Get ==
  \/ /\ Len(items) > 0
     /\ items' = Tail(items)
     /\ answer' = Got(Head(items))
  \/ /\ Len(items) = 0
     /\ UNCHANGED items
     /\ answer' = Got(Nothing)

Next == Get \/ \E v \in Values : Put(v)

Spec == Init /\ [][Next]_vars
=============================================================================
