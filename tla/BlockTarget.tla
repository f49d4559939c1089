----------------------------- MODULE BlockTarget -----------------------------
(***************************************************************************)
(* What a SCSI target promises the host, with no bus, registers or         *)
(* handshake: at most one transfer at a time, a disk that changes only     *)
(* when a write has received its last byte and then takes all of it at     *)
(* once, reads that hand out the bytes of the disk in order, and any       *)
(* transfer abandoned at any moment without a trace.                       *)
(***************************************************************************)
EXTENDS Integers, Sequences

CONSTANTS Devices, Addresses, Lengths, Bytes

VARIABLES disk, xfer

vars == <<disk, xfer>>

Idle == [kind |-> "idle"]

\* A write: its address, its length, and the bytes received so far.
Write(dev, at, need, got) ==
  [kind |-> "write", dev |-> dev, at |-> at, need |-> need, got |-> got]

\* A read: the bytes still to be handed out.
Read(rest) == [kind |-> "read", rest |-> rest]

\* Any other data the target reports, by the number of bytes to go.
Report(n) == [kind |-> "report", left |-> n]

Window(at, n) == at .. at + n - 1

Content(dev, at, n) == [i \in 1 .. n |-> disk[dev][at + i - 1]]

Stored(old, at, bytes) ==
  [p \in DOMAIN old \cup Window(at, Len(bytes)) |->
     IF p \in Window(at, Len(bytes)) THEN bytes[p - at + 1] ELSE old[p]]

Init ==
  /\ xfer = Idle
  /\ \A dev \in Devices : DOMAIN disk[dev] \subseteq Nat

BeginWrite(dev, at, n) ==
  /\ xfer' = Write(dev, at, n, <<>>)
  /\ UNCHANGED disk

Accept(b) ==
  /\ Len(xfer.got) + 1 < xfer.need
  /\ xfer' = [xfer EXCEPT !.got = Append(@, b)]
  /\ UNCHANGED disk

\* The last byte of a write: all of it reaches the disk, or, on a disk that
\* cannot be written, none of it.
Commit(b) ==
  /\ Len(xfer.got) + 1 = xfer.need
  /\ xfer' = Idle
  /\ \/ disk' = [disk EXCEPT ![xfer.dev] =
                   Stored(@, xfer.at, Append(xfer.got, b))]
     \/ UNCHANGED disk

BeginRead(dev, at, n) ==
  /\ Window(at, n) \subseteq DOMAIN disk[dev]
  /\ xfer' = Read(Content(dev, at, n))
  /\ UNCHANGED disk

BeginReport(n) ==
  /\ xfer' = Report(n)
  /\ UNCHANGED disk

\* One byte handed out; with the last one the transfer is over.
Deliver ==
  /\ \/ /\ xfer.kind = "read"
        /\ Len(xfer.rest) > 0
        /\ xfer' = IF Len(xfer.rest) = 1 THEN Idle ELSE Read(Tail(xfer.rest))
     \/ /\ xfer.kind = "report"
        /\ xfer.left > 0
        /\ xfer' = IF xfer.left = 1 THEN Idle ELSE Report(xfer.left - 1)
  /\ UNCHANGED disk

Abandon ==
  /\ xfer' = Idle
  /\ UNCHANGED disk

Begin ==
  /\ xfer = Idle
  /\ \/ \E dev \in Devices, at \in Addresses, n \in Lengths :
          BeginWrite(dev, at, n) \/ BeginRead(dev, at, n)
     \/ \E n \in Lengths : BeginReport(n)

Receive ==
  /\ xfer.kind = "write"
  /\ \E b \in Bytes : Accept(b) \/ Commit(b)

Next == Abandon \/ Deliver \/ Begin \/ Receive

Spec == Init /\ [][Next]_vars
=============================================================================
