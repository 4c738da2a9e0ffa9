----------------------------- MODULE ByteQueue -----------------------------
(***************************************************************************)
(* What the ring buffer of efixo-libetk (fifo.c) promises one writer and   *)
(* one reader: a bounded queue of bytes.                                   *)
(***************************************************************************)
EXTENDS Naturals, Sequences

CONSTANTS Bytes   \* the values of a byte

VARIABLES
  q,      \* the bytes in the queue, oldest first
  cap,    \* how many it may hold
  from,   \* the bytes the writer is putting in
  to,     \* what the last fifo_out or fifo_out_peek returned
  saved   \* the serialized queue, a record [q, cap]

vars == <<q, cap, from, to, saved>>

Init ==
  /\ q = <<>> /\ cap = 0 /\ from = <<>> /\ to = <<>>
  /\ saved = [q |-> <<>>, cap |-> 0]

Prefix(n) == SubSeq(q, 1, n)
Rest(n) == SubSeq(q, n + 1, Len(q))

\* The writer calls with bytes for which there is room.
Offer ==
  /\ from = <<>>
  /\ \E n \in 0 .. cap - Len(q) : from' \in [1 .. n -> Bytes]
  /\ UNCHANGED <<q, cap, to, saved>>

\* They are appended, all at once, never beyond the capacity.
Put ==
  /\ Len(q) + Len(from) <= cap
  /\ q' = q \o from
  /\ from' = <<>>
  /\ UNCHANGED <<cap, to, saved>>

\* The oldest bytes are returned and removed.
Get ==
  /\ \E n \in 0 .. Len(q) : to' = Prefix(n) /\ q' = Rest(n)
  /\ UNCHANGED <<cap, from, saved>>

\* The oldest bytes are returned and stay.
Peek ==
  /\ \E n \in 0 .. Len(q) : to' = Prefix(n)
  /\ UNCHANGED <<q, cap, from, saved>>

\* The oldest bytes are removed unseen.
Drop ==
  /\ \E n \in 0 .. Len(q) : q' = Rest(n)
  /\ UNCHANGED <<cap, from, to, saved>>

\* The queue is (re)created empty.
Reset ==
  /\ from = <<>>
  /\ q' = <<>>
  /\ cap' \in Nat
  /\ UNCHANGED <<from, to, saved>>

Save ==
  /\ saved' = [q |-> q, cap |-> cap]
  /\ UNCHANGED <<q, cap, from, to>>

Load ==
  /\ from = <<>>
  /\ q' = saved.q /\ cap' = saved.cap
  /\ UNCHANGED <<from, to, saved>>

Next == Offer \/ Put \/ Get \/ Peek \/ Drop \/ Reset \/ Save \/ Load

Spec == Init /\ [][Next]_vars
=============================================================================
