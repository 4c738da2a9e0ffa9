-------------------------------- MODULE Fifo --------------------------------
(***************************************************************************)
(* The ring buffer of efixo-libetk: src/fifo.c and include/etk/fifo.h.     *)
(*                                                                         *)
(* One writer thread and one reader thread use it without a lock.  Their   *)
(* calls are split at every access to the other's index and to the buffer: *)
(* sample the other's index, copy up to the buffer's end, copy the rest,   *)
(* publish the own index.  Accesses happen in program order.  The indices  *)
(* run freely and wrap at Word, the number of values of an unsigned int.   *)
(* fifo_init, fifo_alloc, fifo_free, fifo_reset and the (un)serialization  *)
(* belong to the owner, while no call is in progress.                      *)
(***************************************************************************)
EXTENDS Integers, Sequences, FiniteSets

CONSTANTS
  Bits,      \* width of an unsigned int (32 on the box)
  Bytes,     \* the values of a byte
  Sizes,     \* the sizes asked of fifo_alloc and fifo_init
  MaxLen,    \* bound: longest transfer asked for
  Offsets,   \* the offsets given to fifo_out_peek
  Snapshots  \* bound: whether the owner serializes the fifo

Exp2[n \in Nat] == IF n = 0 THEN 1 ELSE 2 * Exp2[n - 1]

Word == Exp2[Bits]
Pow2 == {Exp2[k] : k \in 0 .. Bits - 1}

ASSUME BitsAssumption == Bits \in Nat \ {0}
ASSUME SizesAssumption == Sizes \subseteq 1 .. Word - 1
ASSUME LenAssumption ==
  /\ MaxLen \in 0 .. Word - 1
  /\ Offsets \subseteq Nat
  /\ Snapshots \in BOOLEAN

VARIABLES
  size, buffer, in, out,  \* struct fifo; the buffer has indices from 0
  asked,                  \* history: the size last asked of fifo_alloc
  ser,                    \* the struct fifo_serialized
  wpc, wdata, woff,       \* the writer's place, bytes to copy and offset
  rpc, rlen, roff,        \* the reader's place, length and offset
  rdata,                  \* the bytes copied to the reader's buffer so far
  to                      \* history: the bytes the last call returned

fifo == <<size, buffer, in, out>>
writer == <<wpc, wdata, woff>>
reader == <<rpc, rlen, roff, rdata, to>>
owner == <<asked, ser>>
vars == <<fifo, owner, writer, reader>>

Least(a, b) == IF a < b THEN a ELSE b
fifo_len == (in - out) % Word
fifo_avail == size - fifo_len

\* __fifo_off: the slot of index i (size is a power of two).
SlotOf(s, i) == (i % Word) % s
Slot(i) == SlotOf(size, i)

EmptyBuffer == <<>>

Init ==
  /\ size = 0 /\ buffer = EmptyBuffer /\ in = 0 /\ out = 0
  /\ asked = 0
  /\ ser = [size |-> 0, in |-> 0, out |-> 0, buffer |-> EmptyBuffer]
  /\ wpc = "idle" /\ wdata = <<>> /\ woff = 0
  /\ rpc = "idle" /\ rlen = 0 /\ roff = 0 /\ rdata = <<>>
  /\ to = <<>>

-----------------------------------------------------------------------------
(* The owner                                                               *)

Idle == wpc = "idle" /\ rpc = "idle"

\* _fifo_init; malloc'ed memory holds anything.
Reinit(n) ==
  /\ size' = n
  /\ buffer' \in [0 .. n - 1 -> Bytes]
  /\ in' = 0 /\ out' = 0

\* Leading zeros of n in an unsigned int, n # 0.
Clz(n) == CHOOSE z \in 0 .. Bits - 1 : Exp2[Bits - 1 - z] <= n
                                       /\ n < Exp2[Bits - z]

roundup_pow_of_two(n) == Exp2[Clz(n - 1) + 1] % Word

FifoAlloc(n) ==
  /\ Idle
  /\ n \in Sizes
  /\ asked' = n
  /\ \/ Reinit(IF n \in Pow2 THEN n ELSE roundup_pow_of_two(n))
     \/ Reinit(0)          \* malloc failed
  /\ UNCHANGED <<ser, writer, reader>>

\* A size that is no power of two is refused.
FifoInit(n) ==
  /\ Idle
  /\ n \in Sizes \cap Pow2
  /\ Reinit(n)
  /\ asked' = n
  /\ UNCHANGED <<ser, writer, reader>>

FifoFree ==
  /\ Idle
  /\ Reinit(0)
  /\ asked' = 0
  /\ UNCHANGED <<ser, writer, reader>>

FifoReset ==
  /\ Idle
  /\ in' = 0 /\ out' = 0
  /\ UNCHANGED <<size, buffer, owner, writer, reader>>

FifoSerialize ==
  /\ Idle /\ Snapshots
  /\ ser' = [size |-> size, in |-> in, out |-> out, buffer |-> buffer]
  /\ UNCHANGED <<fifo, asked, writer, reader>>

FifoUnserialize ==
  /\ Idle
  /\ \/ /\ size' = ser.size /\ buffer' = ser.buffer
        /\ in' = ser.in /\ out' = ser.out
     \/ Reinit(0)
  /\ asked' = ser.size
  /\ UNCHANGED <<ser, writer, reader>>

-----------------------------------------------------------------------------
(* The writer                                                              *)

\* Mistake: the free space is one byte too large.
FifoInOneMore(s) ==
  /\ wpc = "idle"
  /\ wdata' = SubSeq(s, 1, Least(fifo_avail + 1, Len(s)))
  /\ wpc' = "first"
  /\ UNCHANGED <<fifo, owner, woff, reader>>

\* fifo_in: the free space is computed from the out index read here.
FifoIn(s) ==
  /\ wpc = "idle"
  /\ wdata' = SubSeq(s, 1, Least(fifo_avail, Len(s)))
  /\ wpc' = "first"
  /\ UNCHANGED <<fifo, owner, woff, reader>>

\* Bytes of a transfer of n bytes at index i before the buffer's end.
ToEnd(i, n) == IF size = 0 THEN 0 ELSE Least(n, size - Slot(i))

\* The slots of n bytes from index i on.
Slots(i, n) == {Slot(i + k) : k \in 0 .. n - 1}

\* The buffer with the bytes lo .. hi of s stored for index i on.
Store(i, s, lo, hi) ==
  [x \in DOMAIN buffer |->
     IF \E k \in lo .. hi : Slot(i + k - 1) = x
     THEN s[CHOOSE k \in lo .. hi : Slot(i + k - 1) = x]
     ELSE buffer[x]]

\* __fifo_in_data at offset woff, which is the size of a record's length field,
\* 0 for fifo_in.
InFirst ==
  /\ wpc = "first"
  /\ buffer' = Store(in + woff, wdata, 1, ToEnd(in + woff, Len(wdata)))
  /\ wpc' = "rest"
  /\ UNCHANGED <<size, in, out, owner, wdata, woff, reader>>

\* Mistake: the wrapped part of the data is not copied.
InRestNone ==
  /\ wpc = "rest"
  /\ wpc' = "publish"
  /\ UNCHANGED <<fifo, owner, wdata, woff, reader>>

InRest ==
  /\ wpc = "rest"
  /\ buffer' = Store(in + woff, wdata, ToEnd(in + woff, Len(wdata)) + 1,
                     Len(wdata))
  /\ wpc' = IF woff = 0 THEN "publish" ELSE "poke"
  /\ UNCHANGED <<size, in, out, owner, wdata, woff, reader>>

InPublish ==
  /\ wpc = "publish"
  /\ in' = (in + Len(wdata) + woff) % Word
  /\ wpc' = "idle" /\ wdata' = <<>> /\ woff' = 0
  /\ UNCHANGED <<size, buffer, out, owner, reader>>

-----------------------------------------------------------------------------
(* The reader                                                              *)

\* Mistake: the out index is published before the bytes are copied.
FifoOutEarly(n) ==
  /\ rpc = "idle"
  /\ rlen' = Least(fifo_len, n)
  /\ out' = (out + rlen') % Word
  /\ roff' = Word - rlen'
  /\ rdata' = <<>>
  /\ rpc' = "pfirst"
  /\ UNCHANGED <<size, buffer, in, owner, writer, to>>

\* fifo_out
FifoOut(n) ==
  /\ rpc = "idle"
  /\ rlen' = Least(fifo_len, n) /\ roff' = 0
  /\ rdata' = <<>>
  /\ rpc' = "first"
  /\ UNCHANGED <<fifo, owner, writer, to>>

\* fifo_out_peek: the length is that of the contents or len + offset.
FifoOutPeek(n, off) ==
  /\ rpc = "idle"
  /\ rlen' = Least(fifo_len, (n + off) % Word) /\ roff' = off
  /\ rdata' = <<>>
  /\ rpc' = "pfirst"
  /\ UNCHANGED <<fifo, owner, writer, to>>

\* The bytes lo .. hi of a transfer from index i on.
Fetch(i, lo, hi) ==
  [k \in 1 .. hi - lo + 1 |-> buffer[Slot(i + lo + k - 2)]]

OutFirst ==
  /\ rpc \in {"first", "pfirst"}
  /\ rdata' = Fetch(out + roff, 1, ToEnd(out + roff, rlen))
  /\ rpc' = IF rpc = "first" THEN "rest" ELSE "prest"
  /\ UNCHANGED <<fifo, owner, writer, rlen, roff, to>>

OutRest ==
  /\ rpc = "rest"
  /\ rdata' = rdata \o Fetch(out + roff, Len(rdata) + 1, rlen)
  /\ rpc' = "publish"
  /\ UNCHANGED <<fifo, owner, writer, rlen, roff, to>>

\* A peek ends with the copy.
PeekRest ==
  /\ rpc = "prest"
  /\ to' = rdata \o Fetch(out + roff, Len(rdata) + 1, rlen)
  /\ rpc' = "idle" /\ rlen' = 0 /\ roff' = 0 /\ rdata' = <<>>
  /\ UNCHANGED <<fifo, owner, writer>>

OutPublish ==
  /\ rpc = "publish"
  /\ out' = (out + rlen + roff) % Word
  /\ to' = rdata
  /\ rpc' = "idle" /\ rlen' = 0 /\ roff' = 0 /\ rdata' = <<>>
  /\ UNCHANGED <<size, buffer, in, owner, writer>>

\* fifo_skip: one read of the in index for the test, another to empty the fifo.
FifoSkip(n) ==
  /\ rpc = "idle"
  /\ \/ /\ n < fifo_len
        /\ out' = (out + n) % Word
        /\ UNCHANGED rpc
     \/ /\ n >= fifo_len
        /\ rpc' = "reset"
        /\ UNCHANGED out
  /\ UNCHANGED <<size, buffer, in, owner, writer, rlen, roff, rdata, to>>

\* fifo_reset_out, at the end of fifo_skip.
SkipAll ==
  /\ rpc = "reset"
  /\ out' = in
  /\ rpc' = "idle"
  /\ UNCHANGED <<size, buffer, in, owner, writer, rlen, roff, rdata, to>>

FifoResetOut ==
  /\ rpc = "idle"
  /\ out' = in
  /\ UNCHANGED <<size, buffer, in, owner, writer, reader>>

-----------------------------------------------------------------------------

Own ==
  \/ \E n \in Sizes : FifoAlloc(n) \/ FifoInit(n)
  \/ FifoFree \/ FifoReset \/ FifoSerialize \/ FifoUnserialize

Write ==
  \/ \E n \in 0 .. MaxLen : \E s \in [1 .. n -> Bytes] : FifoIn(s)
  \/ InFirst \/ InRest \/ InPublish

Read ==
  \/ \E n \in 0 .. MaxLen : FifoOut(n) \/ FifoSkip(n)
  \/ \E n \in 0 .. MaxLen, off \in Offsets : FifoOutPeek(n, off)
  \/ OutFirst \/ OutRest \/ PeekRest \/ OutPublish
  \/ SkipAll \/ FifoResetOut

Next == Own \/ Write \/ Read

Spec == Init /\ [][Next]_vars

-----------------------------------------------------------------------------

TypeOK ==
  /\ size \in Pow2 \cup {0}
  /\ buffer \in [0 .. size - 1 -> Bytes]
  /\ in \in 0 .. Word - 1 /\ out \in 0 .. Word - 1
  /\ asked \in Nat
  /\ wpc \in {"idle", "first", "rest", "poke", "publish"}
  /\ wdata \in Seq(Bytes) /\ woff \in Nat
  /\ rpc \in {"idle", "len", "slen", "test", "stest", "first", "rest", "publish",
              "pfirst", "prest", "reset"}
  /\ rlen \in Nat /\ roff \in Nat
  /\ rdata \in Seq(Bytes) /\ to \in Seq(Bytes)

\* The serialized fifo was a fifo.
SerInv ==
  /\ ser.size \in Pow2 \cup {0}
  /\ ser.buffer \in [0 .. ser.size - 1 -> Bytes]
  /\ ser.in \in 0 .. Word - 1 /\ ser.out \in 0 .. Word - 1
  /\ (ser.in - ser.out) % Word <= ser.size

\* The space the writer saw free is still free when it publishes, and what the
\* reader saw in the fifo is still there, however the other thread moved.
SpaceInv == fifo_len + woff + Len(wdata) <= size
DataInv ==
  /\ rpc \in {"first", "rest", "publish"} => rlen + roff <= fifo_len
  /\ rpc \in {"pfirst", "prest"} => rlen <= fifo_len

\* What the writer has copied is in the buffer, behind the in index.
WriteInv ==
  /\ wpc = "idle" => wdata = <<>> /\ woff = 0
  /\ wpc = "rest" =>
       \A k \in 1 .. ToEnd(in + woff, Len(wdata)) : buffer[Slot(in + woff + k - 1)] = wdata[k]
  /\ wpc \in {"poke", "publish"} =>
       \A k \in 1 .. Len(wdata) : buffer[Slot(in + woff + k - 1)] = wdata[k]

\* What the reader has copied is still in the buffer, if it was in the fifo.
ReadInv ==
  /\ rpc \in {"rest", "prest"} => Len(rdata) <= rlen
  /\ rpc = "publish" => Len(rdata) = rlen
  /\ rpc \in {"rest", "publish"} \/ (rpc = "prest" /\ roff = 0) =>
       \A k \in 1 .. Len(rdata) : rdata[k] = buffer[Slot(out + roff + k - 1)]

\* The invariant of the ring, whether bytes or records are put in it.
RingInv == TypeOK /\ SerInv /\ SpaceInv /\ DataInv /\ WriteInv /\ ReadInv

\* Only a peek has an offset while the fifo is used for bytes.
PlainInv ==
  /\ woff = 0 /\ wpc # "poke"
  /\ rpc \notin {"len", "slen", "test", "stest"}
  /\ rpc \in {"pfirst", "prest"} => roff \in Offsets
  /\ rpc \notin {"pfirst", "prest"} => roff = 0

IInv == RingInv /\ PlainInv

\* The slots a call is copying from or to.
Writing ==
  IF wpc \in {"first", "rest"}
  THEN Slots(in + woff, Len(wdata)) ELSE {}
Reading ==
  IF rpc \in {"first", "rest", "pfirst", "prest"}
  THEN Slots(out + roff, rlen) ELSE {}

\* Writer and reader never touch the same byte of the buffer at the same time,
\* which is what makes the lock-free use sound.
RaceFree == Writing \cap Reading = {}

\* fifo_alloc gives a size "rounded-up to a power of 2".
RoundedUp == size # 0 => \A p \in Pow2 : asked <= p => size \in asked .. p

\* The bytes in the fifo, oldest first.
Contents(b, s, i, o) ==
  [k \in 1 .. (i - o) % Word |-> b[SlotOf(s, o + k - 1)]]

\* The ring buffer implements the bounded queue of bytes.
Queue == INSTANCE ByteQueue WITH
  q <- Contents(buffer, size, in, out),
  cap <- size,
  from <- wdata,
  saved <- [q |-> Contents(ser.buffer, ser.size, ser.in, ser.out),
            cap |-> ser.size]
ImplementsQueue == Queue!Spec
=============================================================================
