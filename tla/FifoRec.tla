------------------------------ MODULE FifoRec ------------------------------
(***************************************************************************)
(* Records in the ring buffer of efixo-libetk: fifo_in_rec, fifo_out_rec   *)
(* and fifo_skip_rec of include/etk/fifo.h over __fifo_in_n and            *)
(* __fifo_out_n of src/fifo.c.                                             *)
(*                                                                         *)
(* A record is a length field of RecSize bytes and the data.  The steps    *)
(* that copy data are those of Fifo, with RecSize as the offset.           *)
(***************************************************************************)
EXTENDS Fifo

CONSTANTS
  RecSize,   \* bytes of the length field
  Base,      \* number of values of a byte (256)
  Capacity,  \* the size of the fifo
  Payload,   \* the values of data bytes
  MaxRec     \* bound: longest record

\* The number of lengths that fit in the length field.
Lengths == IF RecSize = 2 THEN Base * Base ELSE Base

ASSUME RecAssumption ==
  /\ RecSize \in {1, 2}
  /\ Base \in Nat \ {0}
  /\ Bytes = 0 .. Base - 1
  /\ Payload \subseteq Bytes
  /\ Capacity \in Pow2
  /\ MaxRec \in Nat /\ MaxRec < Lengths
  /\ Lengths + RecSize <= Word

VARIABLES
  recs,    \* history: the records in the fifo, oldest first, each with the in
           \* index at which it was put
  early,   \* history: the reader's call read a length field of an empty fifo
  stale    \* history: such a length was used, and was wrong

ghosts == <<recs, early, stale>>
recvars == <<vars, ghosts>>

\* The fifo after fifo_alloc: malloc'ed memory holds anything.
RecInit ==
  /\ size = Capacity /\ asked = Capacity
  /\ buffer \in [0 .. size - 1 -> Bytes] /\ in = 0 /\ out = 0
  /\ ser = [size |-> 0, in |-> 0, out |-> 0, buffer |-> EmptyBuffer]
  /\ wpc = "idle" /\ wdata = <<>> /\ woff = 0
  /\ rpc = "idle" /\ rlen = 0 /\ roff = 0 /\ rdata = <<>>
  /\ to = <<>>
  /\ recs = <<>> /\ early = FALSE /\ stale = FALSE

Header(n) ==
  IF RecSize = 2 THEN <<n % Base, (n \div Base) % Base>> ELSE <<n % Base>>

-----------------------------------------------------------------------------
(* The writer                                                              *)

\* __fifo_in_n: a record that does not fit changes nothing.
InRec(s) ==
  /\ wpc = "idle"
  /\ fifo_avail >= Len(s) + RecSize
  /\ wdata' = s /\ woff' = RecSize
  /\ wpc' = "first"
  /\ UNCHANGED <<fifo, owner, reader, ghosts>>

\* __fifo_poke_n
Poke ==
  /\ wpc = "poke"
  /\ buffer' = Store(in, Header(Len(wdata)), 1, RecSize)
  /\ wpc' = "publish"
  /\ UNCHANGED <<size, in, out, owner, wdata, woff, reader, ghosts>>

Publish ==
  /\ InPublish
  /\ recs' = IF stale THEN recs ELSE Append(recs, [at |-> in, data |-> wdata])
  /\ UNCHANGED <<early, stale>>

-----------------------------------------------------------------------------
(* The reader                                                              *)

\* __fifo_peek_n reads the length field before anything is known of the fifo's
\* contents, and byte by byte: the writer may put a record between the bytes.
PeekLow(next) ==
  /\ rpc = "idle"
  /\ rlen' = buffer[Slot(out)] /\ roff' = RecSize
  /\ early' = (in = out)
  /\ rpc' = next
  /\ UNCHANGED <<fifo, owner, writer, rdata, to, recs, stale>>

\* The length, of which rlen is the first byte.
PeekN == rlen + (IF RecSize = 2 THEN Base * buffer[Slot(out + 1)] ELSE 0)

PeekHigh(here, next) ==
  /\ rpc = here
  /\ rlen' = PeekN
  /\ rpc' = next
  /\ UNCHANGED <<fifo, owner, writer, roff, rdata, to, ghosts>>

\* The call ends without an effect.
GiveUp ==
  /\ rpc' = "idle" /\ rlen' = 0 /\ roff' = 0 /\ early' = FALSE
  /\ UNCHANGED <<recs, stale>>

\* fifo_out_rec: a record larger than the caller's buffer is left.
OutRec == PeekLow("len")

OutFits(n) == n >= PeekN /\ PeekHigh("len", "test")

OutTooLong(n) ==
  /\ rpc = "len" /\ n < PeekN
  /\ GiveUp
  /\ UNCHANGED <<fifo, owner, writer, rdata, to>>

\* The length read is used: it is wrong if it is not that of the next record.
Use ==
  /\ stale' = (stale \/ (early /\ (recs = <<>> \/ rlen # Len(recs[1].data))))
  /\ early' = FALSE

\* Mistake: the length field is not counted in what the fifo must hold.
OutTestShort ==
  /\ rpc = "test"
  /\ \/ fifo_len < rlen /\ GiveUp
     \/ /\ fifo_len >= rlen
        /\ rpc' = "first"
        /\ Use
        /\ UNCHANGED <<rlen, roff, recs>>
  /\ UNCHANGED <<fifo, owner, writer, rdata, to>>

\* __fifo_out_n: nothing is read unless the fifo holds that much.
OutTest ==
  /\ rpc = "test"
  /\ \/ fifo_len < rlen + roff /\ GiveUp
     \/ /\ fifo_len >= rlen + roff
        /\ rpc' = "first"
        /\ Use
        /\ UNCHANGED <<rlen, roff, recs>>
  /\ UNCHANGED <<fifo, owner, writer, rdata, to>>

\* There is nothing to say about records once the reader is out of step.
DropFirst == recs' = IF stale' \/ recs = <<>> THEN <<>> ELSE Tail(recs)

\* Mistake: the length field is not skipped with the data.
OutRecPublishShort ==
  /\ rpc = "publish"
  /\ out' = (out + rlen) % Word
  /\ to' = rdata
  /\ rpc' = "idle" /\ rlen' = 0 /\ roff' = 0 /\ rdata' = <<>>
  /\ UNCHANGED <<size, buffer, in, owner, writer, early, stale>>
  /\ DropFirst

OutRecPublish ==
  /\ OutPublish
  /\ UNCHANGED <<early, stale>>
  /\ DropFirst

\* fifo_skip_rec
SkipRec == PeekLow("slen")
SkipPeek == PeekHigh("slen", "stest")

\* The next record is skipped, or everything when it is not complete.
SkipTest ==
  /\ rpc = "stest"
  /\ \/ /\ rlen + roff <= fifo_len
        /\ out' = (out + rlen + roff) % Word
        /\ rpc' = "idle"
        /\ Use
        /\ DropFirst
     \/ /\ rlen + roff > fifo_len
        /\ rpc' = "reset" /\ early' = FALSE
        /\ UNCHANGED <<out, recs, stale>>
  /\ rlen' = 0 /\ roff' = 0
  /\ UNCHANGED <<size, buffer, in, owner, writer, rdata, to>>

SkipAllRec == SkipAll /\ recs' = <<>> /\ UNCHANGED <<early, stale>>

-----------------------------------------------------------------------------

RecNext ==
  \/ \E n \in 0 .. MaxRec : \E s \in [1 .. n -> Payload] : InRec(s)
  \/ Poke \/ Publish
  \/ OutRec \/ \E n \in 0 .. MaxLen : OutFits(n) \/ OutTooLong(n)
  \/ OutTest \/ OutRecPublish \/ SkipRec \/ SkipPeek \/ SkipTest \/ SkipAllRec
  \/ (InFirst \/ InRest \/ OutFirst \/ OutRest) /\ UNCHANGED ghosts

RecSpec == RecInit /\ [][RecNext]_recvars

-----------------------------------------------------------------------------

\* "with only one concurrent reader and one concurrent writer, you don't need
\* extra locking": what fifo_out_rec returns is the oldest record, whole.
RecordIntact == rpc = "publish" => recs # <<>> /\ rdata = recs[1].data

\* Where a record begins and ends, in bytes from index o on.
Off(r, o) == (r.at - o) % Word
End(r, o) == Off(r, o) + RecSize + Len(r.data)

\* The records rs lie one behind the other from index o to index i.
Tiled(rs, i, o) ==
  /\ rs = <<>> => i = o
  /\ rs # <<>> => Off(rs[1], o) = 0 /\ End(rs[Len(rs)], o) = (i - o) % Word
  /\ \A n \in 1 .. Len(rs) - 1 : Off(rs[n + 1], o) = End(rs[n], o)

\* In the buffer b, a record is its length field and its data.
Stored(b, r) ==
  /\ \A k \in 1 .. RecSize :
       b[SlotOf(Capacity, r.at + k - 1)] = Header(Len(r.data))[k]
  /\ \A k \in 1 .. Len(r.data) :
       b[SlotOf(Capacity, r.at + RecSize + k - 1)] = r.data[k]

\* As long as no wrong length read from an empty fifo was used, every record comes
\* out whole and in order, and the bytes between out and in are exactly the
\* records put and not yet taken, each behind its length field.
Layout ==
  ~stale => /\ RecordIntact
            /\ Tiled(recs, in, out)
            /\ \A n \in 1 .. Len(recs) : Stored(buffer, recs[n])

-----------------------------------------------------------------------------
(* The inductive invariant *)

Records == [at : 0 .. Word - 1, data : Seq(Bytes)]

RecTypeOK ==
  /\ size = Capacity /\ recs \in Seq(Records)
  /\ early \in BOOLEAN /\ stale \in BOOLEAN

\* The writer puts the length field last, before it publishes.
PokeInv ==
  /\ wpc # "idle" => woff = RecSize
  /\ Len(wdata) < Lengths
  /\ wpc = "publish" =>
       \A k \in 1 .. RecSize : buffer[Slot(in + k - 1)] = Header(Len(wdata))[k]

\* The length that the reader holds, or its first byte, is that of the first
\* record, unless it was read from an empty fifo and not used yet.
LengthInv ==
  /\ rpc \notin {"pfirst", "prest"}
  /\ rpc \in {"len", "slen", "test", "stest", "first", "rest", "publish"} => roff = RecSize
  /\ ~stale =>
       \/ rpc \in {"idle", "reset"}
       \/ rpc \in {"len", "slen", "test", "stest"} /\ early
       \/ /\ rpc \in {"len", "slen"} /\ recs # <<>>
          /\ rlen = Header(Len(recs[1].data))[1]
       \/ /\ rpc \in {"test", "stest", "first", "rest", "publish"} /\ recs # <<>>
          /\ rlen = Len(recs[1].data)

\* Tiled for any two records, which is what dropping the first one needs.
Apart(rs, i, o) ==
  \A n \in 1 .. Len(rs) :
    /\ End(rs[n], o) <= (i - o) % Word
    /\ \A m \in 1 .. Len(rs) : n < m => End(rs[n], o) <= Off(rs[m], o)

Laid(b, rs, i, o) ==
  /\ Tiled(rs, i, o) /\ Apart(rs, i, o)
  /\ \A n \in 1 .. Len(rs) : Stored(b, rs[n]) /\ Len(rs[n].data) < Lengths

RecInv ==
  /\ RingInv /\ RecTypeOK /\ PokeInv /\ LengthInv
  /\ ~stale => Laid(buffer, recs, in, out)
=============================================================================
