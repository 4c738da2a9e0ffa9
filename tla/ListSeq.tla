------------------------------ MODULE ListSeq ------------------------------
(***************************************************************************)
(* What nbu_list promises: a sequence of values with one cursor.  The      *)
(* operations follow the comments of nbu/list.h; the cursor stays with its *)
(* element when others are inserted or deleted.                            *)
(***************************************************************************)
EXTENDS Integers, Sequences, FiniteSets, SequencesExt, FiniteSetsExt

CONSTANT Key                \* values of the elements

VARIABLES seq,              \* the elements, first to last
          cur,              \* 0: before the first, k: at the k-th element
          short             \* memory ran out inside a call, which lost elements

vars == <<seq, cur, short>>

NoCursor == -1              \* not started
Lost     == -2              \* its element was deleted under it

Init == seq = <<>> /\ cur = NoCursor /\ short = FALSE

Reset == seq' = <<>> /\ cur' = NoCursor

\* v becomes the element number at: at an end or next to the cursor.
Insert(v) ==
    \E at \in {1, Len(seq) + 1} \cup ({cur, cur + 1} \cap 1..Len(seq) + 1) :
        /\ seq' = InsertAt(seq, at, v)
        /\ cur' = IF cur >= at THEN cur + 1 ELSE cur

\* The element number at goes: the cursor's, and the cursor forward or back, or
\* the one at an end, and the cursor with it.
Delete ==
    \E at \in {1, Len(seq), cur} \cap 1..Len(seq) :
        /\ seq' = RemoveAt(seq, at)
        /\ IF cur = at
           THEN \/ cur' \in {at - 1, IF at = Len(seq) THEN 0 ELSE at}
                \/ at \in {1, Len(seq)} /\ cur' = Lost
           ELSE cur' = IF cur > at THEN cur - 1 ELSE cur

Move ==
    /\ UNCHANGED seq
    /\ \/ cur' = IF seq = <<>> THEN 0 ELSE 1
       \/ cur' = Len(seq)
       \/ seq = <<>> /\ cur' = NoCursor
       \/ cur >= 0 /\ cur' = IF cur = Len(seq) THEN 0 ELSE cur + 1
       \/ cur >= 0 /\ cur' = IF cur = 0 THEN Len(seq) ELSE cur - 1
       \/ cur' \in 1..Len(seq)                          \* get_at_index

\* All elements are kept, or some are lost, and short says so.
Kept(kept, all) ==
    \/ kept = all /\ UNCHANGED short
    \/ kept # all /\ short' = TRUE

\* The values kept, none before a smaller one; the cursor is anywhere.
Sort ==
    LET old == seq  new == seq' IN
    /\ cur' \in NoCursor..Len(new)
    /\ \A i, j \in DOMAIN new : i < j => new[i] <= new[j]
    /\ \E kept \in kSubset(Len(new), DOMAIN old) :
           /\ Kept(kept, DOMAIN old)
           /\ \A v \in Key : Cardinality({i \in DOMAIN new : new[i] = v})
                             = Cardinality({i \in kept : old[i] = v})

\* Saved and loaded again.
Reload ==
    LET old == seq  new == seq' IN
    /\ cur' = NoCursor
    /\ \E kept \in kSubset(Len(new), DOMAIN old) :
           /\ Kept(kept, DOMAIN old)
           /\ \A i \in kept : old[i] = new[Cardinality({k \in kept : k <= i})]

Next ==
    \/ Move /\ UNCHANGED short
    \/ Reset /\ UNCHANGED short
    \/ (\E v \in Key : Insert(v)) /\ UNCHANGED short
    \/ Delete /\ UNCHANGED short
    \/ Sort \/ Reload

Spec == Init /\ [][Next]_vars
=============================================================================
