------------------------------ MODULE NbuList ------------------------------
(***************************************************************************)
(* The list of efixo-libnbu: src/list.c, include/nbu/list.h.               *)
(*                                                                         *)
(* A ring of nodes closed by rootnode, which lies inside the list itself;  *)
(* the links of rootnode are NULL until the first insertion and rootnode   *)
(* itself once the list was emptied.  The list holds ONE iterator, which   *)
(* every loop macro and nbu_list_get_at_index share.                       *)
(*                                                                         *)
(* The operations are operators on the list record; the program that uses  *)
(* the list calls them one at a time.  It keeps to what the assertions and *)
(* the callers show: it moves and deletes at the iterator only where it is *)
(* valid, and deletes an end only of a list whose count is not zero.       *)
(***************************************************************************)
EXTENDS Integers, Sequences, FiniteSets, SequencesExt

CONSTANTS
  Node,     \* addresses calloc has for nodes
  Datum,    \* addresses of the elements' data
  Key,      \* values of the data; sort_func compares them
  MaxLen,   \* bound: longest list
  MaxLost,  \* bound: insertions of one call that find no memory
  Root, NULL

ASSUME AddressAssumption ==
  /\ Root \notin Node /\ NULL \notin Node \cup Datum \cup {Root}
  /\ IsFiniteSet(Node) /\ IsFiniteSet(Datum) /\ Key \subseteq Int
ASSUME BoundAssumption == MaxLen \in Nat /\ Cardinality(Node) >= MaxLen /\ MaxLost \in Nat

VARIABLES
  list,       \* next, prev and data of every node; count; iterator; term
  heap,       \* nodes in use
  value,      \* the value of each datum allocated and not released
  dangling,   \* history: the iterator's node was freed
  orphans,    \* history: data may have left the list without being released
  short,      \* history: memory ran out inside a call, which lost elements
  walk        \* a loop nbu_list_for_each_data: its place, and as history
              \* the elements before it and those of them seen so far

vars == <<list, heap, value, dangling, orphans, short, walk>>

Place == Node \cup {Root}
NoWalk == [pc |-> "out", before |-> <<>>, seen |-> <<>>]

\* calloc in nbu_list_new: everything is zero; a NULL terminator means free.
nbu_list_new ==
  [next |-> [p \in Place |-> NULL], prev |-> [p \in Place |-> NULL],
   data |-> [p \in Place |-> NULL], count |-> 0, iterator |-> NULL,
   term |-> "free"]

\* Some free address for a node.
Alloc(used) == CHOOSE n \in Node : n \notin used

-----------------------------------------------------------------------------
\* The ring as a loop over it sees it, from rootnode.next on.

\* The k-th node from rootnode on.
Follow(l, k) ==
  LET at[i \in 0 .. k] == IF i = 0 THEN Root ELSE l.next[at[i - 1]] IN at[k]

Length(l) ==
  IF l.next[Root] = NULL THEN 0
  ELSE Min({k \in 0 .. Cardinality(Node) : Follow(l, k + 1) = Root}
           \cup {Cardinality(Node)})

Nodes(l) == [i \in 1 .. Length(l) |-> Follow(l, i)]
Elements(l) == [i \in 1 .. Length(l) |-> l.data[Follow(l, i)]]
Keys(l) == [i \in 1 .. Length(l) |-> value[l.data[Follow(l, i)]]]

held == DOMAIN value
iterator_is_valid(l) == l.iterator \notin {NULL, Root}

-----------------------------------------------------------------------------
\* nbu_list_insert with the new node n: next to ref, or as the first one.

\* Mistake: the successor keeps its old prev.
InsertAfterNoPrev(l, n, d, ref) ==
  [l EXCEPT !.next[n] = l.next[ref], !.next[ref] = n,
            !.prev[n] = ref, !.data[n] = d, !.count = @ + 1]

InsertAfterRef(l, n, d, ref) ==
  LET succ == IF l.next[ref] = NULL THEN Root ELSE l.next[ref] IN
  [l EXCEPT !.next[n] = l.next[ref], !.next[ref] = n,
            !.prev[n] = ref, !.prev[succ] = n,
            !.data[n] = d, !.count = @ + 1]

InsertBeforeRef(l, n, d, ref) ==
  LET pred == IF l.prev[ref] = NULL THEN Root ELSE l.prev[ref] IN
  [l EXCEPT !.prev[n] = l.prev[ref], !.prev[ref] = n,
            !.next[n] = ref, !.next[pred] = n,
            !.data[n] = d, !.count = @ + 1]

FirstInsertion(l, n, d) ==
  [l EXCEPT !.next[Root] = n, !.prev[Root] = n, !.prev[n] = Root,
            !.next[n] = Root, !.data[n] = d, !.count = @ + 1]

\* NULL next to a list that was used before is the error of the code.
CanInsert(l, ref) == ref # NULL \/ (l.next[Root] = NULL /\ l.prev[Root] = NULL)

InsertAfter(l, n, d, ref) ==
  IF ref = NULL THEN FirstInsertion(l, n, d) ELSE InsertAfterRef(l, n, d, ref)
InsertBefore(l, n, d, ref) ==
  IF ref = NULL THEN FirstInsertion(l, n, d) ELSE InsertBeforeRef(l, n, d, ref)

\* nbu_list_destroy_node: unlink n and free it.  (The links of a freed node
\* are not read again; NULL stands for whatever they become.)
DestroyNode(l, n) ==
  LET succ == IF l.next[n] = NULL THEN Root ELSE l.next[n]
      pred == IF l.prev[n] = NULL THEN Root ELSE l.prev[n]
      unlinked == [l EXCEPT !.prev[succ] = l.prev[n], !.next[pred] = l.next[n]]
  IN  [unlinked EXCEPT !.next[n] = NULL, !.prev[n] = NULL, !.data[n] = NULL,
                       !.count = @ - 1]

\* The data that terminating the elements D leaves allocated.
Terminate(l, D) ==
  IF l.term = "free" THEN Restrict(value, held \ D) ELSE value

-----------------------------------------------------------------------------
\* The calls.

Init ==
  /\ list = nbu_list_new /\ heap = {} /\ value = <<>>
  /\ dangling = FALSE /\ orphans = FALSE /\ short = FALSE /\ walk = NoWalk

NoLoop == walk.pc = "out"

\* The program allocates a datum of value v and inserts it with Op next to
\* ref; without memory or with a reference of NULL it gets an error back.
\* (Data that a loop started with are not used again before its end.)
Insert(Op(_, _, _, _), ref, v) ==
  /\ list.count < MaxLen
  /\ \/ \E d \in Datum \ (held \cup ToSet(walk.before)) :
          LET n == Alloc(heap) IN
          /\ CanInsert(list, ref)
          /\ list' = Op(list, n, d, ref)
          /\ heap' = heap \cup {n}
          /\ value' = value @@ (d :> v)
          /\ UNCHANGED <<dangling, orphans, short, walk>>
     \/ UNCHANGED vars

insert_begin(v) == Insert(InsertBefore, list.next[Root], v)
insert_end(v)   == Insert(InsertAfter, list.prev[Root], v)
insert_after(v) ==
  NoLoop /\ ~dangling /\ Insert(InsertAfter, list.iterator, v)
insert_before(v) ==
  NoLoop /\ ~dangling /\ Insert(InsertBefore, list.iterator, v)

\* Delete node n; the iterator moves to where.
Delete(n, where) ==
  /\ list' = [DestroyNode(list, n) EXCEPT !.iterator = where]
  /\ heap' = heap \ {n}
  /\ value' = Terminate(list, {list.data[n]})
  /\ dangling' = (dangling \/ where = n)
  /\ UNCHANGED <<orphans, short>>

AtIterator == iterator_is_valid(list) /\ ~dangling

delete_forward ==
  /\ NoLoop /\ AtIterator
  /\ Delete(list.iterator, list.next[list.iterator])
  /\ UNCHANGED walk

\* Mistake: the iterator goes on instead of back.
delete_backwardForward ==
  /\ AtIterator /\ walk.pc \in {"out", "body"}
  /\ Delete(list.iterator, list.next[list.iterator])
  /\ walk' = [walk EXCEPT !.pc = IF NoLoop THEN @ ELSE "step"]

\* Also the call in the body of a loop: the loop's own step follows.
delete_backward ==
  /\ AtIterator /\ walk.pc \in {"out", "body"}
  /\ Delete(list.iterator, list.prev[list.iterator])
  /\ walk' = [walk EXCEPT !.pc = IF NoLoop THEN @ ELSE "step"]

\* Mistake: the list is taken to hold an element if it was ever used.
delete_beginUsed ==
  /\ NoLoop /\ list.next[Root] # NULL
  /\ Delete(list.next[Root], list.iterator)
  /\ UNCHANGED walk

\* The code does not test for an empty list: its callers have to.
delete_begin ==
  /\ NoLoop /\ list.count # 0
  /\ Delete(list.next[Root], list.iterator)
  /\ UNCHANGED walk

delete_end ==
  /\ NoLoop /\ list.count # 0
  /\ Delete(list.prev[Root], list.iterator)
  /\ UNCHANGED walk

MoveTo(p) ==
  /\ list' = [list EXCEPT !.iterator = p]
  /\ dangling' = FALSE
  /\ UNCHANGED <<heap, value, orphans, short>>

iterator_start == NoLoop /\ MoveTo(list.next[Root]) /\ UNCHANGED walk
iterator_end   == NoLoop /\ MoveTo(list.prev[Root]) /\ UNCHANGED walk
iterator_next ==
  /\ NoLoop /\ list.iterator # NULL /\ ~dangling
  /\ MoveTo(list.next[list.iterator]) /\ UNCHANGED walk
iterator_previous ==
  /\ NoLoop /\ list.iterator # NULL /\ ~dangling
  /\ MoveTo(list.prev[list.iterator]) /\ UNCHANGED walk

\* nbu_list_get_at_index loops with the list's own iterator and leaves it.
get_at_index ==
  /\ NoLoop
  /\ \E i \in 1 .. list.count : MoveTo(Nodes(list)[i])
  /\ UNCHANGED walk

-----------------------------------------------------------------------------
\* The calls that make a new list and destroy the old one.

\* nbu_list_destroy frees the nodes its loop comes by.  (The old list is
\* gone when the call returns, so the new one may be given its addresses.)
Replace(new, left) ==
  /\ list' = new
  /\ heap' = (heap \ ToSet(Nodes(list))) \cup ToSet(Nodes(new))
  /\ value' = left
  /\ dangling' = FALSE
  /\ UNCHANGED walk

destroy ==
  /\ NoLoop
  /\ Replace(nbu_list_new, Terminate(list, ToSet(Elements(list))))
  /\ UNCHANGED <<orphans, short>>

\* One round of the outer loop of nbu_list_sort on the new list: insert d
\* before the first element that is not smaller, else at the end.  The inner
\* loop leaves the new list's iterator where it stopped; an insertion that finds
\* no memory, as for the data in lost, is not noticed.
SortRound(acc, d, lost) ==
  LET ns == Nodes(acc)
      after == SelectInSeq(ns, LAMBDA p : value[d] <= value[acc.data[p]])
      n == Alloc(ToSet(ns))
      stop == IF after # 0 THEN ns[after] ELSE IF ns = <<>> THEN acc.next[Root] ELSE Root
  IN  [(IF d \in lost THEN acc
        ELSE IF after # 0 THEN InsertBefore(acc, n, d, ns[after])
        ELSE InsertAfter(acc, n, d, acc.prev[Root])) EXCEPT !.iterator = stop]

Sorted(new, lost) ==
  FoldLeft(LAMBDA acc, d : SortRound(acc, d, lost), new, Elements(list))

\* Mistake: the old list is destroyed with its own terminator.
list_sortTerminator ==
  /\ NoLoop
  /\ Replace(Sorted(nbu_list_new, {}), Terminate(list, ToSet(Elements(list))))
  /\ orphans' = TRUE /\ UNCHANGED short

\* nbu_list_sort: both lists have the void terminator, the new one keeps it.
\* (Without memory for the new list itself the program ends at once.)
list_sort ==
  /\ NoLoop
  /\ \E lost \in SUBSET ToSet(Elements(list)) :
       /\ Cardinality(lost) <= MaxLost
       /\ Replace(Sorted([nbu_list_new EXCEPT !.term = "void"], lost), value)
       /\ short' = (short \/ lost # {})
  /\ orphans' = TRUE

UnserializeItem(acc, d) ==
  InsertAfter(acc, Alloc(ToSet(Nodes(acc))), d, acc.prev[Root])

\* The list is serialized, destroyed and made again from the buffer, with new
\* data ds; those in lost find no memory for their node and stay outside.  (A
\* failure of nbu_list_serialize changes nothing; the one of an item's function
\* leaves no list, which is what destroy models; without memory for the list or
\* a datum the program ends at once.)
reload ==
  LET left == Terminate(list, ToSet(Elements(list)))
      keys == Keys(list)
  IN  /\ NoLoop
      /\ \E ds \in [1 .. list.count -> Datum \ DOMAIN left] :
         \E lost \in SUBSET ToSet(ds) :
           /\ IsInjective(ds) /\ Cardinality(lost) <= MaxLost
           /\ Replace(FoldLeft(UnserializeItem, nbu_list_new,
                               SelectSeq(ds, LAMBDA d : d \notin lost)),
                      left @@ [d \in ToSet(ds) |-> keys[AntiFunction(ds)[d]]])
           /\ short' = (short \/ lost # {}) /\ orphans' = (orphans \/ lost # {})

-----------------------------------------------------------------------------
\* A loop nbu_list_for_each_data.  Its body may delete the element it looks
\* at with nbu_list_delete_backward, as the callers do, and insert at the
\* ends of the list.

for_each_start ==
  /\ NoLoop
  /\ MoveTo(list.next[Root])
  /\ walk' = [pc |-> "test", before |-> Elements(list), seen |-> <<>>]

for_each_test ==
  /\ walk.pc = "test"
  /\ walk' =
       IF ~iterator_is_valid(list) THEN [walk EXCEPT !.pc = "end"]
       ELSE LET d == list.data[list.iterator] IN
            [walk EXCEPT !.pc = "body",
               !.seen = IF d \in ToSet(walk.before) THEN Append(@, d) ELSE @]
  /\ UNCHANGED <<list, heap, value, dangling, orphans, short>>

for_each_step ==
  /\ walk.pc \in {"body", "step"}
  /\ MoveTo(list.next[list.iterator])
  /\ walk' = [walk EXCEPT !.pc = "test"]

for_each_end ==
  /\ walk.pc = "end"
  /\ walk' = NoWalk
  /\ UNCHANGED <<list, heap, value, dangling, orphans, short>>

Next ==
  \/ \E v \in Key : insert_begin(v) \/ insert_end(v)
                    \/ insert_after(v) \/ insert_before(v)
  \/ delete_forward \/ delete_backward \/ delete_begin \/ delete_end
  \/ iterator_start \/ iterator_end \/ iterator_next \/ iterator_previous
  \/ get_at_index \/ destroy \/ list_sort \/ reload
  \/ for_each_start \/ for_each_test \/ for_each_step \/ for_each_end

Spec == Init /\ [][Next]_vars

-----------------------------------------------------------------------------
(* Properties *)

TypeOK ==
  /\ list.next \in [Place -> Place \cup {NULL}]
  /\ list.prev \in [Place -> Place \cup {NULL}]
  /\ list.data \in [Place -> Datum \cup {NULL}]
  /\ list.iterator \in Place \cup {NULL}
  /\ list.count \in 0 .. MaxLen /\ list.term \in {"free", "void"}
  /\ heap \subseteq Node
  /\ held \subseteq Datum /\ value \in [held -> Key]
  /\ dangling \in BOOLEAN /\ orphans \in BOOLEAN /\ short \in BOOLEAN
  /\ walk.pc \in {"out", "test", "body", "step", "end"}

\* The ring is whole after every call: its nodes are exactly the allocated
\* ones, count is their number, prev undoes next, and rootnode holds no data.
\* A test of the count is thus enough before nbu_list_delete_begin, which
\* would otherwise free the list's own rootnode.
Linked ==
  /\ ToSet(Nodes(list)) = heap
  /\ Len(Nodes(list)) = list.count
  /\ list.data[Root] = NULL
  /\ list.next[Root] = NULL <=> list.prev[Root] = NULL
  /\ list.next[Root] # NULL =>
       \A p \in heap \cup {Root} : list.prev[list.next[p]] = p
  /\ list.iterator \in heap \cup {Root, NULL} \/ dangling

IInv == TypeOK /\ Linked

\* nbu_list_destroy_node and the terminator: the list never refers to data
\* that were released, holds each datum once, and as long as no list was
\* sorted and memory sufficed every datum that left the list was released.
Released ==
  /\ ToSet(Elements(list)) \subseteq held
  /\ Cardinality(ToSet(Elements(list))) = list.count
  /\ ~orphans => held \subseteq ToSet(Elements(list))

\* A loop whose body deletes backward looks at every element the list had
\* when it began, once and in order, whatever it deletes or inserts.
LoopSeesAll == walk.pc = "end" => walk.seen = walk.before

\* The ring implements a sequence with a cursor.
Cursor ==
  IF dangling THEN -2
  ELSE IF list.iterator = NULL THEN -1
  ELSE SelectInSeq(Nodes(list), LAMBDA p : p = list.iterator)

Abstract == INSTANCE ListSeq WITH seq <- Keys(list), cur <- Cursor

ImplementsList == Abstract!Spec
=============================================================================
