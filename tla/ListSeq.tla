------------------------------- MODULE ListSeq -------------------------------
(***************************************************************************)
(* What common/list.c promises, without nodes and pointers: a list is a    *)
(* sequence of items and an iterator is a place in it.  An iterator has    *)
(* gone past the first cursor[i] items, and holds the last of them if      *)
(* list_remove(i) would remove it.  Every operation runs under the mutex of*)
(* the list, so that one action stands for one call of any thread.         *)
(***************************************************************************)
EXTENDS Naturals, FiniteSets, Sequences, SequencesExt

CONSTANTS
    Item,     \* what the caller puts in the list
    Iterator, \* iterators that may exist at the same time
    MaxLen,   \* bound: items in the list
    NULL      \* no item

VARIABLES
    items,  \* the items, first one first
    open,   \* the iterators that exist
    cursor, \* the items each iterator has gone past
    holds,  \* whether list_remove would remove the last of these
    call    \* the last call: operation, iterator and result

seqVars == <<items, open, cursor, holds, call>>

Call(op, i, r) == [op |-> op, iter |-> i, ret |-> r]

SeqTypeOK ==
    /\ items \in Seq(Item)
    /\ Len(items) <= MaxLen
    /\ open \subseteq Iterator
    /\ cursor \in [Iterator -> 0 .. Len(items)]
    /\ holds \in [Iterator -> BOOLEAN]

SeqInit ==
    /\ items = <<>>
    /\ open = {}
    /\ cursor = [i \in Iterator |-> 0]
    /\ holds = [i \in Iterator |-> FALSE]
    /\ call = Call("list_create", NULL, NULL)

\* Mutant: an iterator that holds the last item is moved behind the one appended.
PushedAll(i, k) == IF i \in open /\ k <= cursor[i] THEN cursor[i] + 1 ELSE cursor[i]

\* Where an iterator is once there is a new item k + 1.  If it stands between k
\* and k + 1 it is moved behind the new item, unless it holds item k: then it
\* goes to the new item next.
Pushed(i, k) ==
    IF i \in open /\ k < cursor[i] + (IF holds[i] THEN 0 ELSE 1)
    THEN cursor[i] + 1 ELSE cursor[i]

\* x becomes item k + 1.  Callers keep an object in the list once.
InsertItem(k, x) ==
    /\ Len(items) < MaxLen
    /\ x \notin ToSet(items)
    /\ items' = InsertAt(items, k + 1, x)
    /\ cursor' = [i \in Iterator |-> Pushed(i, k)]
    /\ UNCHANGED <<open, holds>>

\* Mutant: the items it has gone past are not counted again.
PulledNot(i, k) == cursor[i]

\* ... and once item k + 1 has gone.
Pulled(i, k) == IF cursor[i] > k THEN cursor[i] - 1 ELSE cursor[i]

\* Item k + 1 goes.  An iterator next to it holds nothing afterwards.
DeleteItem(k) ==
    /\ items' = RemoveAt(items, k + 1)
    /\ cursor' = [i \in Iterator |-> Pulled(i, k)]
    /\ holds' = [i \in Iterator |-> holds[i] /\ cursor[i] \notin {k, k + 1}]
    /\ UNCHANGED open

AppendItem(x) == InsertItem(Len(items), x)
PrependItem(x) == InsertItem(0, x)

Put(x) ==
    \/ AppendItem(x) /\ call' = Call("list_append", NULL, x)
    \/ PrependItem(x) /\ call' = Call("list_prepend", NULL, x)

\* list_insert puts x before the item held, or else where the iterator stands.
Insert(i, x) ==
    /\ i \in open
    /\ InsertItem(cursor[i] - (IF holds[i] THEN 1 ELSE 0), x)
    /\ call' = Call("list_insert", i, x)

Pop ==
    IF items = <<>>
    THEN call' = Call("list_pop", NULL, NULL) /\ UNCHANGED <<items, open, cursor, holds>>
    ELSE DeleteItem(0) /\ call' = Call("list_pop", NULL, Head(items))

RemoveMatch ==
    \E k \in 0 .. Len(items) - 1 :
        DeleteItem(k) /\ call' = Call("list_remove_first", NULL, items[k + 1])

RemoveHeld(i) ==
    /\ i \in open
    /\ IF holds[i]
       THEN DeleteItem(cursor[i] - 1)
       ELSE UNCHANGED <<items, open, cursor, holds>>

\* The iterator holds the item it goes past and, at the end, nothing.
Advance(i) ==
    /\ i \in open
    /\ LET more == cursor[i] < Len(items)
       IN /\ cursor' = [cursor EXCEPT ![i] = IF more THEN @ + 1 ELSE @]
          /\ holds' = [holds EXCEPT ![i] = more]
    /\ UNCHANGED <<items, open>>

Following(i) == IF cursor[i] < Len(items) THEN items[cursor[i] + 1] ELSE NULL

Rewind(I) ==
    /\ cursor' = [j \in Iterator |-> IF j \in I THEN 0 ELSE cursor[j]]
    /\ holds' = [j \in Iterator |-> j \notin I /\ holds[j]]

\* Any order of the items may be the one the comparison function asks for.
Sort ==
    /\ \E s \in SetToSeqs(ToSet(items)) : items' = s
    /\ IF Len(items) <= 1
       THEN UNCHANGED <<cursor, holds>>
       ELSE Rewind(open)
    /\ UNCHANGED open

\* list_delete_all, and list_flush when every item matches: the items that
\* remain keep their order, and so does every iterator its place among them.
DeleteAll ==
    \E S \in SUBSET Item :
        LET keep(k) == Cardinality({j \in 1 .. k : items[j] \notin S})
            kept(j) == CHOOSE k \in DOMAIN items : items[k] \notin S /\ keep(k) = j
        IN /\ items' = [j \in 1 .. keep(Len(items)) |-> items[kept(j)]]
           /\ cursor' = [i \in Iterator |-> keep(cursor[i])]
           /\ holds' = [i \in Iterator |->
                          /\ holds[i]
                          /\ items[cursor[i]] \notin S
                          /\ cursor[i] < Len(items) =>
                                items[cursor[i] + 1] \notin S]
           /\ call' = Call("list_delete_all", NULL,
                           Len(items) - keep(Len(items)))
           /\ UNCHANGED open

Create(i) ==
    /\ i \notin open
    /\ open' = open \cup {i}
    /\ Rewind({i})
    /\ UNCHANGED items

Reset(i) ==
    /\ i \in open
    /\ Rewind({i})
    /\ UNCHANGED <<items, open>>

Close(i) ==
    /\ i \in open
    /\ open' = open \ {i}
    /\ Rewind({i})
    /\ UNCHANGED items

\* list_destroy, and list_create for the next list.
Destroy ==
    /\ items' = <<>>
    /\ open' = {}
    /\ Rewind(Iterator)

IterNext(i) ==
    \/ /\ Advance(i)
       /\ call' = Call("list_next", i, Following(i))
    \/ /\ RemoveHeld(i)
       /\ call' = Call("list_remove", i, IF holds[i] THEN items[cursor[i]] ELSE NULL)
    \/ Create(i) /\ call' = Call("list_iterator_create", i, NULL)
    \/ Reset(i) /\ call' = Call("list_iterator_reset", i, NULL)
    \/ Close(i) /\ call' = Call("list_iterator_destroy", i, NULL)

SeqNext ==
    \/ \E x \in Item : Put(x) \/ \E i \in Iterator : Insert(i, x)
    \/ \E i \in Iterator : IterNext(i)
    \/ Pop \/ RemoveMatch \/ DeleteAll
    \/ Sort /\ call' = Call("list_sort", NULL, NULL)
    \/ Destroy /\ call' = Call("list_destroy", NULL, NULL)

SeqSpec == SeqInit /\ [][SeqNext]_seqVars

=============================================================================
