-------------------------------- MODULE List --------------------------------
(***************************************************************************)
(* common/list.c: a singly linked list with iterators, shared by the       *)
(* threads of skrumctld.  A pointer to a pointer (the tail of the list, the*)
(* prev of an iterator) is the address of a next field, and is modelled by *)
(* the node the field belongs to, or by HEAD for the head of the list.     *)
(* Each call holds the mutex of the list, so that calls do not overlap: an *)
(* action is one call of any thread, and iterators of several threads are  *)
(* in the list at the same time.                                           *)
(***************************************************************************)
EXTENDS Integers, FiniteSets, FiniteSetsExt, Sequences, SequencesExt

CONSTANTS
    Node,     \* addresses malloc has for nodes; a freed one is used again
    Item,     \* what the caller puts in the list
    Iterator, \* iterators that may exist at the same time
    HEAD,     \* &l->head
    NULL

ASSUME ListAssumption ==
    /\ IsFiniteSet(Node)
    /\ HEAD \notin Node /\ NULL \notin Node \cup Item \cup {HEAD}

VARIABLES
    l,       \* the list, its nodes and its iterators
    call,    \* the last call: operation, iterator and result
    due,     \* history: the items an iterator has still to return
    passed,  \* history: the items in the list it has returned
    last     \* history: the item list_next returned last, while in the list

vars == <<l, call, due, passed, last>>

Place == Node \cup {HEAD}
Call(op, i, r) == [op |-> op, iter |-> i, ret |-> r]

\* *prev, and (*prev)->next when there is such a node.
At(w, pp) == w.next[pp]

\* assert((i->pos == *i->prev) || ((*i->prev) && (i->pos == (*i->prev)->next)))
Asserted(w) ==
    \A i \in w.iters :
        \/ w.pos[i] = At(w, w.prev[i])
        \/ At(w, w.prev[i]) # NULL /\ w.pos[i] = At(w, At(w, w.prev[i]))

\* list_create
Empty ==
    [next |-> [p \in Place |-> NULL], data |-> [n \in Node |-> NULL],
     heap |-> {}, tail |-> HEAD, count |-> 0, iters |-> {},
     pos |-> [i \in Iterator |-> NULL], prev |-> [i \in Iterator |-> HEAD],
     sane |-> TRUE]

Init ==
    /\ l = Empty
    /\ call = Call("list_create", NULL, NULL)
    /\ due = [i \in Iterator |-> {}]
    /\ passed = [i \in Iterator |-> {}]
    /\ last = [i \in Iterator |-> NULL]

-----------------------------------------------------------------------------
(* The two functions every change of the list goes through. *)

\* _list_node_create: a node p for x behind the next field pp.
NodeCreate(w, pp, p, x) ==
    LET q == At(w, pp)
        v == [w EXCEPT
                !.heap = @ \cup {p},
                !.data[p] = x,
                !.next = [@ EXCEPT ![p] = q, ![pp] = p],
                !.tail = IF q = NULL THEN p ELSE @,
                !.count = @ + 1,
                !.prev = [i \in Iterator |->
                            IF i \in w.iters /\ @[i] = pp THEN p ELSE @[i]],
                !.pos = [i \in Iterator |->
                            IF i \in w.iters /\ w.prev[i] # pp /\ @[i] = q
                            THEN p ELSE @[i]]]
    IN [v EXCEPT !.sane = @ /\ Asserted(v)]

\* The three pointers that _list_node_destroy corrects when it takes out the node
\* p behind pp, two of them after a mutant: tail still addresses the next field of
\* p; only iterators at p are looked after, not the one behind it.
TailKept(w, pp) == w.tail
TailAfter(w, pp) == IF w.next[At(w, pp)] = NULL THEN pp ELSE w.tail

PrevAtOnly(w, pp, i) ==
    IF i \in w.iters /\ w.pos[i] = At(w, pp) THEN pp ELSE w.prev[i]
PrevAfter(w, pp, i) ==
    IF i \in w.iters /\ At(w, pp) \in {w.pos[i], w.prev[i]} THEN pp ELSE w.prev[i]

PosAfter(w, pp, i) ==
    IF i \in w.iters /\ w.pos[i] = At(w, pp) THEN w.next[At(w, pp)] ELSE w.pos[i]

\* _list_node_destroy: the node the next field pp points to, if any.
NodeDestroy(w, pp) ==
    LET p == At(w, pp)
        v == [w EXCEPT
                !.heap = @ \ {p},
                !.data[p] = NULL,
                !.next = [@ EXCEPT ![pp] = w.next[p], ![p] = NULL],
                !.count = @ - 1,
                !.tail = TailAfter(w, pp),
                !.prev = [i \in Iterator |-> PrevAfter(w, pp, i)],
                !.pos = [i \in Iterator |-> PosAfter(w, pp, i)]]
    IN IF p = NULL THEN w ELSE [v EXCEPT !.sane = @ /\ Asserted(v)]

\* The nodes of the list in order, as a walk along next finds them.
Walk(w) ==
    LET step[k \in 1 .. Cardinality(Node) + 1] ==
            IF k = 1 THEN w.next[HEAD]
            ELSE IF step[k - 1] = NULL THEN NULL ELSE w.next[step[k - 1]]
    IN Restrict(step, {k \in DOMAIN step : step[k] # NULL})

Items(w) == LET walk == Walk(w) IN [k \in DOMAIN walk |-> w.data[walk[k]]]
ItemSet == ToSet(Items(l))

\* What a call that changes nothing but the nodes does to the history: the
\* items that left the list are no iterator's business any more.
Track(op, i, r, w) ==
    /\ l' = w
    /\ call' = Call(op, i, r)
    /\ LET in == ToSet(Items(w))
       IN /\ due' = [j \in Iterator |-> due[j] \cap in]
          /\ passed' = [j \in Iterator |-> passed[j] \cap in]
          /\ last' = [j \in Iterator |-> IF last[j] \in in THEN last[j] ELSE NULL]

\* What the n turns of a loop make of w.
Loop(turn(_, _), w, n) ==
    LET st[k \in 0 .. n] == IF k = 0 THEN w ELSE turn(st[k - 1], k)
    IN st[n]

\* The items of xs appended to w, in the nodes of ps.
Appended(w, ps, xs) ==
    LET Push(v, k) == NodeCreate(v, v.tail, ps[k], xs[k])
    IN Loop(Push, w, Len(xs))

-----------------------------------------------------------------------------
(* Calls on the list. *)

New(x) == x \in Item \ ItemSet

\* list_append, list_enqueue and _list_append_locked
ListAppend(x) ==
    /\ New(x)
    /\ \E p \in Node \ l.heap :
           Track("list_append", NULL, x, NodeCreate(l, l.tail, p, x))

\* list_prepend and list_push
ListPrepend(x) ==
    /\ New(x)
    /\ \E p \in Node \ l.heap :
           Track("list_prepend", NULL, x, NodeCreate(l, HEAD, p, x))

\* list_pop, list_dequeue and _list_pop_locked
ListPop ==
    LET p == l.next[HEAD]
    IN Track("list_pop", NULL, IF p = NULL THEN NULL ELSE l.data[p],
             NodeDestroy(l, HEAD))

\* list_remove_first, for the first node that matches.
ListRemoveFirst ==
    \E pp \in {HEAD} \cup ToSet(Walk(l)) :
        /\ At(l, pp) # NULL
        /\ Track("list_remove_first", NULL, l.data[At(l, pp)], NodeDestroy(l, pp))

\* list_delete_all: one walk along the next fields, which stays where it is
\* after a removal.  list_flush is the walk that every item matches.
ListDeleteAll ==
    \E S \in SUBSET Item :
        LET s == Items(l)
            Visit(v, k) == IF s[k] \in S
                           THEN [v EXCEPT !.w = NodeDestroy(@, v.pp), !.n = @ + 1]
                           ELSE [v EXCEPT !.pp = At(v.w, @)]
            end == Loop(Visit, [w |-> l, pp |-> HEAD, n |-> 0], Len(s))
        IN Track("list_delete_all", NULL, end.n, end.w)

\* Mutant: the iterators are forgotten.
NotAtHead(w, I) == w

\* Iterators that start, or start again, at the first node.
AtHead(w, I) == [w EXCEPT !.pos = [j \in Iterator |-> IF j \in I THEN w.next[HEAD] ELSE @[j]],
                          !.prev = [j \in Iterator |-> IF j \in I THEN HEAD ELSE @[j]]]

Restart(I, op, i, w) ==
    /\ l' = w
    /\ call' = Call(op, i, NULL)
    /\ due' = [j \in Iterator |-> IF j \in I THEN ToSet(Items(w)) ELSE due[j]]
    /\ passed' = [j \in Iterator |-> IF j \in I THEN {} ELSE passed[j]]
    /\ last' = [j \in Iterator |-> IF j \in I THEN NULL ELSE last[j]]

\* list_sort: every node is popped, the items are sorted in an array and
\* appended again, and the iterators go back to the head.  The comparison
\* function may ask for any order.
ListSort ==
    IF l.count <= 1
    THEN Restart({}, "list_sort", NULL, l)
    ELSE \E s \in SetToSeqs(ItemSet), ps \in Injection(1 .. l.count, Node) :
            LET Pop(v, k) == NodeDestroy(v, HEAD)
                w == Appended(Loop(Pop, l, l.count), ps, s)
            IN Restart(l.iters, "list_sort", NULL, AtHead(w, l.iters))

\* What the calls return that only read.  list_is_empty tests the count.
ListPeek == IF l.next[HEAD] = NULL THEN NULL ELSE l.data[l.next[HEAD]]
ListCount == l.count

\* list_find_first, for the items in S.
ListFindFirst(S) ==
    LET walk == Walk(l)
        found == {k \in DOMAIN walk : l.data[walk[k]] \in S}
    IN IF found = {} THEN NULL ELSE l.data[walk[Min(found)]]

\* list_shallow_copy: a list of its own.
ListShallowCopy == Appended(Empty, Walk(l), Items(l))

\* The bound on the items; the mutant goes to one more.
ReachedLate(k, max) == max >= 0 /\ k > max
Reached(k, max) == k = max

\* list_for_each_max, with a function that fails for the items in S: how many items
\* it went to (negative if it failed for one), and what it leaves in *max.
\* list_for_each and list_for_each_nobreak have max = -1.
ListForEachMax(S, max, breaks) ==
    LET walk == Walk(l)
        Visit(s, k) ==
            IF s.stop \/ Reached(s.n, max) THEN s
            ELSE [n |-> s.n + 1, failed |-> s.failed \/ l.data[walk[k]] \in S,
                  stop |-> breaks /\ l.data[walk[k]] \in S]
        end == Loop(Visit, [n |-> 0, failed |-> FALSE, stop |-> FALSE], Len(walk))
    IN <<IF end.failed THEN -end.n ELSE end.n, l.count - end.n>>

\* list_destroy frees iterators and nodes; the caller may create a new list.
ListDestroy == Restart(Iterator, "list_destroy", NULL, [Empty EXCEPT !.sane = l.sane])

-----------------------------------------------------------------------------
(* Calls on an iterator. *)

ListIteratorCreate(i) ==
    /\ i \notin l.iters
    /\ Restart({i}, "list_iterator_create", i,
               AtHead([l EXCEPT !.iters = @ \cup {i}], {i}))

ListIteratorReset(i) ==
    /\ i \in l.iters
    /\ Restart({i}, "list_iterator_reset", i, AtHead(l, {i}))

ListIteratorDestroy(i) ==
    /\ i \in l.iters
    /\ l' = [l EXCEPT !.iters = @ \ {i}, !.pos[i] = NULL, !.prev[i] = HEAD]
    /\ call' = Call("list_iterator_destroy", i, NULL)
    /\ due' = [due EXCEPT ![i] = {}]
    /\ passed' = [passed EXCEPT ![i] = {}]
    /\ last' = [last EXCEPT ![i] = NULL]

\* prev after list_next: it stays behind until pos has gone past it.
PrevNext(i) == IF At(l, l.prev[i]) # l.pos[i] THEN At(l, l.prev[i]) ELSE l.prev[i]

\* Mutant: pos does not move when prev does.
PosNextElse(i, p) ==
    IF p = NULL \/ PrevNext(i) # l.prev[i] THEN p ELSE l.next[p]
PosNext(i, p) == IF p = NULL THEN NULL ELSE l.next[p]

\* list_next.  list_find is a sequence of these calls.
ListNext(i) ==
    /\ i \in l.iters
    /\ LET p == l.pos[i]
           x == IF p = NULL THEN NULL ELSE l.data[p]
       IN /\ l' = [l EXCEPT
                     !.pos[i] = PosNext(i, p),
                     !.prev[i] = PrevNext(i)]
          /\ call' = Call("list_next", i, x)
          /\ due' = [due EXCEPT ![i] = @ \ {x}]
          /\ passed' = [passed EXCEPT ![i] = @ \cup ({x} \ {NULL})]
          /\ last' = [last EXCEPT ![i] = x]

\* Mutant: behind the item returned last, not before it.
ListInsertBehind(i, x) ==
    /\ i \in l.iters
    /\ New(x)
    /\ \E p \in Node \ l.heap, pp \in {l.prev[i], At(l, l.prev[i])} :
           /\ pp \in Place /\ At(l, pp) = l.pos[i]
           /\ Track("list_insert", i, x, NodeCreate(l, pp, p, x))

ListInsert(i, x) ==
    /\ i \in l.iters
    /\ New(x)
    /\ \E p \in Node \ l.heap :
           Track("list_insert", i, x, NodeCreate(l, l.prev[i], p, x))

\* Mutant: the node after prev, even if it has not been returned.
ListRemoveUnchecked(i) ==
    /\ i \in l.iters
    /\ LET pp == l.prev[i]
       IN IF At(l, pp) # NULL
          THEN Track("list_remove", i, l.data[At(l, pp)], NodeDestroy(l, pp))
          ELSE Track("list_remove", i, NULL, l)

\* list_remove, and the part of list_delete_item that holds the lock.
ListRemove(i) ==
    /\ i \in l.iters
    /\ LET pp == l.prev[i]
       IN IF At(l, pp) # l.pos[i]
          THEN Track("list_remove", i, l.data[At(l, pp)], NodeDestroy(l, pp))
          ELSE Track("list_remove", i, NULL, l)

Next ==
    \/ \E x \in Item : \/ ListAppend(x) \/ ListPrepend(x)
                       \/ \E i \in Iterator : ListInsert(i, x)
    \/ ListPop \/ ListRemoveFirst \/ ListDeleteAll \/ ListSort \/ ListDestroy
    \/ \E i \in Iterator : \/ ListIteratorCreate(i) \/ ListIteratorReset(i)
                           \/ ListIteratorDestroy(i)
                           \/ ListNext(i) \/ ListRemove(i)

Spec == Init /\ [][Next]_vars

-----------------------------------------------------------------------------
(* What callers rely on. *)

TypeOK ==
    /\ l.next \in [Place -> Node \cup {NULL}]
    /\ l.data \in [Node -> Item \cup {NULL}]
    /\ l.heap \subseteq Node
    /\ l.tail \in Place
    /\ l.count \in 0 .. Cardinality(Node)
    /\ l.iters \subseteq Iterator
    /\ l.pos \in [Iterator -> Node \cup {NULL}]
    /\ l.prev \in [Iterator -> Place]
    /\ l.sane \in BOOLEAN
    /\ due \in [Iterator -> SUBSET Item]
    /\ passed \in [Iterator -> SUBSET Item]
    /\ last \in [Iterator -> Item \cup {NULL}]

\* The next fields lead from the head through every node that is allocated, once
\* each, to the one that tail addresses, and count is their number: no call
\* leaks a node, closes a cycle or appends behind a node that has gone.
Linked ==
    LET walk == Walk(l)
    IN /\ ToSet(walk) = l.heap
       /\ Len(walk) = Cardinality(l.heap) /\ ListCount = Len(walk)
       /\ l.tail = IF walk = <<>> THEN HEAD ELSE Last(walk)
       /\ l.next[l.tail] = NULL

\* The calls that read see the items in their order: the first, the first that is
\* wanted, a copy, and so many that a walk with a bound or an early end goes to.
ReadsAgree ==
    LET s == Items(l)
        End(x, max, breaks) ==
            Min({Len(s)} \cup (IF max = -1 THEN {} ELSE {max})
                \cup {k \in DOMAIN s : breaks /\ s[k] = x})
    IN /\ ListPeek = IF s = <<>> THEN NULL ELSE Head(s)
       /\ Items(ListShallowCopy) = s
       /\ \A x \in Item :
             /\ ListFindFirst({x}) = IF x \in ToSet(s) THEN x ELSE NULL
             /\ \A max \in {-1, 1, 2}, breaks \in BOOLEAN :
                   LET n == End(x, max, breaks)
                   IN ListForEachMax({x}, max, breaks) =
                        <<IF \E k \in 1 .. n : s[k] = x THEN -n ELSE n, Len(s) - n>>

\* The assertions of _list_node_create and _list_node_destroy never fail, with
\* several iterators in the list and through list_sort, and no iterator is left
\* at a node that has been freed.
NoneDangles ==
    /\ l.sane
    /\ \A i \in l.iters : /\ l.prev[i] \in l.heap \cup {HEAD}
                          /\ l.pos[i] \in l.heap \cup {NULL}

\* Whatever other callers insert, remove or iterate meanwhile, an item that was
\* in the list when the iterator started and has not been removed is returned
\* before the end is: it is at or behind pos.
Complete ==
    LET walk == Walk(l)
        before(i) == {k \in DOMAIN walk : \A m \in 1 .. k : walk[m] # l.pos[i]}
    IN \A i \in l.iters, k \in DOMAIN walk :
          l.data[walk[k]] \in due[i] => k \notin before(i)

\* ... and no item that stays in the list is returned twice.
NoRepeat ==
    [][call'.op = "list_next" => call'.ret \notin passed[call'.iter]]_vars

\* list_remove never takes out another item than the one list_next returned.
RemovesOnlyLast ==
    [][call'.op = "list_remove" => call'.ret \in {NULL, last[call'.iter]}]_vars

\* The nodes and pointers implement a sequence with places in it.
cursor ==
    LET walk == Walk(l)
    IN [i \in Iterator |->
          IF i \notin l.iters THEN 0
          ELSE IF l.pos[i] = NULL THEN Len(walk)
          ELSE (CHOOSE k \in DOMAIN walk : walk[k] = l.pos[i]) - 1]
holds == [i \in Iterator |-> i \in l.iters /\ At(l, l.prev[i]) # l.pos[i]]

Sequence == INSTANCE ListSeq WITH items <- Items(l), open <- l.iters,
                                  MaxLen <- Cardinality(Node)
ImplementsSequence == Sequence!SeqSpec

=============================================================================
