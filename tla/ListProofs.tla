------------------------------ MODULE ListProofs ------------------------------
(***************************************************************************)
(* Proofs about List.  ListInv says that the list is a chain of nodes, where*)
(* in the chain each iterator is, and what the history variables have to do*)
(* with that.  Every call is _list_node_create or _list_node_destroy at a  *)
(* place of the chain, a loop of these, or moves iterators; a loop has an  *)
(* invariant of its own, and Induct takes it to the last turn.             *)
(***************************************************************************)
EXTENDS List, TLAPS, WellFoundedInduction, FiniteSetTheorems, SequenceTheorems

-----------------------------------------------------------------------------
(* Induction *)

\* The natural numbers are well-founded: a set of them has a least member.
LEMMA LessIsWellFounded ==
    IsWellFoundedOn({ss \in Nat \X Nat : ss[1] < ss[2]}, Nat)
BY NatLessThanWellFounded DEF OpToRel

\* Induction over a set of numbers.
LEMMA Induct ==
    ASSUME NEW T, 0 \in T, \A n \in Nat : n \in T => n + 1 \in T
    PROVE  Nat \subseteq T
<1> DEFINE R == {ss \in Nat \X Nat : ss[1] < ss[2]}
           U == Nat \ T
<1> SUFFICES ASSUME U # {}  PROVE FALSE
  OBVIOUS
<1>1. IsWellFoundedOn(R, Nat)
  BY LessIsWellFounded
<1> HIDE DEF R
<1>2. PICK x \in U : \A y \in U : ~(<<y, x>> \in R)
  <2>1. \E x \in U : \A y \in U : ~(<<y, x>> \in R)
    BY <1>1, WFMin
  <2> QED  BY <2>1
<1>3. x \in Nat /\ x # 0
  OBVIOUS
<1>4. x - 1 \in U
  BY <1>3
<1>5. <<x - 1, x>> \in R
  BY <1>3 DEF R
<1> QED  BY <1>2, <1>4, <1>5

-----------------------------------------------------------------------------
(* The list as a chain: c[0] is the head, c[1] to c[n] are its nodes, and       *)
(* c[n + 1] is the null pointer; iterator i has gone past at[i] nodes and, if    *)
(* hold[i], list_remove would take out the last of them.                       *)

State ==
    [next : [Place -> Node \cup {NULL}], data : [Node -> Item \cup {NULL}],
     heap : SUBSET Node, tail : Place, count : Nat, iters : SUBSET Iterator,
     pos : [Iterator -> Node \cup {NULL}], prev : [Iterator -> Place],
     sane : BOOLEAN]

Nodes(w, n, c) ==
    /\ n \in Nat /\ c \in [0 .. n + 1 -> Place \cup {NULL}]
    /\ c[0] = HEAD /\ c[n + 1] = NULL
    /\ \A j \in 1 .. n : c[j] \in w.heap
    /\ \A j, k \in 1 .. n : c[j] = c[k] => j = k
    /\ \A p \in w.heap : \E j \in 1 .. n : c[j] = p
    /\ \A j \in 0 .. n : w.next[c[j]] = c[j + 1]
    /\ \A j \in 1 .. n : w.data[c[j]] \in Item
    /\ w.tail = c[n]
    /\ w.count = n

\* The place whose next field prev addresses.
Rest(at, hold, i) == IF hold[i] THEN at[i] - 1 ELSE at[i]

Iters(w, n, c, at, hold) ==
    /\ at \in [Iterator -> Nat] /\ hold \in [Iterator -> BOOLEAN]
    /\ \A i \in w.iters :
          /\ at[i] <= n /\ (hold[i] => at[i] > 0)
          /\ w.prev[i] = c[Rest(at, hold, i)]
          /\ w.pos[i] = c[at[i] + 1]

Chain(w, n, c, at, hold) ==
    w \in State /\ w.sane /\ Nodes(w, n, c) /\ Iters(w, n, c, at, hold)

\* The members of the chain are different places, and null is behind the last.
LEMMA Places ==
    ASSUME NEW w \in State, NEW n, NEW c, Nodes(w, n, c)
    PROVE  /\ \A j \in 0 .. n : c[j] \in Place /\ c[j] # NULL
           /\ \A j \in 1 .. n : c[j] \in Node /\ c[j] # HEAD
           /\ \A j, k \in 0 .. n + 1 : c[j] = c[k] => j = k
<1>1. w.heap \subseteq Node
  BY DEF State
<1>2. \A j \in 1 .. n : c[j] \in Node /\ c[j] # HEAD /\ c[j] # NULL
  BY <1>1, ListAssumption DEF Nodes
<1>3. c[0] = HEAD /\ HEAD # NULL /\ c[n + 1] = NULL /\ n \in Nat
  BY ListAssumption DEF Nodes
<1>4. ASSUME NEW j \in 0 .. n  PROVE c[j] \in Place /\ c[j] # NULL
  <2>1. CASE j = 0
    BY <1>3, <2>1 DEF Place
  <2>2. CASE j \in 1 .. n
    BY <1>2, <2>2 DEF Place
  <2> QED  BY <2>1, <2>2
<1>5. ASSUME NEW j \in 0 .. n + 1, NEW k \in 0 .. n + 1, c[j] = c[k]  PROVE j = k
  <2>1. CASE j = 0
    <3>1. k # n + 1 /\ k \notin 1 .. n
      BY <1>2, <1>3, <1>5, <2>1
    <3> QED  BY <1>3, <2>1, <3>1
  <2>2. CASE j = n + 1
    <3>1. k # 0 /\ k \notin 1 .. n
      BY <1>2, <1>3, <1>5, <2>2
    <3> QED  BY <1>3, <2>2, <3>1
  <2>3. CASE j \in 1 .. n
    <3>1. k # 0 /\ k # n + 1
      BY <1>2, <1>3, <1>5, <2>3
    <3>2. k \in 1 .. n
      BY <1>3, <3>1
    <3> QED  BY <1>5, <2>3, <3>2 DEF Nodes
  <2> QED  BY <1>3, <2>1, <2>2, <2>3
<1> QED  BY <1>2, <1>4, <1>5

\* The assertion in both functions.
LEMMA AssertedIs ==
    ASSUME NEW w \in State, NEW n, NEW c, NEW at, NEW hold,
           Nodes(w, n, c), Iters(w, n, c, at, hold)
    PROVE  Asserted(w)
<1> SUFFICES ASSUME NEW i \in w.iters
             PROVE  \/ w.pos[i] = At(w, w.prev[i])
                    \/ /\ At(w, w.prev[i]) # NULL
                       /\ w.pos[i] = At(w, At(w, w.prev[i]))
  BY DEF Asserted
<1>1. i \in Iterator /\ at[i] \in Nat /\ n \in Nat /\ at[i] <= n
  BY DEF Iters, Nodes, State
<1>2. CASE ~hold[i]
  <2>1. w.prev[i] = c[at[i]] /\ w.pos[i] = c[at[i] + 1]
    BY <1>2 DEF Iters, Rest
  <2> QED  BY <1>1, <2>1 DEF Nodes, At
<1>3. CASE hold[i]
  <2>1. /\ w.prev[i] = c[at[i] - 1] /\ w.pos[i] = c[at[i] + 1]
        /\ at[i] - 1 \in 0 .. n /\ at[i] \in 0 .. n
    BY <1>1, <1>3 DEF Iters, Rest
  <2>2. w.next[c[at[i] - 1]] = c[at[i]]
    BY <1>1, <2>1 DEF Nodes
  <2>3. w.next[c[at[i]]] = c[at[i] + 1]
    BY <2>1 DEF Nodes
  <2>4. c[at[i]] # NULL
    BY <2>1, Places
  <2> QED  BY <2>1, <2>2, <2>3, <2>4 DEF At
<1> QED  BY <1>2, <1>3

-----------------------------------------------------------------------------
(* _list_node_create *)

\* The chain with p behind place k, and the iterators.
Inserted(n, c, k, p) ==
    [j \in 0 .. n + 2 |-> IF j <= k THEN c[j] ELSE IF j = k + 1 THEN p ELSE c[j - 1]]
Moved(w, at, hold, k) ==
    [i \in Iterator |->
        IF i \in w.iters /\ k <= Rest(at, hold, i) THEN at[i] + 1 ELSE at[i]]

\* A list of which the fields are given is a list.
LEMMA StateExcept ==
    ASSUME NEW w \in State, NEW u,
           u = [w EXCEPT !.heap = u.heap, !.data = u.data, !.next = u.next, !.tail = u.tail,
                         !.count = u.count, !.prev = u.prev, !.pos = u.pos],
           u.heap \in SUBSET Node, u.data \in [Node -> Item \cup {NULL}],
           u.next \in [Place -> Node \cup {NULL}], u.tail \in Place, u.count \in Nat,
           u.prev \in [Iterator -> Place], u.pos \in [Iterator -> Node \cup {NULL}]
    PROVE  u \in State
BY DEF State

Created(v, w, pp, p, x) ==
    /\ v \in State
    /\ v.heap = w.heap \cup {p}
    /\ v.data = [w.data EXCEPT ![p] = x]
    /\ v.next = [w.next EXCEPT ![p] = w.next[pp], ![pp] = p]
    /\ v.tail = IF w.next[pp] = NULL THEN p ELSE w.tail
    /\ v.count = w.count + 1
    /\ v.iters = w.iters
    /\ v.prev = [i \in Iterator |->
                   IF i \in w.iters /\ w.prev[i] = pp THEN p ELSE w.prev[i]]
    /\ v.pos = [i \in Iterator |->
                  IF i \in w.iters /\ w.prev[i] # pp /\ w.pos[i] = w.next[pp]
                  THEN p ELSE w.pos[i]]
    /\ v.sane <=> w.sane /\ Asserted(v)

\* _list_node_create, field by field.
LEMMA CreateFields ==
    ASSUME NEW w \in State, NEW pp \in Place, NEW p \in Node, NEW x \in Item
    PROVE  Created(NodeCreate(w, pp, p, x), w, pp, p, x)
<1> DEFINE v == NodeCreate(w, pp, p, x)
           q == w.next[pp]
           u == [w EXCEPT
                !.heap = @ \cup {p},
                !.data[p] = x,
                !.next = [@ EXCEPT ![p] = q, ![pp] = p],
                !.tail = IF q = NULL THEN p ELSE @,
                !.count = @ + 1,
                !.prev = [i \in Iterator |->
                            IF i \in w.iters /\ @[i] = pp THEN p ELSE @[i]],
                !.pos = [i \in Iterator |->
                            IF i \in w.iters /\ w.prev[i] # pp /\ @[i] = q
                            THEN p ELSE @[i]]]
<1>1. v = [u EXCEPT !.sane = @ /\ Asserted(u)]
  BY DEF NodeCreate, At
<1>2. /\ w.heap \subseteq Node /\ w.data \in [Node -> Item \cup {NULL}]
      /\ w.next \in [Place -> Node \cup {NULL}] /\ w.tail \in Place /\ w.count \in Nat
      /\ w.pos \in [Iterator -> Node \cup {NULL}] /\ w.prev \in [Iterator -> Place]
      /\ w.sane \in BOOLEAN /\ w.iters \subseteq Iterator /\ p \in Place
  BY DEF State, Place
<1>3. /\ u.heap = w.heap \cup {p}
      /\ u.data = [w.data EXCEPT ![p] = x]
      /\ u.next = [w.next EXCEPT ![p] = q, ![pp] = p]
      /\ u.tail = IF q = NULL THEN p ELSE w.tail
      /\ u.count = w.count + 1
      /\ u.iters = w.iters
      /\ u.prev = [i \in Iterator |->
                     IF i \in w.iters /\ w.prev[i] = pp THEN p ELSE w.prev[i]]
      /\ u.pos = [i \in Iterator |->
                    IF i \in w.iters /\ w.prev[i] # pp /\ w.pos[i] = q
                    THEN p ELSE w.pos[i]]
      /\ u.sane = w.sane
  BY DEF State
<1>4. u \in State
  <2>1. /\ u.heap \in SUBSET Node /\ u.data \in [Node -> Item \cup {NULL}]
        /\ u.next \in [Place -> Node \cup {NULL}] /\ u.tail \in Place /\ u.count \in Nat
        /\ u.pos \in [Iterator -> Node \cup {NULL}] /\ u.prev \in [Iterator -> Place]
        /\ u.sane \in BOOLEAN /\ u.iters \in SUBSET Iterator
    <3> HIDE DEF u
    <3>1. q \in Node \cup {NULL}
      BY <1>2
    <3> QED  BY <1>2, <1>3, <3>1 DEF Place
  <2>2. u = [w EXCEPT !.heap = u.heap, !.data = u.data, !.next = u.next, !.tail = u.tail,
                      !.count = u.count, !.prev = u.prev, !.pos = u.pos]
    BY <1>3
  <2> HIDE DEF u
  <2> QED  BY <2>1, <2>2, StateExcept
<1> HIDE DEF u, v
<1>5. /\ v.heap = u.heap /\ v.data = u.data /\ v.next = u.next /\ v.tail = u.tail
      /\ v.count = u.count /\ v.iters = u.iters /\ v.prev = u.prev /\ v.pos = u.pos
      /\ v.sane = (u.sane /\ Asserted(u)) /\ v \in State
  BY <1>1, <1>4 DEF State, Asserted
<1>6. Asserted(v) <=> Asserted(u)
  BY <1>5 DEF Asserted, At
<1>7. Created(v, w, pp, p, x)
  BY <1>3, <1>5, <1>6 DEF Created
<1> QED  BY <1>7 DEF v

IsInserted(d, n, c, k, p) ==
    /\ DOMAIN d = 0 .. n + 2
    /\ \A j \in 0 .. k : d[j] = c[j]
    /\ d[k + 1] = p
    /\ \A j \in k + 1 .. n + 1 : d[j + 1] = c[j]

\* The chain with a node more, member by member.
LEMMA InsertedIs ==
    ASSUME NEW n \in Nat, NEW k \in 0 .. n, NEW c, NEW p
    PROVE  IsInserted(Inserted(n, c, k, p), n, c, k, p)
BY DEF Inserted, IsInserted

\* _list_node_create keeps the chain: the new node is in it behind place k.
LEMMA CreateNodes ==
    ASSUME NEW w \in State, NEW n \in Nat, NEW k \in 0 .. n,
           NEW p \in Node \ w.heap, NEW x \in Item, NEW c, Nodes(w, n, c)
    PROVE  Nodes(NodeCreate(w, c[k], p, x), n + 1, Inserted(n, c, k, p))
<1> DEFINE v == NodeCreate(w, c[k], p, x)
           d == Inserted(n, c, k, p)
<1>1. /\ n \in Nat /\ p \in Node /\ p \in Place /\ c[k] \in Place /\ c[k] # NULL
      /\ w.next[c[k]] = c[k + 1]
  <2>1. c[k] \in Place /\ c[k] # NULL
    BY Places
  <2> QED  BY <2>1 DEF Nodes, Place
<1>0. v = NodeCreate(w, c[k], p, x) /\ d = Inserted(n, c, k, p)
  OBVIOUS
<1>4. d = [j \in 0 .. n + 2 |-> d[j]]
  BY DEF Inserted
<1> HIDE DEF v, d
<1>2. /\ v.heap = w.heap \cup {p}
      /\ v.data = [w.data EXCEPT ![p] = x]
      /\ v.next = [w.next EXCEPT ![p] = c[k + 1], ![c[k]] = p]
      /\ v.tail = IF c[k + 1] = NULL THEN p ELSE w.tail
      /\ v.count = w.count + 1
  <2>1. Created(v, w, c[k], p, x)
    BY <1>0, <1>1, CreateFields
  <2> QED  BY <1>1, <2>1 DEF Created
<1>3. /\ DOMAIN d = 0 .. n + 2
      /\ \A j \in 0 .. k : d[j] = c[j]
      /\ d[k + 1] = p
      /\ \A j \in k + 1 .. n + 1 : d[j + 1] = c[j]
  <2>1. IsInserted(d, n, c, k, p)
    BY <1>0, InsertedIs
  <2> QED  BY <2>1 DEF IsInserted
<1>5. /\ w.next \in [Place -> Node \cup {NULL}] /\ w.data \in [Node -> Item \cup {NULL}]
      /\ w.heap \subseteq Node
  BY DEF State
<1>6. /\ c[0] = HEAD /\ c[n + 1] = NULL /\ w.tail = c[n] /\ w.count = n
      /\ c \in [0 .. n + 1 -> Place \cup {NULL}]
      /\ \A j \in 0 .. n : w.next[c[j]] = c[j + 1]
      /\ \A j \in 1 .. n : w.data[c[j]] \in Item /\ c[j] \in w.heap
      /\ \A y \in w.heap : \E j \in 1 .. n : c[j] = y
  BY DEF Nodes
<1>7. /\ \A j \in 0 .. n : c[j] \in Place /\ c[j] # NULL
      /\ \A j \in 1 .. n : c[j] \in Node /\ c[j] # HEAD
      /\ \A j, m \in 0 .. n + 1 : c[j] = c[m] => j = m
  BY Places
<1>8. \A j \in 0 .. n : c[j] # p
  <2>1. p # HEAD
    BY ListAssumption
  <2> QED  BY <1>1, <1>6, <2>1
\* an index of d is before, at or behind the new place
<1>9. \A j \in 0 .. n + 2 : j \in 0 .. k \/ j = k + 1 \/ (j - 1 \in k + 1 .. n + 1 /\ d[j] = c[j - 1])
  <2> SUFFICES ASSUME NEW j \in 0 .. n + 2, j > k + 1
               PROVE  j - 1 \in k + 1 .. n + 1 /\ d[j] = c[j - 1]
    BY <1>1
  <2>1. j - 1 \in k + 1 .. n + 1 /\ (j - 1) + 1 = j
    BY <1>1
  <2> QED  BY <1>3, <2>1
<1>10. d \in [0 .. n + 2 -> Place \cup {NULL}]
  <2> SUFFICES ASSUME NEW j \in 0 .. n + 2  PROVE d[j] \in Place \cup {NULL}
    BY <1>4
  <2>1. CASE j = k + 1
    BY <1>1, <1>3, <2>1
  <2>2. CASE j \in 0 .. k
    BY <1>1, <1>3, <1>6, <2>2
  <2>3. CASE j - 1 \in k + 1 .. n + 1 /\ d[j] = c[j - 1]
    BY <1>1, <1>6, <2>3
  <2> QED  BY <1>9, <2>1, <2>2, <2>3
<1>11. d[0] = HEAD /\ d[n + 2] = NULL
  <2>1. 0 \in 0 .. k /\ n + 1 \in k + 1 .. n + 1
    BY <1>1
  <2>2. d[(n + 1) + 1] = c[n + 1]
    BY <1>3, <2>1
  <2> QED  BY <1>1, <1>3, <1>6, <2>1, <2>2
<1>12. \A j \in 1 .. n + 1 : d[j] \in v.heap /\ v.data[d[j]] \in Item
  <2> SUFFICES ASSUME NEW j \in 1 .. n + 1
               PROVE  d[j] \in v.heap /\ v.data[d[j]] \in Item
    OBVIOUS
  <2>1. CASE j = k + 1
    <3>1. v.data[p] = x
      BY <1>2, <1>5
    <3> QED  BY <1>2, <1>3, <2>1, <3>1
  <2>2. CASE j \in 1 .. k
    <3>1. j \in 1 .. n /\ d[j] = c[j]
      BY <1>3, <2>2
    <3>2. c[j] \in w.heap /\ w.data[c[j]] \in Item /\ c[j] # p
      BY <1>6, <1>8, <3>1
    <3> QED  BY <1>2, <1>5, <3>1, <3>2
  <2>3. CASE j > k + 1
    <3>1. j - 1 \in 1 .. n /\ d[j] = c[j - 1]
      BY <1>1, <1>9, <2>3
    <3>2. c[j - 1] \in w.heap /\ w.data[c[j - 1]] \in Item /\ c[j - 1] # p
      BY <1>6, <1>8, <3>1
    <3> QED  BY <1>2, <1>5, <3>1, <3>2
  <2> QED  BY <1>1, <2>1, <2>2, <2>3
<1>13. ASSUME NEW j \in 1 .. n + 1, NEW m \in 1 .. n + 1, d[j] = d[m]  PROVE j = m
  <2>1. \A e \in 1 .. n + 1 :
            \/ e = k + 1 /\ d[e] = p
            \/ e \in 1 .. k /\ d[e] = c[e] /\ c[e] # p
            \/ e - 1 \in k + 1 .. n /\ d[e] = c[e - 1] /\ c[e - 1] # p
    <3> SUFFICES ASSUME NEW e \in 1 .. n + 1, e # k + 1
                 PROVE  \/ e \in 1 .. k /\ d[e] = c[e] /\ c[e] # p
                        \/ e - 1 \in k + 1 .. n /\ d[e] = c[e - 1] /\ c[e - 1] # p
      BY <1>3
    <3>1. CASE e \in 1 .. k
      BY <1>1, <1>3, <1>8, <3>1
    <3>2. CASE e > k + 1
      <4>1. e - 1 \in k + 1 .. n /\ d[e] = c[e - 1]
        BY <1>1, <1>9, <3>2
      <4> QED  BY <1>8, <4>1
    <3> QED  BY <3>1, <3>2
  <2> QED  BY <1>1, <1>7, <1>13, <2>1
<1>14. \A y \in v.heap : \E j \in 1 .. n + 1 : d[j] = y
  <2> SUFFICES ASSUME NEW y \in w.heap  PROVE \E j \in 1 .. n + 1 : d[j] = y
    BY <1>1, <1>2, <1>3
  <2>1. PICK j \in 1 .. n : c[j] = y
    BY <1>6
  <2>2. CASE j <= k
    BY <1>1, <1>3, <2>1, <2>2
  <2>3. CASE j > k
    <3>1. d[j + 1] = c[j] /\ j + 1 \in 1 .. n + 1
      BY <1>1, <1>3, <2>3
    <3> QED  BY <2>1, <3>1
  <2> QED  BY <2>2, <2>3
<1>15. \A j \in 0 .. n + 1 : v.next[d[j]] = d[j + 1]
  <2> SUFFICES ASSUME NEW j \in 0 .. n + 1  PROVE v.next[d[j]] = d[j + 1]
    OBVIOUS
  <2>1. CASE j = k + 1
    <3>1. v.next[p] = c[k + 1]
      BY <1>1, <1>2, <1>5, <1>8
    <3>2. d[(k + 1) + 1] = c[k + 1]
      BY <1>1, <1>3
    <3> QED  BY <1>1, <1>3, <2>1, <3>1, <3>2
  <2>2. CASE j = k
    BY <1>1, <1>2, <1>3, <1>5, <2>2
  <2>3. CASE j < k
    <3>1. j \in 0 .. n /\ c[j] # c[k] /\ c[j] # p /\ c[j] \in Place /\ w.next[c[j]] = c[j + 1]
      BY <1>1, <1>6, <1>7, <1>8, <2>3
    <3>2. d[j] = c[j] /\ d[j + 1] = c[j + 1]
      BY <1>3, <2>3
    <3> QED  BY <1>2, <1>5, <3>1, <3>2
  <2>4. CASE j > k + 1
    <3>1. j - 1 \in k + 1 .. n /\ j \in k + 1 .. n + 1
      BY <1>1, <2>4
    <3>2. d[j] = c[j - 1] /\ d[j + 1] = c[j]
      BY <1>1, <1>3, <1>9, <2>4, <3>1
    <3>3. /\ c[j - 1] # c[k] /\ c[j - 1] # p /\ c[j - 1] \in Place
          /\ w.next[c[j - 1]] = c[j]
      <4>1. j - 1 \in 0 .. n /\ j - 1 # k /\ (j - 1) + 1 = j
        BY <1>1, <3>1
      <4>2. w.next[c[j - 1]] = c[(j - 1) + 1] /\ c[j - 1] # p /\ c[j - 1] \in Place
        BY <1>6, <1>7, <1>8, <4>1
      <4>3. c[j - 1] # c[k]
        BY <1>1, <1>7, <4>1
      <4> QED  BY <4>1, <4>2, <4>3
    <3> QED  BY <1>2, <1>5, <3>2, <3>3
  <2> QED  BY <1>1, <2>1, <2>2, <2>3, <2>4
<1>16. v.tail = d[n + 1]
  <2>1. CASE k = n
    BY <1>2, <1>3, <1>6, <2>1
  <2>2. CASE k < n
    <3>1. k + 1 \in 0 .. n /\ n \in k + 1 .. n + 1
      BY <1>1, <2>2
    <3>2. c[k + 1] # NULL /\ d[n + 1] = c[n]
      BY <1>3, <1>7, <3>1
    <3> QED  BY <1>2, <1>6, <3>2
  <2> QED  BY <1>1, <2>1, <2>2
<1>17. (n + 1) + 1 = n + 2 /\ n + 1 \in Nat
  BY <1>1
<1>18. Nodes(v, n + 1, d)
  BY <1>2, <1>6, <1>10, <1>11, <1>12, <1>13, <1>14, <1>15, <1>16, <1>17 DEF Nodes
<1> QED  BY <1>18 DEF v, d

\* ... and every iterator where Moved says.
LEMMA CreateIters ==
    ASSUME NEW w \in State, NEW n \in Nat, NEW k \in 0 .. n,
           NEW p \in Node, NEW x \in Item, NEW c, NEW at, NEW hold,
           p \notin w.heap, Nodes(w, n, c), Iters(w, n, c, at, hold)
    PROVE  Iters(NodeCreate(w, c[k], p, x), n + 1, Inserted(n, c, k, p),
                 Moved(w, at, hold, k), hold)
<1> DEFINE v == NodeCreate(w, c[k], p, x)
           d == Inserted(n, c, k, p)
           to == Moved(w, at, hold, k)
<1>0. v = NodeCreate(w, c[k], p, x) /\ d = Inserted(n, c, k, p)
  OBVIOUS
<1>1. to \in [Iterator -> Nat] /\ hold \in [Iterator -> BOOLEAN]
  BY DEF Moved, Iters
<1>2. \A i \in Iterator : to[i] = IF i \in w.iters /\ k <= Rest(at, hold, i)
                                 THEN at[i] + 1 ELSE at[i]
  BY DEF Moved
<1> HIDE DEF v, d, to
<1>3. /\ c[k] \in Place /\ \A j, m \in 0 .. n + 1 : c[j] = c[m] => j = m
  BY Places
<1>4. Created(v, w, c[k], p, x)
  BY <1>0, <1>3, CreateFields
<1>5. w.next[c[k]] = c[k + 1]
  BY DEF Nodes
<1>6. /\ w.iters \subseteq Iterator /\ v.iters = w.iters
      /\ \A i \in w.iters :
            /\ v.prev[i] = IF w.prev[i] = c[k] THEN p ELSE w.prev[i]
            /\ v.pos[i] = IF w.prev[i] # c[k] /\ w.pos[i] = c[k + 1] THEN p ELSE w.pos[i]
  BY <1>4, <1>5 DEF Created, State
<1>7. /\ \A j \in 0 .. k : d[j] = c[j]
      /\ d[k + 1] = p
      /\ \A j \in k + 1 .. n + 1 : d[j + 1] = c[j]
  <2>1. IsInserted(d, n, c, k, p)
    BY <1>0, InsertedIs
  <2> QED  BY <2>1 DEF IsInserted
<1>8. ASSUME NEW i \in w.iters
      PROVE  /\ to[i] <= n + 1 /\ (hold[i] => to[i] > 0)
             /\ v.prev[i] = d[Rest(to, hold, i)]
             /\ v.pos[i] = d[to[i] + 1]
  <2> DEFINE a == at[i]
             r == Rest(at, hold, i)
             rr == Rest(to, hold, i)
  <2>1. /\ i \in Iterator /\ a \in 0 .. n /\ r \in 0 .. n /\ r <= a /\ a <= r + 1
        /\ w.prev[i] = c[r] /\ w.pos[i] = c[a + 1] /\ hold[i] \in BOOLEAN
    BY <1>6 DEF Iters, Rest
  <2>2. /\ k <= r => to[i] = a + 1 /\ rr = r + 1
        /\ ~(k <= r) => to[i] = a /\ rr = r
        /\ hold[i] => a > 0
    BY <1>2, <2>1 DEF Rest, Iters
  <2> HIDE DEF a, r, rr
  <2>3. CASE r = k
    <3>1. v.prev[i] = p /\ v.pos[i] = c[a + 1]
      BY <1>6, <2>1, <2>3
    <3>2. a + 1 \in k + 1 .. n + 1 /\ to[i] = a + 1 /\ rr = k + 1
      BY <2>1, <2>2, <2>3
    <3> QED  BY <1>7, <2>1, <3>1, <3>2 DEF rr
  <2>4. CASE r > k
    <3>1. v.prev[i] = c[r] /\ v.pos[i] = c[a + 1]
      <4>1. c[r] # c[k] /\ c[a + 1] # c[k + 1]
        BY <1>3, <2>1, <2>4
      <4> QED  BY <1>6, <2>1, <4>1
    <3>2. /\ a + 1 \in k + 1 .. n + 1 /\ r \in k + 1 .. n + 1
          /\ to[i] = a + 1 /\ rr = r + 1
      BY <2>1, <2>2, <2>4
    <3> QED  BY <1>7, <2>1, <3>1, <3>2 DEF rr
  <2>5. CASE r < k
    <3>1. v.prev[i] = c[r] /\ r \in 0 .. k /\ to[i] = a /\ rr = r
      <4>1. c[r] # c[k]
        BY <1>3, <2>1, <2>5
      <4> QED  BY <1>6, <2>1, <2>2, <2>5, <4>1
    <3>2. v.pos[i] = d[a + 1]
      <4>1. CASE a = k
        BY <1>3, <1>6, <1>7, <2>1, <2>5, <4>1
      <4>2. CASE a < k
        <5>1. c[a + 1] # c[k + 1] /\ a + 1 \in 0 .. k
          BY <1>3, <2>1, <4>2
        <5> QED  BY <1>6, <1>7, <2>1, <5>1
      <4> QED  BY <2>1, <2>5, <4>1, <4>2
    <3> QED  BY <1>7, <2>1, <2>2, <3>1, <3>2 DEF rr
  <2> QED  BY <2>1, <2>3, <2>4, <2>5
<1>9. Iters(v, n + 1, d, to, hold)
  BY <1>1, <1>6, <1>8 DEF Iters
<1> QED  BY <1>9 DEF v, d, to

\* _list_node_create keeps chain and iterators, and its assertions hold.
LEMMA CreateChain ==
    ASSUME NEW n \in Nat, NEW k \in 0 .. n, NEW p \in Node, NEW x \in Item,
           NEW w, NEW c, NEW at, NEW hold,
           p \notin w.heap, Chain(w, n, c, at, hold)
    PROVE  Chain(NodeCreate(w, c[k], p, x), n + 1, Inserted(n, c, k, p),
                 Moved(w, at, hold, k), hold)
<1> DEFINE v == NodeCreate(w, c[k], p, x)
           d == Inserted(n, c, k, p)
           to == Moved(w, at, hold, k)
<1>1. w \in State /\ w.sane /\ Nodes(w, n, c) /\ Iters(w, n, c, at, hold)
  BY DEF Chain
<1>2. c[k] \in Place
  BY <1>1, Places
<1>3. Created(v, w, c[k], p, x)
  BY <1>1, <1>2, CreateFields
<1>4. Nodes(v, n + 1, d)
  BY <1>1, CreateNodes
<1>5. Iters(v, n + 1, d, to, hold)
  BY <1>1, CreateIters
<1> HIDE DEF v, d, to
<1>6. v \in State /\ (v.sane <=> w.sane /\ Asserted(v))
  BY <1>3 DEF Created
<1>7. Asserted(v)
  BY <1>4, <1>5, <1>6, AssertedIs
<1>8. Chain(v, n + 1, d, to, hold)
  BY <1>1, <1>4, <1>5, <1>6, <1>7 DEF Chain
<1> QED  BY <1>8 DEF v, d, to

-----------------------------------------------------------------------------
(* _list_node_destroy *)

\* The chain without node k + 1, and the iterators: one next to it holds nothing.
Removed(n, c, k) == [j \in 0 .. n |-> IF j <= k THEN c[j] ELSE c[j + 1]]
Pulled(w, at, k) ==
    [i \in Iterator |-> IF i \in w.iters /\ k < at[i] THEN at[i] - 1 ELSE at[i]]
Kept(at, hold, k) == [i \in Iterator |-> hold[i] /\ at[i] # k /\ at[i] # k + 1]

Destroyed(v, w, pp, p) ==
    /\ v \in State
    /\ v.heap = w.heap \ {p}
    /\ v.data = [w.data EXCEPT ![p] = NULL]
    /\ v.next = [w.next EXCEPT ![pp] = w.next[p], ![p] = NULL]
    /\ v.tail = IF w.next[p] = NULL THEN pp ELSE w.tail
    /\ v.count = w.count - 1
    /\ v.iters = w.iters
    /\ v.prev = [i \in Iterator |->
                   IF i \in w.iters /\ (p = w.pos[i] \/ p = w.prev[i]) THEN pp ELSE w.prev[i]]
    /\ v.pos = [i \in Iterator |->
                  IF i \in w.iters /\ w.pos[i] = p THEN w.next[p] ELSE w.pos[i]]
    /\ v.sane <=> w.sane /\ Asserted(v)

\* _list_node_destroy, field by field.
LEMMA DestroyFields ==
    ASSUME NEW w \in State, NEW pp \in Place, NEW p \in Node,
           w.next[pp] = p, w.count > 0
    PROVE  Destroyed(NodeDestroy(w, pp), w, pp, p)
<1> DEFINE v == NodeDestroy(w, pp)
           u == [w EXCEPT
                !.heap = @ \ {p},
                !.data[p] = NULL,
                !.next = [@ EXCEPT ![pp] = w.next[p], ![p] = NULL],
                !.count = @ - 1,
                !.tail = TailAfter(w, pp),
                !.prev = [i \in Iterator |-> PrevAfter(w, pp, i)],
                !.pos = [i \in Iterator |-> PosAfter(w, pp, i)]]
<1>1. v = [u EXCEPT !.sane = @ /\ Asserted(u)]
  <2>1. p # NULL /\ At(w, pp) = p
    BY ListAssumption DEF At
  <2> QED  BY <2>1 DEF NodeDestroy
<1>2. /\ w.heap \subseteq Node /\ w.data \in [Node -> Item \cup {NULL}]
      /\ w.next \in [Place -> Node \cup {NULL}] /\ w.tail \in Place /\ w.count \in Nat
      /\ w.pos \in [Iterator -> Node \cup {NULL}] /\ w.prev \in [Iterator -> Place]
      /\ w.sane \in BOOLEAN /\ w.iters \subseteq Iterator /\ p \in Place
  BY DEF State, Place
<1>3. /\ u.heap = w.heap \ {p}
      /\ u.data = [w.data EXCEPT ![p] = NULL]
      /\ u.next = [w.next EXCEPT ![pp] = w.next[p], ![p] = NULL]
      /\ u.tail = TailAfter(w, pp)
      /\ u.count = w.count - 1
      /\ u.iters = w.iters
      /\ u.prev = [i \in Iterator |-> PrevAfter(w, pp, i)]
      /\ u.pos = [i \in Iterator |-> PosAfter(w, pp, i)]
      /\ u.sane = w.sane
  <2>1. u.heap = w.heap \ {p}
    BY DEF State
  <2>2. u.data = [w.data EXCEPT ![p] = NULL]
    BY DEF State
  <2>3. u.next = [w.next EXCEPT ![pp] = w.next[p], ![p] = NULL]
    BY DEF State
  <2>4. u.tail = TailAfter(w, pp)
    BY DEF State
  <2>5. u.count = w.count - 1
    BY DEF State
  <2>6. u.iters = w.iters
    BY DEF State
  <2>7. u.prev = [i \in Iterator |-> PrevAfter(w, pp, i)]
    BY DEF State
  <2>8. u.pos = [i \in Iterator |-> PosAfter(w, pp, i)]
    BY DEF State
  <2>9. u.sane = w.sane
    BY DEF State
  <2> HIDE DEF u
  <2> QED  BY <2>1, <2>2, <2>3, <2>4, <2>5, <2>6, <2>7, <2>8, <2>9
<1>31. u = [w EXCEPT !.heap = u.heap, !.data = u.data, !.next = u.next, !.tail = u.tail,
                     !.count = u.count, !.prev = u.prev, !.pos = u.pos]
  BY <1>3, ZenonT(60)
<1> HIDE DEF u, v
<1>32. /\ u.tail = IF w.next[p] = NULL THEN pp ELSE w.tail
       /\ u.prev = [i \in Iterator |->
                     IF i \in w.iters /\ (p = w.pos[i] \/ p = w.prev[i])
                     THEN pp ELSE w.prev[i]]
       /\ u.pos = [i \in Iterator |->
                     IF i \in w.iters /\ w.pos[i] = p THEN w.next[p] ELSE w.pos[i]]
  BY <1>3 DEF TailAfter, PrevAfter, PosAfter, At
<1>4. u \in State
  <2>1. /\ u.heap \in SUBSET Node /\ u.data \in [Node -> Item \cup {NULL}]
        /\ u.next \in [Place -> Node \cup {NULL}] /\ u.tail \in Place /\ u.count \in Nat
        /\ u.pos \in [Iterator -> Node \cup {NULL}] /\ u.prev \in [Iterator -> Place]
        /\ u.sane \in BOOLEAN /\ u.iters \in SUBSET Iterator
    <3>1. w.next[p] \in Node \cup {NULL}
      BY <1>2
    <3> QED  BY <1>2, <1>3, <1>32, <3>1
  <2> QED  BY <2>1, <1>31, StateExcept
<1>5. /\ v.heap = u.heap /\ v.data = u.data /\ v.next = u.next /\ v.tail = u.tail
      /\ v.count = u.count /\ v.iters = u.iters /\ v.prev = u.prev /\ v.pos = u.pos
      /\ v.sane = (u.sane /\ Asserted(u)) /\ v \in State
  BY <1>1, <1>4 DEF State, Asserted
<1>6. Asserted(v) <=> Asserted(u)
  BY <1>5 DEF Asserted, At
<1>7. Destroyed(v, w, pp, p)
  BY <1>3, <1>32, <1>5, <1>6 DEF Destroyed
<1> QED  BY <1>7 DEF v

IsRemoved(d, n, c, k) ==
    /\ DOMAIN d = 0 .. n
    /\ \A j \in 0 .. k : d[j] = c[j]
    /\ \A j \in k + 1 .. n : d[j] = c[j + 1]

\* The chain with a node less, member by member.
LEMMA RemovedIs ==
    ASSUME NEW n \in Nat, NEW k \in Nat, NEW c, k < n
    PROVE  IsRemoved(Removed(n, c, k), n, c, k)
BY DEF Removed, IsRemoved

\* _list_node_destroy keeps the chain: the node behind place k is out of it.
LEMMA DestroyNodes ==
    ASSUME NEW w \in State, NEW n \in Nat, NEW k \in Nat, NEW c, k < n, Nodes(w, n, c)
    PROVE  Nodes(NodeDestroy(w, c[k]), n - 1, Removed(n, c, k))
<1> DEFINE v == NodeDestroy(w, c[k])
           d == Removed(n, c, k)
           p == c[k + 1]
<1>0. v = NodeDestroy(w, c[k]) /\ d = Removed(n, c, k)
  OBVIOUS
<1>1. /\ \A j \in 0 .. n : c[j] \in Place /\ c[j] # NULL
      /\ \A j \in 1 .. n : c[j] \in Node /\ c[j] # HEAD
      /\ \A j, m \in 0 .. n + 1 : c[j] = c[m] => j = m
  BY Places
<1>2. /\ c[0] = HEAD /\ c[n + 1] = NULL /\ w.tail = c[n] /\ w.count = n
      /\ c \in [0 .. n + 1 -> Place \cup {NULL}]
      /\ \A j \in 0 .. n : w.next[c[j]] = c[j + 1]
      /\ \A j \in 1 .. n : w.data[c[j]] \in Item /\ c[j] \in w.heap
      /\ \A y \in w.heap : \E j \in 1 .. n : c[j] = y
  BY DEF Nodes
<1>3. k \in 0 .. n /\ k + 1 \in 1 .. n /\ k + 1 \in 0 .. n /\ n - 1 \in Nat
  OBVIOUS
<1>4. /\ c[k] \in Place /\ p \in Node /\ w.next[c[k]] = p /\ w.count > 0
      /\ w.next[p] = c[k + 2]
  <2>1. w.next[c[k + 1]] = c[(k + 1) + 1]
    BY <1>2, <1>3
  <2> QED  BY <1>1, <1>2, <1>3, <2>1
<1>5. d = [j \in 0 .. n |-> d[j]]
  BY DEF Removed
<1> HIDE DEF v, d, p
<1>6. Destroyed(v, w, c[k], p)
  BY <1>0, <1>4, DestroyFields
<1>7. /\ v.heap = w.heap \ {p}
      /\ v.data = [w.data EXCEPT ![p] = NULL]
      /\ v.next = [w.next EXCEPT ![c[k]] = c[k + 2], ![p] = NULL]
      /\ v.tail = IF c[k + 2] = NULL THEN c[k] ELSE w.tail
      /\ v.count = w.count - 1
  BY <1>4, <1>6 DEF Destroyed
<1>8. IsRemoved(d, n, c, k)
  BY <1>0, RemovedIs
<1>9. /\ \A j \in 0 .. k : d[j] = c[j]
      /\ \A j \in k + 1 .. n : d[j] = c[j + 1]
  BY <1>8 DEF IsRemoved
<1>10. /\ w.next \in [Place -> Node \cup {NULL}] /\ w.data \in [Node -> Item \cup {NULL}]
       /\ w.heap \subseteq Node
  BY DEF State
<1>11. \A j \in 0 .. n + 1 : j # k + 1 => c[j] # p
  BY <1>1, <1>3 DEF p
<1>12. d \in [0 .. n -> Place \cup {NULL}]
  <2> SUFFICES ASSUME NEW j \in 0 .. n  PROVE d[j] \in Place \cup {NULL}
    BY <1>5
  <2>1. CASE j <= k
    BY <1>2, <1>9, <2>1
  <2>2. CASE j > k
    BY <1>2, <1>9, <2>2
  <2> QED  BY <2>1, <2>2
<1>13. d[0] = HEAD /\ d[n] = NULL
  BY <1>2, <1>3, <1>9
\* every place of d but the last is one of c, not p, with what is behind it
<1>14. ASSUME NEW j \in 0 .. n - 1
       PROVE  \E m \in 0 .. n :
                 /\ m # k + 1 /\ d[j] = c[m] /\ j = IF m <= k THEN m ELSE m - 1
                 /\ v.next[c[m]] = d[j + 1]
  <2>1. CASE j < k
    <3>1. d[j] = c[j] /\ d[j + 1] = c[j + 1] /\ j \in 0 .. n /\ j # k + 1 /\ j # k
      BY <1>3, <1>9, <2>1
    <3>2. c[j] # p /\ c[j] # c[k] /\ c[j] \in Place /\ w.next[c[j]] = c[j + 1]
      BY <1>1, <1>2, <1>3, <1>11, <3>1
    <3>3. v.next[c[j]] = d[j + 1]
      BY <1>7, <1>10, <3>1, <3>2
    <3> QED  BY <2>1, <3>1, <3>3
  <2>2. CASE j = k
    <3>1. d[k] = c[k] /\ d[k + 1] = c[k + 2]
      BY <1>3, <1>9
    <3>2. c[k] # p
      BY <1>3, <1>11
    <3>3. v.next[c[k]] = c[k + 2]
      BY <1>4, <1>7, <1>10, <3>2
    <3> QED  BY <1>3, <2>2, <3>1, <3>3
  <2>3. CASE j > k
    <3>1. /\ d[j] = c[j + 1] /\ d[j + 1] = c[j + 2] /\ j + 1 \in 0 .. n
          /\ j + 1 # k + 1 /\ j + 1 # k /\ j = (j + 1) - 1 /\ ~(j + 1 <= k)
      BY <1>3, <1>9, <2>3
    <3>2. c[j + 1] # p /\ c[j + 1] # c[k] /\ c[j + 1] \in Place
      BY <1>1, <1>3, <1>11, <3>1
    <3>3. w.next[c[j + 1]] = c[(j + 1) + 1]
      BY <1>2, <3>1
    <3>4. v.next[c[j + 1]] = d[j + 1]
      BY <1>7, <1>10, <3>1, <3>2, <3>3
    <3> QED  BY <3>1, <3>4
  <2> QED  BY <1>3, <2>1, <2>2, <2>3
<1>15. \A j \in 0 .. n - 1 : v.next[d[j]] = d[j + 1]
  BY <1>14
<1>16. \A j \in 1 .. n - 1 : d[j] \in v.heap /\ v.data[d[j]] \in Item
  <2> SUFFICES ASSUME NEW j \in 1 .. n - 1
               PROVE  d[j] \in v.heap /\ v.data[d[j]] \in Item
    OBVIOUS
  <2>1. PICK m \in 0 .. n : m # k + 1 /\ d[j] = c[m] /\ j = IF m <= k THEN m ELSE m - 1
    BY <1>14
  <2>2. m \in 1 .. n /\ c[m] # p
    BY <1>11, <2>1
  <2> QED  BY <1>2, <1>7, <1>10, <2>1, <2>2
<1>17. \A j, e \in 1 .. n - 1 : d[j] = d[e] => j = e
  <2> SUFFICES ASSUME NEW j \in 1 .. n - 1, NEW e \in 1 .. n - 1, d[j] = d[e]
               PROVE  j = e
    OBVIOUS
  <2>1. PICK m \in 0 .. n : m # k + 1 /\ d[j] = c[m] /\ j = IF m <= k THEN m ELSE m - 1
    BY <1>14
  <2>2. PICK q \in 0 .. n : q # k + 1 /\ d[e] = c[q] /\ e = IF q <= k THEN q ELSE q - 1
    BY <1>14
  <2>3. m = q
    <3>1. c[m] = c[q]
      BY <2>1, <2>2
    <3>2. m \in 0 .. n + 1 /\ q \in 0 .. n + 1
      OBVIOUS
    <3> QED  BY <1>1, <3>1, <3>2
  <2> QED  BY <2>1, <2>2, <2>3
<1>18. \A y \in v.heap : \E j \in 1 .. n - 1 : d[j] = y
  <2> SUFFICES ASSUME NEW y \in v.heap  PROVE \E j \in 1 .. n - 1 : d[j] = y
    OBVIOUS
  <2>1. y \in w.heap /\ y # p
    BY <1>7
  <2>2. PICK m \in 1 .. n : c[m] = y
    BY <1>2, <2>1
  <2>3. m # k + 1
    BY <2>1, <2>2 DEF p
  <2>4. CASE m <= k
    BY <1>3, <1>9, <2>2, <2>4
  <2>5. CASE m > k + 1
    <3>1. m - 1 \in 1 .. n - 1 /\ m - 1 \in k + 1 .. n /\ (m - 1) + 1 = m
      BY <2>5
    <3>2. d[m - 1] = c[(m - 1) + 1]
      BY <1>9, <3>1
    <3> QED  BY <2>2, <3>1, <3>2
  <2> QED  BY <2>3, <2>4, <2>5
<1>19. v.tail = d[n - 1]
  <2>1. CASE k = n - 1
    <3>1. c[k + 2] = NULL /\ d[n - 1] = c[k]
      BY <1>2, <1>9, <2>1
    <3> QED  BY <1>7, <3>1
  <2>2. CASE k < n - 1
    <3>1. k + 2 \in 0 .. n /\ n - 1 \in k + 1 .. n /\ (n - 1) + 1 = n
      BY <2>2
    <3>2. c[k + 2] # NULL
      BY <1>1, <3>1
    <3>3. d[n - 1] = c[(n - 1) + 1]
      BY <1>9, <3>1
    <3> QED  BY <1>2, <1>7, <3>1, <3>2, <3>3
  <2> QED  BY <2>1, <2>2
<1>20. (n - 1) + 1 = n
  OBVIOUS
<1>21. Nodes(v, n - 1, d)
  BY <1>2, <1>3, <1>7, <1>12, <1>13, <1>15, <1>16, <1>17, <1>18, <1>19, <1>20 DEF Nodes
<1> QED  BY <1>21 DEF v, d

\* ... and every iterator where Pulled and Kept say.
LEMMA DestroyIters ==
    ASSUME NEW w \in State, NEW n \in Nat, NEW k \in Nat, NEW c, NEW at, NEW hold,
           k < n, Nodes(w, n, c), Iters(w, n, c, at, hold)
    PROVE  Iters(NodeDestroy(w, c[k]), n - 1, Removed(n, c, k),
                 Pulled(w, at, k), Kept(at, hold, k))
<1> DEFINE v == NodeDestroy(w, c[k])
           d == Removed(n, c, k)
           to == Pulled(w, at, k)
           h == Kept(at, hold, k)
           p == c[k + 1]
<1>0. v = NodeDestroy(w, c[k]) /\ d = Removed(n, c, k)
  OBVIOUS
<1>1. to \in [Iterator -> Nat] /\ h \in [Iterator -> BOOLEAN]
  BY DEF Pulled, Kept, Iters
<1>2. \A i \in w.iters : i \in Iterator
  BY DEF State
<1>3. \A i \in Iterator : to[i] = IF i \in w.iters /\ k < at[i] THEN at[i] - 1 ELSE at[i]
  BY DEF Pulled
<1>30. \A i \in Iterator : h[i] <=> hold[i] /\ at[i] # k /\ at[i] # k + 1
  BY DEF Kept
<1>4. /\ \A j \in 0 .. n : c[j] \in Place /\ c[j] # NULL
      /\ \A j \in 1 .. n : c[j] \in Node
      /\ \A j, m \in 0 .. n + 1 : c[j] = c[m] => j = m
  BY Places
<1>5. k \in 0 .. n /\ k + 1 \in 1 .. n /\ k + 1 \in 0 .. n
  OBVIOUS
<1>6. /\ c[k] \in Place /\ p \in Node /\ w.next[c[k]] = p /\ w.count > 0
      /\ w.next[p] = c[k + 2]
  <2>1. w.next[c[k + 1]] = c[(k + 1) + 1] /\ w.next[c[k]] = c[k + 1] /\ w.count = n
    BY <1>5 DEF Nodes
  <2> QED  BY <1>4, <1>5, <2>1
<1>7. \A j \in 0 .. n + 1 : p = c[j] => j = k + 1
  BY <1>4, <1>5
<1> HIDE DEF v, d, p, to, h
<1>8. Destroyed(v, w, c[k], p)
  BY <1>0, <1>6, DestroyFields
<1>9. /\ v.iters = w.iters
      /\ \A i \in w.iters :
            /\ v.prev[i] = IF p = w.pos[i] \/ p = w.prev[i] THEN c[k] ELSE w.prev[i]
            /\ v.pos[i] = IF w.pos[i] = p THEN c[k + 2] ELSE w.pos[i]
  BY <1>2, <1>6, <1>8 DEF Destroyed
<1>10. IsRemoved(d, n, c, k)
  BY <1>0, RemovedIs
<1>11. /\ \A j \in 0 .. k : d[j] = c[j]
       /\ \A j \in k + 1 .. n : d[j] = c[j + 1]
  BY <1>10 DEF IsRemoved
<1>12. ASSUME NEW i \in w.iters
       PROVE  /\ to[i] <= n - 1 /\ (h[i] => to[i] > 0)
              /\ v.prev[i] = d[Rest(to, h, i)]
              /\ v.pos[i] = d[to[i] + 1]
  <2> DEFINE a == at[i]
             r == Rest(at, hold, i)
             rr == Rest(to, h, i)
  <2>1. /\ i \in Iterator /\ a \in 0 .. n /\ r \in 0 .. n
        /\ w.prev[i] = c[r] /\ w.pos[i] = c[a + 1] /\ hold[i] \in BOOLEAN
        /\ r = IF hold[i] THEN a - 1 ELSE a
        /\ hold[i] => a > 0
    BY <1>2 DEF Iters, Rest
  <2>2. to[i] = (IF k < a THEN a - 1 ELSE a) /\ (h[i] <=> hold[i] /\ a # k /\ a # k + 1)
    <3>1. to[i] = IF k < a THEN a - 1 ELSE a
      BY <1>3, <2>1
    <3>2. h[i] <=> hold[i] /\ a # k /\ a # k + 1
      BY <1>30, <2>1
    <3> QED  BY <3>1, <3>2
  <2>3. rr = IF h[i] THEN to[i] - 1 ELSE to[i]
    BY DEF Rest
  <2>4. (p = w.pos[i] => a = k) /\ (p = w.prev[i] => r = k + 1)
    <3>1. a + 1 \in 0 .. n + 1 /\ r \in 0 .. n + 1
      BY <2>1
    <3>2. p = w.pos[i] => a + 1 = k + 1
      BY <1>7, <2>1, <3>1
    <3>3. p = w.prev[i] => r = k + 1
      BY <1>7, <2>1, <3>1
    <3> QED  BY <2>1, <3>2, <3>3
  <2>5. (a = k => p = w.pos[i]) /\ (r = k + 1 => p = w.prev[i])
    BY <2>1 DEF p
  <2> HIDE DEF a, r, rr
  <2>6. CASE a < k
    <3>1. v.prev[i] = c[r] /\ v.pos[i] = c[a + 1]
      BY <1>9, <2>1, <2>4, <2>6
    <3>2. to[i] = a /\ rr = r /\ r \in 0 .. k /\ a + 1 \in 0 .. k
      BY <2>1, <2>2, <2>3, <2>6
    <3> QED  BY <1>11, <2>1, <2>2, <2>6, <3>1, <3>2 DEF rr
  <2>7. CASE a = k
    <3>1. v.prev[i] = c[k] /\ v.pos[i] = c[k + 2]
      BY <1>9, <2>1, <2>5, <2>7
    <3>2. to[i] = k /\ rr = k /\ ~h[i]
      BY <2>1, <2>2, <2>3, <2>7
    <3>3. d[k] = c[k] /\ d[k + 1] = c[k + 2]
      BY <1>5, <1>11
    <3> QED  BY <3>1, <3>2, <3>3 DEF rr
  <2>8. CASE a = k + 1
    <3>1. v.prev[i] = c[k] /\ v.pos[i] = c[k + 2]
      <4>1. r = k \/ r = k + 1
        BY <2>1, <2>8
      <4> QED  BY <1>9, <2>1, <2>4, <2>5, <2>8, <4>1
    <3>2. to[i] = k /\ rr = k /\ ~h[i]
      BY <2>1, <2>2, <2>3, <2>8
    <3>3. d[k] = c[k] /\ d[k + 1] = c[k + 2]
      BY <1>5, <1>11
    <3> QED  BY <3>1, <3>2, <3>3 DEF rr
  <2>9. CASE a > k + 1
    <3>1. to[i] = a - 1 /\ (h[i] <=> hold[i]) /\ rr = r - 1 /\ r > k
      <4>1. h[i] <=> hold[i]
        BY <2>1, <2>2, <2>9
      <4>2. to[i] = a - 1
        BY <2>1, <2>2, <2>9
      <4> QED  BY <2>1, <2>3, <2>9, <4>1, <4>2
    <3>2. v.pos[i] = c[a + 1] /\ d[a] = c[a + 1]
      BY <1>9, <1>11, <2>1, <2>4, <2>9
    <3>3. v.prev[i] = d[rr]
      <4>1. CASE r = k + 1
        <5>1. v.prev[i] = c[k] /\ d[k] = c[k]
          BY <1>5, <1>9, <1>11, <2>1, <2>5, <4>1
        <5> QED  BY <3>1, <4>1, <5>1
      <4>2. CASE r > k + 1
        <5>1. v.prev[i] = c[r]
          BY <1>9, <2>1, <2>4, <2>9, <4>2
        <5>2. rr \in k + 1 .. n /\ rr + 1 = r
          BY <2>1, <3>1, <4>2
        <5> QED  BY <1>11, <5>1, <5>2
      <4> QED  BY <2>1, <3>1, <4>1, <4>2
    <3> QED  BY <2>1, <2>9, <3>1, <3>2, <3>3 DEF rr
  <2> QED  BY <2>1, <2>6, <2>7, <2>8, <2>9
<1>13. Iters(v, n - 1, d, to, h)
  BY <1>1, <1>9, <1>12 DEF Iters
<1> QED  BY <1>13 DEF v, d, to, h

\* _list_node_destroy keeps chain and iterators, and its assertions hold.
LEMMA DestroyChain ==
    ASSUME NEW n \in Nat, NEW k \in Nat, NEW w, NEW c, NEW at, NEW hold,
           k < n, Chain(w, n, c, at, hold)
    PROVE  Chain(NodeDestroy(w, c[k]), n - 1, Removed(n, c, k),
                 Pulled(w, at, k), Kept(at, hold, k))
<1> DEFINE v == NodeDestroy(w, c[k])
           d == Removed(n, c, k)
           to == Pulled(w, at, k)
           h == Kept(at, hold, k)
<1>1. w \in State /\ w.sane /\ Nodes(w, n, c) /\ Iters(w, n, c, at, hold)
  BY DEF Chain
<1>2. c[k] \in Place /\ c[k + 1] \in Node
  BY <1>1, Places
<1>3. w.next[c[k]] = c[k + 1] /\ w.count > 0
  BY <1>1 DEF Nodes
<1>4. Destroyed(v, w, c[k], c[k + 1])
  BY <1>1, <1>2, <1>3, DestroyFields
<1>5. Nodes(v, n - 1, d)
  BY <1>1, DestroyNodes
<1>6. Iters(v, n - 1, d, to, h)
  BY <1>1, DestroyIters
<1> HIDE DEF v, d, to, h
<1>7. v \in State /\ (v.sane <=> w.sane /\ Asserted(v))
  BY <1>4 DEF Destroyed
<1>8. Asserted(v)
  BY <1>5, <1>6, <1>7, AssertedIs
<1>9. Chain(v, n - 1, d, to, h)
  BY <1>1, <1>5, <1>6, <1>7, <1>8 DEF Chain
<1> QED  BY <1>9 DEF v, d, to, h

\* Behind the last node there is nothing to take out.
LEMMA DestroyNothing ==
    ASSUME NEW w, NEW pp, w.next[pp] = NULL
    PROVE  NodeDestroy(w, pp) = w
BY DEF NodeDestroy, At

-----------------------------------------------------------------------------
(* The walk along the list *)

\* There are no more nodes in the chain than there are addresses.
LEMMA Short ==
    ASSUME NEW w \in State, NEW n \in Nat, NEW c, Nodes(w, n, c)
    PROVE  n <= Cardinality(Node) /\ Cardinality(Node) \in Nat
<1> DEFINE f == [j \in 1 .. n |-> c[j]]
<1>1. \A j \in 1 .. n : c[j] \in Node
  BY Places
<1>2. \A j, k \in 1 .. n : c[j] = c[k] => j = k
  BY DEF Nodes
<1>3. f \in Injection(1 .. n, Node)
  BY <1>1, <1>2 DEF Injection, IsInjective
<1>4. IsFiniteSet(Node)
  BY ListAssumption
<1> HIDE DEF f
<1>5. Cardinality(1 .. n) <= Cardinality(Node)
  BY <1>3, <1>4, FS_Injection
<1>6. Cardinality(1 .. n) = n
  BY FS_Interval
<1> QED  BY <1>4, <1>5, <1>6, FS_CardinalityType

Along(n, c) == [j \in 1 .. n |-> c[j]]

\* A walk along next finds the chain.
LEMMA WalkIs ==
    ASSUME NEW w \in State, NEW n \in Nat, NEW c, Nodes(w, n, c)
    PROVE  Walk(w) = Along(n, c)
<1> DEFINE C == Cardinality(Node)
           Turn(f) == [k \in 1 .. C + 1 |->
                          IF k = 1 THEN w.next[HEAD]
                          ELSE IF f[k - 1] = NULL THEN NULL ELSE w.next[f[k - 1]]]
           st == CHOOSE f : f = Turn(f)
           g == [k \in 1 .. C + 1 |-> IF k <= n THEN c[k] ELSE NULL]
<1>1. C \in Nat /\ n <= C
  BY Short
<1>2. /\ c[0] = HEAD /\ c[n + 1] = NULL
      /\ \A j \in 0 .. n : w.next[c[j]] = c[j + 1]
      /\ \A j \in 1 .. n : c[j] # NULL
  <2>1. \A j \in 0 .. n : c[j] \in Place /\ c[j] # NULL
    BY Places
  <2> QED  BY <2>1 DEF Nodes
<1>3. g = Turn(g)
  <2> SUFFICES ASSUME NEW k \in 1 .. C + 1
               PROVE  g[k] = Turn(g)[k]
    OBVIOUS
  <2>1. CASE k = 1
    <3>1. w.next[c[0]] = c[0 + 1]
      BY <1>2
    <3> QED  BY <1>1, <1>2, <2>1, <3>1
  <2>2. CASE k > 1
    <3>1. k - 1 \in 1 .. C + 1 /\ g[k] = (IF k <= n THEN c[k] ELSE NULL)
          /\ g[k - 1] = (IF k - 1 <= n THEN c[k - 1] ELSE NULL)
      BY <1>1, <2>2
    <3>2. Turn(g)[k] = IF g[k - 1] = NULL THEN NULL ELSE w.next[g[k - 1]]
      BY <2>2
    <3> HIDE DEF g
    <3>3. CASE k - 1 <= n
      <4>1. k - 1 \in 0 .. n /\ k - 1 \in 1 .. n /\ (k - 1) + 1 = k
        BY <2>2, <3>3
      <4>2. w.next[c[k - 1]] = c[(k - 1) + 1] /\ c[k - 1] # NULL
        BY <1>2, <4>1
      <4>3. g[k] = c[k]
        <5>1. CASE k <= n
          BY <3>1, <5>1
        <5>2. CASE k = n + 1
          BY <1>2, <3>1, <5>2
        <5> QED  BY <3>3, <5>1, <5>2
      <4> QED  BY <3>1, <3>2, <3>3, <4>1, <4>2, <4>3
    <3>4. CASE k - 1 > n
      BY <3>1, <3>2, <3>4
    <3> QED  BY <3>3, <3>4
  <2> QED  BY <2>1, <2>2
<1>4. st = Turn(st)
  BY <1>3
<1> DEFINE T == {k \in Nat : k \in 1 .. C + 1 => st[k] = g[k]}
<1> HIDE DEF st, g
<1>5. Nat \subseteq T
  <2>1. 0 \in T
    OBVIOUS
  <2>2. ASSUME NEW k \in Nat, k \in T  PROVE k + 1 \in T
    <3> SUFFICES ASSUME k + 1 \in 1 .. C + 1  PROVE st[k + 1] = g[k + 1]
      OBVIOUS
    <3>1. \A f : f = Turn(f) =>
              f[k + 1] = IF k + 1 = 1 THEN w.next[HEAD]
                         ELSE IF f[(k + 1) - 1] = NULL THEN NULL
                              ELSE w.next[f[(k + 1) - 1]]
      OBVIOUS
    <3> HIDE DEF Turn
    <3>2. CASE k = 0
      BY <1>3, <1>4, <3>1, <3>2
    <3>3. CASE k > 0
      <4>1. st[k] = g[k] /\ (k + 1) - 1 = k
        BY <1>1, <2>2, <3>3
      <4> QED  BY <1>3, <1>4, <3>1, <3>3, <4>1
    <3> QED  BY <3>2, <3>3
  <2> HIDE DEF T
  <2> QED  BY <2>1, <2>2, Induct
<1>6. DOMAIN st = 1 .. C + 1
  <2>1. \A f : f = Turn(f) => DOMAIN f = 1 .. C + 1
    OBVIOUS
  <2> HIDE DEF Turn
  <2> QED  BY <1>4, <2>1
<1>7. \A k \in 1 .. C + 1 : st[k] = g[k]
  BY <1>5
<1>8. Walk(w) = Restrict(st, {k \in DOMAIN st : st[k] # NULL})
  BY DEF Walk, st
<1>9. {k \in DOMAIN st : st[k] # NULL} = 1 .. n
  BY <1>1, <1>2, <1>6, <1>7 DEF g
<1>10. \A k \in 1 .. n : st[k] = c[k]
  BY <1>1, <1>7 DEF g
<1> QED  BY <1>8, <1>9, <1>10 DEF Restrict, Along

-----------------------------------------------------------------------------
(* The items in the list *)

Content(w, n, c) == [j \in 1 .. n |-> w.data[c[j]]]
InList(s, n) == {s[j] : j \in 1 .. n}

\* The items are those of the nodes of the chain.
LEMMA ItemsIs ==
    ASSUME NEW w \in State, NEW n \in Nat, NEW c, Nodes(w, n, c)
    PROVE  /\ Items(w) = Content(w, n, c)
           /\ ToSet(Items(w)) = InList(Content(w, n, c), n)
           /\ Content(w, n, c) \in [1 .. n -> Item]
<1>1. Walk(w) = Along(n, c)
  BY WalkIs
<1>2. Items(w) = Content(w, n, c)
  BY <1>1 DEF Items, Content, Along
<1>3. Content(w, n, c) \in [1 .. n -> Item]
  BY DEF Nodes, Content
<1> QED  BY <1>2, <1>3 DEF ToSet, InList

SeqInserted(s, n, k, x) ==
    [j \in 1 .. n + 1 |-> IF j <= k THEN s[j] ELSE IF j = k + 1 THEN x ELSE s[j - 1]]
SeqRemoved(s, n, k) == [j \in 1 .. n - 1 |-> IF j <= k THEN s[j] ELSE s[j + 1]]

\* The items after _list_node_create.
LEMMA CreateContent ==
    ASSUME NEW w \in State, NEW n \in Nat, NEW k \in 0 .. n,
           NEW p \in Node, NEW x \in Item, NEW c, p \notin w.heap, Nodes(w, n, c)
    PROVE  Content(NodeCreate(w, c[k], p, x), n + 1, Inserted(n, c, k, p))
             = SeqInserted(Content(w, n, c), n, k, x)
<1> DEFINE v == NodeCreate(w, c[k], p, x)
           d == Inserted(n, c, k, p)
<1>0. v = NodeCreate(w, c[k], p, x) /\ d = Inserted(n, c, k, p)
  OBVIOUS
<1>1. c[k] \in Place
  BY Places
<1> HIDE DEF v, d
<1>2. Created(v, w, c[k], p, x)
  BY <1>0, <1>1, CreateFields
<1>3. v.data = [w.data EXCEPT ![p] = x]
  BY <1>2 DEF Created
<1>4. IsInserted(d, n, c, k, p)
  BY <1>0, InsertedIs
<1>5. /\ \A j \in 0 .. k : d[j] = c[j]
      /\ d[k + 1] = p
      /\ \A j \in k + 1 .. n + 1 : d[j + 1] = c[j]
  BY <1>4 DEF IsInserted
<1>6. w.data \in [Node -> Item \cup {NULL}]
  BY DEF State
<1>7. \A j \in 1 .. n : c[j] # p
  BY DEF Nodes
<1>8. ASSUME NEW j \in 1 .. n + 1
      PROVE  v.data[d[j]] = IF j <= k THEN w.data[c[j]]
                            ELSE IF j = k + 1 THEN x ELSE w.data[c[j - 1]]
  <2>1. CASE j <= k
    <3>1. d[j] = c[j] /\ c[j] # p
      BY <1>5, <1>7, <2>1
    <3> QED  BY <1>3, <1>6, <2>1, <3>1
  <2>2. CASE j = k + 1
    BY <1>3, <1>5, <1>6, <2>2
  <2>3. CASE j > k + 1
    <3>1. j - 1 \in k + 1 .. n + 1 /\ j - 1 \in 1 .. n /\ (j - 1) + 1 = j
      BY <2>3
    <3>2. d[(j - 1) + 1] = c[j - 1] /\ c[j - 1] # p
      BY <1>5, <1>7, <3>1
    <3> QED  BY <1>3, <1>6, <2>3, <3>1, <3>2
  <2> QED  BY <2>1, <2>2, <2>3
<1>9. \A j \in 1 .. n + 1 :
        SeqInserted(Content(w, n, c), n, k, x)[j] =
          IF j <= k THEN w.data[c[j]] ELSE IF j = k + 1 THEN x ELSE w.data[c[j - 1]]
  BY DEF SeqInserted, Content
<1>10. Content(v, n + 1, d) = SeqInserted(Content(w, n, c), n, k, x)
  <2>1. SeqInserted(Content(w, n, c), n, k, x)
          = [j \in 1 .. n + 1 |-> SeqInserted(Content(w, n, c), n, k, x)[j]]
    BY DEF SeqInserted
  <2>2. Content(v, n + 1, d) = [j \in 1 .. n + 1 |-> v.data[d[j]]]
    BY DEF Content
  <2>3. \A j \in 1 .. n + 1 : v.data[d[j]] = SeqInserted(Content(w, n, c), n, k, x)[j]
    BY <1>8, <1>9
  <2> HIDE DEF v, d
  <2> QED  BY <2>1, <2>2, <2>3
<1> QED  BY <1>0, <1>10

\* The items after _list_node_destroy.
LEMMA DestroyContent ==
    ASSUME NEW w \in State, NEW n \in Nat, NEW k \in Nat, NEW c, k < n, Nodes(w, n, c)
    PROVE  Content(NodeDestroy(w, c[k]), n - 1, Removed(n, c, k))
             = SeqRemoved(Content(w, n, c), n, k)
<1> DEFINE v == NodeDestroy(w, c[k])
           d == Removed(n, c, k)
           p == c[k + 1]
<1>0. v = NodeDestroy(w, c[k]) /\ d = Removed(n, c, k)
  OBVIOUS
<1>1. /\ \A j \in 0 .. n : c[j] \in Place /\ c[j] # NULL
      /\ \A j \in 1 .. n : c[j] \in Node
      /\ \A j, m \in 0 .. n + 1 : c[j] = c[m] => j = m
  BY Places
<1>2. k \in 0 .. n /\ k + 1 \in 1 .. n /\ k + 1 \in 0 .. n
  OBVIOUS
<1>3. w.next[c[k]] = c[k + 1] /\ w.count > 0
  BY <1>2 DEF Nodes
<1>4. c[k] \in Place /\ p \in Node /\ w.next[c[k]] = p /\ w.count > 0
  BY <1>1, <1>2, <1>3
<1>5. \A j \in 1 .. n : j # k + 1 => c[j] # p /\ c[j] \in Node
  BY <1>1, <1>2
<1> HIDE DEF v, d, p
<1>6. Destroyed(v, w, c[k], p)
  BY <1>0, <1>4, DestroyFields
<1>7. v.data = [w.data EXCEPT ![p] = NULL]
  BY <1>6 DEF Destroyed
<1>8. IsRemoved(d, n, c, k)
  BY <1>0, RemovedIs
<1>9. /\ \A j \in 0 .. k : d[j] = c[j]
      /\ \A j \in k + 1 .. n : d[j] = c[j + 1]
  BY <1>8 DEF IsRemoved
<1>10. w.data \in [Node -> Item \cup {NULL}]
  BY DEF State
<1>11. ASSUME NEW j \in 1 .. n - 1
       PROVE  v.data[d[j]] = IF j <= k THEN w.data[c[j]] ELSE w.data[c[j + 1]]
  <2>1. CASE j <= k
    <3>1. d[j] = c[j] /\ c[j] # p /\ c[j] \in Node
      BY <1>5, <1>9, <2>1
    <3> QED  BY <1>7, <1>10, <2>1, <3>1
  <2>2. CASE j > k
    <3>1. j + 1 \in 1 .. n /\ j + 1 # k + 1 /\ j \in k + 1 .. n
      BY <2>2
    <3>2. d[j] = c[j + 1] /\ c[j + 1] # p /\ c[j + 1] \in Node
      BY <1>5, <1>9, <3>1
    <3> QED  BY <1>7, <1>10, <2>2, <3>2
  <2> QED  BY <2>1, <2>2
<1>12. Content(v, n - 1, d) = SeqRemoved(Content(w, n, c), n, k)
  <2>1. \A j \in 1 .. n - 1 :
          SeqRemoved(Content(w, n, c), n, k)[j] =
            IF j <= k THEN w.data[c[j]] ELSE w.data[c[j + 1]]
    BY DEF SeqRemoved, Content
  <2>2. SeqRemoved(Content(w, n, c), n, k)
          = [j \in 1 .. n - 1 |-> SeqRemoved(Content(w, n, c), n, k)[j]]
    BY DEF SeqRemoved
  <2>3. Content(v, n - 1, d) = [j \in 1 .. n - 1 |-> v.data[d[j]]]
    BY DEF Content
  <2> QED  BY <1>11, <2>1, <2>2, <2>3
<1> QED  BY <1>0, <1>12

-----------------------------------------------------------------------------
(* The history: what is due to an iterator lies ahead of it, what it has passed *)
(* lies behind it, and it holds the item it returned last.                   *)

Hist(s, n, I, at, hold, du, pa, la) ==
    /\ s \in [1 .. n -> Item]
    /\ \A j, k \in 1 .. n : s[j] = s[k] => j = k
    /\ du \in [Iterator -> SUBSET InList(s, n)]
    /\ pa \in [Iterator -> SUBSET InList(s, n)]
    /\ la \in [Iterator -> InList(s, n) \cup {NULL}]
    /\ \A i \in I : \A j \in 1 .. n : /\ s[j] \in du[i] => j > at[i]
                                      /\ s[j] \in pa[i] => j <= at[i]
    /\ \A i \in I : hold[i] => la[i] = s[at[i]]

\* What Track makes of the history when the items in the list are those in in.
Only(du, in) == [j \in Iterator |-> du[j] \cap in]
OnlyLast(la, in) == [j \in Iterator |-> IF la[j] \in in THEN la[j] ELSE NULL]

Cursors(n, I, at, hold) ==
    /\ I \subseteq Iterator
    /\ at \in [Iterator -> Nat] /\ hold \in [Iterator -> BOOLEAN]
    /\ \A i \in I : at[i] <= n /\ (hold[i] => at[i] > 0)

\* The history stays right when an item is inserted behind place k.
LEMMA HistInsert ==
    ASSUME NEW n \in Nat, NEW k \in 0 .. n, NEW x \in Item,
           NEW s, NEW I, NEW at, NEW hold, NEW du, NEW pa, NEW la, NEW to,
           Hist(s, n, I, at, hold, du, pa, la), Cursors(n, I, at, hold),
           x \notin InList(s, n),
           \A i \in Iterator : to[i] = IF i \in I /\ k <= Rest(at, hold, i)
                                    THEN at[i] + 1 ELSE at[i]
    PROVE  LET t == SeqInserted(s, n, k, x)
               in == InList(t, n + 1)
           IN Hist(t, n + 1, I, to, hold, Only(du, in), Only(pa, in), OnlyLast(la, in))
<1> DEFINE t == SeqInserted(s, n, k, x)
           in == InList(t, n + 1)
           Ins == InList(s, n)
<1>1. /\ t \in [1 .. n + 1 -> Item]
      /\ \A j \in 1 .. k : t[j] = s[j]
      /\ t[k + 1] = x
      /\ \A j \in k + 2 .. n + 1 : t[j] = s[j - 1] /\ j - 1 \in 1 .. n
  <2>1. s \in [1 .. n -> Item]
    BY DEF Hist
  <2> QED  BY <2>1 DEF SeqInserted
<1>2. \A j \in 1 .. n : s[j] # x
  BY DEF InList
<1>3. \A j \in 1 .. n : \E m \in 1 .. n + 1 : t[m] = s[j]
  <2> SUFFICES ASSUME NEW j \in 1 .. n  PROVE \E m \in 1 .. n + 1 : t[m] = s[j]
    OBVIOUS
  <2>1. CASE j <= k
    BY <1>1, <2>1
  <2>2. CASE j > k
    <3>1. j + 1 \in k + 2 .. n + 1 /\ (j + 1) - 1 = j
      BY <2>2
    <3>2. t[j + 1] = s[(j + 1) - 1]
      BY <1>1, <3>1
    <3> QED  BY <3>1, <3>2
  <2> QED  BY <2>1, <2>2
<1> HIDE DEF t
<1>4. Ins \subseteq in
  BY <1>3 DEF InList
<1>5. in \subseteq Item
  BY <1>1 DEF InList
<1> HIDE DEF in
<1>6. /\ du \in [Iterator -> SUBSET Ins] /\ pa \in [Iterator -> SUBSET Ins]
      /\ la \in [Iterator -> Ins \cup {NULL}]
  BY DEF Hist
<1>7. Only(du, in) = du /\ Only(pa, in) = pa /\ OnlyLast(la, in) = la
  BY <1>4, <1>6 DEF Only, OnlyLast
<1>8. /\ du \in [Iterator -> SUBSET in] /\ pa \in [Iterator -> SUBSET in]
      /\ la \in [Iterator -> in \cup {NULL}]
  BY <1>4, <1>6
<1>9. \A j \in 1 .. n + 1 : \/ j <= k /\ j \in 1 .. n /\ t[j] = s[j]
                            \/ j = k + 1 /\ t[j] = x
                            \/ j > k + 1 /\ j - 1 \in 1 .. n /\ t[j] = s[j - 1]
  <2> SUFFICES ASSUME NEW j \in 1 .. n + 1
               PROVE  \/ j <= k /\ j \in 1 .. n /\ t[j] = s[j]
                      \/ j = k + 1 /\ t[j] = x
                      \/ j > k + 1 /\ j - 1 \in 1 .. n /\ t[j] = s[j - 1]
    OBVIOUS
  <2>1. CASE j <= k
    BY <1>1, <2>1
  <2>2. CASE j > k + 1
    BY <1>1, <2>2
  <2> QED  BY <1>1, <2>1, <2>2
<1>10. ASSUME NEW j \in 1 .. n + 1, NEW m \in 1 .. n + 1, t[j] = t[m]  PROVE j = m
  <2>1. \A e, f \in 1 .. n : s[e] = s[f] => e = f
    BY DEF Hist
  <2> QED  BY <1>2, <1>9, <1>10, <2>1
<1>11. ASSUME NEW i \in I
       PROVE  /\ \A j \in 1 .. n + 1 : /\ t[j] \in du[i] => j > to[i]
                                       /\ t[j] \in pa[i] => j <= to[i]
              /\ hold[i] => la[i] = t[to[i]]
  <2>1. /\ i \in Iterator /\ at[i] \in 0 .. n /\ hold[i] \in BOOLEAN /\ (hold[i] => at[i] > 0)
        /\ \A j \in 1 .. n : (s[j] \in du[i] => j > at[i]) /\ (s[j] \in pa[i] => j <= at[i])
        /\ hold[i] => la[i] = s[at[i]]
    <3>1. /\ i \in Iterator /\ at[i] \in 0 .. n /\ hold[i] \in BOOLEAN
          /\ (hold[i] => at[i] > 0)
      BY DEF Cursors
    <3>2. \A j \in 1 .. n : (s[j] \in du[i] => j > at[i]) /\ (s[j] \in pa[i] => j <= at[i])
      BY DEF Hist
    <3>3. hold[i] => la[i] = s[at[i]]
      BY DEF Hist
    <3> QED  BY <3>1, <3>2, <3>3
  <2>2. x \notin du[i] /\ x \notin pa[i]
    BY <1>6, <2>1
  <2>3. to[i] = IF k <= (IF hold[i] THEN at[i] - 1 ELSE at[i]) THEN at[i] + 1 ELSE at[i]
    BY <2>1 DEF Rest
  <2>4. (k < at[i] => to[i] = at[i] + 1) /\ (to[i] = at[i] \/ (to[i] = at[i] + 1 /\ k <= at[i]))
    BY <2>1, <2>3
  <2>5. ASSUME NEW j \in 1 .. n + 1
        PROVE  (t[j] \in du[i] => j > to[i]) /\ (t[j] \in pa[i] => j <= to[i])
    <3>1. CASE j <= k /\ j \in 1 .. n /\ t[j] = s[j]
      <4>1. (s[j] \in du[i] => j > at[i]) /\ (s[j] \in pa[i] => j <= at[i])
        BY <2>1, <3>1
      <4> QED  BY <2>1, <2>4, <3>1, <4>1
    <3>2. CASE j = k + 1 /\ t[j] = x
      BY <2>2, <3>2
    <3>3. CASE j > k + 1 /\ j - 1 \in 1 .. n /\ t[j] = s[j - 1]
      <4>1. (s[j - 1] \in du[i] => j - 1 > at[i]) /\ (s[j - 1] \in pa[i] => j - 1 <= at[i])
        BY <2>1, <3>3
      <4> QED  BY <2>1, <2>4, <3>3, <4>1
    <3> QED  BY <1>9, <3>1, <3>2, <3>3
  <2>6. ASSUME hold[i]  PROVE la[i] = t[to[i]]
    <3>1. la[i] = s[at[i]] /\ at[i] \in 1 .. n
      BY <2>1, <2>6
    <3>2. CASE k < at[i]
      <4>1. to[i] = at[i] + 1 /\ to[i] \in k + 2 .. n + 1 /\ to[i] - 1 = at[i]
        BY <2>1, <2>4, <3>2
      <4>2. t[to[i]] = s[to[i] - 1]
        BY <1>1, <4>1
      <4> QED  BY <3>1, <4>1, <4>2
    <3>3. CASE k >= at[i]
      <4>1. to[i] = at[i] /\ at[i] \in 1 .. k
        BY <2>1, <2>3, <2>6, <3>1, <3>3
      <4> QED  BY <1>1, <3>1, <4>1
    <3> QED  BY <2>1, <3>2, <3>3
  <2> QED  BY <2>5, <2>6
<1>12. Hist(t, n + 1, I, to, hold, Only(du, in), Only(pa, in), OnlyLast(la, in))
  BY <1>1, <1>7, <1>8, <1>10, <1>11 DEF Hist, in
<1> QED  BY <1>12 DEF t, in

\* ... and when the item behind place k is removed.
LEMMA HistRemove ==
    ASSUME NEW n \in Nat, NEW k \in Nat, k < n,
           NEW s, NEW I, NEW at, NEW hold, NEW du, NEW pa, NEW la, NEW to, NEW h,
           Hist(s, n, I, at, hold, du, pa, la), Cursors(n, I, at, hold),
           \A i \in Iterator : to[i] = IF i \in I /\ k < at[i] THEN at[i] - 1 ELSE at[i],
           \A i \in Iterator : h[i] <=> hold[i] /\ at[i] # k /\ at[i] # k + 1
    PROVE  LET t == SeqRemoved(s, n, k)
               in == InList(t, n - 1)
           IN Hist(t, n - 1, I, to, h, Only(du, in), Only(pa, in), OnlyLast(la, in))
<1> DEFINE t == SeqRemoved(s, n, k)
           in == InList(t, n - 1)
<1>1. /\ t \in [1 .. n - 1 -> Item]
      /\ \A j \in 1 .. n - 1 : t[j] = IF j <= k THEN s[j] ELSE s[j + 1]
      /\ n - 1 \in Nat
  <2>1. s \in [1 .. n -> Item]
    BY DEF Hist
  <2> QED  BY <2>1 DEF SeqRemoved
<1> HIDE DEF t
<1>2. in \subseteq Item
  BY <1>1 DEF InList
<1>3. \A j \in 1 .. n - 1 : t[j] \in in
  BY DEF InList
<1> HIDE DEF in
<1>4. /\ du \in [Iterator -> SUBSET InList(s, n)] /\ pa \in [Iterator -> SUBSET InList(s, n)]
      /\ la \in [Iterator -> InList(s, n) \cup {NULL}]
      /\ \A e, f \in 1 .. n : s[e] = s[f] => e = f
  BY DEF Hist
<1>5. /\ Only(du, in) \in [Iterator -> SUBSET in] /\ Only(pa, in) \in [Iterator -> SUBSET in]
      /\ OnlyLast(la, in) \in [Iterator -> in \cup {NULL}]
  BY DEF Only, OnlyLast
<1>6. \A j \in 1 .. n - 1 : \/ j <= k /\ j \in 1 .. n /\ t[j] = s[j]
                            \/ j > k /\ j + 1 \in 1 .. n /\ t[j] = s[j + 1]
  BY <1>1
<1>7. ASSUME NEW j \in 1 .. n - 1, NEW m \in 1 .. n - 1, t[j] = t[m]  PROVE j = m
  BY <1>4, <1>6, <1>7
<1>8. ASSUME NEW i \in I
      PROVE  /\ \A j \in 1 .. n - 1 : /\ t[j] \in Only(du, in)[i] => j > to[i]
                                      /\ t[j] \in Only(pa, in)[i] => j <= to[i]
             /\ h[i] => OnlyLast(la, in)[i] = t[to[i]]
  <2>1. /\ i \in Iterator /\ at[i] \in 0 .. n /\ hold[i] \in BOOLEAN /\ (hold[i] => at[i] > 0)
        /\ \A j \in 1 .. n : (s[j] \in du[i] => j > at[i]) /\ (s[j] \in pa[i] => j <= at[i])
        /\ hold[i] => la[i] = s[at[i]]
    <3>1. /\ i \in Iterator /\ at[i] \in 0 .. n /\ hold[i] \in BOOLEAN
          /\ (hold[i] => at[i] > 0)
      BY DEF Cursors
    <3>2. \A j \in 1 .. n : (s[j] \in du[i] => j > at[i]) /\ (s[j] \in pa[i] => j <= at[i])
      BY DEF Hist
    <3>3. hold[i] => la[i] = s[at[i]]
      BY DEF Hist
    <3> QED  BY <3>1, <3>2, <3>3
  <2>2. to[i] = IF k < at[i] THEN at[i] - 1 ELSE at[i]
    BY <2>1
  <2>3. Only(du, in)[i] \subseteq du[i] /\ Only(pa, in)[i] \subseteq pa[i]
    BY <2>1 DEF Only
  <2>4. ASSUME NEW j \in 1 .. n - 1
        PROVE  /\ t[j] \in Only(du, in)[i] => j > to[i]
               /\ t[j] \in Only(pa, in)[i] => j <= to[i]
    <3>1. CASE j <= k /\ j \in 1 .. n /\ t[j] = s[j]
      <4>1. (s[j] \in du[i] => j > at[i]) /\ (s[j] \in pa[i] => j <= at[i])
        BY <2>1, <3>1
      <4> QED  BY <2>1, <2>2, <2>3, <3>1, <4>1
    <3>2. CASE j > k /\ j + 1 \in 1 .. n /\ t[j] = s[j + 1]
      <4>1. (s[j + 1] \in du[i] => j + 1 > at[i]) /\ (s[j + 1] \in pa[i] => j + 1 <= at[i])
        BY <2>1, <3>2
      <4> QED  BY <2>1, <2>2, <2>3, <3>2, <4>1
    <3> QED  BY <1>6, <3>1, <3>2
  <2>5. ASSUME h[i]  PROVE OnlyLast(la, in)[i] = t[to[i]]
    <3>1. hold[i] /\ at[i] # k /\ at[i] # k + 1
      BY <2>1, <2>5
    <3>2. to[i] \in 1 .. n - 1 /\ t[to[i]] = s[at[i]]
      <4>1. CASE at[i] < k
        BY <1>1, <2>1, <2>2, <3>1, <4>1
      <4>2. CASE at[i] > k + 1
        <5>1. to[i] = at[i] - 1 /\ to[i] \in 1 .. n - 1 /\ to[i] > k /\ to[i] + 1 = at[i]
          BY <2>1, <2>2, <4>2
        <5> QED  BY <1>1, <5>1
      <4> QED  BY <2>1, <3>1, <4>1, <4>2
    <3>3. la[i] \in in
      BY <1>3, <2>1, <3>1, <3>2
    <3> QED  BY <2>1, <3>1, <3>2, <3>3 DEF OnlyLast
  <2> QED  BY <2>4, <2>5
<1>9. Hist(t, n - 1, I, to, h, Only(du, in), Only(pa, in), OnlyLast(la, in))
  BY <1>1, <1>5, <1>7, <1>8 DEF Hist, in
<1> QED  BY <1>9 DEF t, in

-----------------------------------------------------------------------------
(* The invariant of the list: a chain, and what the iterators have before and  *)
(* behind them.                                                              *)

Holds(w, n, c, at, hold, du, pa, la) ==
    /\ Chain(w, n, c, at, hold)
    /\ Hist(Content(w, n, c), n, w.iters, at, hold, du, pa, la)

ListInv == \E n, c, at, hold : Holds(l, n, c, at, hold, due, passed, last)

\* ... with the history that Track leaves.
Tracked(w, n, c, at, hold, du, pa, la) ==
    Holds(w, n, c, at, hold, Only(du, ToSet(Items(w))), Only(pa, ToSet(Items(w))),
          OnlyLast(la, ToSet(Items(w))))

\* What a chain says of a list, in parts.
LEMMA Opened ==
    ASSUME NEW w, NEW n, NEW c, NEW at, NEW hold, Chain(w, n, c, at, hold)
    PROVE  /\ w \in State /\ n \in Nat /\ Nodes(w, n, c) /\ Iters(w, n, c, at, hold)
           /\ Cursors(n, w.iters, at, hold)
           /\ ToSet(Items(w)) = InList(Content(w, n, c), n)
           /\ Items(w) = Content(w, n, c) /\ Content(w, n, c) \in [1 .. n -> Item]
<1>1. w \in State /\ Nodes(w, n, c) /\ Iters(w, n, c, at, hold)
  BY DEF Chain
<1>2. n \in Nat
  BY <1>1 DEF Nodes
<1>3. w.iters \subseteq Iterator
  BY <1>1 DEF State
<1>4. Cursors(n, w.iters, at, hold)
  BY <1>1, <1>3 DEF Iters, Cursors
<1> QED  BY <1>1, <1>2, <1>4, ItemsIs

\* _list_node_create keeps the invariant, with the history that Track leaves.
LEMMA CreateTracked ==
    ASSUME NEW n \in Nat, NEW k \in 0 .. n, NEW p \in Node, NEW x \in Item,
           NEW w, NEW c, NEW at, NEW hold, NEW du, NEW pa, NEW la,
           Holds(w, n, c, at, hold, du, pa, la),
           p \notin w.heap, x \notin ToSet(Items(w))
    PROVE  Tracked(NodeCreate(w, c[k], p, x), n + 1, Inserted(n, c, k, p),
                   Moved(w, at, hold, k), hold, du, pa, la)
<1> DEFINE v == NodeCreate(w, c[k], p, x)
           d == Inserted(n, c, k, p)
           to == Moved(w, at, hold, k)
           s == Content(w, n, c)
           t == SeqInserted(s, n, k, x)
           in == InList(t, n + 1)
<1>1. Chain(w, n, c, at, hold) /\ Hist(s, n, w.iters, at, hold, du, pa, la)
  BY DEF Holds
<1>2. /\ w \in State /\ Nodes(w, n, c) /\ Cursors(n, w.iters, at, hold)
      /\ ToSet(Items(w)) = InList(s, n)
  BY <1>1, Opened
<1>3. Chain(v, n + 1, d, to, hold)
  BY <1>1, CreateChain
<1>4. Content(v, n + 1, d) = t
  BY <1>2, CreateContent
<1>5. v.iters = w.iters
  <2>1. c[k] \in Place
    BY <1>2, Places
  <2>2. Created(v, w, c[k], p, x)
    BY <1>2, <2>1, CreateFields
  <2> QED  BY <2>2 DEF Created
<1>6. \A i \in Iterator : to[i] = IF i \in w.iters /\ k <= Rest(at, hold, i)
                                 THEN at[i] + 1 ELSE at[i]
  BY DEF Moved
<1> HIDE DEF v, d, to, s
<1>7. x \notin InList(s, n)
  BY <1>2
<1>8. Hist(t, n + 1, w.iters, to, hold, Only(du, in), Only(pa, in), OnlyLast(la, in))
  BY <1>1, <1>2, <1>6, <1>7, HistInsert
<1>9. ToSet(Items(v)) = in
  BY <1>3, <1>4, Opened
<1> HIDE DEF t, in
<1>10. Tracked(v, n + 1, d, to, hold, du, pa, la)
  BY <1>3, <1>4, <1>5, <1>8, <1>9 DEF Tracked, Holds
<1> QED  BY <1>10 DEF v, d, to

\* _list_node_destroy keeps the invariant, with the history that Track leaves.
LEMMA DestroyTracked ==
    ASSUME NEW n \in Nat, NEW k \in Nat,
           NEW w, NEW c, NEW at, NEW hold, NEW du, NEW pa, NEW la,
           k < n, Holds(w, n, c, at, hold, du, pa, la)
    PROVE  Tracked(NodeDestroy(w, c[k]), n - 1, Removed(n, c, k),
                   Pulled(w, at, k), Kept(at, hold, k), du, pa, la)
<1> DEFINE v == NodeDestroy(w, c[k])
           d == Removed(n, c, k)
           to == Pulled(w, at, k)
           h == Kept(at, hold, k)
           s == Content(w, n, c)
           t == SeqRemoved(s, n, k)
           in == InList(t, n - 1)
<1>1. Chain(w, n, c, at, hold) /\ Hist(s, n, w.iters, at, hold, du, pa, la)
  BY DEF Holds
<1>2. w \in State /\ Nodes(w, n, c) /\ Cursors(n, w.iters, at, hold)
  BY <1>1, Opened
<1>3. Chain(v, n - 1, d, to, h)
  BY <1>1, DestroyChain
<1>4. Content(v, n - 1, d) = t
  BY <1>2, DestroyContent
<1>5. v.iters = w.iters
  <2>1. k \in 0 .. n /\ k + 1 \in 1 .. n
    OBVIOUS
  <2>2. c[k] \in Place /\ c[k + 1] \in Node
    BY <1>2, <2>1, Places
  <2>3. w.next[c[k]] = c[k + 1] /\ w.count > 0
    BY <1>2, <2>1 DEF Nodes
  <2>4. Destroyed(v, w, c[k], c[k + 1])
    BY <1>2, <2>2, <2>3, DestroyFields
  <2> QED  BY <2>4 DEF Destroyed
<1>6. /\ \A i \in Iterator : to[i] = IF i \in w.iters /\ k < at[i] THEN at[i] - 1 ELSE at[i]
      /\ \A i \in Iterator : h[i] <=> hold[i] /\ at[i] # k /\ at[i] # k + 1
  BY DEF Pulled, Kept
<1> HIDE DEF v, d, to, s, h
<1>7. Hist(t, n - 1, w.iters, to, h, Only(du, in), Only(pa, in), OnlyLast(la, in))
  BY <1>1, <1>2, <1>6, HistRemove
<1>8. ToSet(Items(v)) = in
  BY <1>3, <1>4, Opened
<1> HIDE DEF t, in
<1>9. Tracked(v, n - 1, d, to, h, du, pa, la)
  BY <1>3, <1>4, <1>5, <1>7, <1>8 DEF Tracked, Holds
<1> QED  BY <1>9 DEF v, d, to, h

\* So does a call that leaves the list alone.
LEMMA SameTracked ==
    ASSUME NEW w, NEW n, NEW c, NEW at, NEW hold, NEW du, NEW pa, NEW la,
           Holds(w, n, c, at, hold, du, pa, la)
    PROVE  /\ Tracked(w, n, c, at, hold, du, pa, la)
           /\ Only(du, ToSet(Items(w))) = du /\ Only(pa, ToSet(Items(w))) = pa
           /\ OnlyLast(la, ToSet(Items(w))) = la
<1> DEFINE in == ToSet(Items(w))
           s == Content(w, n, c)
<1>1. Chain(w, n, c, at, hold) /\ Hist(s, n, w.iters, at, hold, du, pa, la)
  BY DEF Holds
<1>2. in = InList(s, n)
  BY <1>1, Opened
<1> HIDE DEF in
<1>3. /\ du \in [Iterator -> SUBSET in] /\ pa \in [Iterator -> SUBSET in]
      /\ la \in [Iterator -> in \cup {NULL}]
  BY <1>1, <1>2 DEF Hist
<1>4. Only(du, in) = du /\ Only(pa, in) = pa /\ OnlyLast(la, in) = la
  BY <1>3 DEF Only, OnlyLast
<1> QED  BY <1>1, <1>4 DEF in, Tracked

\* What Track makes of the invariant.
LEMMA TrackInv ==
    ASSUME NEW op, NEW i, NEW r, NEW w, Track(op, i, r, w),
           NEW n, NEW c, NEW at, NEW hold,
           Tracked(w, n, c, at, hold, due, passed, last)
    PROVE  Holds(l', n, c, at, hold, due', passed', last')
BY DEF Tracked, Track, Only, OnlyLast

-----------------------------------------------------------------------------
(* The calls that put an item into the list or take one out *)

\* A call that puts x behind place k keeps the invariant.
LEMMA AddStep ==
    ASSUME NEW n \in Nat, NEW k \in 0 .. n, NEW p \in Node, NEW x \in Item,
           NEW c, NEW at, NEW hold, NEW op, NEW i, NEW r,
           Holds(l, n, c, at, hold, due, passed, last), p \notin l.heap, New(x),
           Track(op, i, r, NodeCreate(l, c[k], p, x))
    PROVE  Holds(l', n + 1, Inserted(n, c, k, p), Moved(l, at, hold, k), hold,
                 due', passed', last')
<1>1. x \notin ToSet(Items(l))
  BY DEF New, ItemSet
<1>2. Tracked(NodeCreate(l, c[k], p, x), n + 1, Inserted(n, c, k, p),
              Moved(l, at, hold, k), hold, due, passed, last)
  BY <1>1, CreateTracked
<1> QED  BY <1>2, TrackInv

\* A call that takes out the node behind place k keeps the invariant.
LEMMA TakeStep ==
    ASSUME NEW n \in Nat, NEW k \in Nat,
           NEW c, NEW at, NEW hold, NEW op, NEW i, NEW r,
           k < n, Holds(l, n, c, at, hold, due, passed, last),
           Track(op, i, r, NodeDestroy(l, c[k]))
    PROVE  Holds(l', n - 1, Removed(n, c, k), Pulled(l, at, k), Kept(at, hold, k),
                 due', passed', last')
<1>1. Tracked(NodeDestroy(l, c[k]), n - 1, Removed(n, c, k),
              Pulled(l, at, k), Kept(at, hold, k), due, passed, last)
  BY DestroyTracked
<1> QED  BY <1>1, TrackInv

\* A call that does neither keeps the invariant.
LEMMA LeaveStep ==
    ASSUME NEW n, NEW c, NEW at, NEW hold, NEW op, NEW i, NEW r,
           Holds(l, n, c, at, hold, due, passed, last), Track(op, i, r, l)
    PROVE  Holds(l', n, c, at, hold, due', passed', last')
<1>1. Tracked(l, n, c, at, hold, due, passed, last)
  BY SameTracked
<1> QED  BY <1>1, TrackInv

\* Where each of these calls is.
LEMMA AppendIs ==
    ASSUME NEW n, NEW c, NEW at, NEW hold, Chain(l, n, c, at, hold), NEW x, ListAppend(x)
    PROVE  \E p \in Node \ l.heap : Track("list_append", NULL, x, NodeCreate(l, c[n], p, x))
BY DEF ListAppend, Chain, Nodes

\* list_prepend puts the node behind the head.
LEMMA PrependIs ==
    ASSUME NEW n, NEW c, NEW at, NEW hold, Chain(l, n, c, at, hold), NEW x, ListPrepend(x)
    PROVE  \E p \in Node \ l.heap : Track("list_prepend", NULL, x, NodeCreate(l, c[0], p, x))
BY DEF ListPrepend, Chain, Nodes

\* ... and where an iterator is.
LEMMA IteratorIs ==
    ASSUME NEW n, NEW c, NEW at, NEW hold, Chain(l, n, c, at, hold), NEW i \in l.iters
    PROVE  /\ i \in Iterator /\ n \in Nat /\ at[i] \in 0 .. n /\ hold[i] \in BOOLEAN
           /\ Rest(at, hold, i) \in 0 .. n
           /\ l.prev[i] = c[Rest(at, hold, i)] /\ l.pos[i] = c[at[i] + 1]
           /\ At(l, l.prev[i]) = c[Rest(at, hold, i) + 1]
           /\ hold[i] => at[i] > 0 /\ Rest(at, hold, i) = at[i] - 1
           /\ ~hold[i] => Rest(at, hold, i) = at[i]
           /\ At(l, l.prev[i]) # l.pos[i] <=> hold[i]
<1>1. /\ l \in State /\ n \in Nat /\ Nodes(l, n, c) /\ Cursors(n, l.iters, at, hold)
      /\ Iters(l, n, c, at, hold)
  BY Opened
<1>2. /\ i \in Iterator /\ at[i] \in 0 .. n /\ hold[i] \in BOOLEAN
      /\ (hold[i] => at[i] > 0)
  BY <1>1 DEF Cursors
<1>3. l.prev[i] = c[Rest(at, hold, i)] /\ l.pos[i] = c[at[i] + 1]
  BY <1>1 DEF Iters
<1>4. /\ Rest(at, hold, i) \in 0 .. n
      /\ hold[i] => Rest(at, hold, i) = at[i] - 1
      /\ ~hold[i] => Rest(at, hold, i) = at[i]
  BY <1>1, <1>2 DEF Rest
<1>5. At(l, l.prev[i]) = c[Rest(at, hold, i) + 1]
  <2>1. \A j \in 0 .. n : l.next[c[j]] = c[j + 1]
    BY <1>1 DEF Nodes
  <2> QED  BY <1>3, <1>4, <2>1 DEF At
<1>6. \A j, m \in 0 .. n + 1 : c[j] = c[m] => j = m
  BY <1>1, Places
<1>7. At(l, l.prev[i]) # l.pos[i] <=> hold[i]
  <2>1. /\ Rest(at, hold, i) + 1 \in 0 .. n + 1 /\ at[i] + 1 \in 0 .. n + 1
    BY <1>1, <1>2, <1>4
  <2>2. c[Rest(at, hold, i) + 1] = c[at[i] + 1] => Rest(at, hold, i) = at[i]
    BY <1>2, <1>4, <1>6, <2>1
  <2>3. hold[i] => Rest(at, hold, i) # at[i]
    BY <1>2, <1>4
  <2> QED  BY <1>3, <1>4, <1>5, <2>2, <2>3
<1> QED  BY <1>1, <1>2, <1>3, <1>4, <1>5, <1>7

\* list_pop takes out the first node, if there is one.
LEMMA PopIs ==
    ASSUME NEW n, NEW c, NEW at, NEW hold, Chain(l, n, c, at, hold), ListPop
    PROVE  \/ n = 0 /\ Track("list_pop", NULL, NULL, l)
           \/ n > 0 /\ Track("list_pop", NULL, Content(l, n, c)[1], NodeDestroy(l, c[0]))
<1>1. l \in State /\ n \in Nat /\ Nodes(l, n, c)
  BY Opened
<1>2. /\ c[0] = HEAD /\ c[n + 1] = NULL /\ l.next[c[0]] = c[0 + 1]
      /\ n > 0 => c[1] # NULL
  <2>1. \A j \in 0 .. n : c[j] \in Place /\ c[j] # NULL
    BY <1>1, Places
  <2> QED  BY <1>1, <2>1 DEF Nodes
<1>3. Track("list_pop", NULL, IF c[1] = NULL THEN NULL ELSE l.data[c[1]], NodeDestroy(l, HEAD))
  BY <1>2 DEF ListPop
<1>4. CASE n = 0
  <2>1. NodeDestroy(l, HEAD) = l
    BY <1>2, <1>4, DestroyNothing
  <2> QED  BY <1>2, <1>3, <1>4, <2>1
<1>5. CASE n > 0
  <2>1. Content(l, n, c)[1] = l.data[c[1]]
    BY <1>1, <1>5 DEF Content
  <2> QED  BY <1>2, <1>3, <1>5, <2>1
<1> QED  BY <1>1, <1>4, <1>5

\* list_remove_first takes out one of the nodes.
LEMMA RemoveFirstIs ==
    ASSUME NEW n, NEW c, NEW at, NEW hold, Chain(l, n, c, at, hold), ListRemoveFirst
    PROVE  \E k \in 0 .. n - 1 :
              Track("list_remove_first", NULL, Content(l, n, c)[k + 1], NodeDestroy(l, c[k]))
<1>1. l \in State /\ n \in Nat /\ Nodes(l, n, c)
  BY Opened
<1>2. PICK pp \in {HEAD} \cup ToSet(Walk(l)) :
        /\ At(l, pp) # NULL
        /\ Track("list_remove_first", NULL, l.data[At(l, pp)], NodeDestroy(l, pp))
  BY DEF ListRemoveFirst
<1>3. Walk(l) = Along(n, c)
  BY <1>1, WalkIs
<1>4. /\ c[0] = HEAD /\ c[n + 1] = NULL
      /\ \A j \in 0 .. n : l.next[c[j]] = c[j + 1]
  BY <1>1 DEF Nodes
<1>5. PICK k \in 0 .. n : pp = c[k]
  <2>1. CASE pp = HEAD
    BY <1>1, <1>4, <2>1
  <2>2. CASE pp \in ToSet(Walk(l))
    BY <1>3, <2>2 DEF ToSet, Along
  <2> QED  BY <1>2, <2>1, <2>2
<1>6. At(l, pp) = c[k + 1]
  BY <1>4, <1>5 DEF At
<1>7. k \in 0 .. n - 1
  BY <1>1, <1>2, <1>4, <1>6
<1>8. Content(l, n, c)[k + 1] = l.data[c[k + 1]]
  BY <1>1, <1>7 DEF Content
<1> QED  BY <1>2, <1>5, <1>6, <1>7, <1>8

\* list_insert puts the node where the iterator is.
LEMMA InsertIs ==
    ASSUME NEW n, NEW c, NEW at, NEW hold, Chain(l, n, c, at, hold),
           NEW i, NEW x, ListInsert(i, x)
    PROVE  /\ i \in l.iters /\ New(x)
           /\ \E p \in Node \ l.heap :
                 Track("list_insert", i, x, NodeCreate(l, c[Rest(at, hold, i)], p, x))
<1>1. i \in l.iters /\ New(x)
  BY DEF ListInsert
<1>2. l.prev[i] = c[Rest(at, hold, i)]
  BY <1>1, IteratorIs
<1> QED  BY <1>1, <1>2 DEF ListInsert

\* list_remove takes out the node the iterator has returned last, or none.
LEMMA RemoveIs ==
    ASSUME NEW n, NEW c, NEW at, NEW hold, Chain(l, n, c, at, hold), NEW i, ListRemove(i)
    PROVE  /\ i \in l.iters
           /\ \/ ~hold[i] /\ Track("list_remove", i, NULL, l)
              \/ /\ hold[i]
                 /\ Track("list_remove", i, Content(l, n, c)[at[i]],
                          NodeDestroy(l, c[at[i] - 1]))
<1>1. i \in l.iters
  BY DEF ListRemove
<1>2. /\ at[i] \in 0 .. n /\ n \in Nat /\ hold[i] \in BOOLEAN
      /\ l.prev[i] = c[Rest(at, hold, i)]
      /\ At(l, l.prev[i]) = c[Rest(at, hold, i) + 1]
      /\ hold[i] => at[i] > 0 /\ Rest(at, hold, i) = at[i] - 1
      /\ At(l, l.prev[i]) # l.pos[i] <=> hold[i]
  BY <1>1, IteratorIs
<1>3. CASE ~hold[i]
  BY <1>1, <1>2, <1>3 DEF ListRemove
<1>4. CASE hold[i]
  <2>1. /\ l.prev[i] = c[at[i] - 1] /\ At(l, l.prev[i]) = c[at[i]]
        /\ at[i] \in 1 .. n
    BY <1>2, <1>4
  <2>2. Content(l, n, c)[at[i]] = l.data[c[at[i]]]
    BY <2>1 DEF Content
  <2> QED  BY <1>1, <1>2, <1>4, <2>1, <2>2 DEF ListRemove
<1> QED  BY <1>1, <1>2, <1>3, <1>4

-----------------------------------------------------------------------------
(* The calls that send iterators back to the head *)

Zero(at, I) == [j \in Iterator |-> IF j \in I THEN 0 ELSE at[j]]
Free(hold, I) == [j \in Iterator |-> j \notin I /\ hold[j]]

\* The iterators in I need not be anywhere before.
Elsewhere(w, n, c, at, hold, I) ==
    \A i \in w.iters \ I :
        /\ at[i] <= n /\ (hold[i] => at[i] > 0)
        /\ w.prev[i] = c[Rest(at, hold, i)]
        /\ w.pos[i] = c[at[i] + 1]

\* The iterators in I go back to the head of the chain.
LEMMA AtHeadChain ==
    ASSUME NEW w \in State, NEW n \in Nat, NEW c, NEW at, NEW hold, NEW I,
           w.sane, Nodes(w, n, c), I \subseteq Iterator,
           at \in [Iterator -> Nat], hold \in [Iterator -> BOOLEAN],
           Elsewhere(w, n, c, at, hold, I)
    PROVE  /\ Chain(AtHead(w, I), n, c, Zero(at, I), Free(hold, I))
           /\ Content(AtHead(w, I), n, c) = Content(w, n, c)
           /\ AtHead(w, I).iters = w.iters
<1> DEFINE v == AtHead(w, I)
           to == Zero(at, I)
           h == Free(hold, I)
<1>1. /\ v.pos = [j \in Iterator |-> IF j \in I THEN w.next[HEAD] ELSE w.pos[j]]
      /\ v.prev = [j \in Iterator |-> IF j \in I THEN HEAD ELSE w.prev[j]]
      /\ v.next = w.next /\ v.data = w.data /\ v.heap = w.heap /\ v.tail = w.tail
      /\ v.count = w.count /\ v.iters = w.iters /\ v.sane = w.sane
  BY DEF AtHead, State
<1>2. v = [w EXCEPT !.heap = v.heap, !.data = v.data, !.next = v.next, !.tail = v.tail,
                    !.count = v.count, !.prev = v.prev, !.pos = v.pos]
  BY DEF AtHead, State
<1>3. to \in [Iterator -> Nat] /\ h \in [Iterator -> BOOLEAN]
  BY DEF Zero, Free
<1>4. /\ \A j \in Iterator : to[j] = IF j \in I THEN 0 ELSE at[j]
      /\ \A j \in Iterator : h[j] <=> j \notin I /\ hold[j]
  BY DEF Zero, Free
<1> HIDE DEF v, to, h
<1>5. /\ w.next \in [Place -> Node \cup {NULL}] /\ w.pos \in [Iterator -> Node \cup {NULL}]
      /\ w.prev \in [Iterator -> Place] /\ w.iters \subseteq Iterator
      /\ w.heap \in SUBSET Node /\ w.data \in [Node -> Item \cup {NULL}]
      /\ w.tail \in Place /\ w.count \in Nat /\ HEAD \in Place
  BY DEF State, Place
<1>6. v \in State
  <2>1. /\ v.heap \in SUBSET Node /\ v.data \in [Node -> Item \cup {NULL}]
        /\ v.next \in [Place -> Node \cup {NULL}] /\ v.tail \in Place /\ v.count \in Nat
        /\ v.prev \in [Iterator -> Place] /\ v.pos \in [Iterator -> Node \cup {NULL}]
    BY <1>1, <1>5
  <2> QED  BY <1>2, <2>1, StateExcept
<1>7. Nodes(v, n, c)
  BY <1>1 DEF Nodes
<1>8. c[0] = HEAD /\ w.next[HEAD] = c[1]
  <2>1. c[0] = HEAD /\ \A j \in 0 .. n : w.next[c[j]] = c[j + 1]
    BY DEF Nodes
  <2>2. 0 \in 0 .. n /\ 0 + 1 = 1
    OBVIOUS
  <2> QED  BY <2>1, <2>2
<1>9. ASSUME NEW i \in w.iters
      PROVE  /\ to[i] <= n /\ (h[i] => to[i] > 0)
             /\ v.prev[i] = c[Rest(to, h, i)]
             /\ v.pos[i] = c[to[i] + 1]
  <2>1. i \in Iterator
    BY <1>5
  <2>2. CASE i \in I
    <3>1. to[i] = 0 /\ ~h[i]
      BY <1>4, <2>1, <2>2
    <3>2. v.prev[i] = HEAD /\ v.pos[i] = w.next[HEAD]
      BY <1>1, <2>1, <2>2
    <3> QED  BY <1>8, <3>1, <3>2 DEF Rest
  <2>3. CASE i \notin I
    <3>1. to[i] = at[i] /\ (h[i] <=> hold[i]) /\ h[i] \in BOOLEAN /\ hold[i] \in BOOLEAN
      BY <1>3, <1>4, <2>1, <2>3
    <3>2. v.prev[i] = w.prev[i] /\ v.pos[i] = w.pos[i]
      BY <1>1, <2>1, <2>3
    <3>3. Rest(to, h, i) = Rest(at, hold, i)
      BY <3>1 DEF Rest
    <3> QED  BY <2>3, <3>1, <3>2, <3>3 DEF Elsewhere
  <2> QED  BY <2>2, <2>3
<1>10. Iters(v, n, c, to, h)
  BY <1>1, <1>3, <1>9 DEF Iters
<1>11. Chain(v, n, c, to, h)
  BY <1>1, <1>6, <1>7, <1>10 DEF Chain
<1> QED  BY <1>1, <1>11 DEF v, to, h, Content

\* The history after Restart: the items are the same, in any order.
Restarted(t, n, K, at, hold, J, du, pa, la) ==
    Hist(t, n, K, Zero(at, J), Free(hold, J),
         [j \in Iterator |-> IF j \in J THEN InList(t, n) ELSE du[j]],
         [j \in Iterator |-> IF j \in J THEN {} ELSE pa[j]],
         [j \in Iterator |-> IF j \in J THEN NULL ELSE la[j]])

\* The history stays right when iterators go back to the head.
LEMMA HistRestart ==
    ASSUME NEW n \in Nat, NEW s, NEW t, NEW I, NEW J, NEW K, NEW at, NEW hold,
           NEW du, NEW pa, NEW la,
           Hist(s, n, I, at, hold, du, pa, la),
           at \in [Iterator -> Nat], hold \in [Iterator -> BOOLEAN],
           t \in [1 .. n -> Item], \A j, k \in 1 .. n : t[j] = t[k] => j = k,
           InList(t, n) = InList(s, n),
           J \subseteq Iterator, K \subseteq Iterator, K \subseteq I \cup J,
           s = t \/ K \subseteq J
    PROVE  Restarted(t, n, K, at, hold, J, du, pa, la)
<1> DEFINE du2 == [j \in Iterator |-> IF j \in J THEN InList(t, n) ELSE du[j]]
           pa2 == [j \in Iterator |-> IF j \in J THEN {} ELSE pa[j]]
           la2 == [j \in Iterator |-> IF j \in J THEN NULL ELSE la[j]]
           to == Zero(at, J)
           h == Free(hold, J)
           in == InList(t, n)
<1>1. /\ du \in [Iterator -> SUBSET in] /\ pa \in [Iterator -> SUBSET in]
      /\ la \in [Iterator -> in \cup {NULL}]
  BY DEF Hist
<1>2. /\ \A i \in I : \A j \in 1 .. n : (s[j] \in du[i] => j > at[i]) /\ (s[j] \in pa[i] => j <= at[i])
      /\ \A i \in I : hold[i] => la[i] = s[at[i]]
  BY DEF Hist
<1>3. /\ \A j \in Iterator : to[j] = IF j \in J THEN 0 ELSE at[j]
      /\ \A j \in Iterator : h[j] <=> j \notin J /\ hold[j]
  BY DEF Zero, Free
<1> HIDE DEF to, h, in
<1>4. /\ du2 \in [Iterator -> SUBSET in] /\ pa2 \in [Iterator -> SUBSET in]
      /\ la2 \in [Iterator -> in \cup {NULL}]
  BY <1>1 DEF in
<1>5. /\ \A i \in Iterator \cap J : pa2[i] = {}
      /\ \A i \in Iterator \ J : du2[i] = du[i] /\ pa2[i] = pa[i] /\ la2[i] = la[i]
  OBVIOUS
<1> HIDE DEF du2, pa2, la2
<1>6. ASSUME NEW i \in K
      PROVE  /\ \A j \in 1 .. n : (t[j] \in du2[i] => j > to[i]) /\ (t[j] \in pa2[i] => j <= to[i])
             /\ h[i] => la2[i] = t[to[i]]
  <2>1. CASE i \in J
    BY <1>3, <1>5, <2>1
  <2>2. CASE i \notin J
    <3>1. i \in Iterator \ J /\ i \in I /\ s = t
      BY <2>2
    <3>2. to[i] = at[i] /\ (h[i] => hold[i])
      BY <1>3, <3>1
    <3> QED  BY <1>2, <1>5, <3>1, <3>2
  <2> QED  BY <2>1, <2>2
<1>7. Hist(t, n, K, to, h, du2, pa2, la2)
  BY <1>4, <1>6 DEF Hist, in
<1> QED  BY <1>7 DEF to, h, du2, pa2, la2, Restarted

\* ... and when every iterator starts again, wherever it was before.
LEMMA HistSorted ==
    ASSUME NEW n \in Nat, NEW s, NEW t, NEW I, NEW at, NEW hold, NEW to, NEW h,
           NEW du, NEW pa, NEW la,
           Hist(s, n, I, at, hold, du, pa, la),
           to \in [Iterator -> Nat], h \in [Iterator -> BOOLEAN],
           t \in [1 .. n -> Item], \A j, k \in 1 .. n : t[j] = t[k] => j = k,
           InList(t, n) = InList(s, n), I \subseteq Iterator
    PROVE  Restarted(t, n, I, to, h, I, du, pa, la)
<1>1. Hist(s, n, {}, to, h, du, pa, la)
  BY DEF Hist
<1> QED  BY <1>1, HistRestart

\* A call that sends iterators back to the head keeps the invariant.
LEMMA RestartStep ==
    ASSUME NEW n, NEW b, NEW c, NEW at, NEW hold, NEW I, NEW op, NEW i, NEW w,
           Holds(l, n, b, at, hold, due, passed, last), I \subseteq Iterator,
           Chain(w, n, c, Zero(at, I), Free(hold, I)),
           \A j, k \in 1 .. n : Content(w, n, c)[j] = Content(w, n, c)[k] => j = k,
           InList(Content(w, n, c), n) = InList(Content(l, n, b), n),
           w.iters \subseteq l.iters \cup I,
           Content(l, n, b) = Content(w, n, c) \/ w.iters \subseteq I,
           Restart(I, op, i, w)
    PROVE  Holds(l', n, c, Zero(at, I), Free(hold, I), due', passed', last')
<1> DEFINE s == Content(l, n, b)
           t == Content(w, n, c)
<1>1. Chain(l, n, b, at, hold) /\ Hist(s, n, l.iters, at, hold, due, passed, last)
  BY DEF Holds
<1>2. n \in Nat /\ Cursors(n, l.iters, at, hold)
  BY <1>1, Opened
<1>3. at \in [Iterator -> Nat] /\ hold \in [Iterator -> BOOLEAN]
  BY <1>2 DEF Cursors
<1>4. t \in [1 .. n -> Item] /\ ToSet(Items(w)) = InList(t, n) /\ w \in State
  BY Opened
<1>5. w.iters \subseteq Iterator
  BY <1>4 DEF State
<1>6. /\ l' = w
      /\ due' = [j \in Iterator |-> IF j \in I THEN InList(t, n) ELSE due[j]]
      /\ passed' = [j \in Iterator |-> IF j \in I THEN {} ELSE passed[j]]
      /\ last' = [j \in Iterator |-> IF j \in I THEN NULL ELSE last[j]]
  BY <1>4 DEF Restart
<1>7. /\ \A j, k \in 1 .. n : t[j] = t[k] => j = k
      /\ InList(t, n) = InList(s, n)
      /\ s = t \/ w.iters \subseteq I
  OBVIOUS
<1> HIDE DEF s, t
<1>8. Restarted(t, n, w.iters, at, hold, I, due, passed, last)
  BY <1>1, <1>2, <1>3, <1>4, <1>5, <1>7, HistRestart
<1> QED  BY <1>6, <1>8 DEF Restarted, Holds, t

\* list_iterator_create
LEMMA CreateStep ==
    ASSUME NEW n, NEW c, NEW at, NEW hold, NEW i \in Iterator,
           Holds(l, n, c, at, hold, due, passed, last), ListIteratorCreate(i)
    PROVE  /\ Holds(l', n, c, Zero(at, {i}), Free(hold, {i}), due', passed', last')
           /\ Content(l', n, c) = Content(l, n, c) /\ l'.iters = l.iters \cup {i}
<1> DEFINE w == [l EXCEPT !.iters = @ \cup {i}]
<1>1. Chain(l, n, c, at, hold) /\ Hist(Content(l, n, c), n, l.iters, at, hold, due, passed, last)
  BY DEF Holds
<1>2. /\ l \in State /\ n \in Nat /\ Nodes(l, n, c) /\ Iters(l, n, c, at, hold) /\ l.sane
      /\ Cursors(n, l.iters, at, hold)
  BY <1>1, Opened DEF Chain
<1>3. Restart({i}, "list_iterator_create", i, AtHead(w, {i}))
  BY DEF ListIteratorCreate
<1>4. /\ w \in State /\ w.next = l.next /\ w.data = l.data /\ w.heap = l.heap
      /\ w.tail = l.tail /\ w.count = l.count /\ w.sane = l.sane
      /\ w.prev = l.prev /\ w.pos = l.pos /\ w.iters = l.iters \cup {i}
  BY <1>2 DEF State
<1> HIDE DEF w
<1>5. Nodes(w, n, c)
  BY <1>2, <1>4 DEF Nodes
<1>6. Elsewhere(w, n, c, at, hold, {i})
  BY <1>2, <1>4 DEF Iters, Elsewhere
<1>7. at \in [Iterator -> Nat] /\ hold \in [Iterator -> BOOLEAN]
  BY <1>2 DEF Cursors
<1>8. /\ Chain(AtHead(w, {i}), n, c, Zero(at, {i}), Free(hold, {i}))
      /\ Content(AtHead(w, {i}), n, c) = Content(w, n, c)
      /\ AtHead(w, {i}).iters = w.iters
  BY <1>2, <1>4, <1>5, <1>6, <1>7, AtHeadChain
<1>9. Content(w, n, c) = Content(l, n, c)
  BY <1>4 DEF Content
<1>10. \A j, k \in 1 .. n : Content(l, n, c)[j] = Content(l, n, c)[k] => j = k
  BY <1>1 DEF Hist
<1>11. Holds(l', n, c, Zero(at, {i}), Free(hold, {i}), due', passed', last')
  BY <1>3, <1>4, <1>8, <1>9, <1>10, RestartStep
<1>12. l' = AtHead(w, {i})
  BY <1>3 DEF Restart
<1> QED  BY <1>4, <1>8, <1>9, <1>11, <1>12

\* list_iterator_reset
LEMMA ResetStep ==
    ASSUME NEW n, NEW c, NEW at, NEW hold, NEW i \in Iterator,
           Holds(l, n, c, at, hold, due, passed, last), ListIteratorReset(i)
    PROVE  /\ Holds(l', n, c, Zero(at, {i}), Free(hold, {i}), due', passed', last')
           /\ Content(l', n, c) = Content(l, n, c) /\ l'.iters = l.iters
<1>1. Chain(l, n, c, at, hold) /\ Hist(Content(l, n, c), n, l.iters, at, hold, due, passed, last)
  BY DEF Holds
<1>2. /\ l \in State /\ n \in Nat /\ Nodes(l, n, c) /\ Iters(l, n, c, at, hold) /\ l.sane
      /\ Cursors(n, l.iters, at, hold)
  BY <1>1, Opened DEF Chain
<1>3. i \in l.iters /\ Restart({i}, "list_iterator_reset", i, AtHead(l, {i}))
  BY DEF ListIteratorReset
<1>4. Elsewhere(l, n, c, at, hold, {i})
  BY <1>2 DEF Iters, Elsewhere
<1>5. at \in [Iterator -> Nat] /\ hold \in [Iterator -> BOOLEAN]
  BY <1>2 DEF Cursors
<1>51. {i} \subseteq Iterator /\ l \in State /\ n \in Nat /\ Nodes(l, n, c) /\ l.sane
  BY <1>2
<1>6. /\ Chain(AtHead(l, {i}), n, c, Zero(at, {i}), Free(hold, {i}))
      /\ Content(AtHead(l, {i}), n, c) = Content(l, n, c)
      /\ AtHead(l, {i}).iters = l.iters
  BY <1>4, <1>5, <1>51, AtHeadChain
<1>7. \A j, k \in 1 .. n : Content(l, n, c)[j] = Content(l, n, c)[k] => j = k
  BY <1>1 DEF Hist
<1>8. Holds(l', n, c, Zero(at, {i}), Free(hold, {i}), due', passed', last')
  BY <1>3, <1>6, <1>7, RestartStep
<1>9. l' = AtHead(l, {i})
  BY <1>3 DEF Restart
<1> QED  BY <1>6, <1>8, <1>9

\* list_iterator_destroy
LEMMA CloseStep ==
    ASSUME NEW n, NEW c, NEW at, NEW hold, NEW i \in Iterator,
           Holds(l, n, c, at, hold, due, passed, last), ListIteratorDestroy(i)
    PROVE  /\ Holds(l', n, c, at, hold, due', passed', last')
           /\ Content(l', n, c) = Content(l, n, c) /\ l'.iters = l.iters \ {i}
<1>1. Chain(l, n, c, at, hold) /\ Hist(Content(l, n, c), n, l.iters, at, hold, due, passed, last)
  BY DEF Holds
<1>2. /\ l \in State /\ n \in Nat /\ Nodes(l, n, c) /\ Iters(l, n, c, at, hold) /\ l.sane
      /\ Cursors(n, l.iters, at, hold)
  BY <1>1, Opened DEF Chain
<1>3. /\ l'.next = l.next /\ l'.data = l.data /\ l'.heap = l.heap
      /\ l'.tail = l.tail /\ l'.count = l.count /\ l'.sane = l.sane
      /\ l'.prev = [l.prev EXCEPT ![i] = HEAD] /\ l'.pos = [l.pos EXCEPT ![i] = NULL]
      /\ l'.iters = l.iters \ {i}
  BY <1>2 DEF ListIteratorDestroy, State
<1>4. l' \in State
  <2>1. l' = [l EXCEPT !.iters = @ \ {i}, !.pos[i] = NULL, !.prev[i] = HEAD]
    BY DEF ListIteratorDestroy
  <2>2. HEAD \in Place
    BY DEF Place
  <2> QED  BY <1>2, <2>1, <2>2 DEF State
<1>5. Nodes(l', n, c)
  BY <1>2, <1>3 DEF Nodes
<1>6. Iters(l', n, c, at, hold)
  <2>1. /\ l.prev \in [Iterator -> Place] /\ l.pos \in [Iterator -> Node \cup {NULL}]
        /\ l.iters \subseteq Iterator
    BY <1>2 DEF State
  <2>2. \A j \in l'.iters : j \in l.iters /\ l'.prev[j] = l.prev[j] /\ l'.pos[j] = l.pos[j]
    BY <1>3, <2>1
  <2> QED  BY <1>2, <2>2 DEF Iters
<1>7. Chain(l', n, c, at, hold)
  BY <1>2, <1>3, <1>4, <1>5, <1>6 DEF Chain
<1>8. Content(l', n, c) = Content(l, n, c)
  BY <1>3 DEF Content
<1>9. /\ due' = [due EXCEPT ![i] = {}] /\ passed' = [passed EXCEPT ![i] = {}]
      /\ last' = [last EXCEPT ![i] = NULL]
  BY DEF ListIteratorDestroy
<1> DEFINE s == Content(l, n, c)
           J == l'.iters
<1> HIDE DEF s
<1>10. Hist(s, n, J, at, hold, due', passed', last')
  <2>1. Hist(s, n, l.iters, at, hold, due, passed, last) /\ J = l.iters \ {i}
    BY <1>1, <1>3 DEF s
  <2> HIDE DEF J
  <2>2. /\ due' \in [Iterator -> SUBSET InList(s, n)]
        /\ passed' \in [Iterator -> SUBSET InList(s, n)]
        /\ last' \in [Iterator -> InList(s, n) \cup {NULL}]
    BY <1>9, <2>1 DEF Hist
  <2>3. l.iters \subseteq Iterator
    BY <1>2 DEF State
  <2>4. \A j \in J : /\ j \in l.iters
                     /\ due'[j] = due[j] /\ passed'[j] = passed[j] /\ last'[j] = last[j]
    BY <1>9, <2>1, <2>3 DEF Hist
  <2> QED  BY <2>1, <2>2, <2>4 DEF Hist
<1> QED  BY <1>3, <1>7, <1>8, <1>10 DEF Holds, s

\* list_next
Went(at, n, i) == [at EXCEPT ![i] = IF at[i] < n THEN at[i] + 1 ELSE at[i]]
Took(hold, at, n, i) == [hold EXCEPT ![i] = (at[i] < n)]

\* list_next keeps the invariant, and returns the item behind the iterator.
LEMMA NextStep ==
    ASSUME NEW n, NEW c, NEW at, NEW hold, NEW i \in Iterator,
           Holds(l, n, c, at, hold, due, passed, last), ListNext(i)
    PROVE  /\ Holds(l', n, c, Went(at, n, i), Took(hold, at, n, i), due', passed', last')
           /\ Content(l', n, c) = Content(l, n, c) /\ l'.iters = l.iters /\ i \in l.iters
           /\ call' = Call("list_next", i, IF at[i] < n THEN Content(l, n, c)[at[i] + 1] ELSE NULL)
<1> DEFINE s == Content(l, n, c)
           a == at[i]
           to == Went(at, n, i)
           h == Took(hold, at, n, i)
           x == IF a < n THEN s[a + 1] ELSE NULL
<1>1. Chain(l, n, c, at, hold) /\ Hist(s, n, l.iters, at, hold, due, passed, last)
  BY DEF Holds
<1>2. /\ l \in State /\ n \in Nat /\ Nodes(l, n, c) /\ Iters(l, n, c, at, hold) /\ l.sane
      /\ Cursors(n, l.iters, at, hold) /\ s \in [1 .. n -> Item]
  BY <1>1, Opened DEF Chain
<1>3. i \in l.iters
  BY DEF ListNext
<1>4. /\ a \in 0 .. n /\ hold[i] \in BOOLEAN
      /\ l.prev[i] = c[Rest(at, hold, i)] /\ l.pos[i] = c[a + 1]
      /\ At(l, l.prev[i]) = c[Rest(at, hold, i) + 1]
      /\ hold[i] => a > 0 /\ Rest(at, hold, i) = a - 1
      /\ ~hold[i] => Rest(at, hold, i) = a
      /\ At(l, l.prev[i]) # l.pos[i] <=> hold[i]
  BY <1>1, <1>3, IteratorIs
<1>5. /\ \A j \in 0 .. n : c[j] \in Place /\ c[j] # NULL
      /\ \A j \in 1 .. n : c[j] \in Node
  BY <1>2, Places
<1>6. c[n + 1] = NULL /\ \A j \in 0 .. n : l.next[c[j]] = c[j + 1]
  BY <1>2 DEF Nodes
<1>7. PrevNext(i) = c[a]
  <2>1. CASE hold[i]
    <3>1. Rest(at, hold, i) + 1 = a
      BY <1>4, <2>1
    <3> QED  BY <1>4, <2>1, <3>1 DEF PrevNext
  <2>2. CASE ~hold[i]
    BY <1>4, <2>2 DEF PrevNext
  <2> QED  BY <1>4, <2>1, <2>2
<1>8. /\ PosNext(i, l.pos[i]) = IF a < n THEN c[a + 2] ELSE NULL
      /\ (IF l.pos[i] = NULL THEN NULL ELSE l.data[l.pos[i]]) = x
  <2>1. CASE a < n
    <3>1. l.pos[i] = c[a + 1] /\ c[a + 1] # NULL /\ l.next[c[a + 1]] = c[(a + 1) + 1]
          /\ a + 1 \in 1 .. n
      BY <1>2, <1>4, <1>5, <1>6, <2>1
    <3>2. s[a + 1] = l.data[c[a + 1]]
      BY <3>1 DEF Content
    <3> QED  BY <1>4, <2>1, <3>1, <3>2 DEF PosNext
  <2>2. CASE a = n
    BY <1>4, <1>6, <2>2 DEF PosNext
  <2> QED  BY <1>2, <1>4, <2>1, <2>2
<1>9. /\ l' = [l EXCEPT !.pos[i] = PosNext(i, l.pos[i]), !.prev[i] = PrevNext(i)]
      /\ call' = Call("list_next", i, x)
      /\ due' = [due EXCEPT ![i] = @ \ {x}]
      /\ passed' = [passed EXCEPT ![i] = @ \cup ({x} \ {NULL})]
      /\ last' = [last EXCEPT ![i] = x]
  BY <1>8 DEF ListNext
<1>10. /\ l'.next = l.next /\ l'.data = l.data /\ l'.heap = l.heap
       /\ l'.tail = l.tail /\ l'.count = l.count /\ l'.sane = l.sane
       /\ l'.prev = [l.prev EXCEPT ![i] = c[a]]
       /\ l'.pos = [l.pos EXCEPT ![i] = IF a < n THEN c[a + 2] ELSE NULL]
       /\ l'.iters = l.iters
  BY <1>2, <1>7, <1>8, <1>9 DEF State
<1>11. l' \in State
  <2>1. c[a] \in Place /\ (IF a < n THEN c[a + 2] ELSE NULL) \in Node \cup {NULL}
    <3>1. CASE a < n - 1
      <4>1. a + 2 \in 1 .. n
        BY <1>2, <1>4, <3>1
      <4> QED  BY <1>2, <1>4, <1>5, <4>1
    <3>2. CASE a >= n - 1
      <4>1. a < n => c[a + 2] = NULL
        <5>1. a < n => a + 2 = n + 1
          BY <1>2, <1>4, <3>2
        <5> QED  BY <1>6, <5>1
      <4> QED  BY <1>2, <1>4, <1>5, <4>1
    <3> QED  BY <1>2, <1>4, <3>1, <3>2
  <2> QED  BY <1>2, <1>7, <1>8, <1>9, <2>1 DEF State
<1>12. Nodes(l', n, c)
  BY <1>2, <1>10 DEF Nodes
<1>13. at \in [Iterator -> Nat] /\ hold \in [Iterator -> BOOLEAN]
  BY <1>2 DEF Cursors
<1>14. /\ to \in [Iterator -> Nat] /\ h \in [Iterator -> BOOLEAN]
       /\ to[i] = (IF a < n THEN a + 1 ELSE a) /\ (h[i] <=> a < n)
       /\ \A j \in Iterator \ {i} : to[j] = at[j] /\ h[j] = hold[j]
  <2>1. /\ to \in [Iterator -> Nat] /\ to[i] = (IF a < n THEN a + 1 ELSE a)
        /\ \A j \in Iterator \ {i} : to[j] = at[j]
    BY <1>4, <1>13 DEF Went
  <2>2. /\ h \in [Iterator -> BOOLEAN] /\ h[i] = (a < n)
        /\ \A j \in Iterator \ {i} : h[j] = hold[j]
    BY <1>4, <1>13 DEF Took
  <2> QED  BY <2>1, <2>2
<1>15. l.iters \subseteq Iterator /\ l.prev \in [Iterator -> Place]
       /\ l.pos \in [Iterator -> Node \cup {NULL}]
  BY <1>2 DEF State
<1> HIDE DEF to, h, s, x
<1>16. Iters(l', n, c, to, h)
  <2> SUFFICES ASSUME NEW j \in l.iters
               PROVE  /\ to[j] <= n /\ (h[j] => to[j] > 0)
                      /\ l'.prev[j] = c[Rest(to, h, j)]
                      /\ l'.pos[j] = c[to[j] + 1]
    BY <1>10, <1>14 DEF Iters
  <2>1. CASE j = i
    <3>1. l'.prev[j] = c[a] /\ l'.pos[j] = IF a < n THEN c[a + 2] ELSE NULL
      BY <1>10, <1>15, <2>1
    <3>2. CASE a < n
      <4>1. to[i] = a + 1 /\ h[i] /\ Rest(to, h, i) = a /\ to[i] <= n /\ to[i] > 0
            /\ to[i] + 1 = a + 2
        BY <1>2, <1>4, <1>14, <3>2 DEF Rest
      <4> QED  BY <2>1, <3>1, <3>2, <4>1
    <3>3. CASE a = n
      <4>1. to[i] = n /\ ~h[i] /\ Rest(to, h, i) = n
        BY <1>2, <1>4, <1>14, <3>3 DEF Rest
      <4> QED  BY <1>2, <1>6, <2>1, <3>1, <3>3, <4>1
    <3> QED  BY <1>2, <1>4, <3>2, <3>3
  <2>2. CASE j # i
    <3>1. /\ l'.prev[j] = l.prev[j] /\ l'.pos[j] = l.pos[j]
          /\ to[j] = at[j] /\ h[j] = hold[j] /\ Rest(to, h, j) = Rest(at, hold, j)
      BY <1>10, <1>14, <1>15, <2>2 DEF Rest
    <3> QED  BY <1>2, <3>1 DEF Iters
  <2> QED  BY <2>1, <2>2
<1>17. Chain(l', n, c, to, h)
  BY <1>2, <1>10, <1>11, <1>12, <1>16 DEF Chain
<1>18. Content(l', n, c) = s
  BY <1>10 DEF Content, s
<1>19. /\ due \in [Iterator -> SUBSET InList(s, n)] /\ passed \in [Iterator -> SUBSET InList(s, n)]
       /\ last \in [Iterator -> InList(s, n) \cup {NULL}]
       /\ \A j, k \in 1 .. n : s[j] = s[k] => j = k
  BY <1>1 DEF Hist
<1>20. /\ a < n => x = s[a + 1] /\ a + 1 \in 1 .. n /\ x \in InList(s, n)
       /\ ~(a < n) => x = NULL
  BY <1>2, <1>4 DEF x, InList
<1>21. /\ due' \in [Iterator -> SUBSET InList(s, n)] /\ passed' \in [Iterator -> SUBSET InList(s, n)]
       /\ last' \in [Iterator -> InList(s, n) \cup {NULL}]
  BY <1>9, <1>19, <1>20
<1>22. /\ due'[i] = due[i] \ {x} /\ passed'[i] = passed[i] \cup ({x} \ {NULL}) /\ last'[i] = x
       /\ \A j \in Iterator \ {i} : due'[j] = due[j] /\ passed'[j] = passed[j] /\ last'[j] = last[j]
  BY <1>9, <1>19
<1>23. ASSUME NEW j \in l.iters
       PROVE  /\ \A k \in 1 .. n : /\ s[k] \in due'[j] => k > to[j]
                                   /\ s[k] \in passed'[j] => k <= to[j]
              /\ h[j] => last'[j] = s[to[j]]
  <2>1. /\ \A k \in 1 .. n : (s[k] \in due[j] => k > at[j]) /\ (s[k] \in passed[j] => k <= at[j])
        /\ hold[j] => last[j] = s[at[j]]
    BY <1>1 DEF Hist
  <2>2. CASE j # i
    BY <1>14, <1>15, <1>22, <2>1, <2>2
  <2>3. CASE j = i
    <3>1. CASE a < n
      <4>1. to[i] = a + 1 /\ x = s[a + 1] /\ a + 1 \in 1 .. n
        BY <1>14, <1>20, <3>1
      <4>2. \A k \in 1 .. n : s[k] = x => k = a + 1
        BY <1>19, <4>1
      <4>3. ASSUME NEW k \in 1 .. n
            PROVE  (s[k] \in due'[j] => k > to[j]) /\ (s[k] \in passed'[j] => k <= to[j])
        <5>1. (s[k] \in due[j] => k > a) /\ (s[k] \in passed[j] => k <= a)
          BY <2>1, <2>3
        <5>2. s[k] \in due'[j] => s[k] \in due[j] /\ k # a + 1
          BY <1>22, <2>3, <4>1
        <5>3. s[k] \in passed'[j] => s[k] \in passed[j] \/ k = a + 1
          BY <1>22, <2>3, <4>2
        <5> QED  BY <1>4, <2>3, <4>1, <5>1, <5>2, <5>3
      <4> QED  BY <1>22, <2>3, <4>1, <4>3
    <3>2. CASE a = n
      <4>1. to[i] = a /\ ~h[i] /\ x = NULL
        BY <1>2, <1>14, <1>20, <3>2
      <4>2. passed'[i] = passed[i] /\ due'[i] \subseteq due[i]
        BY <1>22, <4>1
      <4> QED  BY <2>1, <2>3, <4>1, <4>2
    <3> QED  BY <1>2, <1>4, <3>1, <3>2
  <2> QED  BY <2>2, <2>3
<1>24. Hist(s, n, l.iters, to, h, due', passed', last')
  BY <1>2, <1>19, <1>21, <1>23 DEF Hist
<1>25. Holds(l', n, c, to, h, due', passed', last')
  BY <1>10, <1>17, <1>18, <1>24 DEF Holds
<1> QED  BY <1>3, <1>9, <1>10, <1>18, <1>25 DEF to, h, s, x

\* list_create, list_destroy
EmptyChain == [j \in 0 .. 1 |-> IF j = 0 THEN HEAD ELSE NULL]

\* list_create makes a chain without nodes.
LEMMA EmptyIs ==
    ASSUME NEW w, w = Empty,
           NEW at \in [Iterator -> Nat], NEW hold \in [Iterator -> BOOLEAN]
    PROVE  Chain(w, 0, EmptyChain, at, hold) /\ w.iters = {}
<1>1. /\ w = [next |-> [p \in Place |-> NULL], data |-> [n \in Node |-> NULL],
              heap |-> {}, tail |-> HEAD, count |-> 0, iters |-> {},
              pos |-> [i \in Iterator |-> NULL], prev |-> [i \in Iterator |-> HEAD],
              sane |-> TRUE]
      /\ HEAD \in Place
  BY DEF Empty, Place
<1>2. w \in State
  <2> DEFINE f == [p \in Place |-> NULL]
             d == [m \in Node |-> NULL]
             r == [i \in Iterator |-> HEAD]
             q == [i \in Iterator |-> NULL]
             none == {}
  <2>1. /\ none \in SUBSET Node /\ none \in SUBSET Iterator /\ HEAD \in Place
        /\ f \in [Place -> Node \cup {NULL}] /\ d \in [Node -> Item \cup {NULL}]
        /\ q \in [Iterator -> Node \cup {NULL}] /\ r \in [Iterator -> Place]
    BY <1>1
  <2>2. w = [next |-> f, data |-> d, heap |-> none, tail |-> HEAD, count |-> 0, iters |-> none,
             pos |-> q, prev |-> r, sane |-> TRUE]
    BY <1>1
  <2> HIDE DEF f, d, r, q, none
  <2>3. w = [next |-> w.next, data |-> w.data, heap |-> w.heap, tail |-> w.tail,
             count |-> w.count, iters |-> w.iters, pos |-> w.pos, prev |-> w.prev,
             sane |-> w.sane]
    BY <2>2
  <2>4. /\ w.heap \in SUBSET Node /\ w.data \in [Node -> Item \cup {NULL}]
        /\ w.next \in [Place -> Node \cup {NULL}] /\ w.tail \in Place /\ w.count \in Nat
        /\ w.pos \in [Iterator -> Node \cup {NULL}] /\ w.prev \in [Iterator -> Place]
        /\ w.sane \in BOOLEAN /\ w.iters \in SUBSET Iterator
    BY <2>1, <2>2
  <2> QED  BY <2>3, <2>4 DEF State
<1>3. EmptyChain[0] = HEAD /\ EmptyChain[0 + 1] = NULL
      /\ EmptyChain \in [0 .. 0 + 1 -> Place \cup {NULL}]
  BY <1>1 DEF EmptyChain
<1>4. Nodes(w, 0, EmptyChain)
  <2>1. \A j \in 0 .. 0 : w.next[EmptyChain[j]] = EmptyChain[j + 1]
    BY <1>1, <1>3
  <2>2. 1 .. 0 = {} /\ w.heap = {} /\ w.tail = EmptyChain[0] /\ w.count = 0
    BY <1>1, <1>3
  <2> QED  BY <1>3, <2>1, <2>2 DEF Nodes
<1>5. Iters(w, 0, EmptyChain, at, hold)
  BY <1>1 DEF Iters
<1> QED  BY <1>1, <1>2, <1>4, <1>5 DEF Chain

\* The invariant of an empty list.
LEMMA EmptyHolds ==
    ASSUME NEW w, w = Empty,
           NEW at \in [Iterator -> Nat], NEW hold \in [Iterator -> BOOLEAN],
           NEW du, NEW pa, NEW la,
           du = [i \in Iterator |-> {}], pa = [i \in Iterator |-> {}],
           la = [i \in Iterator |-> NULL]
    PROVE  Holds(w, 0, EmptyChain, at, hold, du, pa, la)
<1>1. Chain(w, 0, EmptyChain, at, hold) /\ w.iters = {}
  BY EmptyIs
<1>2. Content(w, 0, EmptyChain) \in [1 .. 0 -> Item] /\ 1 .. 0 = {}
  BY <1>1, Opened
<1> QED  BY <1>1, <1>2 DEF Holds, Hist

\* list_destroy keeps the invariant.
LEMMA DestroyedStep ==
    ASSUME NEW n, NEW c, NEW at, NEW hold,
           Holds(l, n, c, at, hold, due, passed, last), ListDestroy
    PROVE  /\ Holds(l', 0, EmptyChain, at, hold, due', passed', last')
           /\ l'.iters = {}
<1> DEFINE w == [Empty EXCEPT !.sane = l.sane]
<1>1. Chain(l, n, c, at, hold)
  BY DEF Holds
<1>2. l.sane /\ l \in State /\ Cursors(n, l.iters, at, hold)
  BY <1>1, Opened DEF Chain
<1>3. at \in [Iterator -> Nat] /\ hold \in [Iterator -> BOOLEAN] /\ l.sane = TRUE
  BY <1>2 DEF Cursors, State
<1>4. w = Empty
  <2> DEFINE f == [p \in Place |-> NULL]
             d == [m \in Node |-> NULL]
             r == [i \in Iterator |-> HEAD]
             q == [i \in Iterator |-> NULL]
  <2>1. Empty = [next |-> f, data |-> d, heap |-> {}, tail |-> HEAD, count |-> 0,
                 iters |-> {}, pos |-> q, prev |-> r, sane |-> TRUE]
    BY DEF Empty
  <2>2. w = [Empty EXCEPT !.sane = TRUE]
    BY <1>3
  <2> HIDE DEF w
  <2>3. w = [next |-> f, data |-> d, heap |-> {}, tail |-> HEAD, count |-> 0,
             iters |-> {}, pos |-> q, prev |-> r, sane |-> TRUE]
    BY <2>2 DEF Empty
  <2> QED  BY <2>1, <2>3
<1>5. /\ l' = w /\ due' = [j \in Iterator |-> ToSet(Items(w))]
      /\ passed' = [j \in Iterator |-> {}] /\ last' = [j \in Iterator |-> NULL]
  BY DEF ListDestroy, Restart
<1> HIDE DEF w
<1>6. Chain(w, 0, EmptyChain, at, hold) /\ w.iters = {}
  BY <1>3, <1>4, EmptyIs
<1>7. ToSet(Items(w)) = {}
  <2>1. ToSet(Items(w)) = InList(Content(w, 0, EmptyChain), 0)
    BY <1>6, Opened
  <2> QED  BY <2>1 DEF InList
<1>8. Holds(w, 0, EmptyChain, at, hold, due', passed', last')
  BY <1>3, <1>4, <1>5, <1>7, EmptyHolds
<1> QED  BY <1>5, <1>6, <1>8

-----------------------------------------------------------------------------
(* The loops *)

\* The turn of the loop of list_for_each_max.
VisitTurn(v, p, S) ==
    IF v.stop \/ Reached(v.n, S.max) THEN v
    ELSE [n |-> v.n + 1, failed |-> v.failed \/ l.data[p] \in S.of,
          stop |-> S.breaks /\ l.data[p] \in S.of]

\* The turn of each: of list_delete_all (s: the items, S: those that match), and of
\* the two of list_sort and list_shallow_copy (s: the items, S: their nodes).
Turn(of, v, k, s, S) ==
    IF of = "delete"
    THEN IF s[k] \in S
         THEN [v EXCEPT !.w = NodeDestroy(@, v.pp), !.n = @ + 1]
         ELSE [v EXCEPT !.pp = At(v.w, @)]
    ELSE IF of = "pop" THEN NodeDestroy(v, HEAD)
    ELSE IF of = "push" THEN NodeCreate(v, v.tail, S[k], s[k])
    ELSE VisitTurn(v, s[k], S)

Turns(of, s, S, N, a, f) ==
    f = [k \in 0 .. N |-> IF k = 0 THEN a ELSE Turn(of, f[k - 1], k, s, S)]

\* A loop has a state after each turn.
LEMMA LoopRuns ==
    ASSUME NEW N \in Nat, NEW of, NEW s, NEW S, NEW a
    PROVE  \E f : Turns(of, s, S, N, a, f)
<1> DEFINE T == {n \in Nat : \E f : Turns(of, s, S, n, a, f)}
<1>1. 0 \in T
  <2> DEFINE f == [k \in 0 .. 0 |-> a]
  <2>1. Turns(of, s, S, 0, a, f)
    BY DEF Turns
  <2> QED  BY <2>1
<1>2. ASSUME NEW n \in Nat, n \in T  PROVE n + 1 \in T
  <2>1. PICK f : Turns(of, s, S, n, a, f)
    BY <1>2
  <2> DEFINE g == [k \in 0 .. n + 1 |-> IF k <= n THEN f[k] ELSE Turn(of, f[n], n + 1, s, S)]
  <2>2. \A k \in 0 .. n : f[k] = IF k = 0 THEN a ELSE Turn(of, f[k - 1], k, s, S)
    BY <2>1 DEF Turns
  <2>3. ASSUME NEW k \in 0 .. n + 1
        PROVE  g[k] = IF k = 0 THEN a ELSE Turn(of, g[k - 1], k, s, S)
    <3>1. CASE k = 0
      BY <2>2, <3>1
    <3>2. CASE k \in 1 .. n
      <4>1. g[k] = f[k] /\ g[k - 1] = f[k - 1]
        BY <3>2
      <4> HIDE DEF g
      <4> QED  BY <2>2, <3>2, <4>1
    <3>3. CASE k = n + 1
      <4>1. g[k] = Turn(of, f[n], n + 1, s, S) /\ g[k - 1] = f[n]
        BY <3>3
      <4> HIDE DEF g
      <4> QED  BY <3>3, <4>1
    <3> QED  BY <3>1, <3>2, <3>3
  <2>4. g = [k \in 0 .. n + 1 |-> g[k]]
    OBVIOUS
  <2> HIDE DEF g
  <2>5. Turns(of, s, S, n + 1, a, g)
    BY <2>3, <2>4 DEF Turns
  <2> QED  BY <2>5
<1> HIDE DEF T
<1>3. N \in T
  BY <1>1, <1>2, Induct
<1> QED  BY <1>3 DEF T

\* ... which is what its turn makes of the state before.
LEMMA LoopTurns ==
    ASSUME NEW N \in Nat, NEW of, NEW s, NEW S, NEW a, NEW f, Turns(of, s, S, N, a, f)
    PROVE  /\ f[0] = a
           /\ \A k \in 0 .. N - 1 : f[k + 1] = Turn(of, f[k], k + 1, s, S)
<1>1. \A k \in 0 .. N : f[k] = IF k = 0 THEN a ELSE Turn(of, f[k - 1], k, s, S)
  BY DEF Turns
<1>2. 0 \in 0 .. N
  OBVIOUS
<1>3. \A k \in 0 .. N - 1 : k + 1 \in 0 .. N /\ k + 1 # 0 /\ (k + 1) - 1 = k
  OBVIOUS
<1> QED  BY <1>1, <1>2, <1>3

-----------------------------------------------------------------------------
(* list_delete_all *)

\* How many of the first k items remain.
Left(s, S, k) == Cardinality({j \in 1 .. k : s[j] \notin S})

\* Left counts one more for an item that remains, and none for another.
LEMMA LeftIs ==
    ASSUME NEW k \in Nat, NEW s, NEW S
    PROVE  /\ Left(s, S, k) \in Nat /\ Left(s, S, 0) = 0
           /\ s[k + 1] \in S => Left(s, S, k + 1) = Left(s, S, k)
           /\ s[k + 1] \notin S => Left(s, S, k + 1) = Left(s, S, k) + 1
<1> DEFINE T(m) == {j \in 1 .. m : s[j] \notin S}
<1>1. IsFiniteSet(1 .. k)
  BY FS_Interval
<1>2. T(k) \subseteq 1 .. k
  OBVIOUS
<1>3. IsFiniteSet(T(k)) /\ Cardinality(T(k)) \in Nat
  BY <1>1, <1>2, FS_Subset, FS_CardinalityType
<1>4. Cardinality(T(0)) = 0
  <2>1. T(0) = {}
    OBVIOUS
  <2> QED  BY <2>1, FS_EmptySet
<1>5. s[k + 1] \in S => T(k + 1) = T(k)
  OBVIOUS
<1>6. s[k + 1] \notin S => T(k + 1) = T(k) \cup {k + 1} /\ k + 1 \notin T(k)
  OBVIOUS
<1>7. s[k + 1] \notin S => Cardinality(T(k) \cup {k + 1}) = Cardinality(T(k)) + 1
  BY <1>3, <1>6, FS_AddElement
<1> QED  BY <1>3, <1>4, <1>5, <1>6, <1>7 DEF Left

\* Left never falls.
LEMMA LeftGrows ==
    ASSUME NEW j \in Nat, NEW k \in Nat, j <= k, NEW s, NEW S
    PROVE  Left(s, S, j) <= Left(s, S, k)
<1> DEFINE T(m) == {e \in 1 .. m : s[e] \notin S}
<1>1. IsFiniteSet(1 .. k)
  BY FS_Interval
<1>2. T(k) \subseteq 1 .. k /\ T(j) \subseteq T(k)
  OBVIOUS
<1>3. IsFiniteSet(T(k))
  BY <1>1, <1>2, FS_Subset
<1>4. Cardinality(T(j)) <= Cardinality(T(k))
  BY <1>2, <1>3, FS_Subset
<1> QED  BY <1>4 DEF Left

\* What is left of s in t after k turns.
Remaining(t, s, S, n, k) ==
    /\ \A j \in 1 .. n - k : t[Left(s, S, k) + j] = s[k + j]
    /\ \A e \in 1 .. k : s[e] \notin S => t[Left(s, S, e)] = s[e]

\* Where the iterators in I are then.
Placed(I, at, hold, to, h, s, S, k) ==
    \A i \in I :
        /\ to[i] = IF at[i] <= k THEN Left(s, S, at[i]) ELSE Left(s, S, k) + (at[i] - k)
        /\ h[i] <=> /\ hold[i]
                    /\ at[i] \in 1 .. k => s[at[i]] \notin S
                    /\ at[i] < k => s[at[i] + 1] \notin S

\* A turn of list_delete_all that leaves item k + 1 ...
LEMMA RemainingKept ==
    ASSUME NEW n \in Nat, NEW k \in Nat, k < n, NEW t, NEW s, NEW S,
           Remaining(t, s, S, n, k), s[k + 1] \notin S
    PROVE  Remaining(t, s, S, n, k + 1)
<1>1. Left(s, S, k + 1) = Left(s, S, k) + 1 /\ Left(s, S, k) \in Nat
  BY LeftIs
<1>2. /\ \A j \in 1 .. n - k : t[Left(s, S, k) + j] = s[k + j]
      /\ \A e \in 1 .. k : s[e] \notin S => t[Left(s, S, e)] = s[e]
  BY DEF Remaining
<1>3. \A j \in 1 .. n - (k + 1) : t[Left(s, S, k + 1) + j] = s[(k + 1) + j]
  <2> SUFFICES ASSUME NEW j \in 1 .. n - (k + 1)
               PROVE  t[Left(s, S, k + 1) + j] = s[(k + 1) + j]
    OBVIOUS
  <2>1. j + 1 \in 1 .. n - k /\ Left(s, S, k + 1) + j = Left(s, S, k) + (j + 1)
        /\ (k + 1) + j = k + (j + 1)
    BY <1>1
  <2>2. t[Left(s, S, k) + (j + 1)] = s[k + (j + 1)]
    BY <1>2, <2>1
  <2> QED  BY <2>1, <2>2
<1>4. t[Left(s, S, k + 1)] = s[k + 1]
  <2>1. 1 \in 1 .. n - k
    OBVIOUS
  <2> QED  BY <1>1, <1>2, <2>1
<1>5. \A e \in 1 .. k + 1 : e \in 1 .. k \/ e = k + 1
  OBVIOUS
<1> QED  BY <1>2, <1>3, <1>4, <1>5 DEF Remaining

\* ... and one that removes it.
LEMMA RemainingRemoved ==
    ASSUME NEW n \in Nat, NEW k \in Nat, k < n, NEW t, NEW s, NEW S,
           Remaining(t, s, S, n, k), s[k + 1] \in S
    PROVE  Remaining(SeqRemoved(t, Left(s, S, k) + (n - k), Left(s, S, k)), s, S, n, k + 1)
<1> DEFINE m == Left(s, S, k)
           u == SeqRemoved(t, m + (n - k), m)
<1>1. Left(s, S, k + 1) = m /\ m \in Nat
  BY LeftIs
<1>2. /\ \A j \in 1 .. n - k : t[m + j] = s[k + j]
      /\ \A e \in 1 .. k : s[e] \notin S => t[Left(s, S, e)] = s[e]
  BY DEF Remaining
<1>3. \A j \in 1 .. (m + (n - k)) - 1 : u[j] = IF j <= m THEN t[j] ELSE t[j + 1]
  BY DEF SeqRemoved
<1> HIDE DEF m, u
<1>4. ASSUME NEW j \in 1 .. n - (k + 1)
      PROVE  u[m + j] = s[(k + 1) + j]
  <2>1. /\ m + j \in 1 .. (m + (n - k)) - 1 /\ ~(m + j <= m) /\ j + 1 \in 1 .. n - k
        /\ (m + j) + 1 = m + (j + 1) /\ (k + 1) + j = k + (j + 1)
    BY <1>1
  <2>2. u[m + j] = t[(m + j) + 1]
    BY <1>3, <2>1
  <2>3. t[m + (j + 1)] = s[k + (j + 1)]
    BY <1>2, <2>1
  <2> QED  BY <2>1, <2>2, <2>3
<1>5. ASSUME NEW e \in 1 .. k, s[e] \notin S
      PROVE  u[Left(s, S, e)] = s[e]
  <2>1. Left(s, S, e) \in Nat /\ Left(s, S, e) <= m
    BY LeftIs, LeftGrows DEF m
  <2>2. Left(s, S, e) > 0
    <3>1. e - 1 \in Nat /\ (e - 1) + 1 = e
      OBVIOUS
    <3>2. Left(s, S, e - 1) \in Nat /\ Left(s, S, (e - 1) + 1) = Left(s, S, e - 1) + 1
      BY <1>5, <3>1, LeftIs
    <3> QED  BY <3>1, <3>2
  <2>3. Left(s, S, e) \in 1 .. (m + (n - k)) - 1
    BY <1>1, <2>1, <2>2
  <2>4. u[Left(s, S, e)] = t[Left(s, S, e)]
    BY <1>3, <2>1, <2>3
  <2> QED  BY <1>2, <1>5, <2>4
<1>6. \A e \in 1 .. k + 1 : e \in 1 .. k \/ e = k + 1
  OBVIOUS
<1>7. Remaining(u, s, S, n, k + 1)
  BY <1>1, <1>4, <1>5, <1>6 DEF Remaining
<1> QED  BY <1>7 DEF m, u

\* The iterators after a turn that leaves item k + 1 ...
LEMMA PlacedKept ==
    ASSUME NEW k \in Nat, NEW I, NEW at, NEW hold, NEW to, NEW h, NEW s, NEW S,
           Placed(I, at, hold, to, h, s, S, k), \A i \in I : at[i] \in Nat,
           s[k + 1] \notin S
    PROVE  Placed(I, at, hold, to, h, s, S, k + 1)
<1> SUFFICES ASSUME NEW i \in I
             PROVE  /\ to[i] = IF at[i] <= k + 1 THEN Left(s, S, at[i])
                               ELSE Left(s, S, k + 1) + (at[i] - (k + 1))
                    /\ h[i] <=> /\ hold[i]
                                /\ at[i] \in 1 .. k + 1 => s[at[i]] \notin S
                                /\ at[i] < k + 1 => s[at[i] + 1] \notin S
  BY DEF Placed
<1>1. Left(s, S, k + 1) = Left(s, S, k) + 1 /\ Left(s, S, k) \in Nat
  BY LeftIs
<1>2. to[i] = IF at[i] <= k THEN Left(s, S, at[i]) ELSE Left(s, S, k) + (at[i] - k)
  BY DEF Placed
<1>3. h[i] <=> /\ hold[i]
               /\ at[i] \in 1 .. k => s[at[i]] \notin S
               /\ at[i] < k => s[at[i] + 1] \notin S
  BY DEF Placed
<1>4. at[i] \in Nat
  OBVIOUS
<1>5. to[i] = IF at[i] <= k + 1 THEN Left(s, S, at[i])
              ELSE Left(s, S, k + 1) + (at[i] - (k + 1))
  <2>1. CASE at[i] <= k
    BY <1>2, <1>4, <2>1
  <2>2. CASE at[i] = k + 1
    BY <1>1, <1>2, <2>2
  <2>3. CASE at[i] > k + 1
    BY <1>1, <1>2, <1>4, <2>3
  <2> QED  BY <1>4, <2>1, <2>2, <2>3
<1>6. /\ (at[i] \in 1 .. k + 1 => s[at[i]] \notin S) <=> (at[i] \in 1 .. k => s[at[i]] \notin S)
      /\ (at[i] < k + 1 => s[at[i] + 1] \notin S) <=> (at[i] < k => s[at[i] + 1] \notin S)
  <2>1. at[i] \in 1 .. k + 1 <=> at[i] \in 1 .. k \/ at[i] = k + 1
    BY <1>4
  <2>2. at[i] < k + 1 <=> at[i] < k \/ at[i] = k
    BY <1>4
  <2> QED  BY <2>1, <2>2
<1> QED  BY <1>3, <1>5, <1>6

\* ... and after one that removes it.
LEMMA PlacedRemoved ==
    ASSUME NEW k \in Nat, NEW w, NEW at, NEW hold, NEW to, NEW h, NEW s, NEW S,
           Placed(w.iters, at, hold, to, h, s, S, k), \A i \in w.iters : at[i] \in Nat,
           w.iters \subseteq Iterator, s[k + 1] \in S
    PROVE  Placed(w.iters, at, hold, Pulled(w, to, Left(s, S, k)),
                  Kept(to, h, Left(s, S, k)), s, S, k + 1)
<1> DEFINE m == Left(s, S, k)
           to2 == Pulled(w, to, m)
           h2 == Kept(to, h, m)
<1>1. Left(s, S, k + 1) = m /\ m \in Nat
  BY LeftIs
<1>2. /\ \A i \in Iterator : to2[i] = IF i \in w.iters /\ m < to[i] THEN to[i] - 1 ELSE to[i]
      /\ \A i \in Iterator : h2[i] <=> h[i] /\ to[i] # m /\ to[i] # m + 1
  BY DEF Pulled, Kept
<1>3. m = Left(s, S, k)
  OBVIOUS
<1> HIDE DEF m, to2, h2
<1>4. ASSUME NEW i \in w.iters
      PROVE  /\ to2[i] = IF at[i] <= k + 1 THEN Left(s, S, at[i])
                         ELSE Left(s, S, k + 1) + (at[i] - (k + 1))
             /\ h2[i] <=> /\ hold[i]
                          /\ at[i] \in 1 .. k + 1 => s[at[i]] \notin S
                          /\ at[i] < k + 1 => s[at[i] + 1] \notin S
  <2>1. i \in Iterator /\ at[i] \in Nat
    OBVIOUS
  <2>2. to[i] = IF at[i] <= k THEN Left(s, S, at[i]) ELSE m + (at[i] - k)
    BY <1>3 DEF Placed
  <2>3. h[i] <=> /\ hold[i]
                 /\ at[i] \in 1 .. k => s[at[i]] \notin S
                 /\ at[i] < k => s[at[i] + 1] \notin S
    BY DEF Placed
  <2>4. to2[i] = IF m < to[i] THEN to[i] - 1 ELSE to[i]
    BY <1>2, <2>1
  <2>5. h2[i] <=> h[i] /\ to[i] # m /\ to[i] # m + 1
    BY <1>2, <2>1
  <2>6. Left(s, S, at[i]) \in Nat /\ (at[i] <= k => Left(s, S, at[i]) <= m)
    BY <1>3, <2>1, LeftIs, LeftGrows
  <2>7. to2[i] = IF at[i] <= k + 1 THEN Left(s, S, at[i])
                 ELSE Left(s, S, k + 1) + (at[i] - (k + 1))
    <3>1. CASE at[i] <= k
      BY <1>1, <2>1, <2>2, <2>4, <2>6, <3>1
    <3>2. CASE at[i] = k + 1
      BY <1>1, <2>2, <2>4, <3>2
    <3>3. CASE at[i] > k + 1
      BY <1>1, <2>1, <2>2, <2>4, <3>3
    <3> QED  BY <2>1, <3>1, <3>2, <3>3
  <2>8. to[i] = m + 1 <=> at[i] = k + 1
    BY <1>1, <2>1, <2>2, <2>6
  <2>9. ASSUME at[i] < k, s[at[i] + 1] \notin S
        PROVE  to[i] # m
    <3>1. Left(s, S, at[i] + 1) = Left(s, S, at[i]) + 1
      BY <2>1, <2>9, LeftIs
    <3>2. at[i] + 1 \in Nat /\ at[i] + 1 <= k
      BY <2>1, <2>9
    <3>3. Left(s, S, at[i] + 1) <= m
      BY <1>3, <3>2, LeftGrows
    <3> QED  BY <1>1, <2>1, <2>2, <2>6, <2>9, <3>1, <3>3
  <2>10. at[i] = k => to[i] = m
    BY <1>3, <2>1, <2>2
  <2>11. at[i] > k => to[i] # m
    BY <1>1, <2>1, <2>2
  <2>12. at[i] \in 1 .. k + 1 <=> at[i] \in 1 .. k \/ at[i] = k + 1
    BY <2>1
  <2>13. at[i] < k + 1 <=> at[i] < k \/ at[i] = k
    BY <2>1
  <2>14. at[i] < k \/ at[i] = k \/ at[i] > k
    BY <2>1
  <2>15. at[i] < k => at[i] # k /\ at[i] # k + 1
    BY <2>1
  <2>16. h2[i] <=> /\ hold[i]
                   /\ at[i] \in 1 .. k + 1 => s[at[i]] \notin S
                   /\ at[i] < k + 1 => s[at[i] + 1] \notin S
    <3>1. CASE at[i] = k
      BY <2>5, <2>10, <2>13, <3>1
    <3>2. CASE at[i] = k + 1
      BY <2>5, <2>8, <2>12, <3>2
    <3>3. CASE at[i] < k
      <4>1. at[i] # k /\ at[i] # k + 1
        BY <2>15, <3>3
      <4>2. /\ (at[i] \in 1 .. k + 1 => s[at[i]] \notin S) <=> (at[i] \in 1 .. k => s[at[i]] \notin S)
            /\ (at[i] < k + 1 => s[at[i] + 1] \notin S) <=> s[at[i] + 1] \notin S
        BY <2>12, <2>13, <3>3, <4>1
      <4> QED  BY <2>3, <2>5, <2>8, <2>9, <3>3, <4>1, <4>2
    <3>4. CASE at[i] > k + 1
      <4>1. at[i] # k + 1 /\ at[i] > k /\ ~(at[i] \in 1 .. k + 1) /\ ~(at[i] < k + 1)
            /\ ~(at[i] \in 1 .. k) /\ ~(at[i] < k)
        BY <2>1, <3>4
      <4> QED  BY <2>3, <2>5, <2>8, <2>11, <4>1
    <3>5. at[i] < k \/ at[i] = k \/ at[i] = k + 1 \/ at[i] > k + 1
      BY <2>1
    <3> QED  BY <3>1, <3>2, <3>3, <3>4, <3>5
  <2> QED  BY <2>7, <2>16
<1>5. Placed(w.iters, at, hold, to2, h2, s, S, k + 1)
  BY <1>4 DEF Placed
<1> QED  BY <1>5 DEF m, to2, h2

\* The history of fewer items, in two steps or one.
LEMMA OnlyOnly ==
    ASSUME NEW a, NEW b, b \subseteq a, NEW du, NEW la
    PROVE  Only(Only(du, a), b) = Only(du, b) /\ OnlyLast(OnlyLast(la, a), b) = OnlyLast(la, b)
<1>1. Only(Only(du, a), b) = Only(du, b)
  BY DEF Only
<1>2. \A j \in Iterator : OnlyLast(OnlyLast(la, a), b)[j] = OnlyLast(la, b)[j]
  BY DEF OnlyLast
<1> QED  BY <1>1, <1>2 DEF OnlyLast

\* A removal when some items have left since the history was right.
LEMMA DestroyMore ==
    ASSUME NEW n \in Nat, NEW k \in Nat,
           NEW w, NEW c, NEW at, NEW hold, NEW du, NEW pa, NEW la,
           k < n, Tracked(w, n, c, at, hold, du, pa, la)
    PROVE  /\ Tracked(NodeDestroy(w, c[k]), n - 1, Removed(n, c, k),
                      Pulled(w, at, k), Kept(at, hold, k), du, pa, la)
           /\ NodeDestroy(w, c[k]).iters = w.iters
           /\ Content(NodeDestroy(w, c[k]), n - 1, Removed(n, c, k))
                = SeqRemoved(Content(w, n, c), n, k)
<1> DEFINE v == NodeDestroy(w, c[k])
           d == Removed(n, c, k)
           to == Pulled(w, at, k)
           h == Kept(at, hold, k)
           a == ToSet(Items(w))
           b == ToSet(Items(v))
<1>1. Holds(w, n, c, at, hold, Only(du, a), Only(pa, a), OnlyLast(la, a))
  BY DEF Tracked
<1>2. Tracked(v, n - 1, d, to, h, Only(du, a), Only(pa, a), OnlyLast(la, a))
  BY <1>1, DestroyTracked
<1>3. w \in State /\ Nodes(w, n, c) /\ a = InList(Content(w, n, c), n)
      /\ Content(w, n, c) \in [1 .. n -> Item]
  BY <1>1, Opened DEF Holds
<1>4. Content(v, n - 1, d) = SeqRemoved(Content(w, n, c), n, k)
  BY <1>3, DestroyContent
<1>5. v.iters = w.iters
  <2>1. k \in 0 .. n /\ k + 1 \in 1 .. n
    OBVIOUS
  <2>2. c[k] \in Place /\ c[k + 1] \in Node
    BY <1>3, <2>1, Places
  <2>3. w.next[c[k]] = c[k + 1] /\ w.count > 0
    BY <1>3, <2>1 DEF Nodes
  <2>4. Destroyed(v, w, c[k], c[k + 1])
    BY <1>3, <2>2, <2>3, DestroyFields
  <2> QED  BY <2>4 DEF Destroyed
<1> HIDE DEF v, d, to, h, a, b
<1>6. Chain(v, n - 1, d, to, h)
  BY <1>2 DEF Tracked, Holds
<1>7. b = InList(Content(v, n - 1, d), n - 1)
  BY <1>6, Opened DEF b
<1>8. b \subseteq a
  BY <1>3, <1>4, <1>7 DEF InList, SeqRemoved
<1>9. Tracked(v, n - 1, d, to, h, du, pa, la)
  BY <1>2, <1>8, OnlyOnly DEF Tracked, b
<1> QED  BY <1>4, <1>5, <1>9 DEF v, d, to, h

\* The state of the walk after k turns, and the chain it has.
Deleting(v, k, n, s, S, I, at, hold, du, pa, la, d, to, h) ==
    /\ v = [w |-> v.w, pp |-> v.pp, n |-> v.n]
    /\ v.n = k - Left(s, S, k)
    /\ v.pp = d[Left(s, S, k)]
    /\ v.w.iters = I
    /\ Tracked(v.w, Left(s, S, k) + (n - k), d, to, h, du, pa, la)
    /\ Remaining(Content(v.w, Left(s, S, k) + (n - k), d), s, S, n, k)
    /\ Placed(I, at, hold, to, h, s, S, k)

\* The invariant of the loop of list_delete_all: a turn that leaves the item ...
LEMMA DeletingKept ==
    ASSUME NEW n \in Nat, NEW k \in Nat, k < n,
           NEW v, NEW s, NEW S, NEW I, NEW at, NEW hold, NEW du, NEW pa, NEW la,
           NEW d, NEW to, NEW h,
           Deleting(v, k, n, s, S, I, at, hold, du, pa, la, d, to, h),
           \A i \in I : at[i] \in Nat, s[k + 1] \notin S
    PROVE  Deleting(Turn("delete", v, k + 1, s, S), k + 1, n, s, S, I, at, hold,
                    du, pa, la, d, to, h)
<1> DEFINE u == Turn("delete", v, k + 1, s, S)
           m == Left(s, S, k)
<1>1. /\ v = [w |-> v.w, pp |-> v.pp, n |-> v.n] /\ v.n = k - m
      /\ v.pp = d[m] /\ v.w.iters = I
      /\ Tracked(v.w, m + (n - k), d, to, h, du, pa, la)
      /\ Remaining(Content(v.w, m + (n - k), d), s, S, n, k)
      /\ Placed(I, at, hold, to, h, s, S, k)
  BY DEF Deleting
<1>2. m \in Nat /\ Left(s, S, k + 1) = m + 1
  BY LeftIs
<1>3. u = [w |-> v.w, pp |-> v.w.next[v.pp], n |-> v.n]
  BY <1>1 DEF Turn, At
<1> HIDE DEF u, m
<1>4. v.w.next[d[m]] = d[m + 1]
  <2>1. Nodes(v.w, m + (n - k), d)
    BY <1>1, Opened DEF Tracked, Holds
  <2>2. m \in 0 .. m + (n - k)
    BY <1>2
  <2> QED  BY <2>1, <2>2 DEF Nodes
<1>5. m + (n - k) = (m + 1) + (n - (k + 1)) /\ k - m = (k + 1) - (m + 1)
  BY <1>2
<1>6. Remaining(Content(v.w, m + (n - k), d), s, S, n, k + 1)
  BY <1>1, RemainingKept
<1>7. Placed(I, at, hold, to, h, s, S, k + 1)
  BY <1>1, PlacedKept
<1>8. u.w = v.w /\ u.pp = d[m + 1] /\ u.n = (k + 1) - (m + 1)
      /\ u = [w |-> u.w, pp |-> u.pp, n |-> u.n]
  BY <1>1, <1>3, <1>4, <1>5
<1>9. Deleting(u, k + 1, n, s, S, I, at, hold, du, pa, la, d, to, h)
  BY <1>1, <1>2, <1>5, <1>6, <1>7, <1>8 DEF Deleting
<1> QED  BY <1>9 DEF u

\* ... a turn that removes it ...
LEMMA DeletingRemoved ==
    ASSUME NEW n \in Nat, NEW k \in Nat, k < n,
           NEW v, NEW s, NEW S, NEW I, NEW at, NEW hold, NEW du, NEW pa, NEW la,
           NEW d, NEW to, NEW h,
           Deleting(v, k, n, s, S, I, at, hold, du, pa, la, d, to, h),
           \A i \in I : at[i] \in Nat, I \subseteq Iterator, s[k + 1] \in S
    PROVE  Deleting(Turn("delete", v, k + 1, s, S), k + 1, n, s, S, I, at, hold,
                    du, pa, la, Removed(Left(s, S, k) + (n - k), d, Left(s, S, k)),
                    Pulled(v.w, to, Left(s, S, k)), Kept(to, h, Left(s, S, k)))
<1> DEFINE u == Turn("delete", v, k + 1, s, S)
           m == Left(s, S, k)
           N == m + (n - k)
           e == Removed(N, d, m)
           to2 == Pulled(v.w, to, m)
           h2 == Kept(to, h, m)
<1>1. /\ v = [w |-> v.w, pp |-> v.pp, n |-> v.n] /\ v.n = k - m
      /\ v.pp = d[m] /\ v.w.iters = I
      /\ Tracked(v.w, N, d, to, h, du, pa, la)
      /\ Remaining(Content(v.w, N, d), s, S, n, k)
      /\ Placed(I, at, hold, to, h, s, S, k)
  BY DEF Deleting
<1>2. m \in Nat /\ Left(s, S, k + 1) = m
  BY LeftIs
<1>3. u = [w |-> NodeDestroy(v.w, d[m]), pp |-> d[m], n |-> v.n + 1]
  BY <1>1 DEF Turn
<1>4. Placed(I, at, hold, to2, h2, s, S, k + 1)
  BY <1>1, PlacedRemoved
<1>5. Remaining(SeqRemoved(Content(v.w, N, d), N, m), s, S, n, k + 1)
  BY <1>1, RemainingRemoved
<1>6. N \in Nat /\ m < N /\ N - 1 = m + (n - (k + 1)) /\ (k - m) + 1 = (k + 1) - m
  BY <1>2
<1>7. e[m] = d[m]
  BY <1>2, <1>6 DEF Removed
<1> HIDE DEF u, m, N, e, to2, h2
<1>8. /\ Tracked(NodeDestroy(v.w, d[m]), N - 1, e, to2, h2, du, pa, la)
      /\ NodeDestroy(v.w, d[m]).iters = v.w.iters
      /\ Content(NodeDestroy(v.w, d[m]), N - 1, e) = SeqRemoved(Content(v.w, N, d), N, m)
  BY <1>1, <1>2, <1>6, DestroyMore DEF e, to2, h2
<1>9. u.w = NodeDestroy(v.w, d[m]) /\ u.pp = e[m] /\ u.n = (k + 1) - m
      /\ u = [w |-> u.w, pp |-> u.pp, n |-> u.n]
  BY <1>1, <1>3, <1>6, <1>7
<1>10. Deleting(u, k + 1, n, s, S, I, at, hold, du, pa, la, e, to2, h2)
  BY <1>1, <1>2, <1>4, <1>5, <1>6, <1>8, <1>9 DEF Deleting
<1> QED  BY <1>10 DEF u, e, to2, h2, N, m

\* ... and the start of the loop.
LEMMA DeletingStarts ==
    ASSUME NEW n \in Nat, NEW w, NEW c, NEW at, NEW hold, NEW du, NEW pa, NEW la, NEW S,
           Holds(w, n, c, at, hold, du, pa, la)
    PROVE  Deleting([w |-> w, pp |-> HEAD, n |-> 0], 0, n, Content(w, n, c), S, w.iters,
                    at, hold, du, pa, la, c, at, hold)
<1> DEFINE s == Content(w, n, c)
           v == [w |-> w, pp |-> HEAD, n |-> 0]
<1>1. Nodes(w, n, c) /\ Cursors(n, w.iters, at, hold)
  BY Opened DEF Holds
<1>2. Left(s, S, 0) = 0
  BY LeftIs
<1>3. /\ v = [w |-> v.w, pp |-> v.pp, n |-> v.n] /\ v.w = w /\ v.n = 0 /\ v.pp = HEAD
      /\ c[0] = HEAD /\ 0 - 0 = 0 /\ 0 + (n - 0) = n
  BY <1>1 DEF Nodes
<1>4. Tracked(w, n, c, at, hold, du, pa, la)
  BY SameTracked
<1> HIDE DEF s, v
<1>5. Remaining(s, s, S, n, 0)
  BY <1>2 DEF Remaining
<1>6. Placed(w.iters, at, hold, at, hold, s, S, 0)
  <2> SUFFICES ASSUME NEW i \in w.iters
               PROVE  /\ at[i] = IF at[i] <= 0 THEN Left(s, S, at[i])
                                 ELSE Left(s, S, 0) + (at[i] - 0)
                      /\ hold[i] <=> /\ hold[i]
                                     /\ at[i] \in 1 .. 0 => s[at[i]] \notin S
                                     /\ at[i] < 0 => s[at[i] + 1] \notin S
    BY DEF Placed
  <2>1. at[i] \in Nat
    BY <1>1 DEF Cursors
  <2>2. at[i] \notin 1 .. 0 /\ ~(at[i] < 0)
    BY <2>1
  <2>3. at[i] = IF at[i] <= 0 THEN Left(s, S, at[i]) ELSE Left(s, S, 0) + (at[i] - 0)
    BY <1>2, <2>1
  <2> QED  BY <2>2, <2>3
<1>7. s = Content(w, n, c)
  BY DEF s
<1>8. Deleting(v, 0, n, s, S, w.iters, at, hold, du, pa, la, c, at, hold)
  BY <1>2, <1>3, <1>4, <1>5, <1>6, <1>7 DEF Deleting
<1> QED  BY <1>8 DEF v, s

\* What list_delete_all makes of the chain d and the iterators.
Deleted(n, c, at, hold, S, d, to, h) ==
    LET s == Content(l, n, c)
        m == Left(s, S, n)
    IN /\ Holds(l', m, d, to, h, due', passed', last')
       /\ Remaining(Content(l', m, d), s, S, n, n)
       /\ Placed(l.iters, at, hold, to, h, s, S, n)
       /\ l'.iters = l.iters
       /\ call' = Call("list_delete_all", NULL, n - m)

\* list_delete_all removes the items in S, no other, and keeps the invariant.
LEMMA DeleteAllStep ==
    ASSUME NEW n, NEW c, NEW at, NEW hold,
           Holds(l, n, c, at, hold, due, passed, last), ListDeleteAll
    PROVE  \E S \in SUBSET Item : \E d, to, h : Deleted(n, c, at, hold, S, d, to, h)
<1> DEFINE s == Content(l, n, c)
           a == [w |-> l, pp |-> HEAD, n |-> 0]
<1>1. /\ n \in Nat /\ Items(l) = s /\ s \in [1 .. n -> Item] /\ Cursors(n, l.iters, at, hold)
      /\ l.iters \subseteq Iterator
  BY Opened DEF Holds, Cursors
<1>2. Len(s) = n
  BY <1>1
<1> DEFINE F(S, st) == [k \in 0 .. Len(Items(l)) |->
                      IF k = 0 THEN a
                      ELSE IF Items(l)[k] \in S
                           THEN [st[k - 1] EXCEPT !.w = NodeDestroy(@, st[k - 1].pp), !.n = @ + 1]
                           ELSE [st[k - 1] EXCEPT !.pp = At(st[k - 1].w, @)]]
           f(S) == CHOOSE st : st = F(S, st)
<1>3. PICK S \in SUBSET Item : 
          Track("list_delete_all", NULL, f(S)[Len(Items(l))].n, f(S)[Len(Items(l))].w)
  BY DEF ListDeleteAll, Loop
<1> DEFINE g == f(S)
<1>4. Turns("delete", s, S, n, a, g)
  <2>1. \E st : Turns("delete", s, S, n, a, st)
    BY <1>1, LoopRuns
  <2>2. \E st : Turns("delete", Items(l), S, Len(Items(l)), a, st)
    BY <1>1, <1>2, <2>1
  <2> HIDE DEF s, a
  <2>3. \A st : Turns("delete", Items(l), S, Len(Items(l)), a, st) <=> st = F(S, st)
    BY DEF Turns, Turn
  <2>4. g = CHOOSE st : st = F(S, st)
    OBVIOUS
  <2> HIDE DEF g, f, F
  <2>5. Turns("delete", Items(l), S, Len(Items(l)), a, g)
    BY <2>2, <2>3, <2>4
  <2> QED  BY <1>1, <1>2, <2>5
<1>5. g[0] = a /\ \A k \in 0 .. n - 1 : g[k + 1] = Turn("delete", g[k], k + 1, s, S)
  <2> HIDE DEF g
  <2> QED  BY <1>1, <1>4, LoopTurns
<1>6. Track("list_delete_all", NULL, g[n].n, g[n].w)
  <2>1. Len(Items(l)) = n
    BY <1>1, <1>2
  <2>2. Track("list_delete_all", NULL, g[Len(Items(l))].n, g[Len(Items(l))].w)
    BY <1>3
  <2> HIDE DEF g
  <2> QED  BY <2>1, <2>2
<1>7. Deleting(a, 0, n, s, S, l.iters, at, hold, due, passed, last, c, at, hold)
  BY <1>1, DeletingStarts
<1> HIDE DEF g, f, F, s, a
<1> DEFINE P(k, d, to, h) ==
             Deleting(g[k], k, n, s, S, l.iters, at, hold, due, passed, last, d, to, h)
           T == {k \in Nat : k <= n => \E d, to, h : P(k, d, to, h)}
<1>8. 0 \in T
  BY <1>5, <1>7
<1>9. ASSUME NEW k \in Nat, k \in T  PROVE k + 1 \in T
  <2> SUFFICES ASSUME k < n  PROVE \E d, to, h : P(k + 1, d, to, h)
    BY <1>1
  <2>1. PICK d, to, h : P(k, d, to, h)
    BY <1>1, <1>9
  <2>2. g[k + 1] = Turn("delete", g[k], k + 1, s, S)
    BY <1>1, <1>5
  <2>3. \A i \in l.iters : at[i] \in Nat
    BY <1>1 DEF Cursors
  <2>4. CASE s[k + 1] \notin S
    <3>1. P(k + 1, d, to, h)
      BY <1>1, <2>1, <2>2, <2>3, <2>4, DeletingKept
    <3> QED  BY <3>1
  <2>5. CASE s[k + 1] \in S
    <3> DEFINE m == Left(s, S, k)
    <3>1. P(k + 1, Removed(m + (n - k), d, m), Pulled(g[k].w, to, m), Kept(to, h, m))
      BY <1>1, <2>1, <2>2, <2>3, <2>5, DeletingRemoved
    <3> QED  BY <3>1
  <2> QED  BY <2>4, <2>5
<1> HIDE DEF T
<1>10. n \in T
  BY <1>1, <1>8, <1>9, Induct
<1>11. PICK d, to, h : P(n, d, to, h)
  BY <1>1, <1>10 DEF T
<1> DEFINE m == Left(s, S, n)
<1>12. /\ m \in Nat /\ m + (n - n) = m
       /\ g[n].n = n - m /\ g[n].w.iters = l.iters
       /\ Tracked(g[n].w, m, d, to, h, due, passed, last)
       /\ Remaining(Content(g[n].w, m, d), s, S, n, n)
       /\ Placed(l.iters, at, hold, to, h, s, S, n)
  <2>1. m \in Nat /\ m + (n - n) = m
    BY <1>1, LeftIs
  <2> HIDE DEF m
  <2>2. P(n, d, to, h) /\ m = Left(s, S, n)
    BY <1>11 DEF m
  <2> QED  BY <2>1, <2>2 DEF Deleting
<1> HIDE DEF m
<1>13. Holds(l', m, d, to, h, due', passed', last')
  BY <1>6, <1>12, TrackInv
<1>14. l' = g[n].w /\ call' = Call("list_delete_all", NULL, n - m)
  BY <1>6, <1>12 DEF Track
<1>15. Deleted(n, c, at, hold, S, d, to, h)
  BY <1>12, <1>13, <1>14 DEF Deleted, s, m
<1> QED  BY <1>15

-----------------------------------------------------------------------------
(* list_sort and list_shallow_copy *)

\* Taking out the first of n nodes m times.
LEMMA PoppedChain ==
    ASSUME NEW n \in Nat, NEW s, NEW S, NEW w, NEW c, NEW at, NEW hold, NEW f,
           Chain(w, n, c, at, hold), Turns("pop", s, S, n, w, f)
    PROVE  \E d, to, h : Chain(f[n], 0, d, to, h) /\ f[n].iters = w.iters
<1>1. f[0] = w /\ \A k \in 0 .. n - 1 : f[k + 1] = Turn("pop", f[k], k + 1, s, S)
  BY LoopTurns
<1> DEFINE P(k, d, to, h) == Chain(f[k], n - k, d, to, h) /\ f[k].iters = w.iters
           T == {k \in Nat : k <= n => \E d, to, h : P(k, d, to, h)}
<1>2. 0 \in T
  <2>1. P(0, c, at, hold)
    BY <1>1
  <2> QED  BY <2>1
<1>3. ASSUME NEW k \in Nat, k \in T  PROVE k + 1 \in T
  <2> SUFFICES ASSUME k < n  PROVE \E d, to, h : P(k + 1, d, to, h)
    OBVIOUS
  <2>1. PICK d, to, h : P(k, d, to, h)
    BY <1>3
  <2>2. f[k + 1] = NodeDestroy(f[k], HEAD)
    BY <1>1 DEF Turn
  <2>3. f[k] \in State /\ Nodes(f[k], n - k, d) /\ d[0] = HEAD
    <3>1. Chain(f[k], n - k, d, to, h)
      BY <2>1
    <3>2. f[k] \in State /\ Nodes(f[k], n - k, d)
      BY <3>1 DEF Chain
    <3> QED  BY <3>2 DEF Nodes
  <2>4. n - k \in Nat /\ 0 < n - k /\ (n - k) - 1 = n - (k + 1) /\ 0 + 1 \in 1 .. n - k
    OBVIOUS
  <2>5. Chain(f[k + 1], n - (k + 1), Removed(n - k, d, 0), Pulled(f[k], to, 0), Kept(to, h, 0))
    BY <2>1, <2>2, <2>3, <2>4, DestroyChain
  <2>6. f[k + 1].iters = w.iters
    <3>1. d[0] \in Place /\ d[0 + 1] \in Node
      BY <2>3, <2>4, Places
    <3>2. f[k].next[d[0]] = d[0 + 1] /\ f[k].count > 0
      BY <2>3, <2>4 DEF Nodes
    <3>3. Destroyed(f[k + 1], f[k], d[0], d[0 + 1])
      BY <2>2, <2>3, <3>1, <3>2, DestroyFields
    <3> QED  BY <2>1, <3>3 DEF Destroyed
  <2>7. P(k + 1, Removed(n - k, d, 0), Pulled(f[k], to, 0), Kept(to, h, 0))
    BY <2>5, <2>6
  <2> HIDE DEF P
  <2> QED  BY <2>7
<1> HIDE DEF T
<1>4. n \in T
  BY <1>2, <1>3, Induct
<1>5. PICK d, to, h : P(n, d, to, h)
  BY <1>4 DEF T
<1>6. n - n = 0
  OBVIOUS
<1> QED  BY <1>5, <1>6

\* The nodes and the items of an empty list after m nodes were appended.
Filled(v, m, d, to, h, I, ps, xs) ==
    /\ Chain(v, m, d, to, h)
    /\ v.iters = I
    /\ \A j \in 1 .. m : d[j] = ps[j] /\ Content(v, m, d)[j] = xs[j]

\* One item more at the end of a list that a loop fills.
LEMMA PushedOnce ==
    ASSUME NEW m \in Nat, NEW v, NEW d, NEW to, NEW h, NEW I, NEW ps, NEW xs,
           Filled(v, m, d, to, h, I, ps, xs),
           ps[m + 1] \in Node, xs[m + 1] \in Item, \A j \in 1 .. m : ps[j] # ps[m + 1]
    PROVE  Filled(Turn("push", v, m + 1, xs, ps), m + 1, Inserted(m, d, m, ps[m + 1]),
                  Moved(v, to, h, m), h, I, ps, xs)
<1> DEFINE u == Turn("push", v, m + 1, xs, ps)
           p == ps[m + 1]
           e == Inserted(m, d, m, p)
<1>1. Chain(v, m, d, to, h) /\ v.iters = I
      /\ \A j \in 1 .. m : d[j] = ps[j] /\ Content(v, m, d)[j] = xs[j]
  BY DEF Filled
<1>2. v \in State /\ Nodes(v, m, d)
  BY <1>1, Opened
<1>3. v.tail = d[m] /\ m \in 0 .. m
  BY <1>2 DEF Nodes
<1>4. u = NodeCreate(v, d[m], p, xs[m + 1])
  BY <1>3 DEF Turn
<1>5. p \notin v.heap
  BY <1>1, <1>2 DEF Nodes
<1> HIDE DEF u, p
<1>6. Chain(u, m + 1, e, Moved(v, to, h, m), h)
  BY <1>1, <1>3, <1>4, <1>5, CreateChain DEF p
<1>7. Content(u, m + 1, e) = SeqInserted(Content(v, m, d), m, m, xs[m + 1])
  BY <1>2, <1>3, <1>4, <1>5, CreateContent DEF p
<1>8. u.iters = I
  <2>1. d[m] \in Place
    BY <1>2, <1>3, Places
  <2>2. Created(u, v, d[m], p, xs[m + 1])
    BY <1>2, <1>4, <1>5, <2>1, CreateFields DEF p
  <2> QED  BY <1>1, <2>2 DEF Created
<1>9. ASSUME NEW j \in 1 .. m + 1
      PROVE  e[j] = ps[j] /\ Content(u, m + 1, e)[j] = xs[j]
  <2>1. CASE j \in 1 .. m
    <3>1. e[j] = d[j]
      BY <2>1 DEF Inserted
    <3>2. Content(u, m + 1, e)[j] = Content(v, m, d)[j]
      BY <1>7, <2>1 DEF SeqInserted
    <3> QED  BY <1>1, <2>1, <3>1, <3>2
  <2>2. CASE j = m + 1
    <3>1. e[j] = p
      BY <2>2 DEF Inserted
    <3>2. Content(u, m + 1, e)[j] = xs[m + 1]
      BY <1>7, <2>2 DEF SeqInserted
    <3> QED  BY <2>2, <3>1, <3>2 DEF p
  <2> QED  BY <2>1, <2>2
<1>10. Filled(u, m + 1, e, Moved(v, to, h, m), h, I, ps, xs)
  BY <1>6, <1>8, <1>9 DEF Filled
<1> QED  BY <1>10 DEF u, e, p

\* The loop that appends the items of a sequence makes a list of them.
LEMMA AppendedIs ==
    ASSUME NEW n \in Nat, NEW ps, NEW xs, NEW w, NEW c, NEW at, NEW hold,
           Chain(w, 0, c, at, hold), xs \in [1 .. n -> Item], ps \in [1 .. n -> Node],
           \A j, k \in 1 .. n : ps[j] = ps[k] => j = k
    PROVE  \E d, to, h : Filled(Appended(w, ps, xs), n, d, to, h, w.iters, ps, xs)
<1> DEFINE f == CHOOSE st : st = [k \in 0 .. Len(xs) |->
                   IF k = 0 THEN w ELSE NodeCreate(st[k - 1], st[k - 1].tail, ps[k], xs[k])]
<1>1. Len(xs) = n
  OBVIOUS
<1>2. Appended(w, ps, xs) = f[Len(xs)]
  BY DEF Appended, Loop
<1>3. Turns("push", xs, ps, Len(xs), w, f)
  <2> DEFINE F(st) == [k \in 0 .. Len(xs) |->
                IF k = 0 THEN w ELSE NodeCreate(st[k - 1], st[k - 1].tail, ps[k], xs[k])]
  <2>1. \E st : Turns("push", xs, ps, Len(xs), w, st)
    BY <1>1, LoopRuns
  <2>2. \A st : Turns("push", xs, ps, Len(xs), w, st) <=> st = F(st)
    BY DEF Turns, Turn
  <2>3. f = CHOOSE st : st = F(st)
    OBVIOUS
  <2> HIDE DEF f, F
  <2> QED  BY <2>1, <2>2, <2>3
<1> HIDE DEF f
<1>4. f[0] = w /\ \A k \in 0 .. n - 1 : f[k + 1] = Turn("push", f[k], k + 1, xs, ps)
  BY <1>1, <1>3, LoopTurns
<1> DEFINE P(k, d, to, h) == Filled(f[k], k, d, to, h, w.iters, ps, xs)
           T == {k \in Nat : k <= n => \E d, to, h : P(k, d, to, h)}
<1>5. 0 \in T
  <2>1. P(0, c, at, hold)
    BY <1>4 DEF Filled
  <2> QED  BY <2>1
<1>6. ASSUME NEW k \in Nat, k \in T  PROVE k + 1 \in T
  <2> SUFFICES ASSUME k < n  PROVE \E d, to, h : P(k + 1, d, to, h)
    OBVIOUS
  <2>1. PICK d, to, h : P(k, d, to, h)
    BY <1>6
  <2>2. f[k + 1] = Turn("push", f[k], k + 1, xs, ps)
    BY <1>4
  <2>3. k + 1 \in 1 .. n /\ \A j \in 1 .. k : j \in 1 .. n /\ j # k + 1
    OBVIOUS
  <2>4. ps[k + 1] \in Node /\ xs[k + 1] \in Item /\ \A j \in 1 .. k : ps[j] # ps[k + 1]
    BY <2>3
  <2>5. P(k + 1, Inserted(k, d, k, ps[k + 1]), Moved(f[k], to, h, k), h)
    BY <2>1, <2>2, <2>4, PushedOnce
  <2> HIDE DEF P
  <2> QED  BY <2>5
<1> HIDE DEF T
<1>7. n \in T
  BY <1>5, <1>6, Induct
<1>8. PICK d, to, h : P(n, d, to, h)
  BY <1>7 DEF T
<1> QED  BY <1>1, <1>2, <1>8

\* So many items are in the list, each once.
LEMMA ItemsCounted ==
    ASSUME NEW n \in Nat, NEW s, s \in [1 .. n -> Item],
           \A j, k \in 1 .. n : s[j] = s[k] => j = k
    PROVE  IsFiniteSet(InList(s, n)) /\ Cardinality(InList(s, n)) = n
<1>1. IsFiniteSet(1 .. n) /\ Cardinality(1 .. n) = n
  BY FS_Interval
<1>2. s \in Surjection(1 .. n, InList(s, n))
  BY DEF Surjection, InList
<1>3. s \in Injection(1 .. n, InList(s, n))
  BY DEF Injection, IsInjective, InList
<1>4. IsFiniteSet(InList(s, n)) /\ Cardinality(InList(s, n)) = Cardinality(1 .. n)
  <2> HIDE DEF InList
  <2> QED  BY <1>1, <1>2, <1>3, FS_Surjection
<1> QED  BY <1>1, <1>4

\* A sequence of the items of a list holds each of them.
LEMMA PermutedIs ==
    ASSUME NEW n \in Nat, NEW s, NEW t, s \in [1 .. n -> Item],
           \A j, k \in 1 .. n : s[j] = s[k] => j = k,
           t \in SetToSeqs(InList(s, n))
    PROVE  /\ t \in [1 .. n -> Item] /\ InList(t, n) = InList(s, n)
           /\ \A j, k \in 1 .. n : t[j] = t[k] => j = k
<1> DEFINE in == InList(s, n)
<1>1. IsFiniteSet(in) /\ Cardinality(in) = n
  BY ItemsCounted
<1>2. IsFiniteSet(1 .. n) /\ Cardinality(1 .. n) = n
  BY FS_Interval
<1>3. in \subseteq Item
  BY DEF InList
<1> HIDE DEF in
<1>4. t \in [1 .. n -> in] /\ \A j, k \in 1 .. n : j # k => t[j] # t[k]
  BY <1>1 DEF SetToSeqs, in
<1>5. t \in Injection(1 .. n, in)
  BY <1>4 DEF Injection, IsInjective
<1>6. t \in Surjection(1 .. n, in)
  BY <1>1, <1>2, <1>5, FS_Injection
<1>7. InList(t, n) = in
  BY <1>6 DEF Surjection, InList
<1> QED  BY <1>3, <1>4, <1>7 DEF in

\* list_sort keeps the invariant and the items, and sends iterators to the head.
LEMMA SortStep ==
    ASSUME NEW n, NEW c, NEW at, NEW hold,
           Holds(l, n, c, at, hold, due, passed, last), ListSort
    PROVE  \/ /\ Holds(l', n, c, at, hold, due', passed', last')
              /\ l' = l /\ call' = Call("list_sort", NULL, NULL) /\ n <= 1
           \/ n > 1 /\ \E d, to, h :
                 /\ Holds(l', n, d, Zero(to, l.iters), Free(h, l.iters), due', passed', last')
                 /\ InList(Content(l', n, d), n) = InList(Content(l, n, c), n)
                 /\ l'.iters = l.iters /\ call' = Call("list_sort", NULL, NULL)
<1> DEFINE s == Content(l, n, c)
<1>1. /\ Chain(l, n, c, at, hold) /\ Hist(s, n, l.iters, at, hold, due, passed, last)
  BY DEF Holds
<1>2. /\ l \in State /\ n \in Nat /\ Nodes(l, n, c) /\ ToSet(Items(l)) = InList(s, n)
      /\ s \in [1 .. n -> Item] /\ l.iters \subseteq Iterator
  BY <1>1, Opened DEF State
<1>3. l.count = n
  BY <1>2 DEF Nodes
<1>4. \A j, k \in 1 .. n : s[j] = s[k] => j = k
  BY <1>1 DEF Hist
<1>5. CASE l.count <= 1
  <2>1. Restart({}, "list_sort", NULL, l)
    BY <1>5 DEF ListSort
  <2>2. /\ l' = l /\ call' = Call("list_sort", NULL, NULL)
        /\ due' = [j \in Iterator |-> due[j]] /\ passed' = [j \in Iterator |-> passed[j]]
        /\ last' = [j \in Iterator |-> last[j]]
    BY <2>1 DEF Restart
  <2>3. due' = due /\ passed' = passed /\ last' = last
    BY <1>1, <2>2 DEF Hist
  <2> QED  BY <1>3, <1>5, <2>2, <2>3
<1>6. CASE ~(l.count <= 1)
  <2> DEFINE F(st) == [k \in 0 .. l.count |->
                     IF k = 0 THEN l ELSE NodeDestroy(st[k - 1], HEAD)]
             g == CHOOSE st : st = F(st)
  <2>1. PICK t \in SetToSeqs(ItemSet), ps \in Injection(1 .. l.count, Node) :
           Restart(l.iters, "list_sort", NULL,
                   AtHead(Appended(g[l.count], ps, t), l.iters))
    BY <1>6 DEF ListSort, Loop
  <2>2. Turns("pop", t, ps, l.count, l, g)
    <3>1. \E st : Turns("pop", t, ps, l.count, l, st)
      BY <1>2, <1>3, LoopRuns
    <3>2. \A st : Turns("pop", t, ps, l.count, l, st) <=> st = F(st)
      BY DEF Turns, Turn
    <3>3. g = CHOOSE st : st = F(st)
      OBVIOUS
    <3> HIDE DEF g, F
    <3> QED  BY <3>1, <3>2, <3>3
  <2> HIDE DEF g, F
  <2>3. PICK b, to, h : Chain(g[n], 0, b, to, h) /\ g[n].iters = l.iters
    BY <1>1, <1>2, <1>3, <2>2, PoppedChain
  <2>4. /\ t \in [1 .. n -> Item] /\ InList(t, n) = InList(s, n)
        /\ \A j, k \in 1 .. n : t[j] = t[k] => j = k
    <3>1. t \in SetToSeqs(InList(s, n))
      BY <1>2, <2>1 DEF ItemSet
    <3> HIDE DEF s
    <3> QED  BY <1>2, <1>4, <3>1, PermutedIs
  <2>5. ps \in [1 .. n -> Node] /\ \A j, k \in 1 .. n : ps[j] = ps[k] => j = k
    BY <1>3, <2>1 DEF Injection, IsInjective
  <2> DEFINE v == Appended(g[n], ps, t)
  <2>6. PICK d, to2, h2 : Filled(v, n, d, to2, h2, l.iters, ps, t)
    <3>1. \E d, to2, h2 : Filled(v, n, d, to2, h2, g[n].iters, ps, t)
      BY <1>2, <2>3, <2>4, <2>5, AppendedIs
    <3> QED  BY <2>3, <3>1
  <2>7. Restart(l.iters, "list_sort", NULL, AtHead(v, l.iters))
    BY <1>3, <2>1
  <2> HIDE DEF v
  <2>8. Chain(v, n, d, to2, h2) /\ v.iters = l.iters
        /\ \A j \in 1 .. n : Content(v, n, d)[j] = t[j]
    BY <2>6 DEF Filled
  <2>9. v \in State /\ v.sane /\ Nodes(v, n, d) /\ Iters(v, n, d, to2, h2)
        /\ Content(v, n, d) \in [1 .. n -> Item]
    BY <2>8, Opened DEF Chain
  <2>10. Content(v, n, d) = t
    <3> DEFINE u == Content(v, n, d)
    <3>1. u \in [1 .. n -> Item] /\ t \in [1 .. n -> Item] /\ \A j \in 1 .. n : u[j] = t[j]
      BY <2>4, <2>8, <2>9
    <3> HIDE DEF u
    <3>2. u = t
      BY <1>2, <3>1
    <3> QED  BY <3>2 DEF u
  <2>11. to2 \in [Iterator -> Nat] /\ h2 \in [Iterator -> BOOLEAN]
         /\ Elsewhere(v, n, d, to2, h2, l.iters)
    BY <2>9 DEF Iters, Elsewhere
  <2> DEFINE w == AtHead(v, l.iters)
  <2>12. /\ Chain(w, n, d, Zero(to2, l.iters), Free(h2, l.iters))
         /\ Content(w, n, d) = t /\ w.iters = l.iters
    BY <1>2, <2>8, <2>9, <2>10, <2>11, AtHeadChain
  <2> HIDE DEF w, s
  <2>13. l' = w /\ call' = Call("list_sort", NULL, NULL)
         /\ Restart(l.iters, "list_sort", NULL, w)
    BY <2>7 DEF Restart, w
  <2>14. Restarted(t, n, l.iters, to2, h2, l.iters, due, passed, last)
    <3>1. Cursors(n, l.iters, at, hold)
      BY <1>1, Opened
    <3> QED  BY <1>1, <1>2, <2>4, <2>11, <2>12, HistSorted
  <2>15. ToSet(Items(w)) = InList(t, n)
    BY <2>12, Opened
  <2>16. Holds(l', n, d, Zero(to2, l.iters), Free(h2, l.iters), due', passed', last')
    BY <2>12, <2>13, <2>14, <2>15 DEF Restart, Restarted, Holds
  <2>17. n > 1
    BY <1>2, <1>3, <1>6
  <2> QED  BY <2>4, <2>12, <2>13, <2>16, <2>17 DEF s
<1> QED  BY <1>5, <1>6

-----------------------------------------------------------------------------
(* The invariant is inductive *)

\* The invariant holds of a new list.
LEMMA InitInv ==
    ASSUME Init
    PROVE  ListInv
<1> DEFINE at == [i \in Iterator |-> 0]
           hold == [i \in Iterator |-> FALSE]
<1>1. /\ l = Empty
      /\ due = [i \in Iterator |-> {}] /\ passed = [i \in Iterator |-> {}]
      /\ last = [i \in Iterator |-> NULL]
  BY DEF Init
<1>2. at \in [Iterator -> Nat] /\ hold \in [Iterator -> BOOLEAN]
  OBVIOUS
<1>3. Holds(l, 0, EmptyChain, at, hold, due, passed, last)
  BY <1>1, <1>2, EmptyHolds
<1> QED  BY <1>3 DEF ListInv

\* The calls that put an item into the list keep the invariant.
LEMMA ItemStep ==
    ASSUME NEW n, NEW c, NEW at, NEW hold, NEW x \in Item,
           Holds(l, n, c, at, hold, due, passed, last),
           \/ ListAppend(x) \/ ListPrepend(x) \/ \E i \in Iterator : ListInsert(i, x)
    PROVE  \E k \in 0 .. n, p \in Node :
              Holds(l', n + 1, Inserted(n, c, k, p), Moved(l, at, hold, k), hold,
                    due', passed', last')
<1>1. Chain(l, n, c, at, hold) /\ n \in Nat
  BY Opened DEF Holds
<1>2. CASE ListAppend(x)
  <2>1. PICK p \in Node \ l.heap : Track("list_append", NULL, x, NodeCreate(l, c[n], p, x))
    BY <1>1, <1>2, AppendIs
  <2>2. New(x) /\ n \in 0 .. n
    BY <1>1, <1>2 DEF ListAppend
  <2> QED  BY <1>1, <2>1, <2>2, AddStep
<1>3. CASE ListPrepend(x)
  <2>1. PICK p \in Node \ l.heap : Track("list_prepend", NULL, x, NodeCreate(l, c[0], p, x))
    BY <1>1, <1>3, PrependIs
  <2>2. New(x) /\ 0 \in 0 .. n
    BY <1>1, <1>3 DEF ListPrepend
  <2> QED  BY <1>1, <2>1, <2>2, AddStep
<1>4. ASSUME NEW i \in Iterator, ListInsert(i, x)
      PROVE  \E k \in 0 .. n, p \in Node :
                Holds(l', n + 1, Inserted(n, c, k, p), Moved(l, at, hold, k), hold,
                      due', passed', last')
  <2>1. i \in l.iters /\ New(x)
    BY <1>1, <1>4, InsertIs
  <2>2. PICK p \in Node \ l.heap :
           Track("list_insert", i, x, NodeCreate(l, c[Rest(at, hold, i)], p, x))
    BY <1>1, <1>4, InsertIs
  <2>3. Rest(at, hold, i) \in 0 .. n
    BY <1>1, <2>1, IteratorIs
  <2> QED  BY <1>1, <2>1, <2>2, <2>3, AddStep
<1> QED  BY <1>2, <1>3, <1>4

\* Every call keeps the invariant.
LEMMA NextInv ==
    ASSUME ListInv, [Next]_vars
    PROVE  ListInv'
<1>1. PICK n, c, at, hold : Holds(l, n, c, at, hold, due, passed, last)
  BY DEF ListInv
<1>2. Chain(l, n, c, at, hold) /\ n \in Nat
  BY <1>1, Opened DEF Holds
<1>3. ASSUME NEW x \in Item,
             \/ ListAppend(x) \/ ListPrepend(x) \/ \E i \in Iterator : ListInsert(i, x)
      PROVE  ListInv'
  BY <1>1, <1>3, ItemStep DEF ListInv
<1>4. CASE ListPop
  <2>1. CASE n = 0 /\ Track("list_pop", NULL, NULL, l)
    BY <1>1, <2>1, LeaveStep DEF ListInv
  <2>2. CASE n > 0 /\ Track("list_pop", NULL, Content(l, n, c)[1], NodeDestroy(l, c[0]))
    <3>1. 0 \in Nat /\ 0 < n
      BY <2>2
    <3> QED  BY <1>1, <1>2, <2>2, <3>1, TakeStep DEF ListInv
  <2> QED  BY <1>2, <1>4, <2>1, <2>2, PopIs
<1>5. CASE ListRemoveFirst
  <2>1. PICK k \in 0 .. n - 1 :
           Track("list_remove_first", NULL, Content(l, n, c)[k + 1], NodeDestroy(l, c[k]))
    BY <1>2, <1>5, RemoveFirstIs
  <2>2. k \in Nat /\ k < n
    BY <1>2
  <2> QED  BY <1>1, <1>2, <2>1, <2>2, TakeStep DEF ListInv
<1>6. CASE ListDeleteAll
  <2>1. PICK S \in SUBSET Item : \E d, to, h : Deleted(n, c, at, hold, S, d, to, h)
    BY <1>1, <1>6, DeleteAllStep
  <2>2. PICK d, to, h : Deleted(n, c, at, hold, S, d, to, h)
    BY <2>1
  <2>3. Holds(l', Left(Content(l, n, c), S, n), d, to, h, due', passed', last')
    BY <2>2 DEF Deleted
  <2> QED  BY <2>3 DEF ListInv
<1>7. CASE ListSort
  BY <1>1, <1>7, SortStep DEF ListInv
<1>8. CASE ListDestroy
  <2>1. Holds(l', 0, EmptyChain, at, hold, due', passed', last')
    BY <1>1, <1>8, DestroyedStep
  <2> QED  BY <2>1 DEF ListInv
<1>9. ASSUME NEW i \in Iterator, ListIteratorCreate(i)  PROVE ListInv'
  <2>1. Holds(l', n, c, Zero(at, {i}), Free(hold, {i}), due', passed', last')
    BY <1>1, <1>9, CreateStep
  <2> QED  BY <2>1 DEF ListInv
<1>10. ASSUME NEW i \in Iterator, ListIteratorReset(i)  PROVE ListInv'
  <2>1. Holds(l', n, c, Zero(at, {i}), Free(hold, {i}), due', passed', last')
    BY <1>1, <1>10, ResetStep
  <2> QED  BY <2>1 DEF ListInv
<1>11. ASSUME NEW i \in Iterator, ListIteratorDestroy(i)  PROVE ListInv'
  BY <1>1, <1>11, CloseStep DEF ListInv
<1>12. ASSUME NEW i \in Iterator, ListNext(i)  PROVE ListInv'
  BY <1>1, <1>12, NextStep DEF ListInv
<1>13. ASSUME NEW i \in Iterator, ListRemove(i)  PROVE ListInv'
  <2>1. CASE Track("list_remove", i, NULL, l)
    BY <1>1, <2>1, LeaveStep DEF ListInv
  <2>2. CASE hold[i] /\ Track("list_remove", i, Content(l, n, c)[at[i]],
                              NodeDestroy(l, c[at[i] - 1]))
    <3>1. i \in l.iters
      BY <1>2, <1>13, RemoveIs
    <3>2. at[i] \in 0 .. n /\ at[i] > 0
      BY <1>2, <2>2, <3>1, IteratorIs
    <3>3. at[i] - 1 \in Nat /\ at[i] - 1 < n
      BY <1>2, <3>2
    <3> QED  BY <1>1, <1>2, <2>2, <3>3, TakeStep DEF ListInv
  <2> QED  BY <1>2, <1>13, <2>1, <2>2, RemoveIs
<1>14. CASE UNCHANGED vars
  <2>1. l' = l /\ due' = due /\ passed' = passed /\ last' = last
    BY <1>14 DEF vars
  <2> QED  BY <1>1, <2>1 DEF ListInv
<1>15. CASE Next
  BY <1>3, <1>4, <1>5, <1>6, <1>7, <1>8, <1>9, <1>10, <1>11, <1>12, <1>13, <1>15 DEF Next
<1> QED  BY <1>14, <1>15

\* The inductive invariant of the list.
LEMMA AlwaysListInv == Spec => []ListInv
<1>1. Init => ListInv
  BY InitInv
<1>2. ListInv /\ [Next]_vars => ListInv'
  BY NextInv
<1> QED  BY <1>1, <1>2, PTL DEF Spec

-----------------------------------------------------------------------------
(* What it means for callers *)

\* The invariant implies each property below: the types ...
LEMMA TypesHold ==
    ASSUME ListInv
    PROVE  TypeOK
<1>1. PICK n, c, at, hold : Holds(l, n, c, at, hold, due, passed, last)
  BY DEF ListInv
<1> DEFINE s == Content(l, n, c)
<1>2. /\ Chain(l, n, c, at, hold) /\ Hist(s, n, l.iters, at, hold, due, passed, last)
  BY <1>1 DEF Holds
<1>3. l \in State /\ n \in Nat /\ Nodes(l, n, c) /\ s \in [1 .. n -> Item]
  BY <1>2, Opened
<1>4. l.count \in 0 .. Cardinality(Node)
  <2>1. n <= Cardinality(Node) /\ Cardinality(Node) \in Nat /\ l.count = n
    <3>1. n <= Cardinality(Node) /\ Cardinality(Node) \in Nat
      BY <1>3, Short
    <3> QED  BY <1>3, <3>1 DEF Nodes
  <2> QED  BY <1>3, <2>1
<1>5. InList(s, n) \subseteq Item
  BY <1>3 DEF InList
<1>6. /\ due \in [Iterator -> SUBSET Item] /\ passed \in [Iterator -> SUBSET Item]
      /\ last \in [Iterator -> Item \cup {NULL}]
  <2>1. /\ due \in [Iterator -> SUBSET InList(s, n)] /\ passed \in [Iterator -> SUBSET InList(s, n)]
        /\ last \in [Iterator -> InList(s, n) \cup {NULL}]
    BY <1>2 DEF Hist
  <2> HIDE DEF s
  <2> QED  BY <1>5, <2>1
<1>7. /\ l.next \in [Place -> Node \cup {NULL}] /\ l.data \in [Node -> Item \cup {NULL}]
      /\ l.heap \subseteq Node /\ l.tail \in Place /\ l.iters \subseteq Iterator
      /\ l.pos \in [Iterator -> Node \cup {NULL}] /\ l.prev \in [Iterator -> Place]
      /\ l.sane \in BOOLEAN
  BY <1>3 DEF State
<1> QED  BY <1>4, <1>6, <1>7 DEF TypeOK

\* ... that the nodes are linked ...
LEMMA LinkedHolds ==
    ASSUME ListInv
    PROVE  Linked
<1>1. PICK n, c, at, hold : Holds(l, n, c, at, hold, due, passed, last)
  BY DEF ListInv
<1>2. l \in State /\ n \in Nat /\ Nodes(l, n, c)
  BY <1>1, Opened DEF Holds
<1>3. Walk(l) = Along(n, c)
  BY <1>2, WalkIs
<1> DEFINE walk == Along(n, c)
<1>4. walk \in [1 .. n -> Node] /\ \A j \in 1 .. n : walk[j] = c[j]
  BY <1>2, Places DEF Along
<1>5. Len(walk) = n
  BY <1>2, <1>4
<1>6. ToSet(walk) = l.heap
  <2>1. \A j \in 1 .. n : walk[j] \in l.heap
    BY <1>2, <1>4 DEF Nodes
  <2>2. \A p \in l.heap : \E j \in 1 .. n : walk[j] = p
    BY <1>2, <1>4 DEF Nodes
  <2>3. DOMAIN walk = 1 .. n
    BY <1>4
  <2> HIDE DEF walk
  <2> QED  BY <2>1, <2>2, <2>3 DEF ToSet
<1>7. Cardinality(l.heap) = n
  <2>1. IsFiniteSet(1 .. n) /\ Cardinality(1 .. n) = n
    BY <1>2, FS_Interval
  <2>2. \A j \in 1 .. n : walk[j] \in l.heap
    BY <1>2, <1>4 DEF Nodes
  <2>3. \A p \in l.heap : \E j \in 1 .. n : walk[j] = p
    BY <1>2, <1>4 DEF Nodes
  <2>4. \A j, k \in 1 .. n : walk[j] = walk[k] => j = k
    BY <1>2, <1>4 DEF Nodes
  <2> HIDE DEF walk
  <2>5. walk \in [1 .. n -> l.heap]
    BY <1>4, <2>2
  <2>6. walk \in Surjection(1 .. n, l.heap) /\ walk \in Injection(1 .. n, l.heap)
    BY <2>3, <2>4, <2>5 DEF Surjection, Injection, IsInjective
  <2> QED  BY <2>1, <2>6, FS_Surjection
<1>8. l.tail = IF walk = <<>> THEN HEAD ELSE Last(walk)
  <2>1. l.tail = c[n] /\ c[0] = HEAD
    BY <1>2 DEF Nodes
  <2> HIDE DEF walk
  <2>2. CASE n = 0
    <3>1. walk = <<>>
      BY <1>4, <2>2
    <3> QED  BY <2>1, <2>2, <3>1
  <2>3. CASE n # 0
    <3>1. walk # <<>> /\ Last(walk) = c[n]
      BY <1>2, <1>4, <1>5, <2>3 DEF Last
    <3> QED  BY <2>1, <3>1
  <2> QED  BY <2>2, <2>3
<1>9. l.next[l.tail] = NULL
  <2>1. l.tail = c[n] /\ c[n + 1] = NULL /\ \A j \in 0 .. n : l.next[c[j]] = c[j + 1]
    BY <1>2 DEF Nodes
  <2> QED  BY <1>2, <2>1
<1>10. ListCount = n
  BY <1>2 DEF ListCount, Nodes
<1> QED  BY <1>3, <1>5, <1>6, <1>7, <1>8, <1>9, <1>10 DEF Linked

\* ... that no iterator dangles ...
LEMMA NoneDanglesHolds ==
    ASSUME ListInv
    PROVE  NoneDangles
<1>1. PICK n, c, at, hold : Holds(l, n, c, at, hold, due, passed, last)
  BY DEF ListInv
<1>2. Chain(l, n, c, at, hold) /\ n \in Nat /\ Nodes(l, n, c) /\ l.sane
  BY <1>1, Opened DEF Holds, Chain
<1>3. /\ \A j \in 0 .. n : c[j] \in l.heap \cup {HEAD}
      /\ \A j \in 1 .. n + 1 : c[j] \in l.heap \cup {NULL}
  BY <1>2 DEF Nodes
<1>4. ASSUME NEW i \in l.iters
      PROVE  l.prev[i] \in l.heap \cup {HEAD} /\ l.pos[i] \in l.heap \cup {NULL}
  <2>1. /\ at[i] \in 0 .. n /\ Rest(at, hold, i) \in 0 .. n
        /\ l.prev[i] = c[Rest(at, hold, i)] /\ l.pos[i] = c[at[i] + 1]
    BY <1>2, IteratorIs
  <2>2. at[i] + 1 \in 1 .. n + 1
    BY <1>2, <2>1
  <2> QED  BY <1>3, <2>1, <2>2
<1> QED  BY <1>2, <1>4 DEF NoneDangles

\* ... and that no iterator has missed an item.
LEMMA CompleteHolds ==
    ASSUME ListInv
    PROVE  Complete
<1>1. PICK n, c, at, hold : Holds(l, n, c, at, hold, due, passed, last)
  BY DEF ListInv
<1> DEFINE s == Content(l, n, c)
<1>2. Chain(l, n, c, at, hold) /\ Hist(s, n, l.iters, at, hold, due, passed, last)
  BY <1>1 DEF Holds
<1>3. l \in State /\ n \in Nat /\ Nodes(l, n, c)
  BY <1>2, Opened
<1>4. Walk(l) = Along(n, c) /\ DOMAIN Along(n, c) = 1 .. n
      /\ \A j \in 1 .. n : Along(n, c)[j] = c[j]
  BY <1>3, WalkIs DEF Along
<1>5. ASSUME NEW i \in l.iters, NEW k \in 1 .. n, l.data[c[k]] \in due[i]
      PROVE  \E m \in 1 .. k : c[m] = l.pos[i]
  <2>1. at[i] \in 0 .. n /\ l.pos[i] = c[at[i] + 1]
    BY <1>2, IteratorIs
  <2>2. s[k] \in due[i]
    BY <1>5 DEF Content
  <2> HIDE DEF s
  <2>3. k > at[i]
    BY <1>2, <2>2 DEF Hist
  <2> QED  BY <1>3, <2>1, <2>3
<1>6. ASSUME NEW i \in l.iters, NEW k \in DOMAIN Walk(l), l.data[Walk(l)[k]] \in due[i]
      PROVE  k \notin {e \in DOMAIN Walk(l) : \A m \in 1 .. e : Walk(l)[m] # l.pos[i]}
  <2>1. k \in 1 .. n /\ l.data[c[k]] \in due[i]
    BY <1>4, <1>6
  <2>2. PICK m \in 1 .. k : c[m] = l.pos[i]
    BY <1>5, <2>1
  <2>3. Walk(l)[m] = l.pos[i]
    BY <1>3, <1>4, <2>1, <2>2
  <2> QED  BY <2>3
<1> QED  BY <1>6 DEF Complete

\* The pointers of list, nodes and iterators lead to nodes, to the head or nowhere.
THEOREM TypeCorrect == Spec => []TypeOK
BY AlwaysListInv, TypesHold, PTL

\* No sequence of calls leaks a node, closes a cycle, or leaves tail or count wrong.
THEOREM AlwaysLinked == Spec => []Linked
BY AlwaysListInv, LinkedHolds, PTL

\* The assertions of the list never fail, and no iterator is left at a freed node.
THEOREM NothingDangles == Spec => []NoneDangles
BY AlwaysListInv, NoneDanglesHolds, PTL

\* No iterator misses an item that was in the list all the time.
THEOREM AlwaysComplete == Spec => []Complete
BY AlwaysListInv, CompleteHolds, PTL

\* Which actions these two calls are.
LEMMA ByIterator ==
    ASSUME Next, call'.op \in {"list_next", "list_remove"}
    PROVE  \E i \in Iterator : \/ ListNext(i) /\ call'.op = "list_next"
                               \/ ListRemove(i) /\ call'.op = "list_remove"
<1>1. \A op, i, r, w : op \notin {"list_next", "list_remove"} =>
          ~Track(op, i, r, w) /\ ~Restart(w, op, i, r)
  BY DEF Track, Restart, Call
<1>2. /\ \A x : ~ListAppend(x) /\ ~ListPrepend(x)
      /\ \A i, x : ~ListInsert(i, x)
  BY <1>1 DEF ListAppend, ListPrepend, ListInsert
<1>3. ~ListPop /\ ~ListRemoveFirst
  BY <1>1 DEF ListPop, ListRemoveFirst
<1>4. ~ListDeleteAll
  BY <1>1 DEF ListDeleteAll
<1>5. ~ListSort
  BY <1>1 DEF ListSort
<1>6. ~ListDestroy
  BY <1>1 DEF ListDestroy
<1>7. \A i : ~ListIteratorCreate(i) /\ ~ListIteratorReset(i)
  BY <1>1 DEF ListIteratorCreate, ListIteratorReset
<1>8. \A i : ~ListIteratorDestroy(i)
  BY DEF ListIteratorDestroy, Call
<1>9. \A i : ListNext(i) => call'.op = "list_next"
  BY DEF ListNext, Call
<1>10. \A i : ListRemove(i) => call'.op = "list_remove"
  BY DEF ListRemove, Track, Call
<1>11. \E i \in Iterator : ListNext(i) \/ ListRemove(i)
  BY <1>2, <1>3, <1>4, <1>5, <1>6, <1>7, <1>8 DEF Next
<1> QED  BY <1>9, <1>10, <1>11

\* list_next does not return an item that the iterator has passed.
LEMMA NoRepeatStep ==
    ASSUME ListInv, Next, call'.op = "list_next"
    PROVE  call'.ret \notin passed[call'.iter]
<1>1. PICK n, c, at, hold : Holds(l, n, c, at, hold, due, passed, last)
  BY DEF ListInv
<1> DEFINE s == Content(l, n, c)
<1>2. Chain(l, n, c, at, hold) /\ Hist(s, n, l.iters, at, hold, due, passed, last)
  BY <1>1 DEF Holds
<1>3. n \in Nat /\ s \in [1 .. n -> Item] /\ l.iters \subseteq Iterator
  BY <1>2, Opened DEF State
<1>4. PICK i \in Iterator : ListNext(i)
  BY ByIterator
<1>5. /\ call' = Call("list_next", i, IF at[i] < n THEN s[at[i] + 1] ELSE NULL)
      /\ i \in l.iters
  BY <1>1, <1>4, NextStep
<1>6. at[i] \in 0 .. n
  BY <1>2, <1>5, IteratorIs
<1>7. call'.iter = i /\ call'.ret = IF at[i] < n THEN s[at[i] + 1] ELSE NULL
  BY <1>5 DEF Call
<1>8. passed[i] \subseteq InList(s, n)
  BY <1>2 DEF Hist
<1> HIDE DEF s
<1>9. CASE at[i] < n
  <2>1. at[i] + 1 \in 1 .. n /\ ~(at[i] + 1 <= at[i])
    BY <1>3, <1>6, <1>9
  <2>2. s[at[i] + 1] \notin passed[i]
    BY <1>2, <1>5, <2>1 DEF Hist
  <2> QED  BY <1>7, <1>9, <2>2
<1>10. CASE ~(at[i] < n)
  <2>1. NULL \notin InList(s, n)
    BY <1>3, ListAssumption DEF InList
  <2> QED  BY <1>7, <1>8, <1>10, <2>1
<1> QED  BY <1>9, <1>10

\* list_remove returns no other item than the one returned last.
LEMMA RemovesOnlyLastStep ==
    ASSUME ListInv, Next, call'.op = "list_remove"
    PROVE  call'.ret \in {NULL, last[call'.iter]}
<1>1. PICK n, c, at, hold : Holds(l, n, c, at, hold, due, passed, last)
  BY DEF ListInv
<1> DEFINE s == Content(l, n, c)
<1>2. Chain(l, n, c, at, hold) /\ Hist(s, n, l.iters, at, hold, due, passed, last)
  BY <1>1 DEF Holds
<1>3. PICK i \in Iterator : ListRemove(i)
  BY ByIterator
<1>4. i \in l.iters
  BY <1>2, <1>3, RemoveIs
<1>5. CASE Track("list_remove", i, NULL, l)
  BY <1>5 DEF Track, Call
<1>6. CASE hold[i] /\ Track("list_remove", i, s[at[i]], NodeDestroy(l, c[at[i] - 1]))
  <2>1. call'.iter = i /\ call'.ret = s[at[i]]
    BY <1>6 DEF Track, Call
  <2>2. last[i] = s[at[i]]
    BY <1>2, <1>4, <1>6 DEF Hist
  <2> QED  BY <2>1, <2>2
<1> QED  BY <1>2, <1>3, <1>5, <1>6, RemoveIs

\* list_next returns no item twice while it stays in the list.
THEOREM ReturnsNoneTwice == Spec => NoRepeat
<1>1. ListInv /\ [Next]_vars =>
        [call'.op = "list_next" => call'.ret \notin passed[call'.iter]]_vars
  BY NoRepeatStep
<1> QED  BY <1>1, AlwaysListInv, PTL DEF Spec, NoRepeat

\* list_remove takes out the item list_next returned last, or none.
THEOREM RemovesWhatWasReturned == Spec => RemovesOnlyLast
<1>1. ListInv /\ [Next]_vars =>
        [call'.op = "list_remove" => call'.ret \in {NULL, last[call'.iter]}]_vars
  BY RemovesOnlyLastStep
<1> QED  BY <1>1, AlwaysListInv, PTL DEF Spec, RemovesOnlyLast

-----------------------------------------------------------------------------
(* The calls that read *)

\* The least member of a set of naturals.
LEMMA LeastIs ==
    ASSUME NEW T \in SUBSET Nat, T # {}
    PROVE  Min(T) \in T /\ \A y \in T : Min(T) <= y
<1> DEFINE R == {ss \in Nat \X Nat : ss[1] < ss[2]}
<1>1. IsWellFoundedOn(R, Nat)
  BY LessIsWellFounded
<1> HIDE DEF R
<1>2. \E x \in T : \A y \in T : ~(<<y, x>> \in R)
  BY <1>1, WFMin
<1>3. PICK x \in T : \A y \in T : ~(<<y, x>> \in R)
  BY <1>2
<1>4. ASSUME NEW y \in T  PROVE x <= y
  <2>1. x \in Nat /\ y \in Nat
    OBVIOUS
  <2>2. <<y, x>> \in Nat \X Nat /\ (y < x => <<y, x>> \in R)
    BY <2>1 DEF R
  <2> QED  BY <1>3, <2>1, <2>2
<1> QED  BY <1>4 DEF Min

\* The bound of a walk: the end, the maximum, or the first failure.
Bound(s, n, x, max, breaks, e) ==
    /\ e \in Nat /\ e <= n /\ (max # -1 => e <= max)
    /\ \A j \in 1 .. n : breaks /\ s[j] = x => e <= j
    /\ \/ e = n
       \/ max # -1 /\ e = max
       \/ breaks /\ e \in 1 .. n /\ s[e] = x

\* How many items list_for_each_max goes to, as the reference says it.
LEMMA BoundIs ==
    ASSUME NEW n \in Nat, NEW max \in {-1, 1, 2}, NEW breaks \in BOOLEAN, NEW s, NEW x
    PROVE  Bound(s, n, x, max, breaks,
                 Min({n} \cup (IF max = -1 THEN {} ELSE {max})
                         \cup {k \in 1 .. n : breaks /\ s[k] = x}))
<1> DEFINE T == {n} \cup (IF max = -1 THEN {} ELSE {max})
                    \cup {k \in 1 .. n : breaks /\ s[k] = x}
<1>1. T \in SUBSET Nat /\ T # {}
  OBVIOUS
<1>2. /\ n \in T /\ (max # -1 => max \in T)
      /\ \A k \in 1 .. n : breaks /\ s[k] = x => k \in T
      /\ \A e \in T : \/ e = n
                      \/ max # -1 /\ e = max
                      \/ breaks /\ e \in 1 .. n /\ s[e] = x
  OBVIOUS
<1> HIDE DEF T
<1>3. Min(T) \in T /\ \A y \in T : Min(T) <= y
  BY <1>1, LeastIs
<1>4. Bound(s, n, x, max, breaks, Min(T))
  BY <1>1, <1>2, <1>3 DEF Bound
<1> QED  BY <1>4 DEF T

\* What the walk knows after k turns, e being its bound.
Visited(v, k, s, x, breaks, e) ==
    /\ v = [n |-> v.n, failed |-> v.failed, stop |-> v.stop]
    /\ v.failed \in BOOLEAN /\ v.stop \in BOOLEAN
    /\ v.n = IF k <= e THEN k ELSE e
    /\ v.failed <=> \E j \in 1 .. v.n : s[j] = x
    /\ v.stop <=> breaks /\ v.failed

\* One turn of the loop of list_for_each_max.
LEMMA VisitedOnce ==
    ASSUME NEW n \in Nat, NEW k \in 0 .. n - 1, NEW max \in {-1, 1, 2}, NEW breaks \in BOOLEAN,
           NEW walk, NEW s, NEW x, NEW v, NEW e,
           \A j \in 1 .. n : s[j] = l.data[walk[j]],
           Bound(s, n, x, max, breaks, e), Visited(v, k, s, x, breaks, e)
    PROVE  Visited(Turn("visit", v, k + 1, walk, [of |-> {x}, max |-> max, breaks |-> breaks]),
                   k + 1, s, x, breaks, e)
<1> DEFINE S == [of |-> {x}, max |-> max, breaks |-> breaks]
           u == Turn("visit", v, k + 1, walk, S)
<1>1. u = IF v.stop \/ v.n = max THEN v
          ELSE [n |-> v.n + 1, failed |-> v.failed \/ s[k + 1] = x,
                stop |-> breaks /\ s[k + 1] = x]
  BY DEF Turn, VisitTurn, Reached
<1>2. /\ e \in Nat /\ e <= n /\ (max # -1 => e <= max)
      /\ \A j \in 1 .. n : breaks /\ s[j] = x => e <= j
      /\ e = n \/ (max # -1 /\ e = max) \/ (breaks /\ e \in 1 .. n /\ s[e] = x)
  BY DEF Bound
<1>3. /\ v = [n |-> v.n, failed |-> v.failed, stop |-> v.stop]
      /\ v.failed \in BOOLEAN /\ v.stop \in BOOLEAN
      /\ v.n = IF k <= e THEN k ELSE e
      /\ v.failed <=> \E j \in 1 .. v.n : s[j] = x
      /\ v.stop <=> breaks /\ v.failed
  BY DEF Visited
<1> HIDE DEF u, S
<1>4. CASE k < e
  <2>1. v.n = k
    BY <1>2, <1>3, <1>4
  <2>2. ~v.stop
    <3>1. \A j \in 1 .. k : j \in 1 .. n /\ ~(e <= j)
      BY <1>2, <1>4
    <3>2. breaks => \A j \in 1 .. k : s[j] # x
      BY <1>2, <3>1
    <3> QED  BY <1>3, <2>1, <3>2
  <2>3. v.n # max
    BY <1>2, <1>4, <2>1
  <2>4. u = [n |-> k + 1, failed |-> v.failed \/ s[k + 1] = x, stop |-> breaks /\ s[k + 1] = x]
    BY <1>1, <2>1, <2>2, <2>3
  <2>5. u.n = k + 1 /\ (u.failed <=> v.failed \/ s[k + 1] = x) /\ (u.stop <=> breaks /\ s[k + 1] = x)
        /\ u.failed \in BOOLEAN /\ u.stop \in BOOLEAN
        /\ u = [n |-> u.n, failed |-> u.failed, stop |-> u.stop]
    BY <1>3, <2>4
  <2>6. \A j \in 1 .. k + 1 : j \in 1 .. k \/ j = k + 1
    OBVIOUS
  <2>7. k + 1 \in 1 .. k + 1 /\ \A j \in 1 .. k : j \in 1 .. k + 1
    OBVIOUS
  <2>8. u.failed <=> \E j \in 1 .. u.n : s[j] = x
    BY <1>3, <2>1, <2>5, <2>6, <2>7
  <2>9. u.stop <=> breaks /\ u.failed
    BY <1>3, <2>2, <2>5
  <2>10. u.n = IF k + 1 <= e THEN k + 1 ELSE e
    BY <1>2, <1>4, <2>5
  <2> QED  BY <2>5, <2>8, <2>9, <2>10 DEF Visited, u, S
<1>5. CASE ~(k < e)
  <2>1. v.n = e /\ e # n
    BY <1>2, <1>3, <1>5
  <2>2. v.stop \/ v.n = max
    <3>1. CASE max # -1 /\ e = max
      BY <2>1, <3>1
    <3>2. CASE breaks /\ e \in 1 .. n /\ s[e] = x
      <4>1. e \in 1 .. v.n
        BY <1>2, <2>1, <3>2
      <4> QED  BY <1>3, <3>2, <4>1
    <3> QED  BY <1>2, <2>1, <3>1, <3>2
  <2>3. u = v
    BY <1>1, <2>2
  <2>4. v.n = IF k + 1 <= e THEN k + 1 ELSE e
    BY <1>2, <1>5, <2>1
  <2> QED  BY <1>3, <2>3, <2>4 DEF Visited, u, S
<1> QED  BY <1>4, <1>5

\* What the walk is asked for, and what it starts with.
Job(S, a, one, max, breaks) ==
    /\ S = [of |-> one, max |-> max, breaks |-> breaks]
    /\ a = [n |-> 0, failed |-> FALSE, stop |-> FALSE]

\* The loop of list_for_each_max goes to the first e items.
LEMMA WalkVisits ==
    ASSUME NEW n \in Nat, NEW max \in {-1, 1, 2}, NEW breaks \in BOOLEAN,
           NEW walk, NEW s, NEW x, NEW one, NEW S, NEW a, NEW e, NEW f, one = {x},
           Job(S, a, one, max, breaks),
           \A j \in 1 .. n : s[j] = l.data[walk[j]], Bound(s, n, x, max, breaks, e),
           Turns("visit", walk, S, n, a, f)
    PROVE  f[n].n = e /\ (f[n].failed <=> \E j \in 1 .. e : s[j] = x)
<1>1. f[0] = a /\ \A k \in 0 .. n - 1 : f[k + 1] = Turn("visit", f[k], k + 1, walk, S)
  BY LoopTurns
<1>2. e \in Nat /\ e <= n
  BY DEF Bound
<1> DEFINE T == {k \in Nat : k <= n => Visited(f[k], k, s, x, breaks, e)}
<1>3. 0 \in T
  <2> DEFINE v == f[0]
  <2>1. v = [n |-> 0, failed |-> FALSE, stop |-> FALSE]
    BY <1>1 DEF Job
  <2> HIDE DEF v
  <2>2. v.n = 0 /\ v.failed = FALSE /\ v.stop = FALSE /\ 1 .. 0 = {}
        /\ v = [n |-> v.n, failed |-> v.failed, stop |-> v.stop]
    BY <2>1
  <2>3. v.failed <=> \E j \in 1 .. v.n : s[j] = x
    BY <2>2
  <2>4. v.n = IF 0 <= e THEN 0 ELSE e
    BY <1>2, <2>2
  <2>5. Visited(v, 0, s, x, breaks, e)
    BY <2>2, <2>3, <2>4 DEF Visited
  <2> QED  BY <2>5 DEF v
<1>4. ASSUME NEW k \in Nat, k \in T  PROVE k + 1 \in T
  <2> SUFFICES ASSUME k < n  PROVE Visited(f[k + 1], k + 1, s, x, breaks, e)
    OBVIOUS
  <2>1. k \in 0 .. n - 1 /\ Visited(f[k], k, s, x, breaks, e)
    BY <1>4
  <2>2. f[k + 1] = Turn("visit", f[k], k + 1, walk, S)
    BY <1>1, <2>1
  <2>3. S = [of |-> {x}, max |-> max, breaks |-> breaks]
    BY DEF Job
  <2>4. Visited(Turn("visit", f[k], k + 1, walk, S), k + 1, s, x, breaks, e)
    BY <2>1, <2>3, VisitedOnce
  <2> QED  BY <2>2, <2>4
<1> HIDE DEF T
<1>5. n \in T
  BY <1>3, <1>4, Induct
<1>6. Visited(f[n], n, s, x, breaks, e)
  BY <1>5 DEF T
<1> QED  BY <1>2, <1>6 DEF Visited

\* list_for_each_max goes to so many items as the reference says.
LEMMA ForEachMaxIs ==
    ASSUME NEW n \in Nat, NEW max \in {-1, 1, 2}, NEW breaks \in BOOLEAN,
           NEW c, NEW x, NEW one, NEW e, one = {x},
           l \in State, Nodes(l, n, c), Bound(Content(l, n, c), n, x, max, breaks, e)
    PROVE  ListForEachMax(one, max, breaks) =
             <<IF \E k \in 1 .. e : Content(l, n, c)[k] = x THEN -e ELSE e, n - e>>
<1> DEFINE s == Content(l, n, c)
           walk == Walk(l)
           S == [of |-> one, max |-> max, breaks |-> breaks]
           a == [n |-> 0, failed |-> FALSE, stop |-> FALSE]
           F(st) == [k \in 0 .. Len(Walk(l)) |->
                       IF k = 0 THEN a
                       ELSE IF st[k - 1].stop \/ Reached(st[k - 1].n, max) THEN st[k - 1]
                       ELSE [n |-> st[k - 1].n + 1,
                             failed |-> st[k - 1].failed \/ l.data[Walk(l)[k]] \in one,
                             stop |-> breaks /\ l.data[Walk(l)[k]] \in one]]
           f == CHOOSE st : st = F(st)
<1>1. walk = Along(n, c) /\ walk \in [1 .. n -> Node] /\ \A j \in 1 .. n : s[j] = l.data[walk[j]]
  <2>1. Walk(l) = Along(n, c)
    BY WalkIs
  <2>2. \A j \in 1 .. n : c[j] \in Node
    BY Places
  <2> QED  BY <2>1, <2>2 DEF Along, Content
<1>2. Len(walk) = n /\ l.count = n
  BY <1>1 DEF Nodes
<1>3. Turns("visit", walk, S, Len(walk), a, f)
  <2>1. \E st : Turns("visit", walk, S, Len(walk), a, st)
    BY <1>2, LoopRuns
  <2>2. \A st : Turns("visit", walk, S, Len(walk), a, st) <=> st = F(st)
    BY DEF Turns, Turn, VisitTurn
  <2>3. f = CHOOSE st : st = F(st)
    OBVIOUS
  <2> HIDE DEF f, F
  <2> QED  BY <2>1, <2>2, <2>3
<1>4. ListForEachMax(one, max, breaks) =
        <<IF f[Len(walk)].failed THEN -f[Len(walk)].n ELSE f[Len(walk)].n,
          l.count - f[Len(walk)].n>>
  BY DEF ListForEachMax, Loop
<1>5. Job(S, a, one, max, breaks)
  BY DEF Job
<1> HIDE DEF f, s, walk, S, a
<1>6. f[n].n = e /\ (f[n].failed <=> \E j \in 1 .. e : s[j] = x)
  <2>1. Bound(s, n, x, max, breaks, e)
    BY DEF s
  <2> QED  BY <1>1, <1>2, <1>3, <1>5, <2>1, WalkVisits
<1> QED  BY <1>2, <1>4, <1>6 DEF s

\* list_shallow_copy makes a list of the same items.
LEMMA ShallowCopyIs ==
    ASSUME NEW n \in Nat, NEW c, l \in State, Nodes(l, n, c),
           \A j, k \in 1 .. n : Content(l, n, c)[j] = Content(l, n, c)[k] => j = k
    PROVE  Items(ListShallowCopy) = Content(l, n, c)
<1> DEFINE s == Content(l, n, c)
           walk == Along(n, c)
           at == [i \in Iterator |-> 0]
           hold == [i \in Iterator |-> FALSE]
<1>1. Walk(l) = walk /\ Items(l) = s /\ s \in [1 .. n -> Item]
  BY WalkIs, ItemsIs
<1>2. walk \in [1 .. n -> Node] /\ \A j, k \in 1 .. n : walk[j] = walk[k] => j = k
  <2>1. /\ \A j \in 1 .. n : c[j] \in Node
        /\ \A j, k \in 0 .. n + 1 : c[j] = c[k] => j = k
    BY Places
  <2> QED  BY <2>1 DEF Along
<1>3. Chain(Empty, 0, EmptyChain, at, hold)
  BY EmptyIs
<1>4. ListShallowCopy = Appended(Empty, walk, s)
  BY <1>1 DEF ListShallowCopy
<1> HIDE DEF s, walk, at, hold
<1>5. PICK d, to, h : Filled(ListShallowCopy, n, d, to, h, Empty.iters, walk, s)
  BY <1>1, <1>2, <1>3, <1>4, AppendedIs
<1>6. /\ Chain(ListShallowCopy, n, d, to, h)
      /\ \A j \in 1 .. n : Content(ListShallowCopy, n, d)[j] = s[j]
  BY <1>5 DEF Filled
<1>7. Items(ListShallowCopy) = Content(ListShallowCopy, n, d)
      /\ Content(ListShallowCopy, n, d) \in [1 .. n -> Item]
  BY <1>6, Opened
<1> DEFINE t == Content(ListShallowCopy, n, d)
<1>8. t \in [1 .. n -> Item] /\ \A j \in 1 .. n : t[j] = s[j]
  BY <1>6, <1>7
<1> HIDE DEF t
<1>9. t = s
  BY <1>1, <1>8
<1> QED  BY <1>7, <1>9 DEF t, s

\* list_find_first finds the item if it is in the list.
LEMMA FindFirstIs ==
    ASSUME NEW n \in Nat, NEW c, NEW x, NEW one, one = {x}, l \in State, Nodes(l, n, c)
    PROVE  ListFindFirst(one) =
             IF \E k \in 1 .. n : Content(l, n, c)[k] = x THEN x ELSE NULL
<1> DEFINE s == Content(l, n, c)
           walk == Walk(l)
           found == {k \in DOMAIN walk : l.data[walk[k]] \in one}
<1>1. DOMAIN walk = 1 .. n /\ \A j \in 1 .. n : s[j] = l.data[walk[j]]
  <2>1. Walk(l) = Along(n, c)
    BY WalkIs
  <2> QED  BY <2>1 DEF Along, Content
<1>2. ListFindFirst(one) = IF found = {} THEN NULL ELSE l.data[walk[Min(found)]]
  BY DEF ListFindFirst
<1> HIDE DEF s, walk
<1>3. found \in SUBSET Nat /\ (found # {} <=> \E k \in 1 .. n : s[k] = x)
      /\ \A k \in found : l.data[walk[k]] = x
  BY <1>1
<1> HIDE DEF found
<1>4. found # {} => Min(found) \in found
  BY <1>3, LeastIs
<1> QED  BY <1>2, <1>3, <1>4 DEF s

\* The invariant implies that the reads see the sequence of the items.
LEMMA ReadsAgreeHolds ==
    ASSUME ListInv
    PROVE  ReadsAgree
<1>1. PICK n, c, at, hold : Holds(l, n, c, at, hold, due, passed, last)
  BY DEF ListInv
<1> DEFINE s == Content(l, n, c)
<1>2. Chain(l, n, c, at, hold) /\ Hist(s, n, l.iters, at, hold, due, passed, last)
  BY <1>1 DEF Holds
<1>3. /\ l \in State /\ n \in Nat /\ Nodes(l, n, c) /\ Items(l) = s /\ s \in [1 .. n -> Item]
      /\ ToSet(Items(l)) = InList(s, n)
  BY <1>2, Opened
<1>4. \A j, k \in 1 .. n : s[j] = s[k] => j = k
  BY <1>2 DEF Hist
<1>5. Len(s) = n /\ DOMAIN s = 1 .. n /\ (s = <<>> <=> n = 0)
  BY <1>3
<1>6. ListPeek = IF s = <<>> THEN NULL ELSE Head(s)
  <2>1. l.next[HEAD] = c[1] /\ c[n + 1] = NULL
    <3>1. c[0] = HEAD /\ \A j \in 0 .. n : l.next[c[j]] = c[j + 1]
      BY <1>3 DEF Nodes
    <3>2. 0 \in 0 .. n /\ 0 + 1 = 1
      BY <1>3
    <3>3. l.next[HEAD] = c[1]
      BY <3>1, <3>2
    <3> QED  BY <1>3, <3>3 DEF Nodes
  <2>2. n # 0 => 1 \in 1 .. n /\ c[1] # NULL
    BY <1>3, Places
  <2>3. n # 0 => Head(s) = l.data[c[1]]
    BY <1>3, <1>5 DEF Content
  <2> HIDE DEF s
  <2> QED  BY <1>3, <1>5, <2>1, <2>2, <2>3 DEF ListPeek
<1>7. Items(ListShallowCopy) = s
  BY <1>3, <1>4, ShallowCopyIs
<1>8. ASSUME NEW x \in Item
      PROVE  ListFindFirst({x}) = IF x \in ToSet(Items(l)) THEN x ELSE NULL
  <2> DEFINE one == {x}
  <2>1. one = {x}
    OBVIOUS
  <2> HIDE DEF one, s
  <2>2. ListFindFirst(one) = IF \E k \in 1 .. n : s[k] = x THEN x ELSE NULL
    BY <1>3, <2>1, FindFirstIs DEF s
  <2>3. x \in ToSet(Items(l)) <=> \E k \in 1 .. n : s[k] = x
    BY <1>3 DEF InList
  <2> QED  BY <2>2, <2>3 DEF one
<1>9. ASSUME NEW x \in Item, NEW max \in {-1, 1, 2}, NEW breaks \in BOOLEAN
      PROVE  LET m == Min({Len(Items(l))} \cup (IF max = -1 THEN {} ELSE {max})
                            \cup {k \in DOMAIN Items(l) : breaks /\ Items(l)[k] = x})
             IN ListForEachMax({x}, max, breaks) =
                  <<IF \E k \in 1 .. m : Items(l)[k] = x THEN -m ELSE m, Len(Items(l)) - m>>
  <2> DEFINE m == Min({Len(Items(l))} \cup (IF max = -1 THEN {} ELSE {max})
                        \cup {k \in DOMAIN Items(l) : breaks /\ Items(l)[k] = x})
             one == {x}
  <2>1. Len(Items(l)) = n /\ DOMAIN Items(l) = 1 .. n
    BY <1>3, <1>5
  <2>2. m = Min({n} \cup (IF max = -1 THEN {} ELSE {max})
                  \cup {k \in 1 .. n : breaks /\ Items(l)[k] = x})
    BY <2>1
  <2>3. Bound(Items(l), n, x, max, breaks, m)
    BY <1>3, <2>2, BoundIs
  <2>4. one = {x}
    OBVIOUS
  <2> HIDE DEF m, one, s
  <2>5. Bound(Content(l, n, c), n, x, max, breaks, m)
    BY <1>3, <2>3 DEF s
  <2>6. ListForEachMax(one, max, breaks) =
          <<IF \E k \in 1 .. m : Content(l, n, c)[k] = x THEN -m ELSE m, n - m>>
    BY <1>3, <2>4, <2>5, ForEachMaxIs
  <2>7. ListForEachMax(one, max, breaks) =
          <<IF \E k \in 1 .. m : Items(l)[k] = x THEN -m ELSE m, Len(Items(l)) - m>>
    BY <1>3, <2>1, <2>6 DEF s
  <2> QED  BY <2>7 DEF m, one
<1>10. /\ ListPeek = IF Items(l) = <<>> THEN NULL ELSE Head(Items(l))
       /\ Items(ListShallowCopy) = Items(l)
  <2> HIDE DEF s
  <2> QED  BY <1>3, <1>6, <1>7
<1> HIDE DEF s
<1> QED  BY <1>8, <1>9, <1>10 DEF ReadsAgree

\* The calls that read see the sequence of the items.
THEOREM AlwaysReadsAgree == Spec => []ReadsAgree
BY AlwaysListInv, ReadsAgreeHolds, PTL

-----------------------------------------------------------------------------
(* The refinement of ListSeq *)

\* InsertAt of the community modules, item by item.
LEMMA InsertAtIs ==
    ASSUME NEW n \in Nat, NEW k \in 0 .. n, NEW x \in Item, NEW s \in [1 .. n -> Item]
    PROVE  InsertAt(s, k + 1, x) = SeqInserted(s, n, k, x)
<1>1. s \in Seq(Item) /\ Len(s) = n
  OBVIOUS
<1> DEFINE a == SubSeq(s, 1, k)
           b == SubSeq(s, k + 1, n)
           m == a \o <<x>>
           t == m \o b
           u == SeqInserted(s, n, k, x)
<1>2. /\ a \in Seq(Item) /\ Len(a) = k /\ \A j \in 1 .. k : a[j] = s[j]
      /\ b \in Seq(Item) /\ Len(b) = n - k /\ \A j \in 1 .. n - k : b[j] = s[k + j]
  <2>1. a \in Seq(Item) /\ Len(a) = k /\ \A j \in 1 .. k : a[j] = s[j]
    BY <1>1
  <2>2. b \in Seq(Item) /\ Len(b) = n - k
    BY <1>1
  <2>3. \A j \in 1 .. n - k : b[j] = s[k + j]
    BY <1>1
  <2> QED  BY <2>1, <2>2, <2>3
<1>3. InsertAt(s, k + 1, x) = t
  BY <1>1 DEF InsertAt
<1>4. u \in [1 .. n + 1 -> Item]
      /\ \A j \in 1 .. n + 1 : u[j] = IF j <= k THEN s[j] ELSE IF j = k + 1 THEN x ELSE s[j - 1]
  BY DEF SeqInserted
<1>5. <<x>> \in Seq(Item) /\ Len(<<x>>) = 1 /\ <<x>>[1] = x
  OBVIOUS
<1> HIDE DEF a, b, u
<1>6. m \in Seq(Item) /\ Len(m) = k + 1
      /\ \A j \in 1 .. k + 1 : m[j] = IF j <= k THEN a[j] ELSE <<x>>[j - k]
  <2> DEFINE one == <<x>>
  <2>1. one \in Seq(Item) /\ Len(one) = 1 /\ m = a \o one
    BY <1>5
  <2> HIDE DEF m, one
  <2>2. /\ m \in Seq(Item) /\ Len(m) = Len(a) + Len(one)
        /\ \A j \in 1 .. Len(a) + Len(one) : m[j] = IF j <= Len(a) THEN a[j] ELSE one[j - Len(a)]
    BY <1>2, <2>1, ConcatProperties
  <2>3. m \in Seq(Item) /\ Len(m) = k + 1
        /\ \A j \in 1 .. k + 1 : m[j] = IF j <= k THEN a[j] ELSE one[j - k]
    BY <1>2, <2>1, <2>2
  <2> QED  BY <2>3 DEF one
<1> HIDE DEF m
<1>7. t \in Seq(Item) /\ Len(t) = (k + 1) + (n - k)
      /\ \A j \in 1 .. (k + 1) + (n - k) : t[j] = IF j <= k + 1 THEN m[j] ELSE b[j - (k + 1)]
  <2>1. t = m \o b /\ m \in Seq(Item) /\ b \in Seq(Item)
    BY <1>2, <1>6
  <2> HIDE DEF t
  <2>2. /\ t \in Seq(Item) /\ Len(t) = Len(m) + Len(b)
        /\ \A j \in 1 .. Len(m) + Len(b) : t[j] = IF j <= Len(m) THEN m[j] ELSE b[j - Len(m)]
    BY <2>1, ConcatProperties
  <2>3. Len(m) = k + 1 /\ Len(b) = n - k
    BY <1>2, <1>6
  <2> QED  BY <2>2, <2>3
<1> HIDE DEF t
<1>8. (k + 1) + (n - k) = n + 1
  OBVIOUS
<1>9. ASSUME NEW j \in 1 .. n + 1  PROVE t[j] = u[j]
  <2>1. CASE j <= k
    <3>1. j \in 1 .. k /\ j \in 1 .. k + 1 /\ j \in 1 .. (k + 1) + (n - k) /\ j <= k + 1
      BY <1>8, <2>1
    <3>2. t[j] = m[j] /\ m[j] = a[j] /\ a[j] = s[j]
      BY <1>2, <1>6, <1>7, <2>1, <3>1
    <3> QED  BY <1>4, <2>1, <3>2
  <2>2. CASE j = k + 1
    <3>1. j \in 1 .. k + 1 /\ ~(j <= k) /\ j - k = 1 /\ j <= k + 1
      BY <2>2
    <3>2. m[j] = x
      BY <1>5, <1>6, <3>1
    <3> QED  BY <1>4, <1>7, <1>8, <2>2, <3>1, <3>2
  <2>3. CASE j > k + 1
    <3>1. j - (k + 1) \in 1 .. n - k /\ k + (j - (k + 1)) = j - 1
      BY <2>3
    <3>2. b[j - (k + 1)] = s[j - 1]
      BY <1>2, <3>1
    <3>3. ~(j <= k + 1) /\ ~(j <= k) /\ j # k + 1
      BY <2>3
    <3>4. t[j] = b[j - (k + 1)]
      BY <1>7, <1>8, <3>3
    <3> QED  BY <1>4, <3>2, <3>3, <3>4
  <2> QED  BY <2>1, <2>2, <2>3
<1>10. t \in [1 .. n + 1 -> Item]
  BY <1>7, <1>8
<1>11. t = u
  BY <1>4, <1>9, <1>10
<1> QED  BY <1>3, <1>11 DEF u

\* RemoveAt of the community modules, item by item.
LEMMA RemoveAtIs ==
    ASSUME NEW n \in Nat, NEW k \in 0 .. n - 1, NEW s \in [1 .. n -> Item]
    PROVE  RemoveAt(s, k + 1) = SeqRemoved(s, n, k)
<1>1. s \in Seq(Item) /\ Len(s) = n
  OBVIOUS
<1> DEFINE a == SubSeq(s, 1, k)
           b == SubSeq(s, k + 2, n)
           t == a \o b
           u == SeqRemoved(s, n, k)
<1>2. /\ a \in Seq(Item) /\ Len(a) = k /\ \A j \in 1 .. k : a[j] = s[j]
      /\ b \in Seq(Item) /\ Len(b) = n - (k + 1) /\ \A j \in 1 .. n - (k + 1) : b[j] = s[(k + 1) + j]
  <2>1. a \in Seq(Item) /\ Len(a) = k /\ \A j \in 1 .. k : a[j] = s[j]
    BY <1>1
  <2>2. b \in Seq(Item) /\ Len(b) = n - (k + 1)
    BY <1>1
  <2>3. \A j \in 1 .. n - (k + 1) : b[j] = s[(k + 1) + j]
    BY <1>1
  <2> QED  BY <2>1, <2>2, <2>3
<1>3. RemoveAt(s, k + 1) = t
  BY <1>1 DEF RemoveAt
<1>4. u \in [1 .. n - 1 -> Item]
      /\ \A j \in 1 .. n - 1 : u[j] = IF j <= k THEN s[j] ELSE s[j + 1]
  BY DEF SeqRemoved
<1> HIDE DEF a, b, u
<1>5. t \in Seq(Item) /\ Len(t) = k + (n - (k + 1))
      /\ \A j \in 1 .. k + (n - (k + 1)) : t[j] = IF j <= k THEN a[j] ELSE b[j - k]
  <2>1. t = a \o b /\ a \in Seq(Item) /\ b \in Seq(Item)
    BY <1>2
  <2> HIDE DEF t
  <2>2. /\ t \in Seq(Item) /\ Len(t) = Len(a) + Len(b)
        /\ \A j \in 1 .. Len(a) + Len(b) : t[j] = IF j <= Len(a) THEN a[j] ELSE b[j - Len(a)]
    BY <2>1, ConcatProperties
  <2>3. Len(a) = k /\ Len(b) = n - (k + 1)
    BY <1>2
  <2> QED  BY <2>2, <2>3
<1> HIDE DEF t
<1>6. k + (n - (k + 1)) = n - 1
  OBVIOUS
<1>7. ASSUME NEW j \in 1 .. n - 1  PROVE t[j] = u[j]
  <2>1. CASE j <= k
    BY <1>2, <1>4, <1>5, <1>6, <2>1
  <2>2. CASE j > k
    <3>1. j - k \in 1 .. n - (k + 1) /\ (k + 1) + (j - k) = j + 1
      BY <2>2
    <3>2. b[j - k] = s[j + 1]
      BY <1>2, <3>1
    <3> QED  BY <1>4, <1>5, <1>6, <2>2, <3>2
  <2> QED  BY <2>1, <2>2
<1>8. t \in [1 .. n - 1 -> Item]
  BY <1>5, <1>6
<1>9. t = u
  BY <1>4, <1>7, <1>8
<1> QED  BY <1>3, <1>9 DEF u

\* The sequence, and where the iterators in I are in it.
Gone(I, at) == [i \in Iterator |-> IF i \in I THEN at[i] ELSE 0]
Held(I, hold) == [i \in Iterator |-> i \in I /\ hold[i]]

CursorOf(w) ==
    LET walk == Walk(w)
    IN [i \in Iterator |->
          IF i \notin w.iters THEN 0
          ELSE IF w.pos[i] = NULL THEN Len(walk)
          ELSE (CHOOSE k \in DOMAIN walk : walk[k] = w.pos[i]) - 1]
HoldsOf(w) == [i \in Iterator |-> i \in w.iters /\ At(w, w.prev[i]) # w.pos[i]]

\* The places of the iterators in the sequence are those in the chain.
LEMMA PlacesIs ==
    ASSUME NEW w, NEW n, NEW c, NEW at, NEW hold, Chain(w, n, c, at, hold)
    PROVE  CursorOf(w) = Gone(w.iters, at) /\ HoldsOf(w) = Held(w.iters, hold)
<1>1. /\ w \in State /\ n \in Nat /\ Nodes(w, n, c) /\ Iters(w, n, c, at, hold)
      /\ Cursors(n, w.iters, at, hold)
  BY Opened
<1>2. Walk(w) = Along(n, c)
  BY <1>1, WalkIs
<1>3. /\ DOMAIN Along(n, c) = 1 .. n /\ Len(Along(n, c)) = n
      /\ \A j \in 1 .. n : Along(n, c)[j] = c[j]
  BY <1>1 DEF Along
<1>4. /\ \A j, m \in 0 .. n + 1 : c[j] = c[m] => j = m
      /\ \A j \in 0 .. n : c[j] # NULL
      /\ c[n + 1] = NULL
      /\ \A j \in 0 .. n : w.next[c[j]] = c[j + 1]
  <2>1. /\ \A j, m \in 0 .. n + 1 : c[j] = c[m] => j = m
        /\ \A j \in 0 .. n : c[j] \in Place /\ c[j] # NULL
    BY <1>1, Places
  <2> QED  BY <1>1, <2>1 DEF Nodes
<1>5. ASSUME NEW i \in w.iters
      PROVE  /\ i \in Iterator /\ at[i] \in 0 .. n /\ hold[i] \in BOOLEAN
             /\ (hold[i] => at[i] > 0)
             /\ w.pos[i] = c[at[i] + 1] /\ w.prev[i] = c[Rest(at, hold, i)]
  BY <1>1 DEF Iters, Cursors
<1> HIDE DEF Along
<1>6. ASSUME NEW i \in w.iters
      PROVE  at[i] = IF w.pos[i] = NULL THEN Len(Walk(w))
                     ELSE (CHOOSE k \in DOMAIN Walk(w) : Walk(w)[k] = w.pos[i]) - 1
  <2>1. at[i] \in 0 .. n /\ w.pos[i] = c[at[i] + 1]
    BY <1>5
  <2>2. CASE at[i] = n
    BY <1>2, <1>3, <1>4, <2>1, <2>2
  <2>3. CASE at[i] < n
    <3> DEFINE a == at[i] + 1
    <3>1. a \in 1 .. n /\ a \in 0 .. n /\ w.pos[i] = c[a]
      BY <1>1, <2>1, <2>3
    <3>2. w.pos[i] # NULL
      BY <1>4, <3>1
    <3>3. \A k \in 1 .. n : Walk(w)[k] = w.pos[i] <=> k = a
      <4> HIDE DEF a
      <4>1. \A k \in 1 .. n : k \in 0 .. n + 1 /\ a \in 0 .. n + 1
        BY <1>1, <3>1
      <4> QED  BY <1>2, <1>3, <1>4, <3>1, <4>1
    <3> DEFINE g == CHOOSE k \in 1 .. n : Walk(w)[k] = w.pos[i]
    <3>4. g = a
      <4>1. \E k \in 1 .. n : Walk(w)[k] = w.pos[i]
        BY <3>1, <3>3
      <4>2. g \in 1 .. n /\ Walk(w)[g] = w.pos[i]
        BY <4>1
      <4> HIDE DEF g, a
      <4> QED  BY <3>3, <4>2
    <3>5. (CHOOSE k \in DOMAIN Walk(w) : Walk(w)[k] = w.pos[i]) = g
      BY <1>2, <1>3
    <3> HIDE DEF g
    <3>6. g - 1 = at[i]
      BY <2>1, <3>4
    <3> QED  BY <3>2, <3>5, <3>6
  <2>4. at[i] = n \/ at[i] < n
    BY <1>1, <2>1
  <2> QED  BY <2>2, <2>3, <2>4
<1>7. CursorOf(w) = Gone(w.iters, at)
  BY <1>6 DEF CursorOf, Gone
<1>8. ASSUME NEW i \in w.iters
      PROVE  At(w, w.prev[i]) # w.pos[i] <=> hold[i]
  <2>1. Rest(at, hold, i) \in 0 .. n /\ (Rest(at, hold, i) = at[i] <=> ~hold[i])
    BY <1>1, <1>5 DEF Rest
  <2>2. At(w, w.prev[i]) = c[Rest(at, hold, i) + 1]
    BY <1>4, <1>5, <2>1 DEF At
  <2>3. Rest(at, hold, i) + 1 \in 0 .. n + 1 /\ at[i] + 1 \in 0 .. n + 1
    BY <1>1, <1>5, <2>1
  <2>4. c[Rest(at, hold, i) + 1] = c[at[i] + 1] <=> Rest(at, hold, i) = at[i]
    BY <1>4, <1>5, <2>1, <2>3
  <2> QED  BY <1>5, <2>1, <2>2, <2>4
<1>9. HoldsOf(w) = Held(w.iters, hold)
  BY <1>8 DEF HoldsOf, Held
<1> QED  BY <1>7, <1>9

\* The sequence that a list implements ...
LEMMA SeenNow ==
    ASSUME NEW n, NEW c, NEW at, NEW hold, Chain(l, n, c, at, hold)
    PROVE  /\ Items(l) = Content(l, n, c) /\ Content(l, n, c) \in [1 .. n -> Item]
           /\ cursor = Gone(l.iters, at) /\ holds = Held(l.iters, hold)
<1>1. cursor = CursorOf(l) /\ holds = HoldsOf(l)
  BY DEF cursor, holds, CursorOf, HoldsOf
<1> QED  BY <1>1, Opened, PlacesIs

\* ... and the one it implements after a call.
LEMMA SeenNext ==
    ASSUME NEW n, NEW c, NEW at, NEW hold, Chain(l', n, c, at, hold)
    PROVE  /\ Items(l') = Content(l', n, c) /\ Content(l', n, c) \in [1 .. n -> Item]
           /\ cursor' = Gone(l'.iters, at) /\ holds' = Held(l'.iters, hold)
<1>1. cursor' = CursorOf(l') /\ holds' = HoldsOf(l')
  BY DEF cursor, holds, CursorOf, HoldsOf
<1> QED  BY <1>1, Opened, PlacesIs

\* To put a node behind place k of the chain is to insert item k + 1.
LEMMA SeqAdd ==
    ASSUME NEW n \in Nat, NEW k \in 0 .. n, NEW p \in Node, NEW x \in Item,
           NEW c, NEW at, NEW hold,
           Chain(l, n, c, at, hold), p \notin l.heap, New(x), l' = NodeCreate(l, c[k], p, x)
    PROVE  Sequence!InsertItem(k, x)
<1> DEFINE s == Content(l, n, c)
           d == Inserted(n, c, k, p)
           to == Moved(l, at, hold, k)
<1>1. /\ l \in State /\ Nodes(l, n, c) /\ Cursors(n, l.iters, at, hold)
      /\ Items(l) = s /\ s \in [1 .. n -> Item]
  BY Opened
<1>2. Chain(l', n + 1, d, to, hold)
  BY CreateChain
<1>3. Content(l', n + 1, d) = SeqInserted(s, n, k, x)
  BY <1>1, CreateContent
<1>4. l'.iters = l.iters
  <2>1. c[k] \in Place
    BY <1>1, Places
  <2>2. Created(l', l, c[k], p, x)
    BY <1>1, <2>1, CreateFields
  <2> QED  BY <2>2 DEF Created
<1>5. n < Cardinality(Node)
  <2>1. n + 1 <= Cardinality(Node) /\ Cardinality(Node) \in Nat
    <3>1. l' \in State /\ Nodes(l', n + 1, d) /\ n + 1 \in Nat
      BY <1>2, Opened
    <3> HIDE DEF d
    <3> QED  BY <3>1, Short
  <2> QED  BY <2>1
<1>6. \A i \in Iterator : to[i] = IF i \in l.iters /\ k <= Rest(at, hold, i)
                                 THEN at[i] + 1 ELSE at[i]
  BY DEF Moved
<1>7. cursor = Gone(l.iters, at) /\ holds = Held(l.iters, hold)
  BY SeenNow
<1> HIDE DEF to, d, s
<1>8. cursor' = Gone(l.iters, to) /\ holds' = Held(l.iters, hold) /\ Items(l') = SeqInserted(s, n, k, x)
  BY <1>2, <1>3, <1>4, SeenNext
<1>9. Items(l') = InsertAt(Items(l), k + 1, x)
  BY <1>1, <1>8, InsertAtIs
<1>10. Len(Items(l)) = n
  BY <1>1
<1>11. ASSUME NEW i \in Iterator
       PROVE  Gone(l.iters, to)[i]
                = IF i \in l.iters /\ k < cursor[i] + (IF holds[i] THEN 0 ELSE 1)
                  THEN cursor[i] + 1 ELSE cursor[i]
  <2>1. CASE i \in l.iters
    <3>1. cursor[i] = at[i] /\ holds[i] = hold[i] /\ Gone(l.iters, to)[i] = to[i]
          /\ at[i] \in Nat /\ hold[i] \in BOOLEAN /\ (hold[i] => at[i] > 0)
      BY <1>1, <1>7, <2>1 DEF Gone, Held, Cursors
    <3>2. k <= Rest(at, hold, i) <=> k < at[i] + (IF hold[i] THEN 0 ELSE 1)
      BY <3>1 DEF Rest
    <3> QED  BY <1>6, <2>1, <3>1, <3>2
  <2>2. CASE i \notin l.iters
    BY <1>7, <2>2 DEF Gone
  <2> QED  BY <2>1, <2>2
<1>12. cursor' = [i \in Iterator |-> Sequence!Pushed(i, k)]
  <2>1. Gone(l.iters, to) = [i \in Iterator |-> Gone(l.iters, to)[i]]
    BY DEF Gone
  <2> QED  BY <1>8, <1>11, <2>1 DEF Sequence!Pushed
<1>13. x \notin ToSet(Items(l))
  BY DEF New, ItemSet
<1> QED  BY <1>4, <1>5, <1>7, <1>8, <1>9, <1>10, <1>12, <1>13
          DEF Sequence!InsertItem, Sequence!InsertAt, InsertAt, Sequence!ToSet, ToSet

\* ... and to take out node k + 1 is to delete item k + 1.
LEMMA SeqTake ==
    ASSUME NEW n \in Nat, NEW k \in Nat, NEW c, NEW at, NEW hold,
           k < n, Chain(l, n, c, at, hold), l' = NodeDestroy(l, c[k])
    PROVE  Sequence!DeleteItem(k)
<1> DEFINE s == Content(l, n, c)
           d == Removed(n, c, k)
           to == Pulled(l, at, k)
           h == Kept(at, hold, k)
<1>1. /\ l \in State /\ Nodes(l, n, c) /\ Cursors(n, l.iters, at, hold)
      /\ Items(l) = s /\ s \in [1 .. n -> Item]
  BY Opened
<1>2. Chain(l', n - 1, d, to, h)
  BY DestroyChain
<1>3. Content(l', n - 1, d) = SeqRemoved(s, n, k)
  BY <1>1, DestroyContent
<1>4. l'.iters = l.iters
  <2>1. k \in 0 .. n /\ k + 1 \in 1 .. n
    OBVIOUS
  <2>2. c[k] \in Place /\ c[k + 1] \in Node
    BY <1>1, <2>1, Places
  <2>3. l.next[c[k]] = c[k + 1] /\ l.count > 0
    BY <1>1, <2>1 DEF Nodes
  <2>4. Destroyed(l', l, c[k], c[k + 1])
    BY <1>1, <2>2, <2>3, DestroyFields
  <2> QED  BY <2>4 DEF Destroyed
<1>5. /\ \A i \in Iterator : to[i] = IF i \in l.iters /\ k < at[i] THEN at[i] - 1 ELSE at[i]
      /\ \A i \in Iterator : h[i] <=> hold[i] /\ at[i] # k /\ at[i] # k + 1
  BY DEF Pulled, Kept
<1>6. cursor = Gone(l.iters, at) /\ holds = Held(l.iters, hold)
  BY SeenNow
<1> HIDE DEF to, d, s, h
<1>7. cursor' = Gone(l.iters, to) /\ holds' = Held(l.iters, h) /\ Items(l') = SeqRemoved(s, n, k)
  BY <1>2, <1>3, <1>4, SeenNext
<1>8. Items(l') = RemoveAt(Items(l), k + 1)
  <2>1. k \in 0 .. n - 1
    OBVIOUS
  <2> QED  BY <1>1, <1>7, <2>1, RemoveAtIs
<1>9. ASSUME NEW i \in Iterator
      PROVE  /\ Gone(l.iters, to)[i] = IF cursor[i] > k THEN cursor[i] - 1 ELSE cursor[i]
             /\ Held(l.iters, h)[i] <=> holds[i] /\ cursor[i] \notin {k, k + 1}
  <2>1. CASE i \in l.iters
    <3>1. cursor[i] = at[i] /\ (holds[i] <=> hold[i]) /\ Gone(l.iters, to)[i] = to[i]
          /\ (Held(l.iters, h)[i] <=> h[i]) /\ at[i] \in Nat
      BY <1>1, <1>6, <2>1 DEF Gone, Held, Cursors
    <3>2. to[i] = IF at[i] > k THEN at[i] - 1 ELSE at[i]
      BY <1>5, <2>1, <3>1
    <3> QED  BY <1>5, <3>1, <3>2
  <2>2. CASE i \notin l.iters
    <3>1. cursor[i] = 0 /\ ~holds[i] /\ Gone(l.iters, to)[i] = 0 /\ ~Held(l.iters, h)[i]
      BY <1>6, <2>2 DEF Gone, Held
    <3> QED  BY <3>1
  <2> QED  BY <2>1, <2>2
<1>10. cursor' = [i \in Iterator |-> Sequence!Pulled(i, k)]
  <2>1. Gone(l.iters, to) = [i \in Iterator |-> Gone(l.iters, to)[i]]
    BY DEF Gone
  <2> QED  BY <1>7, <1>9, <2>1 DEF Sequence!Pulled
<1>11. holds' = [i \in Iterator |-> holds[i] /\ cursor[i] \notin {k, k + 1}]
  <2>1. Held(l.iters, h) = [i \in Iterator |-> i \in l.iters /\ h[i]]
    BY DEF Held
  <2>2. \A i \in Iterator : (i \in l.iters /\ h[i]) <=> (holds[i] /\ cursor[i] \notin {k, k + 1})
    BY <1>9, <2>1
  <2>3. [i \in Iterator |-> i \in l.iters /\ h[i]]
          = [i \in Iterator |-> holds[i] /\ cursor[i] \notin {k, k + 1}]
    BY <2>2
  <2> QED  BY <1>7, <2>1, <2>3
<1> QED  BY <1>4, <1>8, <1>10, <1>11 DEF Sequence!DeleteItem, Sequence!RemoveAt, RemoveAt

\* Cardinality is the same in the module of the sequence ...
LEMMA SeqCounts ==
    ASSUME NEW S
    PROVE  Sequence!Cardinality(S) = Cardinality(S)
BY DEF Sequence!Cardinality, Cardinality

\* ... and so are the orders of a set.
LEMMA SeqOrders ==
    ASSUME NEW s, NEW t, t \in SetToSeqs(ToSet(s))
    PROVE  t \in Sequence!SetToSeqs(Sequence!ToSet(s))
<1>1. Sequence!ToSet(s) = ToSet(s)
  BY DEF Sequence!ToSet, ToSet
<1>2. Sequence!Cardinality(ToSet(s)) = Cardinality(ToSet(s))
  BY SeqCounts
<1> QED  BY <1>1, <1>2 DEF Sequence!SetToSeqs, SetToSeqs

\* A call that leaves the list alone leaves the sequence alone.
LEMMA SeqSame ==
    ASSUME l' = l
    PROVE  Items(l') = Items(l) /\ l'.iters = l.iters /\ cursor' = cursor /\ holds' = holds
BY DEF cursor, holds

\* list_append and list_prepend implement Put.
LEMMA SeqPut ==
    ASSUME NEW n, NEW c, NEW at, NEW hold, Chain(l, n, c, at, hold), NEW x \in Item,
           ListAppend(x) \/ ListPrepend(x)
    PROVE  Sequence!Put(x)
<1>1. /\ n \in Nat /\ Items(l) = Content(l, n, c) /\ Content(l, n, c) \in [1 .. n -> Item]
  BY Opened
<1>2. CASE ListAppend(x)
  <2>1. PICK p \in Node \ l.heap : Track("list_append", NULL, x, NodeCreate(l, c[n], p, x))
    BY <1>2, AppendIs
  <2>2. New(x) /\ n \in 0 .. n /\ l' = NodeCreate(l, c[n], p, x)
        /\ call' = Call("list_append", NULL, x)
    BY <1>1, <1>2, <2>1 DEF ListAppend, Track
  <2>3. Sequence!InsertItem(n, x)
    BY <1>1, <2>1, <2>2, SeqAdd
  <2>4. Len(Items(l)) = n
    BY <1>1
  <2>5. Sequence!AppendItem(x)
    BY <2>3, <2>4 DEF Sequence!AppendItem
  <2> QED  BY <2>2, <2>5 DEF Sequence!Put, Sequence!Call, Call
<1>3. CASE ListPrepend(x)
  <2>1. PICK p \in Node \ l.heap : Track("list_prepend", NULL, x, NodeCreate(l, c[0], p, x))
    BY <1>3, PrependIs
  <2>2. New(x) /\ 0 \in 0 .. n /\ l' = NodeCreate(l, c[0], p, x)
        /\ call' = Call("list_prepend", NULL, x)
    BY <1>1, <1>3, <2>1 DEF ListPrepend, Track
  <2>3. Sequence!PrependItem(x)
    BY <1>1, <2>1, <2>2, SeqAdd DEF Sequence!PrependItem
  <2> QED  BY <2>2, <2>3 DEF Sequence!Put, Sequence!Call, Call
<1> QED  BY <1>2, <1>3

\* list_insert implements Insert.
LEMMA SeqInsert ==
    ASSUME NEW n, NEW c, NEW at, NEW hold, Chain(l, n, c, at, hold), NEW x \in Item,
           NEW i, ListInsert(i, x)
    PROVE  Sequence!Insert(i, x)
<1>1. n \in Nat
  BY Opened
<1>2. i \in l.iters /\ New(x)
  BY InsertIs
<1>3. PICK p \in Node \ l.heap :
         Track("list_insert", i, x, NodeCreate(l, c[Rest(at, hold, i)], p, x))
  BY InsertIs
<1>4. /\ i \in Iterator /\ Rest(at, hold, i) \in 0 .. n
      /\ (hold[i] => Rest(at, hold, i) = at[i] - 1) /\ (~hold[i] => Rest(at, hold, i) = at[i])
      /\ at[i] \in 0 .. n
  BY <1>2, IteratorIs
<1>5. l' = NodeCreate(l, c[Rest(at, hold, i)], p, x) /\ call' = Call("list_insert", i, x)
  BY <1>3 DEF Track
<1>6. Sequence!InsertItem(Rest(at, hold, i), x)
  BY <1>1, <1>2, <1>3, <1>4, <1>5, SeqAdd
<1>7. cursor[i] = at[i] /\ holds[i] = hold[i]
  BY <1>2, <1>4, SeenNow, Opened DEF Gone, Held, Cursors
<1>8. cursor[i] - (IF holds[i] THEN 1 ELSE 0) = Rest(at, hold, i)
  BY <1>4, <1>7
<1> QED  BY <1>2, <1>5, <1>6, <1>8 DEF Sequence!Insert, Sequence!Call, Call

\* list_pop implements Pop.
LEMMA SeqPop ==
    ASSUME NEW n, NEW c, NEW at, NEW hold, Chain(l, n, c, at, hold), ListPop
    PROVE  Sequence!Pop
<1>1. /\ n \in Nat /\ Items(l) = Content(l, n, c) /\ Content(l, n, c) \in [1 .. n -> Item]
  BY Opened
<1>2. CASE n = 0 /\ Track("list_pop", NULL, NULL, l)
  <2>1. Items(l) = <<>>
    BY <1>1, <1>2
  <2>2. l' = l /\ call' = Call("list_pop", NULL, NULL)
    BY <1>2 DEF Track
  <2> QED  BY <2>1, <2>2, SeqSame DEF Sequence!Pop, Sequence!Call, Call
<1>3. CASE n > 0 /\ Track("list_pop", NULL, Content(l, n, c)[1], NodeDestroy(l, c[0]))
  <2>1. Items(l) # <<>> /\ Head(Items(l)) = Content(l, n, c)[1] /\ 0 \in Nat /\ 0 < n
    BY <1>1, <1>3
  <2>2. l' = NodeDestroy(l, c[0]) /\ call' = Call("list_pop", NULL, Content(l, n, c)[1])
    BY <1>3 DEF Track
  <2>3. Sequence!DeleteItem(0)
    BY <1>1, <2>1, <2>2, SeqTake
  <2> QED  BY <2>1, <2>2, <2>3 DEF Sequence!Pop, Sequence!Call, Call
<1> QED  BY <1>2, <1>3, PopIs

\* list_remove_first implements RemoveMatch.
LEMMA SeqRemoveFirst ==
    ASSUME NEW n, NEW c, NEW at, NEW hold, Chain(l, n, c, at, hold), ListRemoveFirst
    PROVE  Sequence!RemoveMatch
<1>1. /\ n \in Nat /\ Items(l) = Content(l, n, c) /\ Content(l, n, c) \in [1 .. n -> Item]
  BY Opened
<1>2. PICK k \in 0 .. n - 1 :
         Track("list_remove_first", NULL, Content(l, n, c)[k + 1], NodeDestroy(l, c[k]))
  BY RemoveFirstIs
<1>3. k \in Nat /\ k < n /\ Len(Items(l)) = n
  BY <1>1
<1>4. l' = NodeDestroy(l, c[k]) /\ call' = Call("list_remove_first", NULL, Items(l)[k + 1])
  BY <1>1, <1>2 DEF Track
<1>5. Sequence!DeleteItem(k)
  BY <1>1, <1>3, <1>4, SeqTake
<1> QED  BY <1>1, <1>3, <1>4, <1>5 DEF Sequence!RemoveMatch, Sequence!Call, Call

\* list_remove implements RemoveHeld.
LEMMA SeqRemove ==
    ASSUME NEW n, NEW c, NEW at, NEW hold, Chain(l, n, c, at, hold), NEW i, ListRemove(i)
    PROVE  Sequence!IterNext(i)
<1>1. /\ n \in Nat /\ Items(l) = Content(l, n, c) /\ Cursors(n, l.iters, at, hold)
  BY Opened
<1>2. i \in l.iters
  BY RemoveIs
<1>3. i \in Iterator /\ at[i] \in 0 .. n /\ (hold[i] => at[i] > 0)
  BY <1>2, IteratorIs
<1>4. cursor[i] = at[i] /\ holds[i] = hold[i]
  BY <1>1, <1>2, <1>3, SeenNow DEF Gone, Held, Cursors
<1>5. CASE ~hold[i] /\ Track("list_remove", i, NULL, l)
  <2>1. l' = l /\ call' = Call("list_remove", i, NULL)
    BY <1>5 DEF Track
  <2>2. Sequence!RemoveHeld(i)
    BY <1>2, <1>4, <1>5, <2>1, SeqSame DEF Sequence!RemoveHeld
  <2> QED  BY <1>4, <1>5, <2>1, <2>2 DEF Sequence!IterNext, Sequence!Call, Call
<1>6. CASE hold[i] /\ Track("list_remove", i, Content(l, n, c)[at[i]], NodeDestroy(l, c[at[i] - 1]))
  <2>1. l' = NodeDestroy(l, c[at[i] - 1]) /\ call' = Call("list_remove", i, Items(l)[cursor[i]])
    BY <1>1, <1>4, <1>6 DEF Track
  <2>2. at[i] - 1 \in Nat /\ at[i] - 1 < n
    BY <1>1, <1>3, <1>6
  <2>3. Sequence!DeleteItem(at[i] - 1)
    BY <1>1, <2>1, <2>2, SeqTake
  <2>4. Sequence!RemoveHeld(i)
    BY <1>2, <1>4, <1>6, <2>3 DEF Sequence!RemoveHeld
  <2> QED  BY <1>4, <1>6, <2>1, <2>4 DEF Sequence!IterNext, Sequence!Call, Call
<1> QED  BY <1>5, <1>6, RemoveIs


\* To send the iterators in J back to the head is to rewind them.
LEMMA SeqRewind ==
    ASSUME NEW n, NEW c, NEW at, NEW hold, Chain(l, n, c, at, hold),
           NEW m, NEW d, NEW to, NEW h, Chain(l', m, d, to, h),
           NEW J, l'.iters \ J = l.iters \ J,
           \A j \in l'.iters : IF j \in J THEN to[j] = 0 /\ ~h[j]
                               ELSE to[j] = at[j] /\ h[j] = hold[j]
    PROVE  Sequence!Rewind(J)
<1>1. /\ cursor = Gone(l.iters, at) /\ holds = Held(l.iters, hold)
      /\ cursor' = Gone(l'.iters, to) /\ holds' = Held(l'.iters, h)
  BY SeenNow, SeenNext
<1>2. cursor' = [j \in Iterator |-> IF j \in J THEN 0 ELSE cursor[j]]
  BY <1>1 DEF Gone
<1>3. holds' = [j \in Iterator |-> j \notin J /\ holds[j]]
  BY <1>1 DEF Held
<1> QED  BY <1>2, <1>3 DEF Sequence!Rewind

\* list_iterator_create, _reset and _destroy implement Create, Reset and Close.
LEMMA SeqIterators ==
    ASSUME NEW n, NEW c, NEW at, NEW hold,
           Holds(l, n, c, at, hold, due, passed, last), NEW i \in Iterator,
           ListIteratorCreate(i) \/ ListIteratorReset(i) \/ ListIteratorDestroy(i)
    PROVE  Sequence!IterNext(i)
<1>1. /\ Chain(l, n, c, at, hold) /\ Items(l) = Content(l, n, c)
      /\ Cursors(n, l.iters, at, hold) /\ l.iters \subseteq Iterator
  BY Opened DEF Holds, Cursors
<1> DEFINE to == Zero(at, {i})
           h == Free(hold, {i})
<1>2. /\ \A j \in l.iters \cup {i} : IF j \in {i} THEN to[j] = 0 /\ ~h[j]
                                     ELSE to[j] = at[j] /\ h[j] = hold[j]
  BY <1>1 DEF Zero, Free, Cursors
<1> HIDE DEF to, h
<1>3. CASE ListIteratorCreate(i)
  <2>1. Holds(l', n, c, to, h, due', passed', last')
        /\ Content(l', n, c) = Content(l, n, c) /\ l'.iters = l.iters \cup {i}
    BY <1>3, CreateStep DEF to, h
  <2>2. Chain(l', n, c, to, h) /\ Items(l') = Items(l)
    BY <1>1, <2>1, Opened DEF Holds
  <2>3. l'.iters \ {i} = l.iters \ {i}
    BY <2>1
  <2>4. Sequence!Rewind({i})
    BY <1>1, <1>2, <2>1, <2>2, <2>3, SeqRewind
  <2>5. i \notin l.iters /\ call' = Call("list_iterator_create", i, NULL)
    BY <1>3 DEF ListIteratorCreate, Restart
  <2> QED  BY <2>1, <2>2, <2>4, <2>5 DEF Sequence!IterNext, Sequence!Create, Sequence!Call, Call
<1>4. CASE ListIteratorReset(i)
  <2>1. Holds(l', n, c, to, h, due', passed', last')
        /\ Content(l', n, c) = Content(l, n, c) /\ l'.iters = l.iters
    BY <1>4, ResetStep DEF to, h
  <2>2. Chain(l', n, c, to, h) /\ Items(l') = Items(l)
    BY <1>1, <2>1, Opened DEF Holds
  <2>3. Sequence!Rewind({i})
    BY <1>1, <1>2, <2>1, <2>2, SeqRewind
  <2>4. i \in l.iters /\ call' = Call("list_iterator_reset", i, NULL)
    BY <1>4 DEF ListIteratorReset, Restart
  <2> QED  BY <2>1, <2>2, <2>3, <2>4 DEF Sequence!IterNext, Sequence!Reset, Sequence!Call, Call
<1>5. CASE ListIteratorDestroy(i)
  <2>1. Holds(l', n, c, at, hold, due', passed', last')
        /\ Content(l', n, c) = Content(l, n, c) /\ l'.iters = l.iters \ {i}
    BY <1>5, CloseStep
  <2>2. Chain(l', n, c, at, hold) /\ Items(l') = Items(l)
    BY <1>1, <2>1, Opened DEF Holds
  <2>3. l'.iters \ {i} = l.iters \ {i} /\ \A j \in l'.iters : j \notin {i}
    BY <2>1
  <2>4. Sequence!Rewind({i})
    BY <1>1, <2>2, <2>3, SeqRewind
  <2>5. i \in l.iters /\ call' = Call("list_iterator_destroy", i, NULL)
    BY <1>5 DEF ListIteratorDestroy
  <2> QED  BY <2>1, <2>2, <2>4, <2>5 DEF Sequence!IterNext, Sequence!Close, Sequence!Call, Call
<1> QED  BY <1>3, <1>4, <1>5

\* list_destroy implements Destroy.
LEMMA SeqDestroy ==
    ASSUME NEW n, NEW c, NEW at, NEW hold,
           Holds(l, n, c, at, hold, due, passed, last), ListDestroy
    PROVE  Sequence!Destroy /\ call' = Call("list_destroy", NULL, NULL)
<1>1. Holds(l', 0, EmptyChain, at, hold, due', passed', last') /\ l'.iters = {}
  BY DestroyedStep
<1>2. Chain(l, n, c, at, hold) /\ Chain(l', 0, EmptyChain, at, hold)
  BY <1>1 DEF Holds
<1>3. l.iters \subseteq Iterator
  BY <1>2, Opened DEF State
<1>4. l'.iters \ Iterator = l.iters \ Iterator
  BY <1>1, <1>3
<1>5. Sequence!Rewind(Iterator)
  BY <1>1, <1>2, <1>4, SeqRewind
<1>6. Items(l') = <<>>
  <2>1. Items(l') \in [1 .. 0 -> Item]
    BY <1>2, Opened
  <2> QED  BY <2>1
<1>7. call' = Call("list_destroy", NULL, NULL)
  BY DEF ListDestroy, Restart
<1> QED  BY <1>1, <1>5, <1>6, <1>7 DEF Sequence!Destroy

\* list_next implements Advance.
LEMMA SeqFollow ==
    ASSUME NEW n, NEW c, NEW at, NEW hold,
           Holds(l, n, c, at, hold, due, passed, last), NEW i \in Iterator, ListNext(i)
    PROVE  Sequence!IterNext(i)
<1> DEFINE s == Content(l, n, c)
           to == Went(at, n, i)
           h == Took(hold, at, n, i)
<1>1. /\ Holds(l', n, c, to, h, due', passed', last')
      /\ Content(l', n, c) = s /\ l'.iters = l.iters /\ i \in l.iters
      /\ call' = Call("list_next", i, IF at[i] < n THEN s[at[i] + 1] ELSE NULL)
  BY NextStep
<1>2. Chain(l, n, c, at, hold) /\ Chain(l', n, c, to, h)
  BY <1>1 DEF Holds
<1>3. /\ n \in Nat /\ Items(l) = s /\ s \in [1 .. n -> Item] /\ Items(l') = Content(l', n, c)
      /\ Cursors(n, l.iters, at, hold)
  BY <1>2, Opened
<1>4. Items(l') = Items(l) /\ Len(Items(l)) = n
  BY <1>1, <1>3
<1>5. /\ cursor = Gone(l.iters, at) /\ holds = Held(l.iters, hold)
      /\ cursor' = Gone(l.iters, to) /\ holds' = Held(l.iters, h)
  BY <1>1, <1>2, SeenNow, SeenNext
<1>6. cursor[i] = at[i] /\ at[i] \in Nat
      /\ at \in [Iterator -> Nat] /\ hold \in [Iterator -> BOOLEAN]
  BY <1>1, <1>3, <1>5 DEF Gone, Cursors
<1> DEFINE more == cursor[i] < Len(Items(l))
<1>7. more <=> at[i] < n
  BY <1>4, <1>6
<1>8. /\ to = [at EXCEPT ![i] = IF at[i] < n THEN at[i] + 1 ELSE at[i]]
      /\ h = [hold EXCEPT ![i] = (at[i] < n)]
  BY DEF Went, Took
<1> HIDE DEF to, h, s, more
<1>9. cursor' = [cursor EXCEPT ![i] = IF more THEN @ + 1 ELSE @]
  <2>1. cursor' = [j \in Iterator |-> IF j \in l.iters THEN to[j] ELSE 0]
    BY <1>5 DEF Gone
  <2>2. [cursor EXCEPT ![i] = IF more THEN @ + 1 ELSE @]
          = [j \in Iterator |-> IF j = i THEN (IF more THEN cursor[i] + 1 ELSE cursor[i])
                                ELSE IF j \in l.iters THEN at[j] ELSE 0]
    BY <1>5 DEF Gone
  <2>3. \A j \in Iterator : (IF j \in l.iters THEN to[j] ELSE 0)
                              = IF j = i THEN (IF more THEN cursor[i] + 1 ELSE cursor[i])
                                ELSE IF j \in l.iters THEN at[j] ELSE 0
    BY <1>1, <1>6, <1>7, <1>8
  <2> QED  BY <2>1, <2>2, <2>3
<1>10. holds' = [holds EXCEPT ![i] = more]
  <2> DEFINE g == [holds EXCEPT ![i] = more]
  <2>1. /\ holds \in [Iterator -> BOOLEAN] /\ more \in BOOLEAN
        /\ \A j \in Iterator : holds[j] <=> j \in l.iters /\ hold[j]
    <3>1. holds = [j \in Iterator |-> j \in l.iters /\ hold[j]]
      BY <1>5 DEF Held
    <3>2. more \in BOOLEAN
      BY DEF more
    <3> QED  BY <3>1, <3>2
  <2>2. /\ g \in [Iterator -> BOOLEAN]
        /\ \A j \in Iterator : g[j] = IF j = i THEN more ELSE holds[j]
    BY <2>1
  <2>3. /\ holds' \in [Iterator -> BOOLEAN]
        /\ \A j \in Iterator : holds'[j] <=> j \in l.iters /\ h[j]
    BY <1>5 DEF Held
  <2> HIDE DEF g
  <2>4. ASSUME NEW j \in Iterator  PROVE holds'[j] <=> g[j]
    <3>1. CASE j = i
      <4>1. h[i] <=> more
        BY <1>6, <1>7, <1>8
      <4> QED  BY <1>1, <2>2, <2>3, <3>1, <4>1
    <3>2. CASE j # i
      <4>1. h[j] = hold[j]
        BY <1>6, <1>8, <3>2
      <4> QED  BY <2>1, <2>2, <2>3, <3>2, <4>1
    <3> QED  BY <3>1, <3>2
  <2>5. holds' = g
    BY <2>2, <2>3, <2>4
  <2> QED  BY <2>5 DEF g
<1>11. Sequence!Advance(i)
  BY <1>1, <1>4, <1>9, <1>10 DEF Sequence!Advance, more
<1>12. Sequence!Following(i) = IF at[i] < n THEN s[at[i] + 1] ELSE NULL
  BY <1>3, <1>6, <1>7 DEF Sequence!Following, more
<1> QED  BY <1>1, <1>11, <1>12 DEF Sequence!IterNext, Sequence!Call, Call


\* A sequence of the items of a list, each once, is one of their orders.
LEMMA OrderedIs ==
    ASSUME NEW n \in Nat, NEW s, NEW t, s \in [1 .. n -> Item], t \in [1 .. n -> Item],
           \A j, k \in 1 .. n : s[j] = s[k] => j = k,
           \A j, k \in 1 .. n : t[j] = t[k] => j = k,
           InList(t, n) = InList(s, n)
    PROVE  t \in SetToSeqs(InList(s, n))
<1> DEFINE in == InList(s, n)
<1>1. Cardinality(in) = n
  BY ItemsCounted
<1>2. t \in [1 .. n -> in]
  BY DEF InList
<1> HIDE DEF in
<1> QED  BY <1>1, <1>2 DEF SetToSeqs, in

\* list_sort implements Sort.
LEMMA SeqSort ==
    ASSUME NEW n, NEW c, NEW at, NEW hold,
           Holds(l, n, c, at, hold, due, passed, last), ListSort
    PROVE  Sequence!Sort /\ call' = Call("list_sort", NULL, NULL)
<1> DEFINE s == Content(l, n, c)
<1>1. Chain(l, n, c, at, hold) /\ Hist(s, n, l.iters, at, hold, due, passed, last)
  BY DEF Holds
<1>2. /\ n \in Nat /\ Items(l) = s /\ s \in [1 .. n -> Item] /\ ToSet(Items(l)) = InList(s, n)
      /\ \A j, k \in 1 .. n : s[j] = s[k] => j = k
  BY <1>1, Opened DEF Hist
<1>3. Len(Items(l)) = n
  BY <1>2
<1> HIDE DEF s
<1>4. CASE l' = l /\ call' = Call("list_sort", NULL, NULL) /\ n <= 1
  <2>1. s \in SetToSeqs(ToSet(Items(l)))
    BY <1>2, OrderedIs
  <2>2. /\ Items(l') = s /\ l'.iters = l.iters /\ cursor' = cursor /\ holds' = holds
    BY <1>2, <1>4, SeqSame
  <2>3. s \in Sequence!SetToSeqs(Sequence!ToSet(Items(l)))
    BY <2>1, SeqOrders
  <2>4. Len(Items(l)) <= 1
    BY <1>3, <1>4
  <2> QED  BY <1>4, <2>2, <2>3, <2>4 DEF Sequence!Sort
<1>5. ASSUME n > 1, NEW d, NEW to, NEW h,
             Holds(l', n, d, Zero(to, l.iters), Free(h, l.iters), due', passed', last'),
             InList(Content(l', n, d), n) = InList(s, n),
             l'.iters = l.iters, call' = Call("list_sort", NULL, NULL)
      PROVE  Sequence!Sort /\ call' = Call("list_sort", NULL, NULL)
  <2> DEFINE t == Content(l', n, d)
  <2>1. /\ Chain(l', n, d, Zero(to, l.iters), Free(h, l.iters))
        /\ \A j, k \in 1 .. n : t[j] = t[k] => j = k
    BY <1>5 DEF Holds, Hist
  <2>2. Items(l') = t /\ t \in [1 .. n -> Item]
    BY <2>1, Opened
  <2>3. l.iters \subseteq Iterator
    BY <1>1, Opened DEF State
  <2>4. \A j \in l'.iters : j \in l.iters /\ Zero(to, l.iters)[j] = 0 /\ ~Free(h, l.iters)[j]
    BY <1>5, <2>3 DEF Zero, Free
  <2>5. Sequence!Rewind(l.iters)
    BY <1>1, <1>5, <2>1, <2>4, SeqRewind
  <2> HIDE DEF t
  <2>6. t \in SetToSeqs(ToSet(Items(l)))
    <3>1. InList(t, n) = InList(s, n)
      BY <1>5 DEF t
    <3> QED  BY <1>2, <2>1, <2>2, <3>1, OrderedIs
  <2>7. ~(Len(Items(l)) <= 1)
    BY <1>2, <1>3, <1>5
  <2>8. t \in Sequence!SetToSeqs(Sequence!ToSet(Items(l)))
    BY <2>6, SeqOrders
  <2> QED  BY <1>5, <2>2, <2>5, <2>7, <2>8 DEF Sequence!Sort
<1>6. \/ l' = l /\ call' = Call("list_sort", NULL, NULL) /\ n <= 1
      \/ n > 1 /\ \E d, to, h :
            /\ Holds(l', n, d, Zero(to, l.iters), Free(h, l.iters), due', passed', last')
            /\ InList(Content(l', n, d), n) = InList(s, n)
            /\ l'.iters = l.iters /\ call' = Call("list_sort", NULL, NULL)
  BY SortStep DEF s
<1> QED  BY <1>4, <1>5, <1>6

\* Each of the items that remain has its place among them.
LEMMA LeftReaches ==
    ASSUME NEW n \in Nat, NEW s, NEW S
    PROVE  \A j \in 1 .. Left(s, S, n) : \E e \in 1 .. n : s[e] \notin S /\ Left(s, S, e) = j
<1> DEFINE R(k) == \A j \in 1 .. Left(s, S, k) :
                      \E e \in 1 .. k : s[e] \notin S /\ Left(s, S, e) = j
           T == {k \in Nat : R(k)}
<1>1. 0 \in T
  BY LeftIs
<1>2. ASSUME NEW k \in Nat, k \in T  PROVE k + 1 \in T
  <2>1. SUFFICES ASSUME NEW j \in 1 .. Left(s, S, k + 1)
                 PROVE  \E e \in 1 .. k + 1 : s[e] \notin S /\ Left(s, S, e) = j
    OBVIOUS
  <2>2. /\ Left(s, S, k) \in Nat
        /\ s[k + 1] \in S => Left(s, S, k + 1) = Left(s, S, k)
        /\ s[k + 1] \notin S => Left(s, S, k + 1) = Left(s, S, k) + 1
    BY LeftIs
  <2>3. CASE j \in 1 .. Left(s, S, k)
    <3>1. PICK e \in 1 .. k : s[e] \notin S /\ Left(s, S, e) = j
      BY <1>2, <2>3
    <3> QED  BY <3>1
  <2>4. CASE j \notin 1 .. Left(s, S, k)
    <3>1. s[k + 1] \notin S /\ Left(s, S, k + 1) = j
      BY <2>2, <2>4
    <3>2. k + 1 \in 1 .. k + 1
      OBVIOUS
    <3> QED  BY <3>1, <3>2
  <2> QED  BY <2>3, <2>4
<1> HIDE DEF T
<1>3. n \in T
  BY <1>1, <1>2, Induct
<1> QED  BY <1>3 DEF T

\* list_delete_all implements DeleteAll.
LEMMA SeqDeleteAll ==
    ASSUME NEW n, NEW c, NEW at, NEW hold,
           Holds(l, n, c, at, hold, due, passed, last), ListDeleteAll
    PROVE  Sequence!DeleteAll
<1> DEFINE s == Items(l)
<1>1. Chain(l, n, c, at, hold)
  BY DEF Holds
<1>2. /\ n \in Nat /\ s = Content(l, n, c) /\ s \in [1 .. n -> Item] /\ Cursors(n, l.iters, at, hold)
  BY <1>1, Opened
<1>3. Len(s) = n /\ DOMAIN s = 1 .. n
  BY <1>2
<1>4. PICK S \in SUBSET Item : \E d, to, h : Deleted(n, c, at, hold, S, d, to, h)
  BY DeleteAllStep
<1>5. PICK d, to, h : Deleted(n, c, at, hold, S, d, to, h)
  BY <1>4
<1> DEFINE m == Left(s, S, n)
           t == Content(l', m, d)
<1>6. /\ Chain(l', m, d, to, h)
      /\ Remaining(t, s, S, n, n) /\ Placed(l.iters, at, hold, to, h, s, S, n)
      /\ l'.iters = l.iters /\ call' = Call("list_delete_all", NULL, n - m)
  BY <1>2, <1>5 DEF Deleted, Holds
<1>7. /\ m \in Nat /\ Items(l') = t /\ t \in [1 .. m -> Item]
  BY <1>6, Opened
<1>8. /\ cursor = Gone(l.iters, at) /\ holds = Held(l.iters, hold)
      /\ cursor' = Gone(l.iters, to) /\ holds' = Held(l.iters, h)
  BY <1>1, <1>6, SeenNow, SeenNext
<1> HIDE DEF s, t
<1> DEFINE keep(k) == Sequence!Cardinality({j \in 1 .. k : s[j] \notin S})
           kept(j) == CHOOSE k \in DOMAIN s : s[k] \notin S /\ keep(k) = j
<1>81. \A k : keep(k) = Left(s, S, k)
  BY SeqCounts DEF Left
<1> HIDE DEF keep
<1>9. ASSUME NEW j \in 1 .. m  PROVE t[j] = s[kept(j)]
  <2>1. \E e \in DOMAIN s : s[e] \notin S /\ keep(e) = j
    BY <1>2, <1>3, <1>81, LeftReaches
  <2>2. kept(j) \in DOMAIN s /\ s[kept(j)] \notin S /\ keep(kept(j)) = j
    BY <2>1
  <2>3. \A e \in 1 .. n : s[e] \notin S => t[Left(s, S, e)] = s[e]
    BY <1>6 DEF Remaining
  <2> HIDE DEF kept
  <2> QED  BY <1>3, <1>81, <2>2, <2>3
<1> HIDE DEF m
<1>10. Items(l') = [j \in 1 .. m |-> s[kept(j)]]
  <2> HIDE DEF kept
  <2> QED  BY <1>7, <1>9
<1>11. ASSUME NEW i \in Iterator
       PROVE  /\ Gone(l.iters, to)[i] = Left(s, S, cursor[i])
              /\ Held(l.iters, h)[i] <=> /\ holds[i]
                                         /\ s[cursor[i]] \notin S
                                         /\ cursor[i] < Len(s) => s[cursor[i] + 1] \notin S
  <2>1. CASE i \in l.iters
    <3>1. at[i] \in 0 .. n /\ (hold[i] => at[i] > 0)
      BY <1>2, <2>1 DEF Cursors
    <3>2. /\ cursor[i] = at[i] /\ (holds[i] <=> hold[i]) /\ Gone(l.iters, to)[i] = to[i]
          /\ (Held(l.iters, h)[i] <=> h[i])
      BY <1>8, <2>1 DEF Gone, Held
    <3>3. /\ to[i] = IF at[i] <= n THEN Left(s, S, at[i]) ELSE Left(s, S, n) + (at[i] - n)
          /\ h[i] <=> /\ hold[i]
                      /\ at[i] \in 1 .. n => s[at[i]] \notin S
                      /\ at[i] < n => s[at[i] + 1] \notin S
      BY <1>6, <2>1 DEF Placed
    <3>4. to[i] = Left(s, S, at[i])
      BY <1>2, <3>1, <3>3
    <3>5. hold[i] => at[i] \in 1 .. n
      BY <1>2, <3>1
    <3> QED  BY <1>3, <3>2, <3>3, <3>4, <3>5
  <2>2. CASE i \notin l.iters
    <3>1. cursor[i] = 0 /\ ~holds[i] /\ Gone(l.iters, to)[i] = 0 /\ ~Held(l.iters, h)[i]
      BY <1>8, <2>2 DEF Gone, Held
    <3>2. Left(s, S, 0) = 0
      BY LeftIs
    <3> QED  BY <3>1, <3>2
  <2> QED  BY <2>1, <2>2
<1>12. cursor' = [i \in Iterator |-> Left(s, S, cursor[i])]
  <2>1. Gone(l.iters, to) = [i \in Iterator |-> Gone(l.iters, to)[i]]
    BY DEF Gone
  <2> QED  BY <1>8, <1>11, <2>1
<1>13. holds' = [i \in Iterator |-> /\ holds[i]
                                    /\ s[cursor[i]] \notin S
                                    /\ cursor[i] < Len(s) => s[cursor[i] + 1] \notin S]
  <2>1. Held(l.iters, h) = [i \in Iterator |-> i \in l.iters /\ h[i]]
    BY DEF Held
  <2>2. \A i \in Iterator : (i \in l.iters /\ h[i])
                              <=> /\ holds[i]
                                  /\ s[cursor[i]] \notin S
                                  /\ cursor[i] < Len(s) => s[cursor[i] + 1] \notin S
    BY <1>11, <2>1
  <2>3. [i \in Iterator |-> i \in l.iters /\ h[i]]
          = [i \in Iterator |-> /\ holds[i]
                                /\ s[cursor[i]] \notin S
                                /\ cursor[i] < Len(s) => s[cursor[i] + 1] \notin S]
    BY <2>2
  <2> QED  BY <1>8, <2>1, <2>3
<1> HIDE DEF kept
<1>14. m = keep(Len(s))
  BY <1>3, <1>81 DEF m
<1>15. Items(l') = [j \in 1 .. keep(Len(s)) |-> s[kept(j)]]
  BY <1>10, <1>14
<1>16. cursor' = [i \in Iterator |-> keep(cursor[i])]
  BY <1>12, <1>81
<1>17. call' = Call("list_delete_all", NULL, Len(s) - keep(Len(s)))
  BY <1>3, <1>6, <1>14
<1> QED  BY <1>6, <1>13, <1>15, <1>16, <1>17 DEF s, keep, kept, Sequence!DeleteAll, Sequence!Call, Call

\* A new list is the empty sequence.
LEMMA SeqStarts ==
    ASSUME Init
    PROVE  Sequence!SeqInit
<1> DEFINE at == [i \in Iterator |-> 0]
           hold == [i \in Iterator |-> FALSE]
<1>1. l = Empty /\ call = Call("list_create", NULL, NULL)
  BY DEF Init
<1>2. at \in [Iterator -> Nat] /\ hold \in [Iterator -> BOOLEAN]
  OBVIOUS
<1>3. Chain(l, 0, EmptyChain, at, hold) /\ l.iters = {}
  BY <1>1, <1>2, EmptyIs
<1> HIDE DEF at, hold
<1>4. /\ Items(l) = Content(l, 0, EmptyChain) /\ Content(l, 0, EmptyChain) \in [1 .. 0 -> Item]
      /\ cursor = Gone({}, at) /\ holds = Held({}, hold)
  BY <1>3, SeenNow
<1>5. Items(l) = <<>>
  BY <1>4
<1>6. cursor = [i \in Iterator |-> 0] /\ holds = [i \in Iterator |-> FALSE]
  BY <1>4 DEF Gone, Held
<1> QED  BY <1>1, <1>3, <1>5, <1>6 DEF Sequence!SeqInit, Sequence!Call, Call

\* Every call of the list is a call of the sequence, or leaves it alone.
LEMMA SeqSteps ==
    ASSUME ListInv, [Next]_vars
    PROVE  [Sequence!SeqNext]_(Sequence!seqVars)
<1>1. PICK n, c, at, hold : Holds(l, n, c, at, hold, due, passed, last)
  BY DEF ListInv
<1>2. Chain(l, n, c, at, hold)
  BY <1>1 DEF Holds
<1>3. ASSUME NEW x \in Item, ListAppend(x) \/ ListPrepend(x)
      PROVE  Sequence!SeqNext
  BY <1>2, <1>3, SeqPut DEF Sequence!SeqNext
<1>4. ASSUME NEW x \in Item, NEW i \in Iterator, ListInsert(i, x)
      PROVE  Sequence!SeqNext
  BY <1>2, <1>4, SeqInsert DEF Sequence!SeqNext
<1>5. ASSUME NEW i \in Iterator,
             \/ ListIteratorCreate(i) \/ ListIteratorReset(i) \/ ListIteratorDestroy(i)
             \/ ListNext(i) \/ ListRemove(i)
      PROVE  Sequence!SeqNext
  <2>1. Sequence!IterNext(i)
    BY <1>1, <1>2, <1>5, SeqIterators, SeqFollow, SeqRemove
  <2> QED  BY <2>1 DEF Sequence!SeqNext
<1>6. CASE ListPop
  BY <1>2, <1>6, SeqPop DEF Sequence!SeqNext
<1>7. CASE ListRemoveFirst
  BY <1>2, <1>7, SeqRemoveFirst DEF Sequence!SeqNext
<1>8. CASE ListDeleteAll
  BY <1>1, <1>8, SeqDeleteAll DEF Sequence!SeqNext
<1>9. CASE ListSort
  BY <1>1, <1>9, SeqSort DEF Sequence!SeqNext, Sequence!Call, Call
<1>10. CASE ListDestroy
  BY <1>1, <1>10, SeqDestroy DEF Sequence!SeqNext, Sequence!Call, Call
<1>11. CASE UNCHANGED vars
  <2>1. l' = l /\ call' = call
    BY <1>11 DEF vars
  <2> QED  BY <2>1, SeqSame DEF Sequence!seqVars
<1>12. CASE Next
  BY <1>3, <1>4, <1>5, <1>6, <1>7, <1>8, <1>9, <1>10, <1>12 DEF Next
<1> QED  BY <1>11, <1>12

\* The nodes and pointers of common/list.c, with any number of nodes and iterators,
\* do what the sequence with places in it does, call by call.
THEOREM ListIsSequence == Spec => ImplementsSequence
<1>1. Init => Sequence!SeqInit
  BY SeqStarts
<1>2. ListInv /\ [Next]_vars => [Sequence!SeqNext]_(Sequence!seqVars)
  BY SeqSteps
<1> QED  BY <1>1, <1>2, AlwaysListInv, PTL DEF Spec, ImplementsSequence, Sequence!SeqSpec

=============================================================================
