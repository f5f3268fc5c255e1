---------------------------- MODULE NodeListProofs ----------------------------
(***************************************************************************)
(* Proofs about NodeList, for any number of threads and entries and sweeps *)
(* of any length.                                                          *)
(***************************************************************************)
EXTENDS NodeList, TLAPS

USE NodeListAssumption DEF NodeListAssumption

Has(e) == \E k \in 1 .. Len(items) : items[k] = e

Steps == {"idle", "append", "next", "data", "test", "stamp", "remove", "missed", "close"}

Shape ==
    /\ items \in Seq(Entry)
    /\ open \subseteq Walker
    /\ cursor \in [Walker -> Nat] /\ holds \in [Walker -> BOOLEAN]
    /\ pc \in [Walker -> Steps]
    /\ node \in [Walker -> Entry \cup {NULL}]
    /\ key \in [Thread -> Entry \cup {NULL}]
    /\ sought \subseteq Thread

\* Iterators are places in the list.
Places ==
    \A w \in Walker : cursor[w] <= Len(items) /\ (holds[w] => cursor[w] > 0)

\* An entry is in the list once.
Once == \A j, k \in 1 .. Len(items) : items[j] = items[k] => j = k

\* What a thread is about to append is an entry, in nobody else's hands.
Appending ==
    \A t \in Thread : pc[t] = "append" =>
        /\ node[t] \in Entry /\ ~Has(node[t])
        /\ \A u \in Thread : pc[u] = "append" /\ node[u] = node[t] => u = t

\* Numbers that are still to come are nowhere.
Fresh ==
    /\ node_cnt \in 0 .. MaxEntries
    /\ \A k \in 1 .. Len(items) : items[k] <= node_cnt
    /\ \A t \in Thread : pc[t] = "append" => node[t] <= node_cnt

\* The id that a search is for is still ahead of it, or in its hands.
Coming(t) == \E k \in 1 .. Len(items) : k > cursor[t] /\ items[k] = key[t]
Sought(t) ==
    /\ key[t] \in Entry /\ Has(key[t])
    /\ pc[t] \in {"next", "data", "stamp", "close"}
    /\ pc[t] = "next" => Coming(t)
    /\ pc[t] = "data" => Coming(t) \/ node[t] = key[t]
Searching == \A t \in sought : Sought(t)

\* A controller that does not run has nothing.
Down == up \in BOOLEAN /\ (~up => items = <<>> /\ sought = {} /\ \A w \in Walker : pc[w] = "idle")

ListInv ==
    /\ Shape /\ Places /\ Once /\ Appending /\ Fresh /\ Searching /\ Down
    /\ SweepHolds

-----------------------------------------------------------------------------
(* What the two calls that change the list do to it. *)

LEMMA ToSetIs == \A e : e \in ToSet(items) <=> Has(e)
<1>1. ToSet(items) = {items[k] : k \in DOMAIN items}
  BY DEF ToSet
<1> QED  BY <1>1 DEF Has

LEMMA ConcatIs ==
    ASSUME NEW S, NEW s \in Seq(S), NEW t \in Seq(S)
    PROVE  /\ s \o t \in Seq(S)
           /\ Len(s \o t) = Len(s) + Len(t)
           /\ \A k \in 1 .. Len(s) : (s \o t)[k] = s[k]
           /\ \A k \in 1 .. Len(t) : (s \o t)[Len(s) + k] = t[k]
  OBVIOUS

LEMMA InsertIs ==
    ASSUME NEW s \in Seq(Entry), NEW x \in Entry
    PROVE  /\ L!InsertAt(s, Len(s) + 1, x) \in Seq(Entry)
           /\ Len(L!InsertAt(s, Len(s) + 1, x)) = Len(s) + 1
           /\ \A k \in 1 .. Len(s) : L!InsertAt(s, Len(s) + 1, x)[k] = s[k]
           /\ L!InsertAt(s, Len(s) + 1, x)[Len(s) + 1] = x
<1>1. L!InsertAt(s, Len(s) + 1, x)
        = SubSeq(s, 1, Len(s)) \o <<x>> \o SubSeq(s, Len(s) + 1, Len(s))
  BY DEF L!InsertAt
<1>2. SubSeq(s, 1, Len(s)) = s /\ SubSeq(s, Len(s) + 1, Len(s)) = <<>>
  OBVIOUS
<1>3. (s \o <<x>>) \o <<>> = s \o <<x>>
  OBVIOUS
<1>4. L!InsertAt(s, Len(s) + 1, x) = s \o <<x>>
  BY <1>1, <1>2, <1>3
<1>5. <<x>> \in Seq(Entry) /\ Len(<<x>>) = 1 /\ 1 \in 1 .. 1 /\ <<x>>[1] = x
  OBVIOUS
<1>6. /\ s \o <<x>> \in Seq(Entry) /\ Len(s \o <<x>>) = Len(s) + 1
      /\ \A k \in 1 .. Len(s) : (s \o <<x>>)[k] = s[k]
      /\ (s \o <<x>>)[Len(s) + 1] = x
  BY <1>5, ConcatIs
<1> QED  BY <1>4, <1>6

LEMMA RemoveIs ==
    ASSUME NEW s \in Seq(Entry), NEW c \in 1 .. Len(s)
    PROVE  /\ L!RemoveAt(s, c) \in Seq(Entry)
           /\ Len(L!RemoveAt(s, c)) = Len(s) - 1
           /\ \A k \in 1 .. c - 1 : L!RemoveAt(s, c)[k] = s[k]
           /\ \A k \in c .. Len(s) - 1 : L!RemoveAt(s, c)[k] = s[k + 1]
<1> DEFINE a == SubSeq(s, 1, c - 1)
           b == SubSeq(s, c + 1, Len(s))
<1>1. /\ a \in Seq(Entry) /\ Len(a) = c - 1
      /\ \A k \in 1 .. c - 1 : a[k] = s[k]
  OBVIOUS
<1>2. /\ b \in Seq(Entry) /\ Len(b) = Len(s) - c
      /\ \A k \in 1 .. Len(s) - c : b[k] = s[c + k]
  OBVIOUS
<1>3. L!RemoveAt(s, c) = a \o b
  BY DEF L!RemoveAt
<1> HIDE DEF a, b
<1>4. /\ a \o b \in Seq(Entry) /\ Len(a \o b) = Len(s) - 1
      /\ \A k \in 1 .. c - 1 : (a \o b)[k] = a[k]
      /\ \A k \in 1 .. Len(s) - c : (a \o b)[c - 1 + k] = b[k]
  BY <1>1, <1>2, ConcatIs
<1>5. ASSUME NEW k \in c .. Len(s) - 1  PROVE (a \o b)[k] = s[k + 1]
  <2>1. /\ k - (c - 1) \in 1 .. Len(s) - c
        /\ c - 1 + (k - (c - 1)) = k /\ c + (k - (c - 1)) = k + 1
    OBVIOUS
  <2>2. (a \o b)[c - 1 + (k - (c - 1))] = b[k - (c - 1)]
    BY <1>4, <2>1
  <2> QED  BY <1>2, <2>1, <2>2
<1> QED  BY <1>1, <1>3, <1>4, <1>5

\* list_append: nothing moves but iterators at the end of the list.
LEMMA Appended ==
    ASSUME ListInv, NEW t \in Thread, pc[t] = "append", L!AppendItem(node[t])
    PROVE  /\ items' \in Seq(Entry) /\ Len(items') = Len(items) + 1
           /\ \A k \in 1 .. Len(items) : items'[k] = items[k]
           /\ items'[Len(items) + 1] = node[t]
           /\ cursor' \in [Walker -> Nat]
           /\ \A w \in Walker : /\ cursor'[w] <= Len(items') /\ cursor[w] <= cursor'[w]
                                /\ cursor[w] < Len(items) \/ holds[w] => cursor'[w] = cursor[w]
           /\ UNCHANGED <<open, holds>>
<1>1. items \in Seq(Entry) /\ node[t] \in Entry /\ Len(items) \in Nat
  BY DEF ListInv, Shape, Appending
<1>2. /\ items' = L!InsertAt(items, Len(items) + 1, node[t])
      /\ cursor' = [w \in Walker |-> L!Pushed(w, Len(items))]
      /\ UNCHANGED <<open, holds>>
  BY DEF L!AppendItem, L!InsertItem
<1>3. \A w \in Walker : /\ cursor[w] \in Nat /\ cursor[w] <= Len(items)
                        /\ holds[w] \in BOOLEAN
  BY DEF ListInv, Shape, Places
<1>4. \A w \in Walker :
          /\ L!Pushed(w, Len(items)) \in Nat
          /\ L!Pushed(w, Len(items)) <= Len(items) + 1
          /\ cursor[w] <= L!Pushed(w, Len(items))
          /\ cursor[w] < Len(items) \/ holds[w] => L!Pushed(w, Len(items)) = cursor[w]
  BY <1>1, <1>3 DEF L!Pushed
<1> QED  BY <1>1, <1>2, <1>4, InsertIs

\* list_remove: the entry condemned goes.
LEMMA Removed ==
    ASSUME ListInv, pc[SWEEP] = "remove", L!RemoveHeld(SWEEP), NEW c, c = cursor[SWEEP]
    PROVE  /\ c \in 1 .. Len(items) /\ items[c] = node[SWEEP]
           /\ items' \in Seq(Entry) /\ Len(items') = Len(items) - 1
           /\ \A k \in 1 .. c - 1 : items'[k] = items[k]
           /\ \A k \in c .. Len(items) - 1 : items'[k] = items[k + 1]
           /\ cursor' = [w \in Walker |-> IF cursor[w] >= c THEN cursor[w] - 1 ELSE cursor[w]]
           /\ holds' \in [Walker -> BOOLEAN]
           /\ \A w \in Walker : holds'[w] => holds[w] /\ cursor[w] \notin {c - 1, c}
           /\ open' = open
<1>1. /\ items \in Seq(Entry) /\ SWEEP \in Walker
      /\ cursor \in [Walker -> Nat] /\ holds[SWEEP] /\ items[c] = node[SWEEP]
      /\ c \in 1 .. Len(items)
  BY DEF ListInv, Shape, Places, SweepHolds, Walker
<1>2. /\ items' = L!RemoveAt(items, (c - 1) + 1)
      /\ cursor' = [w \in Walker |-> L!Pulled(w, c - 1)]
      /\ holds' = [w \in Walker |-> holds[w] /\ cursor[w] \notin {c - 1, (c - 1) + 1}]
      /\ open' = open
  BY <1>1 DEF L!RemoveHeld, L!DeleteItem
<1>3. (c - 1) + 1 = c
  BY <1>1
<1>4. \A w \in Walker : L!Pulled(w, c - 1) = IF cursor[w] >= c THEN cursor[w] - 1 ELSE cursor[w]
  BY <1>1 DEF L!Pulled
<1>5. /\ holds' \in [Walker -> BOOLEAN]
      /\ \A w \in Walker : holds'[w] => holds[w] /\ cursor[w] \notin {c - 1, c}
  <2>1. holds \in [Walker -> BOOLEAN]
    BY DEF ListInv, Shape
  <2> QED  BY <1>2, <1>3, <2>1
<1>6. /\ items' \in Seq(Entry) /\ Len(items') = Len(items) - 1
      /\ \A k \in 1 .. c - 1 : items'[k] = items[k]
      /\ \A k \in c .. Len(items) - 1 : items'[k] = items[k + 1]
  <2>1. items' = L!RemoveAt(items, c)
    BY <1>2, <1>3
  <2>2. /\ L!RemoveAt(items, c) \in Seq(Entry) /\ Len(L!RemoveAt(items, c)) = Len(items) - 1
        /\ \A k \in 1 .. c - 1 : L!RemoveAt(items, c)[k] = items[k]
        /\ \A k \in c .. Len(items) - 1 : L!RemoveAt(items, c)[k] = items[k + 1]
    BY <1>1, RemoveIs
  <2> QED  BY <2>1, <2>2
<1>7. cursor' = [w \in Walker |-> IF cursor[w] >= c THEN cursor[w] - 1 ELSE cursor[w]]
  BY <1>2, <1>4
<1> QED  BY <1>1, <1>2, <1>5, <1>6, <1>7

-----------------------------------------------------------------------------

LEMMA ListInit == Init => ListInv
<1> SUFFICES ASSUME Init  PROVE ListInv
  OBVIOUS
<1>1. items = <<>> /\ Len(items) = 0 /\ items \in Seq(Entry)
  BY DEF Init
<1>2. Shape /\ Places
  BY <1>1 DEF Init, Shape, Places, Steps, None, Idle, Walker
<1>3. Once /\ Appending /\ Fresh /\ Searching /\ SweepHolds
  BY <1>1 DEF Init, Once, Appending, Fresh, Searching, Sought, SweepHolds, Idle, Walker
<1>4. Down
  BY DEF Init, Down, Idle
<1> QED  BY <1>2, <1>3, <1>4 DEF ListInv

LEMMA EndStep == End => ListInv'
<1> SUFFICES ASSUME End  PROVE ListInv'
  OBVIOUS
<1>1. /\ items' = <<>> /\ open' = {} /\ node_cnt' = 0
      /\ cursor' = [w \in Walker |-> 0]
      /\ pc' = [w \in Walker |-> "idle"] /\ node' = [w \in Walker |-> NULL]
      /\ key' = [t \in Thread |-> NULL] /\ sought' = {}
  BY DEF End, L!Destroy, L!Rewind, Idle, None
<1>2. holds' = [w \in Walker |-> FALSE]
  BY DEF End, L!Destroy, L!Rewind
<1>3. items' \in Seq(Entry) /\ Len(items') = 0
  BY <1>1
<1>4. Shape' /\ Places'
  BY <1>1, <1>2, <1>3 DEF Shape, Places, Steps, Walker
<1>5. (Once /\ Appending /\ Fresh /\ Searching /\ SweepHolds)'
  BY <1>1, <1>3 DEF Once, Appending, Fresh, Searching, Sought, SweepHolds, Walker
<1>6. Down'
  BY <1>1 DEF End, Down
<1> QED  BY <1>4, <1>5, <1>6 DEF ListInv

\* Steps that leave the list and the iterators alone.
LEMMA QuietStep ==
    ASSUME ListInv, UNCHANGED <<items, open, cursor, holds>>,
           \/ Start \/ Tick \/ SweepTest
           \/ \E t \in Thread : Create(t) \/ FindData(t) \/ Stamp(t)
           \/ UNCHANGED vars
    PROVE  ListInv'
<1> USE DEF ListInv, Shape, Steps, Places, Once, Appending, Fresh, Searching, Sought, Coming, Down,
            SweepHolds, Has, Walker
<1>1. CASE Start
  BY <1>1 DEF Start
<1>2. CASE Tick
  BY <1>2 DEF Tick
<1>3. CASE SweepTest
  BY <1>3, SMTT(30) DEF SweepTest, Go
<1>4. ASSUME NEW t \in Thread, Create(t)  PROVE ListInv'
  BY <1>4 DEF Create, Go, Take, Entry
<1>5. ASSUME NEW t \in Thread, FindData(t), ~End  PROVE ListInv'
  <2> DEFINE to(e, place) == /\ node' = [node EXCEPT ![t] = e]
                             /\ pc' = [pc EXCEPT ![t] = place]
  <2>1. /\ pc[t] = "data"
        /\ UNCHANGED <<up, node_cnt, key, sought>>
    BY <1>5 DEF FindData
  <2>2. \/ Match(t, node[t])
        \/ node[t] \notin Listed /\ \E e \in Listed : Match(t, e)
        \/ to(NULL, "close")
    BY <1>5 DEF FindData, Go, Take
  <2>3. ASSUME NEW e, Match(t, e)
        PROVE  (e = key[t] /\ to(e, "stamp")) \/ (e # key[t] /\ to(e, "next"))
    <3>1. CASE e = key[t]
      BY <2>3, <3>1 DEF Match, Go, Take
    <3>2. CASE e # key[t]
      BY <2>3, <3>2 DEF Match, Go, Take
    <3> QED  BY <3>1, <3>2
  <2>4. \A e \in Listed : e \in Entry /\ Has(e)
    BY ToSetIs DEF Listed
  <2>5. ASSUME NEW e \in Entry \cup {NULL}, NEW place \in {"stamp", "close"}, to(e, place)
        PROVE  ListInv'
    BY <2>1, <2>5
  <2>6. ASSUME NEW e \in Entry \cup {NULL}, to(e, "next"), t \in sought => Coming(t)
        PROVE  ListInv'
    BY <2>1, <2>6
  <2>8. node[t] # key[t] /\ t \in sought => Coming(t)
    BY <2>1
  <2>9. t \in sought => key[t] \in Listed
    BY ToSetIs DEF Listed
  <2>10. t \in Walker /\ node[t] \in Entry \cup {NULL}
    OBVIOUS
  <2> HIDE DEF ListInv, to, Coming, Has
  <2> QED  BY <2>2, <2>3, <2>4, <2>5, <2>6, <2>8, <2>9, <2>10
<1>6. ASSUME NEW t \in Thread, FindData(t), End  PROVE ListInv'
  BY <1>6, EndStep
<1>7. ASSUME NEW t \in Thread, Stamp(t)  PROVE ListInv'
  BY <1>7 DEF Stamp, Go
<1>8. CASE UNCHANGED vars
  BY <1>8 DEF vars
<1> HIDE DEF ListInv
<1> QED  BY <1>1, <1>2, <1>3, <1>4, <1>5, <1>6, <1>7, <1>8

\* Steps that move one iterator only.
Others(i) == \A w \in Walker \ {i} : cursor'[w] = cursor[w] /\ (holds'[w] <=> holds[w])
ItersType == cursor' \in [Walker -> Nat] /\ holds' \in [Walker -> BOOLEAN]

LEMMA Rewound ==
    ASSUME ListInv, NEW i \in Walker, L!Rewind({i})
    PROVE  ItersType /\ Others(i) /\ cursor'[i] = 0 /\ ~holds'[i]
<1>1. cursor \in [Walker -> Nat] /\ holds \in [Walker -> BOOLEAN]
  BY DEF ListInv, Shape
<1>2. /\ cursor' = [w \in Walker |-> IF w \in {i} THEN 0 ELSE cursor[w]]
      /\ holds' = [w \in Walker |-> w \notin {i} /\ holds[w]]
  BY DEF L!Rewind
<1>3. cursor' \in [Walker -> Nat] /\ cursor'[i] = 0
      /\ \A w \in Walker \ {i} : cursor'[w] = cursor[w]
  BY <1>1, <1>2
<1>4. holds' \in [Walker -> BOOLEAN]
  BY <1>1, <1>2
<1>5. ~holds'[i]
  BY <1>2
<1>6. \A w \in Walker \ {i} : holds'[w] <=> holds[w]
  BY <1>1, <1>2
<1> QED  BY <1>3, <1>4, <1>5, <1>6 DEF ItersType, Others

LEMMA Advanced ==
    ASSUME ListInv, NEW i \in Walker, L!Advance(i)
    PROVE  /\ ItersType /\ Others(i) /\ UNCHANGED <<items, open>> /\ i \in open
           /\ \/ /\ cursor[i] < Len(items)
                 /\ cursor'[i] = cursor[i] + 1 /\ holds'[i]
                 /\ cursor'[i] \in 1 .. Len(items)
                 /\ L!Following(i) = items[cursor'[i]] /\ L!Following(i) \in Entry
              \/ /\ cursor[i] = Len(items)
                 /\ cursor'[i] = cursor[i] /\ ~holds'[i]
                 /\ L!Following(i) = NULL
<1>1. /\ cursor \in [Walker -> Nat] /\ holds \in [Walker -> BOOLEAN]
      /\ items \in Seq(Entry) /\ cursor[i] <= Len(items)
  BY DEF ListInv, Shape, Places
<1>2. CASE cursor[i] < Len(items)
  <2>1. /\ cursor' = [cursor EXCEPT ![i] = cursor[i] + 1]
        /\ L!Following(i) = items[cursor[i] + 1]
    BY <1>2 DEF L!Advance, L!Following
  <2>2. holds' = [holds EXCEPT ![i] = TRUE]
    BY <1>2 DEF L!Advance
  <2>3. UNCHANGED <<items, open>> /\ i \in open
    BY DEF L!Advance
  <2>4. cursor[i] + 1 \in 1 .. Len(items) /\ items[cursor[i] + 1] \in Entry
    BY <1>1, <1>2
  <2> QED  BY <1>1, <1>2, <2>1, <2>2, <2>3, <2>4 DEF ItersType, Others
<1>3. CASE cursor[i] = Len(items)
  <2>0. ~(cursor[i] < Len(items))
    BY <1>1, <1>3
  <2>1. cursor' = [cursor EXCEPT ![i] = cursor[i]] /\ L!Following(i) = NULL
    BY <2>0 DEF L!Advance, L!Following
  <2>2. /\ holds' \in [Walker -> BOOLEAN] /\ ~holds'[i]
        /\ \A w \in Walker \ {i} : holds'[w] <=> holds[w]
    <3>1. holds' = [holds EXCEPT ![i] = cursor[i] < Len(items)]
      BY DEF L!Advance
    <3>2. (cursor[i] < Len(items)) = FALSE
      BY <2>0
    <3>3. holds' = [holds EXCEPT ![i] = FALSE]
      BY <3>1, <3>2
    <3> QED  BY <1>1, <3>3
  <2>3. UNCHANGED <<items, open>> /\ i \in open
    BY DEF L!Advance
  <2> QED  BY <1>1, <1>3, <2>1, <2>2, <2>3 DEF ItersType, Others
<1> QED  BY <1>1, <1>2, <1>3

LEMMA IteratorStep ==
    ASSUME ListInv,
           \/ SweepStart \/ SweepNext \/ SweepClose
           \/ \E t \in Thread : \/ \E id \in Entry : RespPong(t, id)
                                \/ FindNext(t) \/ CloseFind(t)
    PROVE  ListInv'
<1> USE DEF ListInv, Shape, Steps, Places, Once, Appending, Fresh, Searching, Sought, Coming, Down,
            SweepHolds, Has, Walker, Go, Take, ItersType, Others
<1>1. CASE SweepStart
  <2>1. ItersType /\ Others(SWEEP) /\ cursor'[SWEEP] = 0 /\ ~holds'[SWEEP]
    BY <1>1, Rewound DEF SweepStart, L!Create
  <2> QED  BY <1>1, <2>1 DEF SweepStart, L!Create
<1>2. CASE SweepNext
  BY <1>2, Advanced DEF SweepNext
<1>3. CASE SweepClose
  <2>1. ItersType /\ Others(SWEEP) /\ cursor'[SWEEP] = 0 /\ ~holds'[SWEEP]
    BY <1>3, Rewound DEF SweepClose, L!Close
  <2> QED  BY <1>3, <2>1 DEF SweepClose, L!Close
<1>4. ASSUME NEW t \in Thread, NEW id \in Entry, RespPong(t, id)  PROVE ListInv'
  <2>1. ItersType /\ Others(t) /\ cursor'[t] = 0 /\ ~holds'[t]
    BY <1>4, Rewound DEF RespPong, L!Create
  <2>2. /\ pc[t] = "idle" /\ pc' = [pc EXCEPT ![t] = "next"] /\ key' = [key EXCEPT ![t] = id]
        /\ UNCHANGED <<up, items, node_cnt, node>> /\ up
        /\ open' = open \cup {t}
    BY <1>4 DEF RespPong, L!Create
  <2>3. sought' \subseteq sought \cup {t}
    BY <1>4 DEF RespPong
  <2>4. t \in sought' => t \in sought \/ Has(id)
    BY <1>4, ToSetIs DEF RespPong, Listed
  <2>5. Shape' /\ Once' /\ Fresh'
    <3>1. open' \subseteq Walker /\ sought' \subseteq Thread
      BY <2>2, <2>3
    <3>2. pc' \in [Walker -> Steps] /\ key' \in [Thread -> Entry \cup {NULL}]
      BY <2>2
    <3> QED  BY <2>1, <2>2, <3>1, <3>2
  <2>8. Places'
    <3> SUFFICES ASSUME NEW w \in Walker
                 PROVE  cursor'[w] <= Len(items') /\ (holds'[w] => cursor'[w] > 0)
      OBVIOUS
    <3> QED  BY <2>1, <2>2, SMTT(30)
  <2>6. Appending' /\ SweepHolds' /\ Down'
    BY <2>1, <2>2
  <2>7. Searching'
    <3>1. ASSUME NEW u \in sought', u # t  PROVE Sought(u)'
      BY <2>1, <2>2, <2>3, <3>1
    <3>2. ASSUME t \in sought'  PROVE Sought(t)'
      <4>1. Has(id)
        BY <2>2, <2>4, <3>2
      <4> QED  BY <2>1, <2>2, <4>1
    <3> QED  BY <3>1, <3>2
  <2> QED  BY <2>5, <2>6, <2>7, <2>8
<1>5. ASSUME NEW t \in Thread, FindNext(t)  PROVE ListInv'
  <2> DEFINE f == L!Following(t)
  <2>1. /\ pc[t] = "next" /\ L!Advance(t)
        /\ UNCHANGED <<up, node_cnt, key, sought>>
        /\ node' = [node EXCEPT ![t] = f]
        /\ pc' = [pc EXCEPT ![t] = IF f = NULL THEN "missed" ELSE "data"]
    BY <1>5 DEF FindNext
  <2>2. /\ ItersType /\ Others(t) /\ UNCHANGED <<items, open>>
        /\ \/ /\ cursor[t] < Len(items)
              /\ cursor'[t] = cursor[t] + 1 /\ holds'[t]
              /\ cursor'[t] \in 1 .. Len(items)
              /\ f = items[cursor'[t]] /\ f \in Entry
           \/ /\ cursor[t] = Len(items)
              /\ cursor'[t] = cursor[t] /\ ~holds'[t]
              /\ f = NULL
    BY <2>1, Advanced
  <2> HIDE DEF f
  <2>3. f \in Entry \cup {NULL} /\ up
    BY <2>1, <2>2
  <2>5. Shape' /\ Once' /\ Fresh' /\ Down'
    BY <2>1, <2>2, <2>3
  <2>4. Places'
    <3> SUFFICES ASSUME NEW w \in Walker
                 PROVE  cursor'[w] <= Len(items') /\ (holds'[w] => cursor'[w] > 0)
      OBVIOUS
    <3>1. CASE w = t
      BY <2>2, <3>1
    <3>2. CASE w # t
      BY <2>2, <3>2
    <3> QED  BY <3>1, <3>2
  <2>6. Appending' /\ SweepHolds'
    BY <2>1, <2>2
  <2>7. Searching'
    <3>1. ASSUME NEW u \in sought', u # t  PROVE Sought(u)'
      BY <2>1, <2>2, <3>1
    <3>2. ASSUME t \in sought'  PROVE Sought(t)'
      <4>1. PICK k \in 1 .. Len(items) : k > cursor[t] /\ items[k] = key[t]
        BY <2>1, <3>2
      <4>2. /\ f = items[cursor[t] + 1] /\ f \in Entry /\ cursor'[t] = cursor[t] + 1
            /\ cursor[t] \in Nat
        BY <2>2, <4>1
      <4>3. pc'[t] = "data" /\ node'[t] = f
        BY <2>1, <4>2 DEF Entry
      <4>4. CASE k = cursor[t] + 1
        BY <2>1, <2>2, <3>2, <4>1, <4>2, <4>3, <4>4
      <4>5. CASE k > cursor[t] + 1
        BY <2>1, <2>2, <3>2, <4>1, <4>2, <4>3, <4>5
      <4> QED  BY <4>1, <4>2, <4>4, <4>5
    <3> QED  BY <3>1, <3>2
  <2> QED  BY <2>4, <2>5, <2>6, <2>7
<1>6. ASSUME NEW t \in Thread, CloseFind(t)  PROVE ListInv'
  <2>1. ItersType /\ Others(t) /\ cursor'[t] = 0 /\ ~holds'[t]
    BY <1>6, Rewound DEF CloseFind, L!Close
  <2>2. /\ pc' = [pc EXCEPT ![t] = "idle"] /\ node' = [node EXCEPT ![t] = NULL]
        /\ key' = [key EXCEPT ![t] = NULL] /\ sought' = sought \ {t}
        /\ UNCHANGED <<up, items, node_cnt>> /\ open' = open \ {t}
        /\ pc[t] # "append" /\ up
    BY <1>6 DEF CloseFind, L!Close
  <2>5. Shape' /\ Once' /\ Fresh' /\ Down'
    BY <2>1, <2>2
  <2>8. Places'
    <3> SUFFICES ASSUME NEW w \in Walker
                 PROVE  cursor'[w] <= Len(items') /\ (holds'[w] => cursor'[w] > 0)
      OBVIOUS
    <3>1. CASE w = t
      BY <2>1, <2>2, <3>1
    <3>2. CASE w # t
      BY <2>1, <2>2, <3>2
    <3> QED  BY <3>1, <3>2
  <2>6. Appending' /\ SweepHolds'
    BY <2>1, <2>2
  <2>7. Searching'
    BY <2>1, <2>2
  <2> QED  BY <2>5, <2>6, <2>7, <2>8
<1> HIDE DEF ListInv
<1> QED  BY <1>1, <1>2, <1>3, <1>4, <1>5, <1>6

\* The two steps that change the list.
LEMMA AppendStep ==
    ASSUME ListInv, NEW t \in Thread, AppendNode(t)
    PROVE  ListInv'
<1> USE DEF Walker
<1>1. /\ Shape /\ Places /\ Once /\ Appending /\ Fresh /\ Searching /\ SweepHolds
      /\ up
  BY DEF ListInv, Down, AppendNode
<1> DEFINE n == Len(items)
<1>2. /\ items' \in Seq(Entry) /\ Len(items') = n + 1 /\ n \in Nat
      /\ \A k \in 1 .. n : items'[k] = items[k]
      /\ items'[n + 1] = node[t]
      /\ cursor' \in [Walker -> Nat]
      /\ \A w \in Walker : /\ cursor'[w] <= n + 1 /\ cursor[w] <= cursor'[w]
                           /\ cursor[w] < n \/ holds[w] => cursor'[w] = cursor[w]
      /\ UNCHANGED <<open, holds>>
  <2>1. pc[t] = "append" /\ L!AppendItem(node[t])
    BY DEF AppendNode
  <2>2. n \in Nat
    BY <1>1 DEF Shape
  <2> QED  BY <2>1, <2>2, Appended
<1>3. /\ pc[t] = "append" /\ pc' = [pc EXCEPT ![t] = "idle"]
      /\ node' = [node EXCEPT ![t] = NULL]
      /\ UNCHANGED <<up, node_cnt, key, sought>>
  BY DEF AppendNode, Go, Take
<1>4. node[t] \in Entry /\ \A k \in 1 .. n : items[k] # node[t]
  BY <1>1, <1>3 DEF Appending, Has
<1> HIDE DEF n
<1>5. \A k \in 1 .. Len(items') : \/ k \in 1 .. n /\ items'[k] = items[k]
                                  \/ k = n + 1 /\ items'[k] = node[t]
  BY <1>2
<1>6. \A k \in 1 .. n : k \in 1 .. Len(items') /\ items'[k] = items[k]
  BY <1>2
<1>7. \A e : Has(e)' <=> Has(e) \/ e = node[t]
  <2>1. n + 1 \in 1 .. Len(items') /\ items'[n + 1] = node[t]
    BY <1>2
  <2> QED  BY <1>5, <1>6, <2>1 DEF Has, n
<1>8. Shape'
  BY <1>1, <1>2, <1>3 DEF Shape, Steps
<1>9. Places'
  BY <1>1, <1>2 DEF Places, Shape, n
<1>10. Once'
  BY <1>1, <1>4, <1>5 DEF Once, n
<1>11. Appending'
  BY <1>1, <1>3, <1>7 DEF Appending, Shape
<1>12. Fresh'
  BY <1>1, <1>3, <1>5 DEF Fresh, Shape, n
<1>13. Searching'
  <2> SUFFICES ASSUME NEW u \in sought  PROVE Sought(u)'
    BY <1>3 DEF Searching
  <2>1. Sought(u) /\ u \in Thread /\ u # t
    BY <1>1, <1>3 DEF Searching, Sought, Shape
  <2>2. Coming(u) => Coming(u)'
    <3> SUFFICES ASSUME NEW k \in 1 .. n, k > cursor[u], items[k] = key[u]
                 PROVE  Coming(u)'
      BY DEF Coming, n
    <3>1. cursor'[u] = cursor[u]
      BY <1>1, <1>2, <2>1 DEF Shape
    <3>2. k \in 1 .. Len(items') /\ k > cursor'[u] /\ items'[k] = key'[u]
      BY <1>3, <1>6, <3>1
    <3> QED  BY <3>2 DEF Coming
  <2>3. pc'[u] = pc[u] /\ node'[u] = node[u] /\ key'[u] = key[u]
    BY <1>1, <1>3, <2>1 DEF Shape
  <2> QED  BY <1>7, <2>1, <2>2, <2>3 DEF Sought
<1>14. Down'
  BY <1>1, <1>3 DEF Down
<1>15. SweepHolds'
  <2>1. pc'[SWEEP] = pc[SWEEP] /\ node'[SWEEP] = node[SWEEP]
    BY <1>1, <1>3 DEF Shape
  <2>2. ASSUME pc[SWEEP] \in {"test", "remove"}
        PROVE  /\ SWEEP \in open' /\ holds'[SWEEP]
               /\ items'[cursor'[SWEEP]] = node[SWEEP]
    <3>1. /\ SWEEP \in open /\ holds[SWEEP] /\ items[cursor[SWEEP]] = node[SWEEP]
          /\ cursor[SWEEP] \in 1 .. n
      BY <1>1, <2>2 DEF SweepHolds, Places, Shape, n
    <3>2. cursor'[SWEEP] = cursor[SWEEP]
      BY <1>2, <3>1
    <3> QED  BY <1>2, <3>1, <3>2
  <2> QED  BY <2>1, <2>2 DEF SweepHolds
<1> QED  BY <1>8, <1>9, <1>10, <1>11, <1>12, <1>13, <1>14, <1>15 DEF ListInv

LEMMA RemoveStep ==
    ASSUME ListInv, SweepRemove
    PROVE  ListInv' /\ (\A e : Has(e)' <=> Has(e) /\ e # node[SWEEP])
<1> USE DEF Walker
<1>1. /\ Shape /\ Places /\ Once /\ Appending /\ Fresh /\ Searching
      /\ up
  BY DEF ListInv, Down, SweepRemove
<1> DEFINE n == Len(items)
<1>a. PICK c : c = cursor[SWEEP]
  OBVIOUS
<1>2. /\ c \in 1 .. n /\ items[c] = node[SWEEP] /\ n \in Nat
      /\ items' \in Seq(Entry) /\ Len(items') = n - 1
      /\ \A k \in 1 .. c - 1 : items'[k] = items[k]
      /\ \A k \in c .. n - 1 : items'[k] = items[k + 1]
      /\ cursor' = [w \in Walker |-> IF cursor[w] >= c THEN cursor[w] - 1 ELSE cursor[w]]
      /\ holds' \in [Walker -> BOOLEAN]
      /\ \A w \in Walker : holds'[w] => holds[w] /\ cursor[w] \notin {c - 1, c}
      /\ open' = open
  BY <1>a, Removed DEF SweepRemove, ListInv, Shape
<1>3. /\ pc[SWEEP] = "remove" /\ pc' = [pc EXCEPT ![SWEEP] = "next"]
      /\ UNCHANGED <<up, node_cnt, node, key>>
      /\ sought' = {t \in sought : key[t] \in ToSet(items')}
  BY DEF SweepRemove, Go
<1> HIDE DEF n
\* Where each entry was, and where it is now.
<1>4. \A k \in 1 .. Len(items') :
         \/ k < c /\ k \in 1 .. n /\ items'[k] = items[k]
         \/ k >= c /\ k + 1 \in 1 .. n /\ items'[k] = items[k + 1]
  BY <1>2
<1>5. \A k \in 1 .. n : k < c => k \in 1 .. Len(items') /\ items'[k] = items[k]
  BY <1>2
<1>6. ASSUME NEW k \in 1 .. n, k > c
      PROVE  k - 1 \in 1 .. Len(items') /\ items'[k - 1] = items[k]
  <2>1. k - 1 \in c .. n - 1 /\ (k - 1) + 1 = k /\ k - 1 \in 1 .. n - 1
    BY <1>2, <1>6
  <2> QED  BY <1>2, <2>1
<1>7. \A j, k \in 1 .. n : items[j] = items[k] => j = k
  BY <1>1 DEF Once, n
<1>8. ASSUME NEW e  PROVE Has(e)' <=> Has(e) /\ e # node[SWEEP]
  <2>1. ASSUME Has(e)'  PROVE Has(e) /\ e # node[SWEEP]
    <3>1. PICK k \in 1 .. Len(items') : items'[k] = e
      BY <2>1 DEF Has
    <3>2. PICK j \in 1 .. n : j # c /\ items[j] = e
      <4>1. CASE k < c
        BY <1>2, <1>4, <3>1, <4>1
      <4>2. CASE k >= c
        <5>1. k + 1 \in 1 .. n /\ k + 1 # c /\ items[k + 1] = e
          BY <1>2, <1>4, <3>1, <4>2
        <5> QED  BY <5>1
      <4> QED  BY <1>2, <4>1, <4>2
    <3> QED  BY <1>2, <1>7, <3>2 DEF Has, n
  <2>2. ASSUME Has(e), e # node[SWEEP]  PROVE Has(e)'
    <3>1. PICK k \in 1 .. n : items[k] = e
      BY <2>2 DEF Has, n
    <3>2. k < c \/ k > c
      BY <1>2, <2>2, <3>1
    <3> QED  BY <1>5, <1>6, <3>1, <3>2 DEF Has
  <2> QED  BY <2>1, <2>2
<1>9. Shape'
  BY <1>1, <1>2, <1>3 DEF Shape, Steps
<1>10. Places'
  BY <1>1, <1>2 DEF Places, Shape, n
<1>11. Once'
  <2> SUFFICES ASSUME NEW j \in 1 .. Len(items'), NEW k \in 1 .. Len(items'),
                      items'[j] = items'[k]
               PROVE  j = k
    BY DEF Once
  <2> QED  BY <1>2, <1>4, <1>7
<1>12. Appending'
  BY <1>1, <1>3, <1>8 DEF Appending, Shape
<1>13. Fresh'
  BY <1>1, <1>3, <1>4 DEF Fresh, Shape, n
<1>14. Searching'
  <2> SUFFICES ASSUME NEW u \in sought'  PROVE Sought(u)'
    BY DEF Searching
  <2>1. Sought(u) /\ u \in Thread /\ u # SWEEP
    BY <1>1, <1>3 DEF Searching, Shape
  <2>a. PICK k \in 1 .. Len(items') : items'[k] = key[u]
    <3>1. key[u] \in ToSet(items') /\ DOMAIN items' = 1 .. Len(items')
      BY <1>2, <1>3
    <3>2. ToSet(items') = {items'[k] : k \in DOMAIN items'}
      BY DEF ToSet
    <3> QED  BY <3>1, <3>2
  <2>2. Has(key[u])'
    BY <1>3, <2>a DEF Has
  <2>3. key[u] # node[SWEEP]
    <3>1. CASE k < c
      BY <1>2, <1>4, <1>7, <2>a, <3>1
    <3>2. CASE k >= c
      <4>1. k + 1 \in 1 .. n /\ k + 1 # c /\ items[k + 1] = key[u]
        BY <1>2, <1>4, <2>a, <3>2
      <4> QED  BY <1>2, <1>7, <4>1
    <3> QED  BY <1>2, <3>1, <3>2
  <2>4. Coming(u) => Coming(u)'
    <3> SUFFICES ASSUME NEW m \in 1 .. n, m > cursor[u], items[m] = key[u]
                 PROVE  Coming(u)'
      BY DEF Coming, n
    <3>0. /\ cursor[u] \in Nat
          /\ cursor'[u] = IF cursor[u] >= c THEN cursor[u] - 1 ELSE cursor[u]
      BY <1>1, <1>2, <2>1 DEF Shape
    <3>1. CASE m < c
      <4>1. m \in 1 .. Len(items') /\ items'[m] = key'[u]
        BY <1>3, <1>5, <3>1
      <4>2. m > cursor'[u]
        BY <1>2, <3>0, <3>1
      <4> QED  BY <4>1, <4>2 DEF Coming
    <3>2. CASE m > c
      <4>1. m - 1 \in 1 .. Len(items') /\ items'[m - 1] = key'[u]
        BY <1>3, <1>6, <3>2
      <4>2. m - 1 > cursor'[u]
        BY <1>2, <3>0, <3>2
      <4> QED  BY <4>1, <4>2 DEF Coming
    <3> QED  BY <1>2, <2>3, <3>1, <3>2
  <2>5. pc'[u] = pc[u] /\ node'[u] = node[u] /\ key'[u] = key[u]
    BY <1>1, <1>3, <2>1 DEF Shape
  <2> QED  BY <2>1, <2>2, <2>4, <2>5 DEF Sought
<1>15. Down' /\ SweepHolds'
  BY <1>1, <1>3 DEF Down, SweepHolds, Shape
<1> QED
  BY <1>8, <1>9, <1>10, <1>11, <1>12, <1>13, <1>14, <1>15 DEF ListInv

LEMMA ListStep == ListInv /\ [Next]_vars => ListInv'
<1> SUFFICES ASSUME ListInv, [Next]_vars  PROVE ListInv'
  OBVIOUS
<1>1. CASE Start \/ Tick \/ SweepTest
  BY <1>1, QuietStep DEF Start, Tick, SweepTest
<1>2. CASE Stop
  BY <1>2, EndStep DEF Stop
<1>3. CASE SweepStart \/ SweepNext \/ SweepClose
  BY <1>3, IteratorStep
<1>4. CASE SweepRemove
  BY <1>4, RemoveStep
<1>5. ASSUME NEW t \in Thread, Create(t) \/ Stamp(t)  PROVE ListInv'
  BY <1>5, QuietStep DEF Create, Stamp
<1>6. ASSUME NEW t \in Thread, FindData(t)  PROVE ListInv'
  <2>1. CASE End
    BY <2>1, EndStep
  <2>2. CASE ~End
    BY <1>6, <2>2, QuietStep DEF FindData
  <2> QED  BY <2>1, <2>2
<1>7. ASSUME NEW t \in Thread, \E id \in Entry : RespPong(t, id)  PROVE ListInv'
  BY <1>7, IteratorStep
<1>8. ASSUME NEW t \in Thread, FindNext(t) \/ CloseFind(t)  PROVE ListInv'
  BY <1>8, IteratorStep
<1>9. ASSUME NEW t \in Thread, AppendNode(t)  PROVE ListInv'
  BY <1>9, AppendStep
<1>10. CASE UNCHANGED vars
  BY <1>10, QuietStep DEF vars
<1> QED
  BY <1>1, <1>2, <1>3, <1>4, <1>5, <1>6, <1>7, <1>8, <1>9, <1>10
     DEF Next, Sweep, ServiceStep

\* A pong of a listed daemon finds its entry, for any number of searches, entries
\* appended and entries removed meanwhile.
THEOREM SearchesFind == Spec => []FindsListed
<1>1. ListInv => FindsListed
  BY DEF ListInv, Searching, Sought, FindsListed
<1> QED  BY <1>1, ListInit, ListStep, PTL DEF Spec

\* The sweep removes the entry it has tested, whatever is appended meanwhile.
THEOREM SweepIsSafe == Spec => []SweepHolds
<1> QED  BY ListInit, ListStep, PTL DEF Spec, ListInv

-----------------------------------------------------------------------------
(* The calls amount to Membership. *)

Current == (Listed \cup Pending) \ Condemned
Capped(a) == IF a > TimeoutSecs THEN TimeoutSecs + 1 ELSE a
Record(e) == [rank |-> e, age |-> Capped(age[e])]

TimeInv == age \in [Entry -> 0 .. MaxAge] /\ lag \in Nat

LEMMA TimeStep == ListInv /\ TimeInv /\ [Next]_vars => TimeInv'
<1> SUFFICES ASSUME ListInv, TimeInv, [Next]_vars  PROVE TimeInv'
  OBVIOUS
<1> USE DEF TimeInv
<1>0. 0 \in 0 .. MaxAge
  BY DEF MaxAge
<1>1. End => TimeInv'
  BY <1>0 DEF End, Ages
<1>2. CASE Sweep \/ Start \/ UNCHANGED vars
  BY <1>2 DEF Sweep, SweepStart, SweepNext, SweepTest, SweepRemove, SweepClose, Start, vars
<1>3. ASSUME NEW t \in Thread, Create(t) \/ Stamp(t)  PROVE TimeInv'
  BY <1>0, <1>3 DEF Create, Stamp
<1>4. ASSUME NEW t \in Thread,
             \/ \E id \in Entry : RespPong(t, id)
             \/ AppendNode(t) \/ FindNext(t) \/ FindData(t) \/ CloseFind(t)
      PROVE  TimeInv'
  BY <1>1, <1>4 DEF RespPong, AppendNode, FindNext, FindData, CloseFind
<1>5. CASE Tick
  <2>1. \A e \in Entry : age[e] < MaxAge => age[e] + 1 \in 0 .. MaxAge
    BY DEF MaxAge
  <2>2. age' \in [Entry -> 0 .. MaxAge]
    BY <1>5, <2>1 DEF Tick
  <2>3. lag' \in Nat
    BY <1>5 DEF Tick
  <2> QED  BY <2>2, <2>3
<1> QED
  BY <1>1, <1>2, <1>3, <1>4, <1>5 DEF Next, Stop, ServiceStep

LEMMA CurrentIs ==
    /\ members = {Record(e) : e \in Current}
    /\ members' = {Record(e)' : e \in Current'}
    /\ \A e : e \in Listed <=> Has(e)
    /\ \A e : e \in Listed' <=> Has(e)'
<1>1. members = {Record(e) : e \in Current}
  BY DEF members, Record, Capped, Current
<1>2. members' = {Record(e)' : e \in Current'}
  BY DEF members, Record, Capped, Current
<1>3. \A e : e \in Listed <=> Has(e)
  BY ToSetIs DEF Listed
<1>4. \A e : e \in Listed' <=> Has(e)'
  <2>1. Listed' = {items'[k] : k \in DOMAIN items'}
    BY DEF Listed, ToSet
  <2> QED  BY <2>1 DEF Has
<1> QED  BY <1>1, <1>2, <1>3, <1>4

\* Entries keep their records where their ages stay.
LEMMA Stutters ==
    ASSUME Current' = Current, \A e \in Current : age'[e] = age[e], up' = up
    PROVE  UNCHANGED <<up, members>>
<1>1. \A e \in Current : Record(e)' = Record(e)
  BY DEF Record, Capped
<1> QED  BY <1>1, CurrentIs

LEMMA CurrentType ==
    ASSUME ListInv
    PROVE  /\ \A e \in Current : e \in Entry /\ e <= node_cnt
           /\ \A e : e \in Pending <=> \E t \in Thread : pc[t] = "append" /\ node[t] = e
           /\ \A e \in Pending : ~Has(e)
<1>1. \A e : e \in Pending <=> \E t \in Thread : pc[t] = "append" /\ node[t] = e
  BY DEF Pending
<1>2. \A e \in Pending : e \in Entry /\ ~Has(e) /\ e <= node_cnt
  BY <1>1 DEF ListInv, Appending, Fresh
<1>3. \A e : Has(e) => e \in Entry /\ e <= node_cnt
  BY DEF ListInv, Shape, Fresh, Has
<1> QED  BY <1>1, <1>2, <1>3, CurrentIs DEF Current

\* No thread takes or gives away an entry, and the sweep condemns none.
LEMMA Holds ==
    ASSUME UNCHANGED items,
           \A t \in Thread : /\ pc[t] = "append" <=> pc'[t] = "append"
                             /\ pc[t] = "append" => node'[t] = node[t],
           pc[SWEEP] = "remove" <=> pc'[SWEEP] = "remove",
           pc[SWEEP] = "remove" => node'[SWEEP] = node[SWEEP]
    PROVE  Current' = Current
<1>1. Listed' = Listed
  BY DEF Listed
<1>2. \A e : e \in Pending' <=> e \in Pending
  BY DEF Pending
<1>3. Condemned' = Condemned
  BY DEF Condemned
<1> QED  BY <1>1, <1>2, <1>3 DEF Current

\* Calls that move an iterator, searches included, do nothing to the members.
LEMMA QuietImplements ==
    ASSUME ListInv,
           \/ SweepStart \/ SweepNext \/ SweepClose
           \/ \E t \in Thread : \/ \E id \in Entry : RespPong(t, id)
                                \/ FindNext(t) \/ (FindData(t) /\ ~End) \/ CloseFind(t)
           \/ UNCHANGED vars
    PROVE  UNCHANGED <<up, members>>
<1>0. pc \in [Walker -> Steps] /\ node \in [Walker -> Entry \cup {NULL}]
  BY DEF ListInv, Shape
<1> USE <1>0 DEF Walker, Go, Take
<1>1. CASE SweepStart \/ SweepNext \/ SweepClose
  <2>1. UNCHANGED <<items, age, up>>
    BY <1>1, Advanced DEF SweepStart, SweepNext, SweepClose, L!Create, L!Close, L!Advance
  <2>2. Current' = Current
    BY <1>1, <2>1, Holds DEF SweepStart, SweepNext, SweepClose
  <2> QED  BY <2>1, <2>2, Stutters
<1>2. ASSUME NEW t \in Thread,
             \/ \E id \in Entry : RespPong(t, id)
             \/ FindNext(t) \/ (FindData(t) /\ ~End) \/ CloseFind(t)
      PROVE  UNCHANGED <<up, members>>
  <2>1. UNCHANGED <<items, age, up>>
    BY <1>2 DEF RespPong, FindNext, FindData, CloseFind, L!Create, L!Close, L!Advance
  <2>2. /\ pc[t] # "append" /\ pc'[t] # "append"
        /\ \A w \in Walker \ {t} : pc'[w] = pc[w] /\ node'[w] = node[w]
    <3>1. CASE \E id \in Entry : RespPong(t, id)
      BY <3>1 DEF RespPong
    <3>2. CASE FindNext(t)
      BY <3>2 DEF FindNext
    <3>3. CASE FindData(t) /\ ~End
      BY <3>3 DEF FindData, Match
    <3>4. CASE CloseFind(t)
      BY <3>4 DEF CloseFind
    <3> QED  BY <1>2, <3>1, <3>2, <3>3, <3>4
  <2>3. Current' = Current
    BY <2>1, <2>2, Holds
  <2> QED  BY <2>1, <2>3, Stutters
<1>3. CASE UNCHANGED vars
  <2>1. Current' = Current
    BY <1>3, Holds DEF vars
  <2> QED  BY <1>3, <2>1, Stutters DEF vars
<1> QED  BY <1>1, <1>2, <1>3

\* The entry in the hands of a thread is a member from its number on.
LEMMA CreateJoins ==
    ASSUME ListInv, TimeInv, NEW t \in Thread, Create(t)
    PROVE  Members!Join
<1>0. PICK x : x = node_cnt + 1
  OBVIOUS
<1>1. /\ up /\ up' = up /\ pc[t] = "idle" /\ x \in Entry /\ x > node_cnt
      /\ items' = items
      /\ pc' = [pc EXCEPT ![t] = "append"] /\ node' = [node EXCEPT ![t] = x]
      /\ age' = [age EXCEPT ![x] = 0]
  BY <1>0 DEF Create, Go, Take, ListInv, Fresh, Entry
<1>2. pc \in [Walker -> Steps] /\ node \in [Walker -> Entry \cup {NULL}] /\ t # SWEEP
      /\ t \in Walker /\ SWEEP \in Walker
  BY DEF ListInv, Shape, Walker
<1>3. ASSUME NEW e \in Current  PROVE e \in Entry /\ e <= node_cnt
  BY CurrentType
<1>4. Listed' = Listed
  BY <1>1 DEF Listed
<1>5. \A e : e \in Pending' <=> e \in Pending \/ e = x
  <2>1. pc'[t] = "append" /\ node'[t] = x
    BY <1>1, <1>2
  <2>2. \A u \in Thread \ {t} : pc'[u] = pc[u] /\ node'[u] = node[u]
    BY <1>1, <1>2 DEF Walker
  <2> QED  BY <1>1, <2>1, <2>2 DEF Pending
<1>6. Condemned' = Condemned /\ x \notin Condemned
  <2>1. pc'[SWEEP] = pc[SWEEP] /\ node'[SWEEP] = node[SWEEP]
    BY <1>1, <1>2
  <2>2. pc[SWEEP] = "remove" => Has(node[SWEEP])
    BY DEF ListInv, SweepHolds, Places, Shape, Has, Walker
  <2>3. pc[SWEEP] = "remove" => node[SWEEP] # x
    BY <1>1, <2>2 DEF ListInv, Fresh, Has, Shape, Entry
  <2> QED  BY <2>1, <2>3 DEF Condemned
<1>7. Current' = Current \cup {x}
  BY <1>4, <1>5, <1>6 DEF Current
<1>8. /\ \A e \in Current : Record(e)' = Record(e) /\ Record(e).rank < Record(x)'.rank
      /\ Record(x)'.age = 0
  <2>1. \A e \in Current : e # x /\ e < x
    BY <1>1, <1>3 DEF ListInv, Fresh, Entry
  <2>2. \A e \in Current : age'[e] = age[e]
    BY <1>1, <1>3, <2>1 DEF TimeInv
  <2>3. age'[x] = 0
    BY <1>1 DEF TimeInv
  <2> QED  BY <2>1, <2>2, <2>3 DEF Record, Capped
<1>9. members' = members \cup {Record(x)'}
  BY <1>7, <1>8, CurrentIs
<1>10. \A m \in members : m.rank < Record(x)'.rank
  BY <1>8, CurrentIs
<1> QED  BY <1>1, <1>8, <1>9, <1>10 DEF Members!Join

LEMMA AppendKeeps ==
    ASSUME ListInv, NEW t \in Thread, AppendNode(t)
    PROVE  UNCHANGED <<up, members>>
<1>1. /\ pc[t] = "append" /\ pc' = [pc EXCEPT ![t] = "idle"]
      /\ node' = [node EXCEPT ![t] = NULL] /\ UNCHANGED <<up, age>>
  BY DEF AppendNode, Go, Take
<1>2. pc \in [Walker -> Steps] /\ node \in [Walker -> Entry \cup {NULL}] /\ t # SWEEP
      /\ t \in Walker /\ SWEEP \in Walker
  BY DEF ListInv, Shape, Walker
<1>3. \A e : Has(e)' <=> Has(e) \/ e = node[t]
  <2> DEFINE n == Len(items)
  <2>1. /\ items' \in Seq(Entry) /\ Len(items') = n + 1 /\ n \in Nat
        /\ \A k \in 1 .. n : items'[k] = items[k]
        /\ items'[n + 1] = node[t]
    BY Appended DEF AppendNode, Shape, ListInv
  <2> HIDE DEF n
  <2>2. \A k \in 1 .. Len(items') : \/ k \in 1 .. n /\ items'[k] = items[k]
                                    \/ k = n + 1 /\ items'[k] = node[t]
    BY <2>1
  <2>3. /\ \A k \in 1 .. n : k \in 1 .. Len(items') /\ items'[k] = items[k]
        /\ n + 1 \in 1 .. Len(items')
    BY <2>1
  <2> QED  BY <2>1, <2>2, <2>3 DEF Has, n
<1>4. \A u \in Thread \ {t} : pc'[u] = pc[u] /\ node'[u] = node[u]
  BY <1>1, <1>2 DEF Walker
<1>5. pc'[t] = "idle"
  BY <1>1, <1>2
<1>6. \A e : e \in Pending' <=> e \in Pending /\ e # node[t]
  <2>1. \A u \in Thread : pc[u] = "append" /\ u # t => node[u] # node[t]
    BY <1>1 DEF ListInv, Appending
  <2> QED  BY <1>1, <1>4, <1>5, <2>1 DEF Pending
<1>7. Condemned' = Condemned
  BY <1>1, <1>2 DEF Condemned
<1>8. node[t] \in Pending
  BY <1>1 DEF Pending
<1>9. Current' = Current
  BY <1>3, <1>6, <1>7, <1>8, CurrentIs DEF Current
<1> QED  BY <1>1, <1>9, Stutters

\* A stamp renews one member, or an entry that has left.
LEMMA StampRenews ==
    ASSUME ListInv, TimeInv, NEW t \in Thread, Stamp(t)
    PROVE  Members!Renew \/ UNCHANGED <<up, members>>
<1>0. PICK x : x = node[t]
  OBVIOUS
<1>1. /\ pc[t] = "stamp" /\ pc' = [pc EXCEPT ![t] = "close"]
      /\ age' = [age EXCEPT ![x] = 0] /\ UNCHANGED <<up, items, node>>
  BY <1>0 DEF Stamp, Go
<1>2. Current' = Current
  <2>1. pc \in [Walker -> Steps] /\ t # SWEEP /\ t \in Walker /\ SWEEP \in Walker
    BY DEF ListInv, Shape, Walker
  <2> QED  BY <1>1, <2>1, Holds DEF Walker
<1>3. \A e \in Current : e \in Entry
  BY CurrentType
<1>4. \A e \in Current : e # x => age'[e] = age[e]
  BY <1>1, <1>3 DEF TimeInv
<1>5. CASE x \notin Current
  BY <1>1, <1>2, <1>4, <1>5, Stutters
<1>6. CASE x \in Current
  <2>1. age'[x] = 0
    BY <1>1, <1>3, <1>6 DEF TimeInv
  <2>2. Record(x)' = [Record(x) EXCEPT !.age = 0] /\ Record(x).rank = x
    BY <2>1 DEF Record, Capped
  <2>3. \A e \in Current : e # x => Record(e)' = Record(e)
    BY <1>4 DEF Record, Capped
  <2>4. \A e \in Current : Record(e).rank = e
    BY DEF Record
  <2>5. members' = (members \ {Record(x)}) \cup {Record(x)'}
    <3>1. \A m : m \in members' <=> \E e \in Current : m = Record(e)'
      BY <1>2, CurrentIs
    <3>2. \A m : m \in members <=> \E e \in Current : m = Record(e)
      BY CurrentIs
    <3> QED  BY <1>6, <2>3, <2>4, <3>1, <3>2
  <2>6. Record(x) \in members
    BY <1>6, CurrentIs
  <2> QED  BY <1>1, <2>2, <2>5, <2>6 DEF Members!Renew
<1> QED  BY <1>5, <1>6

\* The sweep lets a member go when it condemns it, and the removal adds nothing.
LEMMA SweepLeaves ==
    ASSUME ListInv, TimeInv, SweepTest
    PROVE  Members!Leave \/ UNCHANGED <<up, members>>
<1>0. PICK x : x = node[SWEEP]
  OBVIOUS
<1>1. /\ pc[SWEEP] = "test" /\ UNCHANGED <<up, items, node, age>>
      /\ \/ age[x] > TimeoutSecs + lag /\ pc' = [pc EXCEPT ![SWEEP] = "remove"]
         \/ pc' = [pc EXCEPT ![SWEEP] = "next"]
  BY <1>0 DEF SweepTest, Go
<1>2. pc \in [Walker -> Steps] /\ SWEEP \in Walker /\ \A t \in Thread : t \in Walker /\ t # SWEEP
  BY DEF ListInv, Shape, Walker
<1>3. CASE age[x] > TimeoutSecs + lag /\ pc' = [pc EXCEPT ![SWEEP] = "remove"]
  <2>1. x \in Entry /\ age[x] \in Nat
    BY <1>0, <1>1 DEF ListInv, SweepHolds, Places, Shape, TimeInv, Walker, MaxAge
  <2>2. Current' = Current \ {x}
    <3>1. Listed' = Listed /\ Pending' = Pending
      BY <1>1, <1>2, <1>3 DEF Listed, Pending
    <3>2. Condemned = {} /\ Condemned' = {x}
      BY <1>0, <1>1, <1>2, <1>3 DEF Condemned
    <3> QED  BY <3>1, <3>2 DEF Current
  <2>3. \A e : Record(e)' = Record(e)
    BY <1>1 DEF Record, Capped
  <2>4. members' = {Record(e) : e \in Current \ {x}}
    BY <2>2, <2>3, CurrentIs
  <2>5. members = {Record(e) : e \in Current}
    BY CurrentIs
  <2>6. members' \subseteq members
    BY <2>4, <2>5
  <2>7. \A m \in members \ members' : m = Record(x)
    BY <2>4, <2>5
  <2>8. Record(x).age > TimeoutSecs
    BY <1>3, <2>1 DEF Record, Capped, TimeInv
  <2> QED  BY <1>1, <2>6, <2>7, <2>8 DEF Members!Leave
<1>4. CASE pc' = [pc EXCEPT ![SWEEP] = "next"]
  <2>1. Current' = Current
    BY <1>1, <1>2, <1>4, Holds
  <2> QED  BY <1>1, <2>1, Stutters
<1> QED  BY <1>1, <1>3, <1>4

LEMMA RemoveKeeps ==
    ASSUME ListInv, SweepRemove
    PROVE  UNCHANGED <<up, members>>
<1>0. PICK x : x = node[SWEEP]
  OBVIOUS
<1>1. /\ pc[SWEEP] = "remove" /\ pc' = [pc EXCEPT ![SWEEP] = "next"]
      /\ UNCHANGED <<up, node, age>>
  BY DEF SweepRemove, Go
<1>2. pc \in [Walker -> Steps] /\ SWEEP \in Walker /\ \A t \in Thread : t \in Walker /\ t # SWEEP
  BY DEF ListInv, Shape, Walker
<1>3. \A e : Has(e)' <=> Has(e) /\ e # x
  BY <1>0, RemoveStep
<1>4. Pending' = Pending
  BY <1>1, <1>2 DEF Pending
<1>5. Condemned = {x} /\ Condemned' = {}
  BY <1>0, <1>1, <1>2 DEF Condemned
<1>6. x \notin Pending
  <2>1. Has(x)
    BY <1>0, <1>1, <1>2 DEF ListInv, SweepHolds, Places, Shape, Has
  <2> QED  BY <2>1, CurrentType
<1>7. Current' = Current
  BY <1>3, <1>4, <1>5, <1>6, CurrentIs DEF Current
<1> QED  BY <1>1, <1>7, Stutters

LEMMA TickPasses ==
    ASSUME ListInv, TimeInv, Tick
    PROVE  Members!Pass
<1>1. /\ UNCHANGED <<up, items, pc, node>>
      /\ age' = [e \in Entry |-> IF e <= node_cnt /\ age[e] < MaxAge
                                 THEN age[e] + 1 ELSE age[e]]
  BY DEF Tick
<1>2. Current' = Current
  BY <1>1, Holds
<1>3. ASSUME NEW e \in Current
      PROVE  Record(e)' = [Record(e) EXCEPT !.age = IF @ > TimeoutSecs THEN @ ELSE @ + 1]
  <2>1. e \in Entry /\ e <= node_cnt /\ age[e] \in 0 .. MaxAge
    BY CurrentType DEF TimeInv
  <2>2. age'[e] = IF age[e] < MaxAge THEN age[e] + 1 ELSE age[e]
    BY <1>1, <2>1
  <2>3. Capped(age[e])' = IF Capped(age[e]) > TimeoutSecs THEN Capped(age[e])
                          ELSE Capped(age[e]) + 1
    BY <2>1, <2>2 DEF Capped, MaxAge
  <2> QED  BY <2>3 DEF Record
<1>4. members' = {[m EXCEPT !.age = IF @ > TimeoutSecs THEN @ ELSE @ + 1] : m \in members}
  BY <1>2, <1>3, CurrentIs
<1> QED  BY <1>1, <1>4 DEF Members!Pass

\* A controller that starts or ends has no members.
LEMMA EndsImplement ==
    ASSUME ListInv, Start \/ End
    PROVE  Members!Start \/ Members!Stop \/ UNCHANGED <<up, members>>
<1>0. SWEEP \in Walker /\ \A t \in Thread : t \in Walker
  BY DEF Walker
<1>1. ASSUME End  PROVE up' = FALSE /\ members' = {}
  <2>1. up' = FALSE /\ items' = <<>> /\ pc' = [w \in Walker |-> "idle"]
    BY <1>1 DEF End, L!Destroy, Idle
  <2>2. \A e : ~Has(e)'
    BY <2>1 DEF Has
  <2>3. Pending' = {} /\ Condemned' = {}
    BY <1>0, <2>1 DEF Pending, Condemned
  <2>4. Current' = {}
    BY <2>2, <2>3, CurrentIs DEF Current
  <2> QED  BY <2>1, <2>4, CurrentIs
<1>2. ASSUME ~up  PROVE Current = {}
  <2>1. items = <<>> /\ \A w \in Walker : pc[w] = "idle"
    BY <1>2 DEF ListInv, Down
  <2>2. \A e : ~Has(e)
    BY <2>1 DEF Has
  <2>3. Pending = {} /\ Condemned = {}
    BY <1>0, <2>1 DEF Pending, Condemned
  <2> QED  BY <2>2, <2>3, CurrentIs DEF Current
<1>3. CASE Start
  <2>1. ~up /\ up' = TRUE /\ UNCHANGED <<items, pc, node>>
    BY <1>3 DEF Start
  <2>2. Current' = {}
    BY <1>2, <2>1, Holds
  <2> QED  BY <2>1, <2>2, CurrentIs DEF Members!Start
<1>4. CASE End
  <2>1. up \in BOOLEAN
    BY DEF ListInv, Down
  <2>2. ~up => members = {}
    BY <1>2, CurrentIs
  <2> QED  BY <1>1, <1>4, <2>1, <2>2 DEF Members!Stop
<1> QED  BY <1>3, <1>4

\* The calls of any number of threads, with nothing locked between them, keep the
\* promise of Membership: an entry leaves only by silence, and an entry renewed
\* between the test and its removal had left by then.
THEOREM NodeListImplementsMembership == Spec => ImplementsMembership
<1>1. Init => TimeInv
  BY DEF Init, TimeInv, Ages, MaxAge
<1>2. Init => Members!Init
  BY DEF Init, Members!Init, members, Listed, ToSet, Pending, Condemned, Idle, Walker
<1>3. ListInv /\ TimeInv /\ [Next]_vars => [Members!Next]_<<up, members>>
  <2> SUFFICES ASSUME ListInv, TimeInv, [Next]_vars
               PROVE  Members!Next \/ UNCHANGED <<up, members>>
    OBVIOUS
  <2> USE DEF Members!Next
  <2>1. CASE Start \/ Stop \/ \E t \in Thread : FindData(t) /\ End
    BY <2>1, EndsImplement DEF Stop
  <2>2. CASE \/ SweepStart \/ SweepNext \/ SweepClose
             \/ \E t \in Thread : \/ \E id \in Entry : RespPong(t, id)
                                  \/ FindNext(t) \/ (FindData(t) /\ ~End) \/ CloseFind(t)
             \/ UNCHANGED vars
    BY <2>2, QuietImplements
  <2>3. CASE SweepTest \/ SweepRemove \/ Tick
    BY <2>3, SweepLeaves, RemoveKeeps, TickPasses
  <2>4. ASSUME NEW t \in Thread, Create(t) \/ AppendNode(t) \/ Stamp(t)
        PROVE  Members!Next \/ UNCHANGED <<up, members>>
    BY <2>4, CreateJoins, AppendKeeps, StampRenews
  <2> QED  BY <2>1, <2>2, <2>3, <2>4 DEF Next, Sweep, ServiceStep
<1> QED
  BY <1>1, <1>2, <1>3, ListInit, ListStep, TimeStep, PTL
     DEF Spec, ImplementsMembership, Members!Spec, Members!memberVars

=============================================================================
