-------------------------- MODULE ListTransferProofs --------------------------
(***************************************************************************)
(* Proofs about ListTransfer, for any number of items and any maxima.      *)
(***************************************************************************)
EXTENDS ListTransfer, FiniteSetTheorems, FunctionTheorems, TLAPS

USE ListTransferAssumption DEF ListTransferAssumption

Mid == IF v = 0 THEN 0 ELSE 1

Types ==
    /\ l \in Seq(Nat \ {0}) /\ sub \in Seq(Nat \ {0})
    /\ made \in Nat /\ v \in Nat
    /\ v # 0 <=> pc = "append"

LEMMA ConcatIs ==
    ASSUME NEW S, NEW s \in Seq(S), NEW t \in Seq(S)
    PROVE  /\ s \o t \in Seq(S)
           /\ Len(s \o t) = Len(s) + Len(t)
           /\ \A k \in 1 .. Len(s) : (s \o t)[k] = s[k]
           /\ \A k \in 1 .. Len(t) : (s \o t)[Len(s) + k] = t[k]
  OBVIOUS

\* Where the items of Held come from.
LEMMA HeldIs ==
    ASSUME Types
    PROVE  /\ Held \in Seq(Nat \ {0})
           /\ Len(Held) = Len(l) + Mid + Len(sub)
           /\ \A k \in 1 .. Len(l) : Held[k] = l[k]
           /\ v # 0 => Held[Len(l) + 1] = v
           /\ \A k \in 1 .. Len(sub) : Held[Len(l) + Mid + k] = sub[k]
<1>1. CASE v = 0
  <2>1. Held = l \o <<>> \o sub
    BY <1>1 DEF Held
  <2>2. l \o <<>> = l
    BY DEF Types
  <2> QED  BY <1>1, <2>1, <2>2 DEF Types, Mid
<1>2. CASE v # 0
  <2> DEFINE a == l \o <<v>>
  <2>1. Held = a \o sub
    BY <1>2 DEF Held
  <2>2. /\ a \in Seq(Nat \ {0}) /\ Len(a) = Len(l) + 1
        /\ \A k \in 1 .. Len(l) : a[k] = l[k]
        /\ a[Len(l) + 1] = v
    BY <1>2 DEF Types
  <2> HIDE DEF a
  <2> DEFINE w == Held
  <2>3. /\ w \in Seq(Nat \ {0}) /\ Len(w) = Len(a) + Len(sub)
        /\ \A k \in 1 .. Len(a) : w[k] = a[k]
        /\ \A k \in 1 .. Len(sub) : w[Len(a) + k] = sub[k]
    <3>1. w = a \o sub
      BY <2>1
    <3>2. sub \in Seq(Nat \ {0}) /\ a \in Seq(Nat \ {0})
      BY <2>2 DEF Types
    <3> HIDE DEF w
    <3> QED  BY <3>1, <3>2, ConcatIs
  <2> QED  BY <1>2, <2>2, <2>3 DEF Mid, Types
<1> QED  BY <1>1, <1>2

-----------------------------------------------------------------------------
(* Each list by itself: increasing numbers, all of the first before all of the  *)
(* second.                                                                      *)

Has(s, x) == \E k \in 1 .. Len(s) : s[k] = x
Rises(s) == \A j, k \in 1 .. Len(s) : j < k => s[j] < s[k]
Before(s, x) == \A k \in 1 .. Len(s) : s[k] < x
After(x, s) == \A k \in 1 .. Len(s) : x < s[k]
Precedes(s, t) == \A x \in Nat : Has(t, x) => Before(s, x)

LEMMA AppendIs ==
    ASSUME NEW s \in Seq(Nat \ {0}), NEW x \in Nat \ {0}
    PROVE  /\ Append(s, x) \in Seq(Nat \ {0})
           /\ \A y : Has(Append(s, x), y) <=> Has(s, y) \/ y = x
           /\ Rises(s) /\ Before(s, x) => Rises(Append(s, x))
           /\ \A y \in Nat : Before(s, y) /\ x < y => Before(Append(s, x), y)
           /\ \A y \in Nat : After(y, s) /\ y < x => After(y, Append(s, x))
<1>1. /\ Append(s, x) \in Seq(Nat \ {0}) /\ Len(Append(s, x)) = Len(s) + 1
      /\ \A k \in 1 .. Len(s) : Append(s, x)[k] = s[k]
      /\ Append(s, x)[Len(s) + 1] = x
  OBVIOUS
<1> DEFINE t == Append(s, x)
<1>2. Len(s) \in Nat /\ \A k \in 1 .. Len(s) : s[k] \in Nat
  OBVIOUS
<1> HIDE DEF t
<1>3. /\ Len(t) = Len(s) + 1 /\ t[Len(s) + 1] = x
      /\ \A k \in 1 .. Len(s) : t[k] = s[k]
  BY <1>1 DEF t
<1>4. \A y : Has(t, y) <=> Has(s, y) \/ y = x
  <2>1. \A k \in 1 .. Len(t) : k \in 1 .. Len(s) \/ k = Len(s) + 1
    BY <1>2, <1>3
  <2>2. \A k \in 1 .. Len(s) : k \in 1 .. Len(t)
    BY <1>2, <1>3
  <2>3. Len(s) + 1 \in 1 .. Len(t)
    BY <1>2, <1>3
  <2> QED  BY <1>3, <2>1, <2>2, <2>3 DEF Has
<1>8. \A k \in 1 .. Len(t) : k \in 1 .. Len(s) \/ (k = Len(s) + 1 /\ t[k] = x)
  BY <1>2, <1>3
<1>5. Rises(s) /\ Before(s, x) => Rises(t)
  <2> SUFFICES ASSUME Rises(s), Before(s, x), NEW j \in 1 .. Len(t),
                      NEW k \in 1 .. Len(t), j < k
               PROVE  t[j] < t[k]
    BY DEF Rises
  <2>1. j \in 1 .. Len(s)
    BY <1>2, <1>3
  <2>2. CASE k \in 1 .. Len(s)
    BY <1>3, <2>1, <2>2 DEF Rises
  <2>3. CASE k = Len(s) + 1
    BY <1>3, <2>1, <2>3 DEF Before
  <2> QED  BY <1>8, <2>2, <2>3
<1>6. ASSUME NEW y \in Nat, Before(s, y), x < y  PROVE Before(t, y)
  BY <1>2, <1>3, <1>6, <1>8 DEF Before
<1>7. ASSUME NEW y \in Nat, After(y, s), y < x  PROVE After(y, t)
  BY <1>2, <1>3, <1>7, <1>8 DEF After
<1> QED  BY <1>1, <1>4, <1>5, <1>6, <1>7 DEF t

LEMMA TailIs ==
    ASSUME NEW s \in Seq(Nat \ {0}), s # <<>>
    PROVE  /\ Tail(s) \in Seq(Nat \ {0}) /\ Head(s) \in Nat \ {0}
           /\ Has(s, Head(s))
           /\ \A y : Has(s, y) <=> Has(Tail(s), y) \/ y = Head(s)
           /\ Rises(s) => Rises(Tail(s)) /\ After(Head(s), Tail(s))
           /\ \A y \in Nat : Before(s, y) => Before(Tail(s), y)
           /\ \A y \in Nat : After(y, s) => After(y, Tail(s))
<1>1. /\ Tail(s) \in Seq(Nat \ {0}) /\ Len(Tail(s)) = Len(s) - 1
      /\ \A k \in 1 .. Len(s) - 1 : Tail(s)[k] = s[k + 1]
      /\ Head(s) = s[1] /\ Len(s) \in Nat \ {0}
  OBVIOUS
<1> DEFINE t == Tail(s) h == Head(s)
<1>2. \A k \in 1 .. Len(s) : s[k] \in Nat \ {0}
  OBVIOUS
<1> HIDE DEF t, h
<1>3. /\ Len(t) = Len(s) - 1 /\ h = s[1] /\ Len(s) \in Nat \ {0}
      /\ \A k \in 1 .. Len(s) - 1 : t[k] = s[k + 1]
  BY <1>1 DEF t, h
<1>8. \A k \in 1 .. Len(t) : k + 1 \in 1 .. Len(s) /\ t[k] = s[k + 1]
  BY <1>3
<1>4. \A y : Has(s, y) <=> Has(t, y) \/ y = h
  <2>2. \A k \in 1 .. Len(s) : k = 1 \/ (k - 1 \in 1 .. Len(t) /\ t[k - 1] = s[k])
    BY <1>3
  <2>3. 1 \in 1 .. Len(s)
    BY <1>3
  <2> QED  BY <1>3, <1>8, <2>2, <2>3 DEF Has
<1>5. Rises(s) => Rises(t) /\ After(h, t)
  <2> SUFFICES ASSUME Rises(s)  PROVE Rises(t) /\ After(h, t)
    OBVIOUS
  <2>1. ASSUME NEW j \in 1 .. Len(t), NEW k \in 1 .. Len(t), j < k  PROVE t[j] < t[k]
    BY <1>8, <2>1 DEF Rises
  <2>2. ASSUME NEW k \in 1 .. Len(t)  PROVE h < t[k]
    <3>1. 1 \in 1 .. Len(s) /\ k + 1 \in 1 .. Len(s) /\ 1 < k + 1
      BY <1>3, <1>8
    <3> QED  BY <1>3, <1>8, <3>1 DEF Rises
  <2> QED  BY <2>1, <2>2 DEF Rises, After
<1>6. /\ \A y \in Nat : Before(s, y) => Before(t, y)
      /\ \A y \in Nat : After(y, s) => After(y, t)
  BY <1>8 DEF Before, After
<1>7. h \in Nat \ {0} /\ Has(s, h)
  BY <1>2, <1>3, <1>4
<1> QED  BY <1>1, <1>4, <1>5, <1>6, <1>7 DEF t, h

-----------------------------------------------------------------------------

Around(x) == Has(l, x) \/ Has(sub, x) \/ (v # 0 /\ x = v)

TransferInv ==
    /\ Types
    /\ Rises(l) /\ Rises(sub) /\ Precedes(l, sub)
    /\ v # 0 => Before(l, v) /\ After(v, sub)
    /\ taken \subseteq 1 .. made
    /\ \A x \in Nat : Around(x) => x \in 1 .. made /\ x \notin taken
    /\ \A x \in 1 .. made : Around(x) \/ x \in taken

LEMMA TransferInit == Init => TransferInv
<1> SUFFICES ASSUME Init  PROVE TransferInv
  OBVIOUS
<1>1. l = <<>> /\ sub = <<>> /\ taken = {} /\ made = 0 /\ v = 0 /\ pc = "idle"
  BY DEF Init
<1>2. \A x : ~Has(<<>>, x)
  BY DEF Has
<1> QED
  BY <1>1, <1>2 DEF TransferInv, Types, Rises, Precedes, Around

\* What the bounds on a list say of its items.
LEMMA BoundsHave ==
    /\ \A s, x, y : Has(s, x) /\ Before(s, y) => x < y
    /\ \A s, x, y : Has(s, x) /\ After(y, s) => y < x
  BY DEF Has, Before, After

LEMMA TransferStep == TransferInv /\ [Next]_vars => TransferInv'
<1> SUFFICES ASSUME TransferInv, [Next]_vars  PROVE TransferInv'
  OBVIOUS
<1>0. /\ Types /\ Rises(l) /\ Rises(sub) /\ Precedes(l, sub)
      /\ v # 0 => Before(l, v) /\ After(v, sub)
      /\ taken \subseteq 1 .. made
      /\ \A x \in Nat : Around(x) => x \in 1 .. made /\ x \notin taken
      /\ \A x \in 1 .. made : Around(x) \/ x \in taken
  BY DEF TransferInv
<1>a. /\ l \in Seq(Nat \ {0}) /\ sub \in Seq(Nat \ {0})
      /\ made \in Nat /\ v \in Nat /\ (v # 0 <=> pc = "append")
  BY <1>0 DEF Types
<1>1. ASSUME UNCHANGED <<l, sub, made, taken, v>>, v # 0 <=> pc' = "append"
      PROVE  TransferInv'
  BY <1>0, <1>1 DEF TransferInv, Types, Around
<1>2. CASE CallTransfer
  BY <1>1, <1>2, <1>a DEF CallTransfer
<1>3. CASE TransferPop
  <2>1. CASE GoesOn
    <3>1. /\ v' = Head(sub) /\ sub' = Tail(sub) /\ pc' = "append"
          /\ UNCHANGED <<l, made, taken>> /\ v = 0 /\ sub # <<>>
      BY <1>3, <1>a, <2>1 DEF TransferPop, GoesOn
    <3>2. /\ sub' \in Seq(Nat \ {0}) /\ v' \in Nat \ {0} /\ Has(sub, v')
          /\ \A y : Has(sub, y) <=> Has(sub', y) \/ y = v'
          /\ Rises(sub') /\ After(v', sub')
      BY <3>1, <1>0, <1>a, TailIs
    <3>3. Types'
      BY <3>1, <3>2, <1>a DEF Types
    <3>4. \A x : Around(x)' <=> Around(x)
      BY <3>1, <3>2 DEF Around
    <3>5. Precedes(l, sub)' /\ Before(l, v)'
      BY <3>1, <3>2, <1>0 DEF Precedes
    <3>6. Rises(l)' /\ Rises(sub)' /\ After(v, sub)'
      BY <3>1, <3>2, <1>0
    <3> QED  BY <3>1, <3>3, <3>4, <3>5, <3>6, <1>0 DEF TransferInv
  <2>2. CASE ~GoesOn
    BY <1>1, <1>3, <1>a, <2>2 DEF TransferPop
  <2> QED  BY <2>1, <2>2
<1>4. CASE TransferAppend
  <2>1. /\ l' = Append(l, v) /\ v' = 0 /\ pc' = "pop" /\ v \in Nat \ {0}
        /\ UNCHANGED <<sub, made, taken>>
    BY <1>4, <1>a DEF TransferAppend
  <2>2. /\ l' \in Seq(Nat \ {0})
        /\ \A y : Has(l', y) <=> Has(l, y) \/ y = v
        /\ Rises(l')
        /\ \A y \in Nat : Before(l, y) /\ v < y => Before(l', y)
    BY <2>1, <1>0, <1>a, AppendIs
  <2>3. Types'
    BY <2>1, <2>2, <1>a DEF Types
  <2>4. \A x : Around(x)' <=> Around(x)
    BY <2>1, <2>2 DEF Around
  <2>5. Precedes(l, sub)'
    BY <2>1, <2>2, <1>0, BoundsHave DEF Precedes
  <2>6. Rises(l)' /\ Rises(sub)'
    BY <2>1, <2>2, <1>0
  <2> QED  BY <2>1, <2>3, <2>4, <2>5, <2>6, <1>0 DEF TransferInv
<1>5. CASE Produce
  <2> DEFINE x == made + 1
  <2>1. /\ sub' = Append(sub, x) /\ made' = x /\ x \in Nat \ {0}
        /\ UNCHANGED <<l, taken, pc, v>>
    BY <1>5, <1>a DEF Produce
  <2>2. Before(sub, x) /\ Before(l, x) /\ (v # 0 => v < x)
    <3>1. \A y \in Nat : Around(y) => y < x
      BY <1>0, <1>a
    <3>2. \A k \in 1 .. Len(sub) : sub[k] \in Nat /\ Around(sub[k])
      BY <1>a DEF Around, Has
    <3>3. \A k \in 1 .. Len(l) : l[k] \in Nat /\ Around(l[k])
      BY <1>a DEF Around, Has
    <3>4. v # 0 => Around(v)
      BY DEF Around
    <3> HIDE DEF x
    <3> QED  BY <3>1, <3>2, <3>3, <3>4, <1>a DEF Before
  <2>3. /\ sub' \in Seq(Nat \ {0}) /\ Rises(sub')
        /\ \A y : Has(sub', y) <=> Has(sub, y) \/ y = x
        /\ v # 0 => After(v, sub')
    BY <2>1, <2>2, <1>0, <1>a, AppendIs
  <2>4. Types'
    BY <2>1, <2>3, <1>a DEF Types
  <2>5. \A y : Around(y)' <=> Around(y) \/ y = x
    BY <2>1, <2>3 DEF Around
  <2>6. Precedes(l, sub)'
    BY <2>1, <2>2, <2>3, <1>0 DEF Precedes
  <2>7. x \notin taken /\ \A y \in Nat : y \in 1 .. x <=> y \in 1 .. made \/ y = x
    BY <1>0, <1>a
  <2>8. Rises(l)' /\ Rises(sub)' /\ (v # 0 => Before(l, v) /\ After(v, sub))'
    BY <2>1, <2>3, <1>0
  <2> HIDE DEF x
  <2>9. /\ taken' \subseteq 1 .. made'
        /\ \A y \in Nat : Around(y)' => y \in 1 .. made' /\ y \notin taken'
        /\ \A y \in 1 .. made' : Around(y)' \/ y \in taken'
    BY <2>1, <2>5, <2>7, <1>0
  <2> QED  BY <2>4, <2>6, <2>8, <2>9 DEF TransferInv
<1>6. CASE TakeFromSub
  <2> DEFINE h == Head(sub)
  <2>1. /\ sub # <<>> /\ sub' = Tail(sub) /\ taken' = taken \cup {h}
        /\ UNCHANGED <<l, made, pc, v>>
    BY <1>6 DEF TakeFromSub
  <2>2. /\ sub' \in Seq(Nat \ {0}) /\ h \in Nat \ {0} /\ Has(sub, h)
        /\ \A y : Has(sub, y) <=> Has(sub', y) \/ y = h
        /\ Rises(sub') /\ After(h, sub')
        /\ v # 0 => After(v, sub')
    BY <2>1, <1>0, <1>a, TailIs
  <2> HIDE DEF h
  <2>3. ~Has(l, h) /\ ~Has(sub', h) /\ (v # 0 => v < h)
    <3>1. ~(h < h) /\ Before(l, h)
      BY <2>2, <1>0 DEF Precedes
    <3>2. ~Has(l, h)
      BY <3>1, BoundsHave
    <3>3. ~Has(sub', h)
      BY <2>2, <3>1, BoundsHave
    <3>4. v # 0 => v < h
      BY <2>2, <1>0, BoundsHave
    <3> QED  BY <3>2, <3>3, <3>4
  <2>4. Types'
    BY <2>1, <2>2, <1>a DEF Types
  <2>5. \A y : Around(y)' <=> Around(y) /\ y # h
    BY <2>1, <2>2, <2>3, <1>a DEF Around
  <2>6. Precedes(l, sub)' /\ Around(h)
    BY <2>1, <2>2, <1>0 DEF Precedes, Around
  <2>7. Rises(l)' /\ Rises(sub)' /\ (v # 0 => Before(l, v) /\ After(v, sub))'
    BY <2>1, <2>2, <1>0
  <2>8. /\ taken' \subseteq 1 .. made'
        /\ \A y \in Nat : Around(y)' => y \in 1 .. made' /\ y \notin taken'
        /\ \A y \in 1 .. made' : Around(y)' \/ y \in taken'
    BY <2>1, <2>2, <2>5, <2>6, <1>0
  <2> QED  BY <2>4, <2>6, <2>7, <2>8 DEF TransferInv
<1>7. CASE TakeFromL
  <2> DEFINE h == Head(l)
  <2>1. /\ l # <<>> /\ l' = Tail(l) /\ taken' = taken \cup {h}
        /\ UNCHANGED <<sub, made, pc, v>>
    BY <1>7 DEF TakeFromL
  <2>2. /\ l' \in Seq(Nat \ {0}) /\ h \in Nat \ {0} /\ Has(l, h)
        /\ \A y : Has(l, y) <=> Has(l', y) \/ y = h
        /\ Rises(l') /\ After(h, l')
        /\ \A y \in Nat : Before(l, y) => Before(l', y)
    BY <2>1, <1>0, <1>a, TailIs
  <2> HIDE DEF h
  <2>3. ~Has(sub, h) /\ ~Has(l', h) /\ (v # 0 => h < v)
    <3>1. ~(h < h)
      BY <2>2
    <3>2. ~Has(sub, h)
      <4>1. Has(sub, h) => Before(l, h)
        BY <2>2, <1>0 DEF Precedes
      <4> QED  BY <2>2, <3>1, <4>1, BoundsHave
    <3>3. ~Has(l', h)
      BY <2>2, <3>1, BoundsHave
    <3>4. v # 0 => h < v
      BY <2>2, <1>0, BoundsHave
    <3> QED  BY <3>2, <3>3, <3>4
  <2>4. Types'
    BY <2>1, <2>2, <1>a DEF Types
  <2>5. \A y : Around(y)' <=> Around(y) /\ y # h
    BY <2>1, <2>2, <2>3, <1>a DEF Around
  <2>6. Precedes(l, sub)' /\ Around(h)
    BY <2>1, <2>2, <1>0 DEF Precedes, Around
  <2>7. Rises(l)' /\ Rises(sub)' /\ (v # 0 => Before(l, v) /\ After(v, sub))'
    BY <2>1, <2>2, <1>0, <1>a
  <2>8. /\ taken' \subseteq 1 .. made'
        /\ \A y \in Nat : Around(y)' => y \in 1 .. made' /\ y \notin taken'
        /\ \A y \in 1 .. made' : Around(y)' \/ y \in taken'
    BY <2>1, <2>2, <2>5, <2>6, <1>0
  <2> QED  BY <2>4, <2>6, <2>7, <2>8 DEF TransferInv
<1>8. CASE UNCHANGED vars
  BY <1>1, <1>8, <1>a DEF vars
<1> QED
  BY <1>2, <1>3, <1>4, <1>5, <1>6, <1>7, <1>8 DEF Next, Call, Other

-----------------------------------------------------------------------------

LEMMA KeepsOrder ==
    ASSUME TransferInv
    PROVE  OrderKept
<1>0. /\ Types /\ Rises(l) /\ Rises(sub) /\ Precedes(l, sub)
      /\ v # 0 => Before(l, v) /\ After(v, sub)
  BY DEF TransferInv
<1>1. /\ l \in Seq(Nat \ {0}) /\ sub \in Seq(Nat \ {0})
  BY <1>0 DEF Types
<1> DEFINE w == Held  m == Len(l) n1 == Len(sub) d == Mid
<1>2. /\ m \in Nat /\ n1 \in Nat /\ d \in {0, 1} /\ (d = 1 <=> v # 0)
      /\ DOMAIN w = 1 .. m + d + n1
      /\ \A k \in 1 .. m : w[k] = l[k]
      /\ d = 1 => w[m + 1] = v
      /\ \A k \in 1 .. n1 : w[m + d + k] = sub[k]
  BY <1>0, <1>1, HeldIs DEF Mid
<1> HIDE DEF w, d
<1>3. \A k \in DOMAIN w : \/ k \in 1 .. m /\ w[k] = l[k]
                          \/ d = 1 /\ k = m + 1 /\ w[k] = v
                          \/ \E i \in 1 .. n1 : k = m + d + i /\ w[k] = sub[i]
  <2> SUFFICES ASSUME NEW k \in DOMAIN w, k \notin 1 .. m, ~(d = 1 /\ k = m + 1)
               PROVE  \E i \in 1 .. n1 : k = m + d + i /\ w[k] = sub[i]
    BY <1>2
  <2>1. k - m - d \in 1 .. n1 /\ k = m + d + (k - m - d)
    BY <1>2
  <2> QED  BY <1>2, <2>1
<1> SUFFICES ASSUME NEW j \in DOMAIN w, NEW k \in DOMAIN w, j < k
             PROVE  w[j] < w[k]
  BY DEF OrderKept, w
<1>4. CASE j \in 1 .. m /\ w[j] = l[j]
  <2>1. CASE k \in 1 .. m /\ w[k] = l[k]
    BY <1>0, <1>4, <2>1 DEF Rises
  <2>2. CASE d = 1 /\ k = m + 1 /\ w[k] = v
    BY <1>0, <1>2, <1>4, <2>2 DEF Before
  <2>3. ASSUME NEW i \in 1 .. n1, w[k] = sub[i]  PROVE w[j] < w[k]
    <3>1. Has(sub, sub[i]) /\ sub[i] \in Nat
      BY <1>1 DEF Has
    <3> QED  BY <1>0, <1>4, <2>3, <3>1 DEF Precedes, Before
  <2> QED  BY <1>3, <2>1, <2>2, <2>3
<1>5. CASE d = 1 /\ j = m + 1 /\ w[j] = v
  <2>1. ASSUME NEW i \in 1 .. n1, w[k] = sub[i]  PROVE w[j] < w[k]
    BY <1>0, <1>2, <1>5, <2>1 DEF After
  <2>2. k \notin 1 .. m /\ k # m + 1
    BY <1>2, <1>5
  <2> QED  BY <1>3, <2>1, <2>2
<1>6. ASSUME NEW i \in 1 .. n1, j = m + d + i, w[j] = sub[i]  PROVE w[j] < w[k]
  <2>1. k \notin 1 .. m /\ ~(d = 1 /\ k = m + 1)
    BY <1>2, <1>6
  <2>2. PICK h \in 1 .. n1 : k = m + d + h /\ w[k] = sub[h]
    BY <1>3, <2>1
  <2>3. i < h
    BY <1>2, <1>6, <2>2
  <2> QED  BY <1>0, <1>6, <2>2, <2>3 DEF Rises
<1> QED  BY <1>3, <1>4, <1>5, <1>6

\* An item is in Held when it is in a list or under way.
LEMMA HeldSet ==
    ASSUME Types
    PROVE  \A x : x \in ToSet(Held) <=> Around(x)
<1> DEFINE w == Held  m == Len(l)  n1 == Len(sub)  d == Mid
<1>1. /\ m \in Nat /\ n1 \in Nat /\ d \in {0, 1} /\ (d = 1 <=> v # 0)
      /\ DOMAIN w = 1 .. m + d + n1
      /\ \A k \in 1 .. m : w[k] = l[k]
      /\ d = 1 => w[m + 1] = v
      /\ \A k \in 1 .. n1 : w[m + d + k] = sub[k]
  BY HeldIs DEF Mid, Types
<1> HIDE DEF w, m, n1, d
<1>2. ASSUME NEW k \in DOMAIN w  PROVE Around(w[k])
  <2>1. CASE k \in 1 .. m
    BY <1>1, <2>1 DEF Around, Has, m
  <2>2. CASE d = 1 /\ k = m + 1
    BY <1>1, <2>2 DEF Around
  <2>3. CASE k \notin 1 .. m /\ ~(d = 1 /\ k = m + 1)
    <3>1. k \in Int /\ k > m + d /\ k <= m + d + n1
      BY <1>1, <2>3
    <3>2. m \in Int /\ d \in Int /\ n1 \in Int
      BY <1>1
    <3>3. k - m - d \in 1 .. n1 /\ k = m + d + (k - m - d)
      BY <3>1, <3>2
    <3> QED  BY <1>1, <3>3 DEF Around, Has, n1
  <2> QED  BY <2>1, <2>2, <2>3
<1>3. ASSUME NEW x, Around(x)  PROVE \E k \in DOMAIN w : w[k] = x
  <2>1. CASE Has(l, x)
    <3>1. PICK k \in 1 .. m : l[k] = x
      BY <2>1 DEF Has, m
    <3>2. k \in DOMAIN w /\ w[k] = x
      BY <1>1, <3>1
    <3> QED  BY <3>2
  <2>2. CASE Has(sub, x)
    <3>1. PICK k \in 1 .. n1 : sub[k] = x
      BY <2>2 DEF Has, n1
    <3>2. m + d + k \in DOMAIN w /\ w[m + d + k] = x
      BY <1>1, <3>1
    <3> QED  BY <3>2
  <2>3. CASE v # 0 /\ x = v
    <3>1. m + 1 \in DOMAIN w /\ w[m + 1] = x
      BY <1>1, <2>3
    <3> QED  BY <3>1
  <2> QED  BY <1>3, <2>1, <2>2, <2>3 DEF Around
<1>4. ToSet(w) = {w[k] : k \in DOMAIN w}
  BY DEF ToSet
<1> QED  BY <1>2, <1>3, <1>4 DEF w

\* However the transfer and the other thread interleave, for any number of items
\* and any maxima, both lists with the item under way keep the order of production.
THEOREM OrderIsKept == Spec => []OrderKept
<1> QED  BY KeepsOrder, TransferInit, TransferStep, PTL DEF Spec

\* ... and they lose no item and have none twice.
THEOREM ItemsConserved == Spec => []Conserved
<1>1. ASSUME TransferInv  PROVE Conserved
  <2> DEFINE w == Held
  <2>0. /\ Types /\ made \in Nat /\ taken \subseteq 1 .. made
        /\ \A x \in Nat : Around(x) => x \in 1 .. made /\ x \notin taken
        /\ \A x \in 1 .. made : Around(x) \/ x \in taken
    BY <1>1 DEF TransferInv, Types
  <2>1. w \in Seq(Nat \ {0}) /\ \A x : x \in ToSet(w) <=> Around(x)
    BY <2>0, HeldIs, HeldSet
  <2>2. \A j, k \in DOMAIN w : j < k => w[j] < w[k]
    BY <1>1, KeepsOrder DEF OrderKept
  <2> HIDE DEF w
  <2>3. ToSet(w) = {w[k] : k \in DOMAIN w} /\ DOMAIN w = 1 .. Len(w) /\ Len(w) \in Nat
    BY <2>1 DEF ToSet
  <2>4. \A x \in ToSet(w) : x \in Nat
    BY <2>1, <2>3
  <2>5. ToSet(w) \cup taken = 1 .. made /\ ToSet(w) \cap taken = {}
    BY <2>0, <2>1, <2>4
  <2>6. Cardinality(ToSet(w)) = Len(w)
    <3> DEFINE f == [k \in 1 .. Len(w) |-> w[k]]
    <3>1. f \in [1 .. Len(w) -> ToSet(w)] /\ \A x \in ToSet(w) : \E k \in 1 .. Len(w) : f[k] = x
      BY <2>3
    <3>2. ASSUME NEW j \in 1 .. Len(w), NEW k \in 1 .. Len(w), f[j] = f[k]  PROVE j = k
      <4>1. w[j] \in Nat /\ w[k] \in Nat /\ w[j] = w[k]
        BY <2>1, <3>2
      <4>2. ~(j < k) /\ ~(k < j)
        BY <2>2, <2>3, <4>1
      <4> QED  BY <2>3, <4>2
    <3> HIDE DEF f
    <3>3. f \in Bijection(1 .. Len(w), ToSet(w))
      BY <3>1, <3>2, Fun_IsBij
    <3>4. ExistsBijection(1 .. Len(w), ToSet(w))
      BY <3>3 DEF ExistsBijection
    <3> QED  BY <2>3, <3>4, FS_CountingElements
  <2> QED  BY <2>5, <2>6 DEF Conserved, w
<1> QED  BY <1>1, TransferInit, TransferStep, PTL DEF Spec

\* A transfer with a maximum moves at most one item more than that, whatever the
\* other thread appends meanwhile.
THEOREM TransferEnds == Spec => []Bounded
<1> DEFINE Inv == /\ max \in Int /\ n \in Nat /\ Bounded
                  /\ pc = "append" /\ max # 0 => n <= max
<1>1. Init => Inv
  BY DEF Init, Bounded
<1>2. Inv /\ [Next]_vars => Inv'
  <2> SUFFICES ASSUME Inv, [Next]_vars  PROVE Inv'
    OBVIOUS
  <2>1. CASE CallTransfer
    BY <2>1 DEF CallTransfer, Bounded
  <2>2. CASE TransferPop
    BY <2>2 DEF TransferPop, GoesOn, Bounded
  <2>3. CASE TransferAppend
    BY <2>3 DEF TransferAppend, Bounded
  <2>4. CASE UNCHANGED <<pc, max, n>>
    BY <2>4 DEF Bounded
  <2>5. Other \/ UNCHANGED vars => UNCHANGED <<pc, max, n>>
    BY DEF Other, Produce, TakeFromSub, TakeFromL, vars
  <2> QED  BY <2>1, <2>2, <2>3, <2>4, <2>5 DEF Next, Call
<1> QED  BY <1>1, <1>2, PTL DEF Spec

=============================================================================
