----------------------------- MODULE ListTransfer -----------------------------
(***************************************************************************)
(* list_transfer_max of common/list.c, which locks the two lists once for  *)
(* each item it moves from sub to l, so that another thread uses both in   *)
(* between.  A list is a sequence here (List shows why it may be), and an  *)
(* item is its number in the order in which they are produced.             *)
(***************************************************************************)
EXTENDS Integers, FiniteSets, Sequences, SequencesExt

CONSTANTS
    MaxItems, \* bound: items produced
    Maxima    \* the maxima callers give list_transfer_max

ASSUME ListTransferAssumption ==
    /\ MaxItems \in Nat
    /\ 0 \in Maxima /\ Maxima \subseteq Int

VARIABLES
    l, sub,   \* the two lists
    made,     \* items produced
    taken,    \* history: items the other thread has taken out
    pc,       \* where the call is
    max,      \* the argument of list_transfer_max
    n,        \* items moved
    v         \* the item between list_pop and list_append; 0 when there is none

vars == <<l, sub, made, taken, pc, max, n, v>>

TypeOK ==
    /\ l \in Seq(1 .. MaxItems) /\ sub \in Seq(1 .. MaxItems)
    /\ taken \subseteq 1 .. MaxItems
    /\ made \in 0 .. MaxItems
    /\ pc \in {"idle", "pop", "append", "returned"}
    /\ max \in Maxima
    /\ n \in 0 .. MaxItems
    /\ v \in 0 .. MaxItems /\ (v # 0 <=> pc = "append")

Init ==
    /\ l = <<>> /\ sub = <<>> /\ taken = {}
    /\ made = 0
    /\ pc = "idle"
    /\ max = 0
    /\ n = 0
    /\ v = 0

-----------------------------------------------------------------------------
(* The calling thread. *)

CallTransfer ==
    /\ pc \in {"idle", "returned"}
    /\ pc' = "pop"
    /\ max' \in Maxima
    /\ n' = 0
    /\ UNCHANGED <<l, sub, made, taken, v>>

\* Mutant: the maximum is not looked at.
GoesOnAlways == sub # <<>>

\* while ((!max || n <= max) && (v = list_pop(sub))): max + 1 items, and with the
\* -1 of list.h none.
GoesOn == (max = 0 \/ n <= max) /\ sub # <<>>

\* Mutant: the item stays in sub until it is in l.
TransferPeek ==
    /\ pc = "pop"
    /\ IF GoesOn THEN v' = Head(sub) /\ pc' = "append"
       ELSE pc' = "returned" /\ UNCHANGED v
    /\ UNCHANGED <<l, sub, made, taken, max, n>>

\* Mutant: the last item first.
TransferPopLast ==
    /\ pc = "pop"
    /\ IF GoesOn THEN v' = Last(sub) /\ sub' = Front(sub) /\ pc' = "append"
       ELSE pc' = "returned" /\ UNCHANGED <<v, sub>>
    /\ UNCHANGED <<l, made, taken, max, n>>

TransferPop ==
    /\ pc = "pop"
    /\ IF GoesOn THEN v' = Head(sub) /\ sub' = Tail(sub) /\ pc' = "append"
       ELSE pc' = "returned" /\ UNCHANGED <<v, sub>>
    /\ UNCHANGED <<l, made, taken, max, n>>

TransferAppend ==
    /\ pc = "append"
    /\ l' = Append(l, v)
    /\ v' = 0
    /\ n' = n + 1
    /\ pc' = "pop"
    /\ UNCHANGED <<sub, made, taken, max>>

Call == CallTransfer \/ TransferPop \/ TransferAppend

-----------------------------------------------------------------------------
(* The other thread, between any two of these steps. *)

Produce ==
    /\ made < MaxItems
    /\ made' = made + 1
    /\ sub' = Append(sub, made')
    /\ UNCHANGED <<l, taken, pc, max, n, v>>

TakeFromSub ==
    /\ sub # <<>>
    /\ sub' = Tail(sub)
    /\ taken' = taken \cup {Head(sub)}
    /\ UNCHANGED <<l, made, pc, max, n, v>>

TakeFromL ==
    /\ l # <<>>
    /\ l' = Tail(l)
    /\ taken' = taken \cup {Head(l)}
    /\ UNCHANGED <<sub, made, pc, max, n, v>>

Other == Produce \/ TakeFromSub \/ TakeFromL

Next == Call \/ Other

Spec == Init /\ [][Next]_vars

-----------------------------------------------------------------------------
(* What callers rely on. *)

\* The items in both lists, in their order, with the one under way.
Held == l \o (IF v = 0 THEN <<>> ELSE <<v>>) \o sub

\* However the two threads interleave, an item is in one list only, or under way
\* between them, or taken out: none is lost and none is there twice.
Conserved ==
    /\ ToSet(Held) \cup taken = 1 .. made
    /\ ToSet(Held) \cap taken = {}
    /\ Len(Held) = Cardinality(ToSet(Held))

\* A transfer with a maximum ends after max + 1 items, however many are appended
\* to sub meanwhile.
Bounded == max # 0 /\ n > 0 => n <= max + 1

\* A transfer keeps the order, also with respect to what stays behind in sub and
\* to what is appended to sub meanwhile.
OrderKept == \A j, k \in DOMAIN Held : j < k => Held[j] < Held[k]

=============================================================================
