------------------------------- MODULE NodeList -------------------------------
(***************************************************************************)
(* cluster_node_list of skrumctld at the level of single list calls: the   *)
(* discovery thread sweeps the list (_update_node_list of skrumctld.c) with*)
(* an iterator of its own while service threads register daemons and look  *)
(* their entries up to renew them (skrumctld_req.c).  Each call holds the  *)
(* mutex of the list; nothing is locked from one call to the next, nor when*)
(* the fields of an entry are read and written.                            *)
(*                                                                         *)
(* Cluster takes each of these functions as one step; Membership is what   *)
(* both promise.  An entry is its number in the order of registration.     *)
(***************************************************************************)
EXTENDS Naturals, Sequences, SequencesExt

CONSTANTS
    Thread,      \* service threads
    SWEEP,       \* the discovery thread
    TimeoutSecs, \* NODE_REGISTRATION_TIMEOUT
    MaxEntries,  \* bound: registrations with one controller
    MaxLag,      \* bound: seconds a sweep takes
    NULL

ASSUME NodeListAssumption ==
    /\ SWEEP \notin Thread
    /\ TimeoutSecs \in Nat /\ MaxEntries \in Nat /\ MaxLag \in Nat
    /\ NULL \notin Nat

VARIABLES
    up,       \* the controller runs
    items,    \* cluster_node_list
    open, cursor, holds, \* its iterators, as in ListSeq
    node_cnt, \* entries made since the start
    age,      \* seconds since registration_ts of each entry
    lag,      \* seconds since the sweep took update_ts
    pc,       \* what each thread is doing
    node,     \* the entry in its hands
    key,      \* the id in the pong it serves
    sought    \* history: that id has been in the list since its search began

listVars == <<items, open, cursor, holds>>
vars == <<up, items, open, cursor, holds, node_cnt, age, lag, pc, node, key, sought>>

Entry == 1 .. MaxEntries
Walker == Thread \cup {SWEEP}
MaxAge == TimeoutSecs + MaxLag + 1

L == INSTANCE ListSeq WITH Item <- Entry, Iterator <- Walker,
                           MaxLen <- MaxEntries, call <- NULL

Listed == ToSet(items)

TypeOK ==
    /\ up \in BOOLEAN
    /\ L!SeqTypeOK
    /\ node_cnt \in 0 .. MaxEntries
    /\ age \in [Entry -> 0 .. MaxAge]
    /\ lag \in 0 .. MaxLag
    /\ pc \in [Walker -> {"idle", "append", "next", "data", "test", "stamp",
                          "remove", "missed", "close"}]
    /\ node \in [Walker -> Entry \cup {NULL}]
    /\ key \in [Thread -> Entry \cup {NULL}]
    /\ sought \subseteq Thread

None == [w \in Walker |-> NULL]
Idle == [w \in Walker |-> "idle"]
Ages == [e \in Entry |-> 0]

Init ==
    /\ up = FALSE
    /\ items = <<>> /\ open = {}
    /\ cursor = [w \in Walker |-> 0] /\ holds = [w \in Walker |-> FALSE]
    /\ node_cnt = 0 /\ age = Ages
    /\ lag = 0
    /\ pc = Idle /\ node = None
    /\ key = [t \in Thread |-> NULL]
    /\ sought = {}

\* list_create, of a process that has nothing yet.
Start ==
    /\ ~up
    /\ up' = TRUE
    /\ UNCHANGED <<items, open, cursor, holds, node_cnt, age, lag, pc, node, key, sought>>

\* The process ends, list_destroy or not: nothing is kept.
End ==
    /\ up' = FALSE
    /\ L!Destroy
    /\ node_cnt' = 0 /\ age' = Ages
    /\ lag' = 0
    /\ pc' = Idle /\ node' = None
    /\ key' = [t \in Thread |-> NULL]
    /\ sought' = {}

\* _skrumctld_fini, after the threads.  MsgEngine has the wait for them.
Stop ==
    /\ up
    /\ \A w \in Walker : pc[w] = "idle"
    /\ End

Go(w, place) == pc' = [pc EXCEPT ![w] = place]
Take(w, e) == node' = [node EXCEPT ![w] = e]

-----------------------------------------------------------------------------
(* Service threads. *)

\* _register_cluster_node up to list_append.  That two threads may read one
\* node_cnt is a matter of Cluster.
Create(t) ==
    /\ up /\ pc[t] = "idle"
    /\ node_cnt < MaxEntries
    /\ node_cnt' = node_cnt + 1
    /\ age' = [age EXCEPT ![node_cnt'] = 0]
    /\ Take(t, node_cnt')
    /\ Go(t, "append")
    /\ UNCHANGED <<up, items, open, cursor, holds, lag, key, sought>>

AppendNode(t) ==
    /\ pc[t] = "append"
    /\ L!AppendItem(node[t])
    /\ Take(t, NULL)
    /\ Go(t, "idle")
    /\ UNCHANGED <<up, node_cnt, age, lag, key, sought>>

\* list_iterator_create of _resp_pong.
RespPong(t, id) ==
    /\ up /\ pc[t] = "idle"
    /\ L!Create(t)
    /\ key' = [key EXCEPT ![t] = id]
    /\ sought' = IF id \in Listed THEN sought \cup {t} ELSE sought
    /\ Go(t, "next")
    /\ UNCHANGED <<up, node_cnt, age, lag, node>>

\* list_next of list_find, as long as it holds the mutex.
FindNext(t) ==
    /\ pc[t] = "next"
    /\ L!Advance(t)
    /\ Take(t, L!Following(t))
    /\ Go(t, IF L!Following(t) = NULL THEN "missed" ELSE "data")
    /\ UNCHANGED <<up, node_cnt, age, lag, key, sought>>

\* The match function, with the entry that list_next returned.
Match(t, e) ==
    /\ Take(t, e)
    /\ Go(t, IF e = key[t] THEN "stamp" ELSE "next")

\* return (p ? p->data : NULL), after the mutex is released.  If list_remove has
\* freed the node p meanwhile, anything may be there: what was, the entry of a
\* new node, a null pointer, which ends the search, or an address that ends the
\* process.
FindData(t) ==
    /\ pc[t] = "data"
    /\ \/ /\ \/ Match(t, node[t])
             \/ node[t] \notin Listed /\ \E e \in Listed : Match(t, e)
             \/ node[t] \notin Listed /\ Take(t, NULL) /\ Go(t, "close")
          /\ UNCHANGED <<up, items, open, cursor, holds, node_cnt, age, lag, key, sought>>
       \/ node[t] \notin Listed /\ End

\* registration_ts = time(NULL).  The entry may have left the list: no one frees it.
Stamp(t) ==
    /\ pc[t] = "stamp"
    /\ age' = [age EXCEPT ![node[t]] = 0]
    /\ Go(t, "close")
    /\ UNCHANGED <<up, items, open, cursor, holds, node_cnt, lag, node, key, sought>>

CloseFind(t) ==
    /\ pc[t] \in {"missed", "close"}
    /\ L!Close(t)
    /\ Take(t, NULL)
    /\ key' = [key EXCEPT ![t] = NULL]
    /\ sought' = sought \ {t}
    /\ Go(t, "idle")
    /\ UNCHANGED <<up, node_cnt, age, lag>>

ServiceStep(t) ==
    AppendNode(t) \/ FindNext(t) \/ FindData(t) \/ Stamp(t) \/ CloseFind(t)

-----------------------------------------------------------------------------
(* The sweep of the discovery thread. *)

SweepStart ==
    /\ up /\ pc[SWEEP] = "idle"
    /\ lag' = 0
    /\ L!Create(SWEEP)
    /\ Go(SWEEP, "next")
    /\ UNCHANGED <<up, node_cnt, age, node, key, sought>>

\* Nobody but the sweep removes nodes: list_next reads a node of the list.
SweepNext ==
    /\ pc[SWEEP] = "next"
    /\ L!Advance(SWEEP)
    /\ Take(SWEEP, L!Following(SWEEP))
    /\ Go(SWEEP, IF L!Following(SWEEP) = NULL THEN "close" ELSE "test")
    /\ UNCHANGED <<up, node_cnt, age, lag, key, sought>>

\* Mutant: seconds that passed during the sweep count for the entry.
SweepTestNow ==
    /\ pc[SWEEP] = "test"
    /\ Go(SWEEP, IF age[node[SWEEP]] + lag > TimeoutSecs THEN "remove" ELSE "next")
    /\ UNCHANGED <<up, items, open, cursor, holds, node_cnt, age, lag, node, key, sought>>

\* update_ts - registration_ts > NODE_REGISTRATION_TIMEOUT
SweepTest ==
    /\ pc[SWEEP] = "test"
    /\ Go(SWEEP, IF age[node[SWEEP]] > TimeoutSecs + lag THEN "remove" ELSE "next")
    /\ UNCHANGED <<up, items, open, cursor, holds, node_cnt, age, lag, node, key, sought>>

\* list_remove, and the entry is left to itself.
SweepRemove ==
    /\ pc[SWEEP] = "remove"
    /\ L!RemoveHeld(SWEEP)
    /\ sought' = {t \in sought : key[t] \in ToSet(items')}
    /\ Go(SWEEP, "next")
    /\ UNCHANGED <<up, node_cnt, age, lag, node, key>>

\* Mutant: the iterator stays, and starts the next sweep where this one ended.
SweepStays ==
    /\ pc[SWEEP] = "close"
    /\ lag' = 0
    /\ Go(SWEEP, "next")
    /\ UNCHANGED <<up, items, open, cursor, holds, node_cnt, age, node, key, sought>>

SweepClose ==
    /\ pc[SWEEP] = "close"
    /\ L!Close(SWEEP)
    /\ lag' = 0
    /\ Go(SWEEP, "idle")
    /\ UNCHANGED <<up, node_cnt, age, node, key, sought>>

Sweep == SweepStart \/ SweepNext \/ SweepTest \/ SweepRemove \/ SweepClose

-----------------------------------------------------------------------------

\* A second passes.
Tick ==
    /\ up
    /\ pc[SWEEP] # "idle" => lag < MaxLag
    /\ lag' = IF pc[SWEEP] = "idle" THEN lag ELSE lag + 1
    /\ age' = [e \in Entry |-> IF e <= node_cnt /\ age[e] < MaxAge
                               THEN age[e] + 1 ELSE age[e]]
    /\ UNCHANGED <<up, items, open, cursor, holds, node_cnt, pc, node, key, sought>>

Next ==
    \/ Start \/ Stop \/ Sweep \/ Tick
    \/ \E t \in Thread : \/ Create(t) \/ \E id \in Entry : RespPong(t, id)
                         \/ ServiceStep(t)

Spec == Init /\ [][Next]_vars

\* usleep returns, and threads that have work go on.
FairSpec == Spec /\ WF_vars(Sweep) /\ \A t \in Thread : WF_vars(ServiceStep(t))

-----------------------------------------------------------------------------
(* What the controller relies on. *)

\* The sweep's iterator holds the entry it has tested until it removes it, with
\* entries appended meanwhile.
SweepHolds ==
    pc[SWEEP] \in {"test", "remove"} =>
        /\ SWEEP \in open /\ holds[SWEEP]
        /\ items[cursor[SWEEP]] = node[SWEEP]

\* A pong of a daemon that is in the list finds its entry, wherever the sweep is
\* and whatever it removes in between.  Only a search that has read a node freed
\* under it (FindData) ends early.
FindsListed == \A t \in Thread : pc[t] = "missed" => t \notin sought

\* An entry is a member from its registration until the sweep condemns it, also
\* if a pong comes between the test and the removal.  So the calls of the threads
\* amount to members that join, are renewed one at a time and leave only after
\* more than TimeoutSecs without a pong.
Pending == {node[t] : t \in {s \in Thread : pc[s] = "append"}}
Condemned == IF pc[SWEEP] = "remove" THEN {node[SWEEP]} ELSE {}
members ==
    {[rank |-> e, age |-> IF age[e] > TimeoutSecs THEN TimeoutSecs + 1 ELSE age[e]] :
        e \in (Listed \cup Pending) \ Condemned}

Members == INSTANCE Membership WITH running <- up
ImplementsMembership == Members!Spec

\* An entry that gets no pong leaves the list, although others come and are
\* renewed while the sweep is under way.
ExpiredLeave ==
    \A e \in Entry : (e \in Listed /\ age[e] > TimeoutSecs)
                        ~> (e \notin Listed \/ age[e] = 0)

=============================================================================
