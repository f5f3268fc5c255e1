----------------------------- MODULE Membership -----------------------------
(***************************************************************************)
(* What the controller promises about its list of nodes, without messages, *)
(* threads or list calls: a member joins once, is renewed when it is heard *)
(* of, and leaves only when it has been silent for longer than the timeout *)
(* or with the controller itself.  Cluster and NodeList implement it.      *)
(***************************************************************************)
EXTENDS Naturals

CONSTANT TimeoutSecs  \* NODE_REGISTRATION_TIMEOUT

VARIABLES
    running,  \* the controller runs
    members   \* records with a rank, the order in which they joined, and an age

memberVars == <<running, members>>

Init ==
    /\ running = FALSE
    /\ members = {}

Start ==
    /\ ~running
    /\ running' = TRUE
    /\ members' = {}

Stop ==
    /\ running
    /\ running' = FALSE
    /\ members' = {}

\* One member joins, behind all others.
Join ==
    /\ running
    /\ \E m \in members' :
          /\ m.age = 0
          /\ \A n \in members : n.rank < m.rank
          /\ members' = members \cup {m}
    /\ UNCHANGED running

\* One member is heard of, and no other changes.
Renew ==
    /\ \E m \in members :
          members' = (members \ {m}) \cup {[m EXCEPT !.age = 0]}
    /\ UNCHANGED running

\* Members leave, each of them silent for too long.
Leave ==
    /\ members' \subseteq members
    /\ \A m \in members \ members' : m.age > TimeoutSecs
    /\ UNCHANGED running

\* A second passes.  Beyond the timeout ages are not told apart.
Pass ==
    /\ members' = {[m EXCEPT !.age = IF @ > TimeoutSecs THEN @ ELSE @ + 1] :
                      m \in members}
    /\ UNCHANGED running

Next == Start \/ Stop \/ Join \/ Renew \/ Leave \/ Pass

Spec == Init /\ [][Next]_memberVars

=============================================================================
