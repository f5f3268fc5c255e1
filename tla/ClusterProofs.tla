---------------------------- MODULE ClusterProofs ----------------------------
(***************************************************************************)
(* Proofs about Cluster for any number of daemons, restarts and ids.       *)
(***************************************************************************)
EXTENDS Cluster, FiniteSetTheorems, TLAPS

USE ClusterAssumption DEF ClusterAssumption

\* The id of a new entry fits its 16 bits, whatever node_cnt was loaded.
LEMMA NextIdType == \A cnt \in Nat : NextId(cnt) \in IdType
  BY SMT DEF NextId, IdType

\* Every step of the controller's own threads keeps the types.
LEMMA CtlType ==
    ASSUME TypeOK,
           CtlStart \/ CtlStop \/ SendDiscovery \/ UpdateNodeList
    PROVE  TypeOK'
<1>1. CASE CtlStart
  <2>1. ctl_starts' \in 0 .. MaxStarts /\ ctrlr_startup_ts' \in 0 .. ctl_starts'
    BY <1>1 DEF TypeOK, CtlStart
  <2> QED
    BY <1>1, <2>1 DEF TypeOK, CtlStart, NoNodes, nodeVars, confVars, linkVars
<1>2. CASE CtlStop
  BY <1>2 DEF TypeOK, CtlStop, NoNodes, nodeVars, confVars, linkVars
<1>3. CASE SendDiscovery
  BY <1>3 DEF TypeOK, SendDiscovery, Datagram, ctlVars, listVars, nodeVars,
              confVars, linkVars
<1>4. CASE UpdateNodeList
  BY <1>4 DEF TypeOK, UpdateNodeList, Sweep, ctlVars, nodeVars, confVars, linkVars
<1> QED  BY <1>1, <1>2, <1>3, <1>4

\* So does every step of its service threads.
LEMMA ServiceType ==
    ASSUME TypeOK,
           \/ \E r \in requests : LoadNodeCnt(r)
           \/ \E h \in handling : ReqRegister(h)
           \/ \E p \in pongs : RespPong(p)
    PROVE  TypeOK'
<1>1. CASE \E r \in requests : LoadNodeCnt(r)
  BY <1>1 DEF TypeOK, LoadNodeCnt, ctlVars, listVars, nodeVars, confVars,
              linkVars
<1>2. ASSUME NEW h \in handling, ReqRegister(h)  PROVE TypeOK'
  <2>1. h.req \in Process /\ h.req.node \in Node /\ h.cnt \in Nat
    BY DEF TypeOK, Process
  <2>2. NextId(h.cnt) \in IdType
    BY <2>1, NextIdType
  <2>3. [rank |-> registered, owner |-> h.req, id |-> NextId(h.cnt), age |-> 0]
          \in Entry
    BY <2>1, <2>2 DEF Entry, TypeOK
  <2>4. cluster_node_list' \subseteq Entry /\ issued' \subseteq Process \X IdType
    BY <1>2, <2>1, <2>2, <2>3 DEF TypeOK, ReqRegister, Registers
  <2>5. reply' \in [Node -> 0 .. IdSpace]
    BY <1>2, <2>1, <2>2 DEF TypeOK, ReqRegister, Registers, IdType
  <2> QED
    BY <1>2, <2>1, <2>4, <2>5 DEF TypeOK, ReqRegister, Registers, ctlVars, nodeVars, confVars
<1>3. ASSUME NEW p \in pongs, RespPong(p)  PROVE TypeOK'
  <2>1. \A e \in Entry : [e EXCEPT !.age = 0] \in Entry
    BY DEF Entry
  <2>2. cluster_node_list' \subseteq Entry
    BY <1>3, <2>1 DEF TypeOK, RespPong, Heard
  <2> QED
    BY <1>3, <2>2 DEF TypeOK, RespPong, Heard, ctlVars, nodeVars, confVars, linkVars
<1> QED  BY <1>1, <1>2, <1>3

\* So does every step of a daemon.
LEMMA NodeType ==
    ASSUME TypeOK, NEW n \in Node,
           \/ NodeStart(n) \/ NodeStop(n) \/ Handle(n)
           \/ RespRegister(n) \/ RespRegisterLost(n)
    PROVE  TypeOK'
<1> USE DEF ctlVars, listVars, confVars
<1>0. 0 \in IdType /\ NoReply \in 0 .. IdSpace
  BY DEF IdType, NoReply
<1>1. CASE NodeStart(n)
  BY <1>0, <1>1 DEF TypeOK, NodeStart, FreshProcess
<1>2. CASE NodeStop(n)
  BY <1>0, <1>2 DEF TypeOK, NodeStop, FreshProcess
<1>3. ASSUME NEW d \in mcast[n], Register(n, d)  PROVE TypeOK'
  <2>1. Self(n) \in Process /\ d \in Datagram /\ d.ts \in 0 .. MaxStarts
    BY DEF TypeOK, Self, Process, Datagram
  <2> QED
    BY <1>3, <2>1 DEF TypeOK, Register, Consumes
<1>4. ASSUME NEW d \in mcast[n], RegisterRefused(n, d)  PROVE TypeOK'
  <2>1. d \in Datagram /\ d.ts \in 0 .. MaxStarts
    BY DEF TypeOK, Datagram
  <2>2. WildId \subseteq IdType
    BY DEF IdType
  <2> QED
    BY <1>2, <1>4, <2>1, <2>2 DEF TypeOK, RegisterRefused, Consumes
<1>5. ASSUME NEW d \in mcast[n], Pong(n, d)  PROVE TypeOK'
  <2>1. pongs' \subseteq Pongs
    BY <1>5 DEF TypeOK, Pong, Pongs
  <2>2. fds' \in [Node -> 0 .. FdLimit]
    BY <1>5 DEF TypeOK, Pong, Connects
  <2>3. mcast' \in [Node -> SUBSET Datagram] /\ misses' \in [Node -> 0 .. MaxMiss]
    BY <1>5 DEF TypeOK, Pong, Consumes
  <2> QED
    BY <1>5, <2>1, <2>2, <2>3 DEF TypeOK, Pong
<1>6. CASE RespRegister(n)
  <2>1. reply[n] \in IdType
    BY <1>6 DEF TypeOK, RespRegister, NoReply, IdType
  <2> QED
    BY <1>0, <1>6, <2>1 DEF TypeOK, RespRegister
<1>7. CASE RespRegisterLost(n)
  BY <1>0, <1>2, <1>7 DEF TypeOK, RespRegisterLost
<1> QED  BY <1>1, <1>2, <1>3, <1>4, <1>5, <1>6, <1>7 DEF Handle

\* So do the network and the clock.
LEMMA WorldType ==
    ASSUME TypeOK,
           \/ Tick
           \/ \E n \in Node : \E d \in mcast[n] : Lose(n, d)
    PROVE  TypeOK'
<1>1. CASE Tick
  <2>1. \A e \in Entry : Older(e) \in Entry
    BY DEF Entry, Older
  <2>2. cluster_node_list' \subseteq Entry
    BY <1>1, <2>1 DEF TypeOK, Tick
  <2> QED
    BY <1>1, <2>2 DEF TypeOK, Tick, ctlVars, nodeVars, confVars, linkVars
<1>2. CASE \E n \in Node : \E d \in mcast[n] : Lose(n, d)
  BY <1>2 DEF TypeOK, Lose, ctlVars, listVars, nodeVars, confVars
<1> QED  BY <1>1, <1>2

\* Every step keeps the types.
LEMMA TypeStep == TypeOK /\ [Next]_vars => TypeOK'
<1> SUFFICES ASSUME TypeOK, [Next]_vars  PROVE TypeOK'
  OBVIOUS
<1>1. CASE UNCHANGED vars
  BY <1>1 DEF TypeOK, vars, ctlVars, listVars, nodeVars, confVars, linkVars
<1>2. CASE Next
  BY <1>2, CtlType, ServiceType, NodeType, WorldType DEF Next
<1> QED  BY <1>1, <1>2

\* So does the initial state.
LEMMA InitType == Init => TypeOK
<1> SUFFICES ASSUME Init  PROVE TypeOK
  OBVIOUS
<1>1. ctl_starts \in 0 .. MaxStarts /\ ctrlr_startup_ts \in 0 .. ctl_starts
  BY DEF Init
<1>2. /\ starts \in [Node -> 0 .. MaxNodeStarts]
      /\ ctrlr_ts \in [Node -> 0 .. MaxStarts]
      /\ cluster_id \in [Node -> IdType]
      /\ reply \in [Node -> 0 .. IdSpace]
      /\ fds \in [Node -> 0 .. FdLimit]
      /\ misses \in [Node -> 0 .. MaxMiss]
  BY DEF Init, IdType, NoReply
<1> QED
  BY <1>1, <1>2 DEF Init, TypeOK

\* Every variable keeps its type, however many daemons there are.
THEOREM TypeCorrect == Spec => []TypeOK
BY InitType, TypeStep, PTL DEF Spec

-----------------------------------------------------------------------------
(***************************************************************************)
(* Why a daemon never pongs under an id it was not given.  The invariant   *)
(* follows a registration from the datagram that provokes it to the reply; *)
(* every part speaks of the controller that runs now, since its start-up   *)
(* time is above every other in the system.                                *)
(***************************************************************************)

\* No start-up time is ahead of the controller's, and a running one has one.
TsBound ==
    /\ ctl_up => ctrlr_startup_ts > 0
    /\ \A n \in Node : ctrlr_ts[n] <= ctrlr_startup_ts

\* A datagram that carries the current start-up time carries the current port.
DatagramCurrent ==
    \A n \in Node : \A d \in mcast[n] :
       /\ d.ts <= ctrlr_startup_ts
       /\ ctl_up /\ d.ts = ctrlr_startup_ts => d.port = port

\* A service thread handles a request nobody else handles.
HandlingPending ==
    /\ \A h \in handling : h.req \in requests
    /\ \A g, h \in handling : g.req = h.req => g = h

\* A request is from a process that exists or existed; if that process still
\* runs it is waiting for the reply.
RequestAwaited ==
    /\ \A r \in requests : r.inc <= starts[r.node]
    /\ \A n \in Node : up[n] /\ Self(n) \in requests =>
          phase[n] = "await" /\ reply[n] = NoReply

\* Only a running process waits, and a reply is read by the one it was sent to.
AwaitShape ==
    \A n \in Node : /\ phase[n] = "await" => up[n]
                    /\ phase[n] = "recv" => reply[n] = NoReply

\* The current controller owes every process that waits for it a reply.
ReplyOwed ==
    \A n \in Node :
       ctl_up /\ phase[n] = "await" /\ ctrlr_ts[n] = ctrlr_startup_ts =>
          Self(n) \in requests \/ reply[n] # NoReply

\* A reply that a process of the current controller can read is an issued id.
ReplyIssued ==
    \A n \in Node :
       ctl_up /\ reply[n] # NoReply /\ ctrlr_ts[n] = ctrlr_startup_ts =>
          <<Self(n), reply[n]>> \in issued

IssueInv ==
    /\ TypeOK
    /\ TsBound
    /\ DatagramCurrent
    /\ HandlingPending
    /\ RequestAwaited
    /\ AwaitShape
    /\ ReplyOwed
    /\ ReplyIssued
    /\ HoldsIssuedId

\* The new controller's start-up time is above every one a daemon has seen.
LEMMA CtlIssue ==
    ASSUME SlowRestart, IssueInv,
           CtlStart \/ CtlStop \/ SendDiscovery \/ UpdateNodeList
    PROVE  /\ TsBound' /\ DatagramCurrent' /\ HandlingPending' /\ RequestAwaited'
           /\ AwaitShape' /\ ReplyOwed' /\ ReplyIssued' /\ HoldsIssuedId'
<1> USE DEF ctlVars, listVars, nodeVars, confVars, linkVars
<1>1. CASE CtlStart
  <2>1. ctrlr_startup_ts' = ctrlr_startup_ts + 1 /\ ctrlr_startup_ts \in Nat
    BY <1>1 DEF CtlStart, IssueInv, TypeOK
  <2>2. \A n \in Node : ctrlr_ts'[n] < ctrlr_startup_ts'
    BY <1>1, <2>1 DEF CtlStart, IssueInv, TypeOK, TsBound
  <2>3. TsBound'
    BY <1>1, <2>1 DEF CtlStart, IssueInv, TypeOK, TsBound
  <2>4. DatagramCurrent'
    BY <1>1, <2>1 DEF CtlStart, IssueInv, TypeOK, Datagram, DatagramCurrent
  <2>5. HandlingPending' /\ RequestAwaited' /\ AwaitShape'
    BY <1>1 DEF CtlStart, NoNodes, IssueInv, HandlingPending, RequestAwaited,
                AwaitShape, Self
  <2>6. ReplyOwed' /\ ReplyIssued' /\ HoldsIssuedId'
    BY <1>1, <2>1, <2>2
       DEF IssueInv, TypeOK, ReplyOwed, ReplyIssued, HoldsIssuedId, Settled
  <2> QED  BY <2>3, <2>4, <2>5, <2>6
<1>2. CASE CtlStop
  BY <1>2 DEF CtlStop, NoNodes, IssueInv, TsBound, DatagramCurrent,
              HandlingPending, RequestAwaited, AwaitShape, ReplyOwed,
              ReplyIssued, HoldsIssuedId, Settled, Self
<1>3. CASE SendDiscovery
  <2>1. DatagramCurrent'
    BY <1>3 DEF SendDiscovery, IssueInv, TypeOK, DatagramCurrent
  <2> QED
    BY <1>3, <2>1 DEF SendDiscovery, IssueInv, TsBound, HandlingPending,
              RequestAwaited, AwaitShape, ReplyOwed, ReplyIssued, HoldsIssuedId,
              Settled, Self
<1>4. CASE UpdateNodeList
  BY <1>4 DEF UpdateNodeList, Sweep, IssueInv, TsBound, DatagramCurrent,
              HandlingPending, RequestAwaited, AwaitShape, ReplyOwed,
              ReplyIssued, HoldsIssuedId, Settled, Self
<1> QED  BY <1>1, <1>2, <1>3, <1>4

\* A registration answers exactly the process that waits for it.
LEMMA ServiceIssue ==
    ASSUME IssueInv,
           \/ \E r \in requests : LoadNodeCnt(r)
           \/ \E h \in handling : ReqRegister(h)
           \/ \E p \in pongs : RespPong(p)
    PROVE  /\ TsBound' /\ DatagramCurrent' /\ HandlingPending' /\ RequestAwaited'
           /\ AwaitShape' /\ ReplyOwed' /\ ReplyIssued' /\ HoldsIssuedId'
<1> USE DEF ctlVars, listVars, nodeVars, confVars, linkVars
<1>1. CASE \E r \in requests : LoadNodeCnt(r)
  BY <1>1 DEF LoadNodeCnt, IssueInv, TsBound, DatagramCurrent,
              HandlingPending, RequestAwaited, AwaitShape, ReplyOwed,
              ReplyIssued, HoldsIssuedId, Settled, Self
<1>2. ASSUME NEW h \in handling, ReqRegister(h)
      PROVE  /\ TsBound' /\ DatagramCurrent' /\ HandlingPending'
             /\ RequestAwaited' /\ AwaitShape' /\ ReplyOwed' /\ ReplyIssued'
             /\ HoldsIssuedId'
  <2> DEFINE r == h.req
             id == NextId(h.cnt)
  <2>1. r \in requests /\ r \in Process /\ r.node \in Node /\ id \in IdType
    BY NextIdType DEF IssueInv, TypeOK, HandlingPending, Process
  <2>2. /\ requests' = requests \ {r}
        /\ handling' = handling \ {h}
        /\ issued' = issued \cup {<<r, id>>}
        /\ reply' = IF up[r.node] /\ Self(r.node) = r
                    THEN [reply EXCEPT ![r.node] = id] ELSE reply
        /\ UNCHANGED <<ctlVars, up, starts, ctrlr_ts, cluster_id, phase, mcast>>
    BY <1>2 DEF ReqRegister, Registers
  <2>3. \A n \in Node : Self(n)' = Self(n) /\ Self(n).node = n
    BY <2>2 DEF Self
  <2>4. \A n \in Node : reply'[n] # reply[n] => up[n] /\ Self(n) = r /\ reply'[n] = id
    BY <2>1, <2>2 DEF IssueInv, TypeOK
  <2>5. \A n \in Node : up[n] /\ Self(n) = r => reply'[n] = id /\ phase[n] = "await"
    BY <2>1, <2>2, <2>3 DEF IssueInv, TypeOK, RequestAwaited
  <2>6. id # NoReply
    BY <2>1 DEF IdType, NoReply
  <2>7. TsBound' /\ DatagramCurrent'
    BY <2>2 DEF IssueInv, TsBound, DatagramCurrent
  <2>8. HandlingPending'
    BY <2>2 DEF IssueInv, HandlingPending
  <2>9. RequestAwaited'
    <3>1. \A q \in requests' : q.inc <= starts'[q.node]
      BY <2>2 DEF IssueInv, RequestAwaited
    <3>2. ASSUME NEW n \in Node, up'[n], Self(n)' \in requests'
          PROVE  phase'[n] = "await" /\ reply'[n] = NoReply
      BY <2>2, <2>3, <2>4, <3>2 DEF IssueInv, RequestAwaited
    <3> QED  BY <3>1, <3>2 DEF RequestAwaited
  <2>10. AwaitShape'
    <3>1. ASSUME NEW n \in Node, phase[n] = "recv"  PROVE reply'[n] = NoReply
      BY <2>4, <2>5, <3>1 DEF IssueInv, AwaitShape
    <3> QED  BY <2>2, <3>1 DEF IssueInv, AwaitShape
  <2>11. ReplyOwed'
    <3> SUFFICES ASSUME NEW n \in Node, ctl_up, phase[n] = "await",
                        ctrlr_ts[n] = ctrlr_startup_ts
                 PROVE  Self(n) \in requests' \/ reply'[n] # NoReply
      BY <2>2, <2>3 DEF ReplyOwed
    <3>1. up[n]
      BY DEF IssueInv, AwaitShape
    <3>2. Self(n) \in requests \/ reply[n] # NoReply
      BY DEF IssueInv, ReplyOwed
    <3> QED  BY <2>2, <2>4, <2>5, <2>6, <3>1, <3>2
  <2>12. ReplyIssued'
    BY <2>2, <2>3, <2>4 DEF IssueInv, ReplyIssued
  <2>13. HoldsIssuedId'
    BY <2>2, <2>3 DEF IssueInv, HoldsIssuedId, Settled
  <2> QED  BY <2>7, <2>8, <2>9, <2>10, <2>11, <2>12, <2>13
<1>3. CASE \E p \in pongs : RespPong(p)
  BY <1>3 DEF RespPong, Heard, IssueInv, TsBound, DatagramCurrent,
              HandlingPending, RequestAwaited, AwaitShape, ReplyOwed,
              ReplyIssued, HoldsIssuedId, Settled, Self
<1> QED  BY <1>1, <1>2, <1>3

\* A daemon takes on a start-up time only with a request, whose reply is the only
\* thing it will read: a refused connection shows that the time is an old one.
LEMMA NodeIssue ==
    ASSUME ~FdsCounted, RemoteNode = {}, IssueInv, NEW n \in Node,
           \/ NodeStart(n) \/ NodeStop(n) \/ Handle(n)
           \/ RespRegister(n) \/ RespRegisterLost(n)
    PROVE  /\ TsBound' /\ DatagramCurrent' /\ HandlingPending' /\ RequestAwaited'
           /\ AwaitShape' /\ ReplyOwed' /\ ReplyIssued' /\ HoldsIssuedId'
<1> USE DEF ctlVars, listVars, confVars
<1>1. CASE NodeStart(n)
  BY <1>1 DEF NodeStart, FreshProcess, IssueInv, TsBound, DatagramCurrent,
              HandlingPending, RequestAwaited, AwaitShape, ReplyOwed,
              ReplyIssued, HoldsIssuedId, Settled, Self,
              TypeOK, Process
<1>2. CASE NodeStop(n)
  BY <1>2 DEF NodeStop, FreshProcess, IssueInv, TsBound, DatagramCurrent,
              HandlingPending, RequestAwaited, AwaitShape, ReplyOwed,
              ReplyIssued, HoldsIssuedId, Settled, Self, TypeOK
<1>3. ASSUME NEW d \in mcast[n], Register(n, d)
      PROVE  /\ TsBound' /\ DatagramCurrent' /\ HandlingPending' /\ RequestAwaited'
           /\ AwaitShape' /\ ReplyOwed' /\ ReplyIssued' /\ HoldsIssuedId'
  BY <1>3 DEF Register, Receives, Consumes, IssueInv, TsBound, DatagramCurrent,
              HandlingPending, RequestAwaited, AwaitShape, ReplyOwed,
              ReplyIssued, HoldsIssuedId, Settled, Self,
              TypeOK, Datagram, Process
<1>4. ASSUME NEW d \in mcast[n], RegisterRefused(n, d)
      PROVE  /\ TsBound' /\ DatagramCurrent' /\ HandlingPending' /\ RequestAwaited'
           /\ AwaitShape' /\ ReplyOwed' /\ ReplyIssued' /\ HoldsIssuedId'
  BY <1>2, <1>4 DEF RegisterRefused, Receives, Connects, Consumes, IssueInv, TsBound,
              DatagramCurrent,
              HandlingPending, RequestAwaited, AwaitShape, ReplyOwed,
              ReplyIssued, HoldsIssuedId, Settled, Self,
              TypeOK, Datagram
<1>5. ASSUME NEW d \in mcast[n], Pong(n, d)
      PROVE  /\ TsBound' /\ DatagramCurrent' /\ HandlingPending' /\ RequestAwaited'
           /\ AwaitShape' /\ ReplyOwed' /\ ReplyIssued' /\ HoldsIssuedId'
  BY <1>5 DEF Pong, Consumes, IssueInv, TsBound, DatagramCurrent,
              HandlingPending, RequestAwaited, AwaitShape, ReplyOwed,
              ReplyIssued, HoldsIssuedId, Settled, Self,
              TypeOK
<1>6. CASE RespRegister(n)
  BY <1>6 DEF RespRegister, IssueInv, TsBound, DatagramCurrent,
              HandlingPending, RequestAwaited, AwaitShape, ReplyOwed,
              ReplyIssued, HoldsIssuedId, Settled, Self,
              TypeOK
<1>7. CASE RespRegisterLost(n)
  BY <1>2, <1>7 DEF RespRegisterLost, IssueInv, TsBound, DatagramCurrent,
              HandlingPending, RequestAwaited, AwaitShape, ReplyOwed,
              ReplyIssued, HoldsIssuedId, Settled, Self,
              TypeOK
<1> QED  BY <1>1, <1>2, <1>3, <1>4, <1>5, <1>6, <1>7 DEF Handle

\* Time and a lost datagram change none of it.
LEMMA WorldIssue ==
    ASSUME IssueInv,
           \/ Tick
           \/ \E n \in Node : \E d \in mcast[n] : Lose(n, d)
    PROVE  /\ TsBound' /\ DatagramCurrent' /\ HandlingPending' /\ RequestAwaited'
           /\ AwaitShape' /\ ReplyOwed' /\ ReplyIssued' /\ HoldsIssuedId'
<1> USE DEF ctlVars, listVars, nodeVars, confVars, linkVars
<1>1. CASE Tick
  BY <1>1 DEF Tick, IssueInv, TsBound, DatagramCurrent,
              HandlingPending, RequestAwaited, AwaitShape, ReplyOwed,
              ReplyIssued, HoldsIssuedId, Settled, Self
<1>2. CASE \E n \in Node : \E d \in mcast[n] : Lose(n, d)
  BY <1>2 DEF Lose, IssueInv, TsBound, DatagramCurrent,
              HandlingPending, RequestAwaited, AwaitShape, ReplyOwed,
              ReplyIssued, HoldsIssuedId, Settled, Self, TypeOK
<1> QED  BY <1>1, <1>2

\* The whole chain holds throughout.
LEMMA AlwaysIssued ==
    ASSUME SlowRestart, ~FdsCounted, RemoteNode = {}
    PROVE  Spec => []IssueInv
<1>1. Init => IssueInv
  <2> SUFFICES ASSUME Init  PROVE IssueInv
    OBVIOUS
  <2>1. TypeOK
    BY InitType
  <2>2. TsBound /\ DatagramCurrent /\ HandlingPending /\ RequestAwaited
    BY DEF Init, TsBound, DatagramCurrent, HandlingPending, RequestAwaited
  <2>3. AwaitShape /\ ReplyOwed /\ ReplyIssued /\ HoldsIssuedId
    BY DEF Init, AwaitShape, ReplyOwed, ReplyIssued, HoldsIssuedId, Settled
  <2> QED  BY <2>1, <2>2, <2>3 DEF IssueInv
<1>2. IssueInv /\ [Next]_vars => IssueInv'
  <2> SUFFICES ASSUME IssueInv, [Next]_vars  PROVE IssueInv'
    OBVIOUS
  <2>1. TypeOK'
    BY TypeStep DEF IssueInv
  <2>2. CASE UNCHANGED vars
    BY <2>1, <2>2 DEF vars, ctlVars, listVars, nodeVars, confVars, linkVars,
              IssueInv, TsBound, DatagramCurrent,
              HandlingPending, RequestAwaited, AwaitShape, ReplyOwed,
              ReplyIssued, HoldsIssuedId, Settled, Self
  <2>3. CASE Next
    BY <2>1, <2>3, CtlIssue, ServiceIssue, NodeIssue, WorldIssue
       DEF Next, IssueInv
  <2> QED  BY <2>2, <2>3
<1> QED  BY <1>1, <1>2, PTL DEF Spec

\* If a controller restart takes at least a second, every daemon can reach the
\* controller's machine and descriptors never run out, then no daemon ever holds
\* an id that the running controller did not give to that very process while it
\* believes itself registered, whatever is lost, late, restarted or concurrent:
\* the uninitialised response of a failed registration never outlives the
\* controller that refused it.
THEOREM IssuedIds ==
    ASSUME SlowRestart, ~FdsCounted, RemoteNode = {}
    PROVE  Spec => []HoldsIssuedId
<1>1. IssueInv => HoldsIssuedId
  BY DEF IssueInv
<1> QED  BY <1>1, AlwaysIssued, PTL

-----------------------------------------------------------------------------
(***************************************************************************)
(* Why ids are distinct when no two registrations are handled at a time.   *)
(***************************************************************************)

\* The one service thread that registers a node has loaded the present count,
\* which is the number of registrations.
CountHeld ==
    /\ \A g, h \in handling : g = h
    /\ node_cnt = registered
    /\ \A h \in handling : h.cnt = node_cnt

\* Before the 16 bits are used up no id is above the count, so none is given twice.
IssuedOnce ==
    registered < IdSpace =>
       /\ \A q \in issued : q[2] <= registered
       /\ \A q, r \in issued : q[2] = r[2] => q = r

\* An entry carries the id its owner was given.
EntriesIssued == \A e \in cluster_node_list : <<e.owner, e.id>> \in issued

IdInv == TypeOK /\ CountHeld /\ IssuedOnce /\ EntriesIssued

\* With one handler every registration gets an id of its own.
LEMMA IdStep == MaxHandlers <= 1 /\ IdInv /\ [Next]_vars => IdInv'
<1> SUFFICES ASSUME MaxHandlers <= 1, IdInv, [Next]_vars  PROVE IdInv'
  OBVIOUS
<1> USE DEF ctlVars, listVars, nodeVars, confVars, linkVars
<1>0. TypeOK /\ TypeOK'
  BY TypeStep DEF IdInv
<1>1. CASE UNCHANGED <<node_cnt, registered, handling, issued, cluster_node_list>>
  BY <1>0, <1>1 DEF IdInv, CountHeld, IssuedOnce, EntriesIssued
<1>2. CASE CtlStart \/ CtlStop
  BY <1>0, <1>2 DEF CtlStart, CtlStop, NoNodes, IdInv, CountHeld, IssuedOnce,
                    EntriesIssued
<1>3. CASE UpdateNodeList
  BY <1>0, <1>3 DEF UpdateNodeList, Sweep, IdInv, CountHeld, IssuedOnce,
                    EntriesIssued
<1>5. CASE Tick
  <2>1. \A e \in cluster_node_list : Older(e).owner = e.owner /\ Older(e).id = e.id
    BY <1>0 DEF TypeOK, Entry, Older
  <2>2. cluster_node_list' = {Older(e) : e \in cluster_node_list}
    BY <1>5 DEF Tick
  <2>3. EntriesIssued'
    BY <1>5, <2>1, <2>2 DEF Tick, IdInv, EntriesIssued
  <2> QED  BY <1>0, <1>5, <2>3 DEF Tick, IdInv, CountHeld, IssuedOnce
<1>6. ASSUME NEW p \in pongs, RespPong(p)  PROVE IdInv'
  <2> DEFINE Stamp(e) == IF Found(e, p.id) THEN [e EXCEPT !.age = 0] ELSE e
  <2>1. cluster_node_list' = {Stamp(e) : e \in cluster_node_list}
    BY <1>6 DEF RespPong, Heard
  <2>2. \A e \in cluster_node_list : Stamp(e).owner = e.owner /\ Stamp(e).id = e.id
    BY <1>0 DEF TypeOK, Entry
  <2> HIDE DEF Stamp
  <2>3. EntriesIssued'
    BY <1>6, <2>1, <2>2 DEF RespPong, Heard, IdInv, EntriesIssued
  <2> QED  BY <1>0, <1>6, <2>3 DEF RespPong, Heard, IdInv, CountHeld, IssuedOnce
<1>7. ASSUME NEW r \in requests, LoadNodeCnt(r)  PROVE IdInv'
  <2>1. handling = {}
    <3>1. ASSUME NEW h \in handling  PROVE FALSE
      <4>1. handling = {h}
        BY DEF IdInv, CountHeld
      <4>2. Cardinality(handling) = 1
        BY <4>1, FS_Singleton
      <4> QED  BY <1>7, <4>2 DEF LoadNodeCnt
    <3> QED  BY <3>1
  <2> QED
    BY <1>0, <1>7, <2>1 DEF LoadNodeCnt, IdInv, CountHeld, IssuedOnce, EntriesIssued
<1>8. ASSUME NEW h \in handling, ReqRegister(h)  PROVE IdInv'
  <2> DEFINE id == NextId(h.cnt)
             new == [rank |-> registered, owner |-> h.req, id |-> id, age |-> 0]
  <2>1. /\ handling' = handling \ {h} /\ node_cnt' = h.cnt + 1
        /\ registered' = registered + 1
        /\ issued' = issued \cup {<<h.req, id>>}
        /\ cluster_node_list' = cluster_node_list \cup {new}
    BY <1>8 DEF ReqRegister, Registers
  <2>2. h.cnt = registered /\ registered \in Nat
    BY <1>0 DEF IdInv, CountHeld, TypeOK
  <2>3. CountHeld'
    BY <2>1, <2>2 DEF IdInv, CountHeld
  <2>4. ASSUME registered' < IdSpace  PROVE id = registered + 1
    BY <2>1, <2>2, <2>4, SMT DEF NextId
  <2>5. ASSUME registered' < IdSpace
        PROVE  /\ \A q \in issued : q[2] <= registered
               /\ \A q, r \in issued : q[2] = r[2] => q = r
    BY <2>1, <2>2, <2>5 DEF IdInv, IssuedOnce
  <2>6. \A q \in issued : q[2] \in Nat
    BY <1>0 DEF TypeOK, IdType
  <2> HIDE DEF id
  <2>7. IssuedOnce'
    BY <2>1, <2>2, <2>4, <2>5, <2>6 DEF IssuedOnce
  <2>8. EntriesIssued'
    <3>1. new.owner = h.req /\ new.id = id
      OBVIOUS
    <3> HIDE DEF new
    <3> QED  BY <2>1, <3>1 DEF IdInv, EntriesIssued
  <2> QED  BY <1>0, <2>3, <2>7, <2>8 DEF IdInv
<1>9. CASE \/ UNCHANGED vars \/ SendDiscovery
           \/ \E n \in Node :
                 \/ NodeStart(n) \/ NodeStop(n)
                 \/ Handle(n) \/ RespRegister(n) \/ RespRegisterLost(n)
                 \/ \E d \in mcast[n] : Lose(n, d)
  BY <1>1, <1>9 DEF vars, SendDiscovery, NodeStart, NodeStop, Handle, Register,
                    RegisterRefused, Pong, RespRegister, RespRegisterLost, Lose
<1> QED  BY <1>2, <1>3, <1>5, <1>6, <1>7, <1>8, <1>9 DEF Next

\* A settled daemon and an entry with its id have the same process behind them.
LEMMA OwnersAgree ==
    ASSUME IdInv, HoldsIssuedId
    PROVE  DistinctIds /\ RenewsOwn
<1>1. ASSUME registered < IdSpace, NEW m \in Node, NEW n \in Node,
             Settled(m), Settled(n), cluster_id[m] = cluster_id[n]
      PROVE  m = n
  <2>1. <<Self(m), cluster_id[m]>> \in issued /\ <<Self(n), cluster_id[n]>> \in issued
    BY <1>1 DEF HoldsIssuedId
  <2>2. Self(m) = Self(n)
    BY <1>1, <2>1 DEF IdInv, IssuedOnce
  <2> QED  BY <2>2 DEF Self
<1>2. ASSUME registered < IdSpace, NEW n \in Node, NEW e \in cluster_node_list,
             Settled(n), Found(e, cluster_id[n])
      PROVE  e.owner = Self(n)
  <2>1. <<Self(n), cluster_id[n]>> \in issued /\ <<e.owner, e.id>> \in issued
    BY <1>2 DEF HoldsIssuedId, IdInv, EntriesIssued
  <2> QED  BY <1>2, <2>1 DEF Found, IdInv, IssuedOnce
<1> QED  BY <1>1, <1>2 DEF DistinctIds, RenewsOwn

\* Both hold throughout, with one handler.
LEMMA AlwaysAgree ==
    ASSUME SlowRestart, ~FdsCounted, RemoteNode = {}, MaxHandlers <= 1
    PROVE  Spec => [](DistinctIds /\ RenewsOwn)
<1>1. Init => IdInv
  BY InitType DEF Init, IdInv, CountHeld, IssuedOnce, EntriesIssued
<1>2. IdInv /\ [Next]_vars => IdInv'
  BY IdStep
<1>3. IdInv /\ HoldsIssuedId => DistinctIds /\ RenewsOwn
  BY OwnersAgree
<1> QED  BY <1>1, <1>2, <1>3, IssuedIds, PTL DEF Spec

\* Under the assumptions of IssuedIds, if the controller never handles two
\* registrations at a time, then no two settled daemons share an id before the
\* ids are used up, however many daemons and restarts there are.
THEOREM IdsAreDistinct ==
    ASSUME SlowRestart, ~FdsCounted, RemoteNode = {}, MaxHandlers <= 1
    PROVE  Spec => []DistinctIds
BY AlwaysAgree, PTL

\* ... and the pongs of a settled daemon renew its own entry and no other.
THEOREM PongsRenewOwn ==
    ASSUME SlowRestart, ~FdsCounted, RemoteNode = {}, MaxHandlers <= 1
    PROVE  Spec => []RenewsOwn
BY AlwaysAgree, PTL

-----------------------------------------------------------------------------
(* Cluster implements Membership, for any number of daemons and starts, any     *)
(* delays and losses, concurrent registrations and ids that wrap.               *)

\* Entries are appended one behind the other, each in a place of its own.
RanksDiffer ==
    /\ \A e \in cluster_node_list : e.rank < registered
    /\ \A e, f \in cluster_node_list : e.rank = f.rank => e = f

\* A controller that does not run has no entries.
ListInv ==
    /\ TypeOK
    /\ RanksDiffer
    /\ ~ctl_up => cluster_node_list = {} /\ handling = {} /\ pongs = {}
                /\ requests = {}

\* Time and a stamp change the age of an entry only.
LEMMA OlderKeeps ==
    ASSUME NEW e \in Entry
    PROVE  /\ Older(e).rank = e.rank
           /\ Older(e) = [e EXCEPT !.age = IF @ > TimeoutSecs THEN @ ELSE @ + 1]
  BY DEF Older, Entry

\* Every step keeps the order of the entries.
LEMMA ListStep == ListInv /\ [Next]_vars => ListInv'
<1> SUFFICES ASSUME ListInv, [Next]_vars  PROVE ListInv'
  OBVIOUS
<1> USE DEF ctlVars, listVars, nodeVars, confVars, linkVars
<1>0. TypeOK /\ TypeOK'
  BY TypeStep DEF ListInv
<1> DEFINE Same == UNCHANGED <<ctl_up, cluster_node_list, registered, handling>>
<1>1. ASSUME Same, ~ctl_up => pongs' = {} /\ requests' = {}  PROVE ListInv'
  BY <1>0, <1>1 DEF ListInv, RanksDiffer
<1>2. CASE UNCHANGED vars
  BY <1>1, <1>2 DEF vars, ListInv
<1>3. CASE CtlStart \/ CtlStop
  <2>1. cluster_node_list' = {} /\ handling' = {} /\ pongs' = {}
        /\ requests' = {}
    BY <1>3 DEF CtlStart, CtlStop, NoNodes, ListInv
  <2> QED  BY <1>0, <2>1 DEF ListInv, RanksDiffer
<1>4. CASE SendDiscovery
  BY <1>1, <1>4 DEF SendDiscovery, ListInv
<1>5. CASE UpdateNodeList
  BY <1>0, <1>5 DEF UpdateNodeList, Sweep, ListInv, RanksDiffer
<1>6. CASE Tick
  <2>1. cluster_node_list' = {Older(e) : e \in cluster_node_list}
        /\ UNCHANGED <<ctl_up, registered, handling, pongs, requests>>
    BY <1>6 DEF Tick
  <2>2. \A e \in cluster_node_list : Older(e).rank = e.rank
    BY <1>0, OlderKeeps DEF TypeOK
  <2>3. RanksDiffer'
    BY <2>1, <2>2 DEF ListInv, RanksDiffer
  <2> QED  BY <1>0, <2>1, <2>3 DEF ListInv
<1>7. ASSUME NEW r \in requests, LoadNodeCnt(r)  PROVE ListInv'
  <2>1. ctl_up
    BY DEF ListInv
  <2> QED  BY <1>0, <1>7, <2>1 DEF LoadNodeCnt, ListInv, RanksDiffer
<1>8. ASSUME NEW h \in handling, ReqRegister(h)  PROVE ListInv'
  <2>1. ctl_up
    BY DEF ListInv
  <2> DEFINE new == [rank |-> registered, owner |-> h.req,
                     id |-> NextId(h.cnt), age |-> 0]
  <2>2. /\ cluster_node_list' = cluster_node_list \cup {new}
        /\ registered' = registered + 1 /\ ctl_up' = ctl_up
    BY <1>8 DEF ReqRegister, Registers
  <2>3. RanksDiffer'
    BY <1>0, <2>2 DEF ListInv, RanksDiffer, TypeOK, Entry
  <2> QED  BY <1>0, <2>1, <2>2, <2>3 DEF ListInv
<1>9. ASSUME NEW p \in pongs, RespPong(p)  PROVE ListInv'
  <2>1. ctl_up
    BY DEF ListInv
  <2> DEFINE Stamp(e) == IF Found(e, p.id) THEN [e EXCEPT !.age = 0] ELSE e
  <2>2. /\ cluster_node_list' = {Stamp(e) : e \in cluster_node_list}
        /\ UNCHANGED <<ctl_up, registered>>
    BY <1>9 DEF RespPong, Heard
  <2>3. \A e \in cluster_node_list : Stamp(e).rank = e.rank
    BY <1>0 DEF TypeOK, Entry
  <2> HIDE DEF Stamp
  <2>4. RanksDiffer'
    BY <2>2, <2>3 DEF ListInv, RanksDiffer
  <2> QED  BY <1>0, <2>1, <2>2, <2>4 DEF ListInv
<1>10. ASSUME NEW n \in Node,
              \/ NodeStart(n) \/ NodeStop(n)
              \/ Handle(n) \/ RespRegister(n) \/ RespRegisterLost(n)
              \/ \E d \in mcast[n] : Lose(n, d)
       PROVE  Same /\ (~ctl_up => pongs' = {} /\ requests' = {})
  <2>1. CASE NodeStart(n) \/ NodeStop(n)
    BY <2>1 DEF NodeStart, NodeStop, FreshProcess, ListInv
  <2>2. CASE \E d \in mcast[n] : Register(n, d)
    BY <2>2 DEF Register, Connects, ListInv
  <2>3. CASE \E d \in mcast[n] : RegisterRefused(n, d)
    BY <2>3 DEF RegisterRefused, NodeStop, FreshProcess, ListInv
  <2>4. CASE \E d \in mcast[n] : Pong(n, d)
    BY <2>4 DEF Pong, Connects, ListInv
  <2>5. CASE RespRegister(n) \/ RespRegisterLost(n)
    BY <2>5 DEF RespRegister, RespRegisterLost, NodeStop, FreshProcess, ListInv
  <2>6. CASE \E d \in mcast[n] : Lose(n, d)
    BY <2>6 DEF Lose, ListInv
  <2> QED  BY <1>10, <2>1, <2>2, <2>3, <2>4, <2>5, <2>6 DEF Handle
<1> QED
  BY <1>1, <1>2, <1>3, <1>4, <1>5, <1>6, <1>7, <1>8, <1>9, <1>10 DEF Next

-----------------------------------------------------------------------------

\* A registration and a pong change one member.
LEMMA ServiceImplements ==
    ASSUME ListInv,
           \/ \E h \in handling : ReqRegister(h)
           \/ \E p \in pongs : RespPong(p)
    PROVE  [Members!Next]_<<ctl_up, cluster_node_list>>
<1>1. ASSUME NEW h \in handling, ReqRegister(h)  PROVE Members!Join
  <2> DEFINE new == [rank |-> registered, owner |-> h.req,
                     id |-> NextId(h.cnt), age |-> 0]
  <2>1. /\ cluster_node_list' = cluster_node_list \cup {new}
        /\ ctl_up' = ctl_up
    BY <1>1 DEF ReqRegister, Registers, ctlVars
  <2>2. new.age = 0 /\ \A e \in cluster_node_list : e.rank < new.rank
    BY DEF ListInv, RanksDiffer
  <2>3. new \in cluster_node_list'
    BY <2>1
  <2>4. ctl_up
    BY DEF ListInv
  <2> HIDE DEF new
  <2> QED  BY <2>1, <2>2, <2>3, <2>4 DEF Members!Join
<1>2. ASSUME NEW p \in pongs, RespPong(p)
      PROVE  Members!Renew \/ UNCHANGED <<ctl_up, cluster_node_list>>
  <2> DEFINE Stamp(e) == IF Found(e, p.id) THEN [e EXCEPT !.age = 0] ELSE e
  <2>1. /\ cluster_node_list' = {Stamp(e) : e \in cluster_node_list}
        /\ ctl_up' = ctl_up
    BY <1>2 DEF RespPong, Heard, ctlVars
  <2>2. CASE \A e \in cluster_node_list : ~Found(e, p.id)
    <3>1. \A e \in cluster_node_list : Stamp(e) = e
      BY <2>2
    <3> HIDE DEF Stamp
    <3> QED  BY <2>1, <3>1
  <2>3. CASE \E e \in cluster_node_list : Found(e, p.id)
    <3>1. PICK e \in cluster_node_list : Found(e, p.id)
      BY <2>3
    <3>2. ASSUME NEW f \in cluster_node_list, f # e  PROVE Stamp(f) = f
      <4>1. SUFFICES ASSUME Found(f, p.id)  PROVE FALSE
        OBVIOUS
      <4>2. e.rank <= f.rank /\ f.rank <= e.rank
        BY <3>1, <4>1 DEF Found
      <4>3. e.rank \in Nat /\ f.rank \in Nat
        BY DEF ListInv, TypeOK, Entry
      <4> QED  BY <3>2, <4>2, <4>3 DEF ListInv, RanksDiffer
    <3>3. Stamp(e) = [e EXCEPT !.age = 0]
      BY <3>1
    <3> HIDE DEF Stamp
    <3>4. cluster_node_list' = (cluster_node_list \ {e}) \cup {Stamp(e)}
      BY <2>1, <3>2
    <3> QED  BY <2>1, <3>3, <3>4 DEF Members!Renew
  <2> QED  BY <2>2, <2>3
<1> QED  BY <1>1, <1>2 DEF Members!Next

\* Every other step of the controller starts it, ends it, or lets silent members
\* go; of everything else only the clock touches the list.
LEMMA OtherImplements ==
    ASSUME ListInv,
           \/ CtlStart \/ CtlStop \/ SendDiscovery \/ UpdateNodeList \/ Tick
           \/ \E r \in requests : LoadNodeCnt(r)
           \/ \E n \in Node :
                 \/ NodeStart(n) \/ NodeStop(n)
                 \/ Handle(n) \/ RespRegister(n) \/ RespRegisterLost(n)
                 \/ \E d \in mcast[n] : Lose(n, d)
    PROVE  [Members!Next]_<<ctl_up, cluster_node_list>>
<1> USE DEF ctlVars, listVars, confVars
<1>1. CASE CtlStart
  BY <1>1 DEF CtlStart, NoNodes, Members!Start, Members!Next
<1>2. CASE CtlStop
  BY <1>2 DEF CtlStop, NoNodes, Members!Stop, Members!Next
<1>3. CASE UpdateNodeList
  <2>1. /\ cluster_node_list' = {e \in cluster_node_list : e.age <= TimeoutSecs}
        /\ ctl_up' = ctl_up
    BY <1>3 DEF UpdateNodeList, Sweep
  <2>2. \A e \in cluster_node_list : e.age \in Nat
    BY DEF ListInv, TypeOK, Entry
  <2>3. \A e \in cluster_node_list \ cluster_node_list' : e.age > TimeoutSecs
    BY <2>1, <2>2, ClusterAssumption DEF ClusterAssumption
  <2>4. cluster_node_list' \subseteq cluster_node_list
    BY <2>1
  <2>5. Members!Leave
    BY <2>1, <2>3, <2>4, Zenon DEF Members!Leave
  <2> QED  BY <2>5 DEF Members!Next
<1>4. CASE Tick
  <2>1. /\ cluster_node_list' = {Older(e) : e \in cluster_node_list}
        /\ ctl_up' = ctl_up
    BY <1>4 DEF Tick
  <2> QED  BY <2>1, Zenon DEF Older, Members!Pass, Members!Next
<1>5. CASE SendDiscovery \/ \E r \in requests : LoadNodeCnt(r)
  BY <1>5 DEF SendDiscovery, LoadNodeCnt
<1>6. ASSUME NEW n \in Node,
             \/ NodeStart(n) \/ NodeStop(n)
             \/ Handle(n) \/ RespRegister(n) \/ RespRegisterLost(n)
             \/ \E d \in mcast[n] : Lose(n, d)
      PROVE  UNCHANGED <<ctl_up, cluster_node_list>>
  BY <1>6 DEF NodeStart, NodeStop, Handle, Register, RegisterRefused, Pong,
              RespRegister, RespRegisterLost, Lose
<1> QED  BY <1>1, <1>2, <1>3, <1>4, <1>5, <1>6

\* Whatever the network and the processes do, the controller's list keeps the
\* promise of Membership: nobody joins without a registration of its own, a pong
\* renews one entry, and nobody leaves but by silence.
THEOREM ClusterImplementsMembership == Spec => ImplementsMembership
<1>1. Init => ListInv
  BY InitType DEF Init, ListInv, RanksDiffer
<1>2. Init => Members!Init
  BY DEF Init, Members!Init
<1>3. ListInv /\ [Next]_vars => [Members!Next]_<<ctl_up, cluster_node_list>>
  <2> SUFFICES ASSUME ListInv, [Next]_vars
               PROVE  [Members!Next]_<<ctl_up, cluster_node_list>>
    OBVIOUS
  <2>1. CASE UNCHANGED vars
    BY <2>1 DEF vars, ctlVars, listVars
  <2>2. CASE Next
    BY <2>2, ServiceImplements, OtherImplements DEF Next
  <2> QED  BY <2>1, <2>2
<1> QED
  BY <1>1, <1>2, <1>3, ListStep, PTL
     DEF Spec, ImplementsMembership, Members!Spec, Members!memberVars

-----------------------------------------------------------------------------
(***************************************************************************)
(* Why the entry of a settled daemon stays.  While each second's messages  *)
(* are handled within it, an entry is at most one second older than the    *)
(* multicasts that its owner has lost in a row.                            *)
(***************************************************************************)

\* This second's multicast has still to reach the daemon.
Ahead(n) == disc_pc # "sleep" \/ \E d \in mcast[n] : d.ts = ctrlr_startup_ts

\* The entry is as old as its owner's losses allow, or a pong will renew it.
HeardInTime(n, e) ==
    \/ e.age <= misses[n] + (IF Ahead(n) THEN 1 ELSE 0)
    \/ [node |-> n, id |-> cluster_id[n]] \in pongs /\ e.age <= MaxMiss + 1

\* The entries of the daemon's process that have the id.
EntryOf(n, id) == {e \in cluster_node_list : e.owner = Self(n) /\ e.id = id}

\* A settled daemon has an entry with its id, of the age its losses allow.
SettledListed(n) ==
    Settled(n) => \E e \in EntryOf(n, cluster_id[n]) : HeardInTime(n, e)

\* So has a daemon whose id is in a reply it has not read: the entry is new.
AnswerListed(n) ==
    ctl_up /\ up[n] /\ reply[n] # NoReply /\ ctrlr_ts[n] = ctrlr_startup_ts =>
       \E e \in EntryOf(n, reply[n]) : e.age = 0

ListedInv ==
    registered < IdSpace => \A n \in Node : SettledListed(n) /\ AnswerListed(n)

\* Entries have their ids in the order of their places.
IdsInOrder == \A e \in cluster_node_list : e.id = NextId(e.rank)

\* Every step keeps the order of the ids.
LEMMA OrderStep ==
    ASSUME IdInv, ListInv, IdsInOrder, [Next]_vars
    PROVE  IdsInOrder'
<1> USE DEF ctlVars, listVars, nodeVars, confVars, linkVars
<1>0. TypeOK
  BY DEF IdInv
<1>1. CASE UNCHANGED cluster_node_list
  BY <1>1 DEF IdsInOrder
<1>2. CASE CtlStart \/ CtlStop
  BY <1>2 DEF CtlStart, CtlStop, NoNodes, IdsInOrder
<1>3. CASE UpdateNodeList
  BY <1>3 DEF UpdateNodeList, Sweep, IdsInOrder
<1>4. CASE Tick
  <2>1. \A e \in cluster_node_list : Older(e).rank = e.rank /\ Older(e).id = e.id
    BY <1>0 DEF TypeOK, Entry, Older
  <2>2. cluster_node_list' = {Older(e) : e \in cluster_node_list}
    BY <1>4 DEF Tick
  <2> QED  BY <2>1, <2>2 DEF IdsInOrder
<1>5. ASSUME NEW p \in pongs, RespPong(p)  PROVE IdsInOrder'
  <2> DEFINE Stamp(e) == IF Found(e, p.id) THEN [e EXCEPT !.age = 0] ELSE e
  <2>1. cluster_node_list' = {Stamp(e) : e \in cluster_node_list}
    BY <1>5 DEF RespPong, Heard
  <2>2. \A e \in cluster_node_list : Stamp(e).rank = e.rank /\ Stamp(e).id = e.id
    BY <1>0 DEF TypeOK, Entry
  <2> HIDE DEF Stamp
  <2> QED  BY <2>1, <2>2 DEF IdsInOrder
<1>6. ASSUME NEW h \in handling, ReqRegister(h)  PROVE IdsInOrder'
  <2> DEFINE new == [rank |-> registered, owner |-> h.req, id |-> NextId(h.cnt), age |-> 0]
  <2>1. cluster_node_list' = cluster_node_list \cup {new}
    BY <1>6 DEF ReqRegister, Registers
  <2>2. new.id = NextId(new.rank)
    BY DEF IdInv, CountHeld
  <2> HIDE DEF new
  <2> QED  BY <2>1, <2>2 DEF IdsInOrder
<1>7. CASE \/ UNCHANGED vars \/ SendDiscovery
           \/ \E r \in requests : LoadNodeCnt(r)
           \/ \E n \in Node :
                 \/ NodeStart(n) \/ NodeStop(n)
                 \/ Handle(n) \/ RespRegister(n) \/ RespRegisterLost(n)
                 \/ \E d \in mcast[n] : Lose(n, d)
  BY <1>1, <1>7 DEF vars, SendDiscovery, LoadNodeCnt, NodeStart, NodeStop, Handle, Register,
                    RegisterRefused, Pong, RespRegister, RespRegisterLost, Lose
<1> QED  BY <1>2, <1>3, <1>4, <1>5, <1>6, <1>7 DEF Next

\* Before the 16 bits are used up an id has one entry, which list_find finds.
LEMMA EntryFound ==
    ASSUME ListInv, IdsInOrder, registered < IdSpace, NEW e \in cluster_node_list
    PROVE  Found(e, e.id)
<1>1. ASSUME NEW f \in cluster_node_list, f.id = e.id  PROVE f.rank = e.rank
  <2>1. /\ e.rank \in Nat /\ f.rank \in Nat
        /\ e.rank + 1 < IdSpace + 1 /\ f.rank + 1 < IdSpace + 1
        /\ e.rank < registered /\ f.rank < registered /\ registered \in Nat
    BY DEF ListInv, TypeOK, Entry, RanksDiffer
  <2>2. NextId(e.rank) = NextId(f.rank)
    BY <1>1 DEF IdsInOrder
  <2>3. NextId(e.rank) = e.rank + 1 /\ NextId(f.rank) = f.rank + 1
    BY <2>1, SMT DEF NextId
  <2>4. e.rank + 1 = f.rank + 1
    BY <2>2, <2>3
  <2> QED  BY <2>1, <2>4
<1>2. e.rank \in Nat
  BY DEF ListInv, TypeOK, Entry
<1> QED  BY <1>1, <1>2 DEF Found

\* A step that touches nothing of a daemon, and adds entries and pongs only, leaves
\* its entry with it.
LEMMA OthersKeep ==
    ASSUME NEW n \in Node, SettledListed(n), AnswerListed(n),
           UNCHANGED <<ctl_up, ctrlr_startup_ts, disc_pc>>,
           up'[n] = up[n], phase'[n] = phase[n], ctrlr_ts'[n] = ctrlr_ts[n],
           starts'[n] = starts[n], cluster_id'[n] = cluster_id[n],
           reply'[n] = reply[n], mcast'[n] = mcast[n], misses'[n] = misses[n],
           cluster_node_list \subseteq cluster_node_list', pongs \subseteq pongs'
    PROVE  SettledListed(n)' /\ AnswerListed(n)'
<1>1. /\ Settled(n)' <=> Settled(n)
      /\ Self(n)' = Self(n)
      /\ Ahead(n)' <=> Ahead(n)
  BY DEF Settled, Self, Ahead
<1>2. \A e : HeardInTime(n, e) => HeardInTime(n, e)'
  BY <1>1 DEF HeardInTime
<1>3. \A id : EntryOf(n, id) \subseteq EntryOf(n, id)'
  BY <1>1 DEF EntryOf
<1>4. SettledListed(n)'
  BY <1>1, <1>2, <1>3 DEF SettledListed
<1>5. AnswerListed(n)'
  BY <1>3 DEF AnswerListed
<1> QED  BY <1>4, <1>5

\* The controller's own thread: a multicast is ahead of every settled daemon when it
\* is sent, and the sweep drops no entry that was heard in time.
LEMMA CtlListed ==
    ASSUME SlowRestart, MaxMiss < TimeoutSecs, IssueInv, ListedInv,
           CtlStart \/ CtlStop \/ SendDiscovery \/ UpdateNodeList
    PROVE  ListedInv'
<1> USE DEF ctlVars, listVars, nodeVars, confVars, linkVars
<1>0. TypeOK
  BY DEF IssueInv
<1>1. CASE CtlStart
  <2>1. ctrlr_startup_ts' = ctrlr_startup_ts + 1 /\ ctrlr_startup_ts \in Nat
    BY <1>0, <1>1 DEF CtlStart, TypeOK
  <2>2. \A n \in Node : ctrlr_ts'[n] # ctrlr_startup_ts'
    BY <1>0, <1>1, <2>1 DEF CtlStart, TypeOK, IssueInv, TsBound
  <2> QED  BY <2>2 DEF ListedInv, SettledListed, AnswerListed, Settled
<1>2. CASE CtlStop
  BY <1>2 DEF CtlStop, ListedInv, SettledListed, AnswerListed, Settled
<1>3. CASE SendDiscovery
  <2> SUFFICES ASSUME registered < IdSpace, NEW n \in Node
               PROVE  SettledListed(n)' /\ AnswerListed(n)'
    BY <1>3 DEF SendDiscovery, ListedInv
  <2>1. SettledListed(n) /\ AnswerListed(n)
    BY DEF ListedInv
  <2>2. /\ Settled(n)' <=> Settled(n)
        /\ Self(n)' = Self(n)
        /\ \A id : EntryOf(n, id)' = EntryOf(n, id)
    BY <1>3 DEF SendDiscovery, Settled, Self, EntryOf
  <2>3. Settled(n) => Ahead(n) /\ Ahead(n)'
    <3>1. Ahead(n)
      BY <1>3 DEF SendDiscovery, Ahead
    <3>2. ASSUME Settled(n)  PROVE Ahead(n)'
      <4> DEFINE d == [ts |-> ctrlr_startup_ts, port |-> port]
      <4>1. d \in mcast'[n] /\ d.ts = ctrlr_startup_ts /\ ctrlr_startup_ts' = ctrlr_startup_ts
        BY <1>3, <3>2 DEF SendDiscovery, Settled
      <4> HIDE DEF d
      <4> QED  BY <4>1 DEF Ahead
    <3> QED  BY <3>1, <3>2
  <2>4. Settled(n) => \A e : HeardInTime(n, e) => HeardInTime(n, e)'
    BY <1>3, <2>3 DEF SendDiscovery, HeardInTime
  <2> QED  BY <1>3, <2>1, <2>2, <2>4 DEF SendDiscovery, SettledListed, AnswerListed
<1>4. CASE UpdateNodeList
  <2> SUFFICES ASSUME registered < IdSpace, NEW n \in Node
               PROVE  SettledListed(n)' /\ AnswerListed(n)'
    BY <1>4 DEF UpdateNodeList, Sweep, ListedInv
  <2>1. SettledListed(n) /\ AnswerListed(n)
    BY DEF ListedInv
  <2>2. /\ Settled(n)' <=> Settled(n)
        /\ Self(n)' = Self(n)
    BY <1>4 DEF UpdateNodeList, Sweep, Settled, Self
  <2>3. \A id : \A e \in EntryOf(n, id) : e.age <= TimeoutSecs => e \in EntryOf(n, id)'
    BY <1>4, <2>2 DEF UpdateNodeList, Sweep, EntryOf
  <2>4. \A e \in cluster_node_list : HeardInTime(n, e) =>
           e.age <= TimeoutSecs /\ HeardInTime(n, e)'
    <3> SUFFICES ASSUME NEW e \in cluster_node_list, HeardInTime(n, e)
                 PROVE  e.age <= TimeoutSecs /\ HeardInTime(n, e)'
      OBVIOUS
    <3>1. Ahead(n) /\ Ahead(n)'
      BY <1>4 DEF UpdateNodeList, Sweep, Ahead
    <3>2. e.age \in Nat /\ misses[n] \in 0 .. MaxMiss
      BY <1>0 DEF TypeOK, Entry
    <3>3. e.age <= MaxMiss + 1
      BY <3>1, <3>2 DEF HeardInTime
    <3>4. HeardInTime(n, e)'
      BY <1>4, <3>1 DEF UpdateNodeList, Sweep, HeardInTime
    <3> QED  BY <3>2, <3>3, <3>4
  <2>5. SettledListed(n)'
    <3> SUFFICES ASSUME Settled(n)
                 PROVE  \E e \in EntryOf(n, cluster_id[n])' : HeardInTime(n, e)'
      BY <1>4, <2>2 DEF UpdateNodeList, Sweep, SettledListed
    <3>1. PICK e \in EntryOf(n, cluster_id[n]) : HeardInTime(n, e)
      BY <2>1 DEF SettledListed
    <3>2. e.age <= TimeoutSecs /\ HeardInTime(n, e)'
      BY <2>4, <3>1 DEF EntryOf
    <3>3. e \in EntryOf(n, cluster_id[n])'
      BY <1>4, <2>3, <3>2 DEF UpdateNodeList, Sweep, EntryOf
    <3> QED  BY <3>2, <3>3
  <2>6. AnswerListed(n)'
    BY <1>4, <2>1, <2>3 DEF UpdateNodeList, Sweep, AnswerListed
  <2> QED  BY <2>5, <2>6
<1> QED  BY <1>1, <1>2, <1>3, <1>4

\* A second that passes finds nothing of the last one left to do.
LEMMA TickListed ==
    ASSUME Timely, MaxMiss < TimeoutSecs, IssueInv, ListedInv, Tick
    PROVE  ListedInv'
<1> USE DEF ctlVars, listVars, nodeVars, confVars, linkVars
<1> SUFFICES ASSUME registered < IdSpace, NEW n \in Node
             PROVE  SettledListed(n)' /\ AnswerListed(n)'
  BY DEF Tick, ListedInv
<1>0. TypeOK
  BY DEF IssueInv
<1>1. SettledListed(n) /\ Quiet
  BY DEF ListedInv, Tick
<1>2. AnswerListed(n)'
  <2>1. reply'[n] = NoReply
    BY <1>1 DEF Tick, Quiet, IssueInv, AwaitShape
  <2> QED  BY <2>1 DEF AnswerListed
<1>3. /\ Settled(n)' <=> Settled(n)
      /\ Self(n)' = Self(n) /\ cluster_id' = cluster_id /\ misses' = misses
  BY DEF Tick, Settled, Self
<1>4. ASSUME Settled(n)  PROVE \E f \in EntryOf(n, cluster_id[n])' : HeardInTime(n, f)'
  <2>1. PICK e \in EntryOf(n, cluster_id[n]) : HeardInTime(n, e)
    BY <1>1, <1>4 DEF SettledListed
  <2>2. e \in cluster_node_list /\ e \in Entry /\ misses[n] \in 0 .. MaxMiss
    BY <1>0, <2>1 DEF TypeOK, EntryOf
  <2>3. ~Ahead(n) /\ pongs = {} /\ Ahead(n)'
    BY <1>1, <1>4 DEF Quiet, Ahead, Settled, Tick
  <2>4. e.age <= misses[n] /\ e.age \in Nat
    BY <2>1, <2>2, <2>3 DEF HeardInTime, Entry
  <2>5. Older(e).owner = e.owner /\ Older(e).id = e.id /\ Older(e).age = e.age + 1
    BY <2>2, <2>4 DEF Older, Entry
  <2>6. Older(e) \in EntryOf(n, cluster_id[n])'
    BY <1>3, <2>1, <2>2, <2>5 DEF Tick, EntryOf
  <2>7. HeardInTime(n, Older(e))'
    BY <1>3, <2>2, <2>3, <2>4, <2>5 DEF HeardInTime
  <2> QED  BY <2>6, <2>7
<1> QED  BY <1>2, <1>3, <1>4 DEF SettledListed

\* A registration lists the process it answers, and a pong renews the entry that
\* it was sent for.
LEMMA ServiceListed ==
    ASSUME IssueInv, ListInv, IdsInOrder, ListedInv,
           \/ \E r \in requests : LoadNodeCnt(r)
           \/ \E h \in handling : ReqRegister(h)
           \/ \E p \in pongs : RespPong(p)
    PROVE  ListedInv'
<1> USE DEF ctlVars, listVars, nodeVars, confVars, linkVars
<1>0. TypeOK
  BY DEF IssueInv
<1>1. ASSUME NEW r \in requests, LoadNodeCnt(r)  PROVE ListedInv'
  <2> SUFFICES ASSUME registered < IdSpace, NEW n \in Node
               PROVE  SettledListed(n)' /\ AnswerListed(n)'
    BY <1>1 DEF LoadNodeCnt, ListedInv
  <2>1. SettledListed(n) /\ AnswerListed(n)
    BY DEF ListedInv
  <2>2. /\ UNCHANGED <<ctl_up, ctrlr_startup_ts, disc_pc>>
        /\ up'[n] = up[n] /\ phase'[n] = phase[n] /\ ctrlr_ts'[n] = ctrlr_ts[n]
        /\ starts'[n] = starts[n] /\ cluster_id'[n] = cluster_id[n]
        /\ reply'[n] = reply[n] /\ mcast'[n] = mcast[n] /\ misses'[n] = misses[n]
        /\ cluster_node_list \subseteq cluster_node_list' /\ pongs \subseteq pongs'
    BY <1>1 DEF LoadNodeCnt
  <2> QED  BY <2>1, <2>2, OthersKeep
<1>2. ASSUME NEW h \in handling, ReqRegister(h)  PROVE ListedInv'
  <2> DEFINE r   == h.req
             id  == NextId(h.cnt)
             new == [rank |-> registered, owner |-> r, id |-> id, age |-> 0]
  <2>1. r \in requests /\ r \in Process /\ r.node \in Node
    BY <1>0 DEF IssueInv, TypeOK, HandlingPending, Process
  <2>2. /\ registered' = registered + 1
        /\ cluster_node_list' = cluster_node_list \cup {new}
        /\ reply' = IF up[r.node] /\ Self(r.node) = r
                    THEN [reply EXCEPT ![r.node] = id] ELSE reply
        /\ UNCHANGED <<ctlVars, disc_pc, up, starts, ctrlr_ts, cluster_id, phase,
                       mcast, misses, pongs>>
    BY <1>2 DEF ReqRegister, Registers
  <2>3. new.owner = r /\ new.id = id /\ new.age = 0
    OBVIOUS
  <2> HIDE DEF id, new
  <2> SUFFICES ASSUME registered' < IdSpace, NEW n \in Node
               PROVE  SettledListed(n)' /\ AnswerListed(n)'
    BY DEF ListedInv
  <2>4. SettledListed(n) /\ AnswerListed(n)
    BY <1>0, <2>2 DEF ListedInv, TypeOK
  <2>5. CASE up[n] /\ Self(n) = r
    <3>1. n = r.node /\ reply'[n] = id
      BY <1>0, <2>1, <2>2, <2>5 DEF Self, TypeOK
    <3>2. phase[n] = "await"
      BY <2>1, <2>5 DEF IssueInv, RequestAwaited
    <3>3. new \in EntryOf(n, reply[n])'
      BY <2>2, <2>3, <2>5, <3>1 DEF EntryOf, Self
    <3> QED  BY <2>2, <2>3, <3>2, <3>3 DEF SettledListed, AnswerListed, Settled
  <2>6. CASE ~(up[n] /\ Self(n) = r)
    <3>1. reply'[n] = reply[n]
      BY <1>0, <2>1, <2>2, <2>6 DEF Self, TypeOK
    <3>2. /\ UNCHANGED <<ctl_up, ctrlr_startup_ts, disc_pc>>
          /\ up'[n] = up[n] /\ phase'[n] = phase[n] /\ ctrlr_ts'[n] = ctrlr_ts[n]
          /\ starts'[n] = starts[n] /\ cluster_id'[n] = cluster_id[n]
          /\ reply'[n] = reply[n] /\ mcast'[n] = mcast[n] /\ misses'[n] = misses[n]
          /\ cluster_node_list \subseteq cluster_node_list' /\ pongs \subseteq pongs'
      BY <2>2, <3>1
    <3> QED  BY <2>4, <3>2, OthersKeep
  <2> QED  BY <2>5, <2>6
<1>3. ASSUME NEW p \in pongs, RespPong(p)  PROVE ListedInv'
  <2> DEFINE Stamp(e) == IF Found(e, p.id) THEN [e EXCEPT !.age = 0] ELSE e
  <2>1. /\ cluster_node_list' = {Stamp(e) : e \in cluster_node_list}
        /\ pongs' = pongs \ {p}
        /\ UNCHANGED <<ctlVars, disc_pc, registered, nodeVars, linkVars>>
    BY <1>3 DEF RespPong, Heard
  <2>2. \A e \in cluster_node_list :
           /\ Stamp(e).owner = e.owner /\ Stamp(e).id = e.id
           /\ Stamp(e).age = e.age \/ Stamp(e).age = 0
           /\ Found(e, p.id) => Stamp(e).age = 0
    BY <1>0 DEF TypeOK, Entry
  <2> HIDE DEF Stamp
  <2> SUFFICES ASSUME registered < IdSpace, NEW n \in Node
               PROVE  SettledListed(n)' /\ AnswerListed(n)'
    BY <2>1 DEF ListedInv
  <2>3. SettledListed(n) /\ AnswerListed(n)
    BY DEF ListedInv
  <2>4. /\ Settled(n)' <=> Settled(n)
        /\ Self(n)' = Self(n)
        /\ Ahead(n)' <=> Ahead(n)
    BY <2>1 DEF Settled, Self, Ahead
  <2>5. \A id : \A e \in EntryOf(n, id) : Stamp(e) \in EntryOf(n, id)'
    BY <2>1, <2>2, <2>4 DEF EntryOf
  <2>6. ASSUME Settled(n)
        PROVE  \E f \in EntryOf(n, cluster_id[n])' : HeardInTime(n, f)'
    <3>1. PICK e \in EntryOf(n, cluster_id[n]) : HeardInTime(n, e)
      BY <2>3, <2>6 DEF SettledListed
    <3>2. e \in cluster_node_list /\ e.id = cluster_id[n]
      BY <3>1 DEF EntryOf
    <3>3. PICK f : f = Stamp(e)
      OBVIOUS
    <3>4. f \in EntryOf(n, cluster_id[n])'
      <4>1. cluster_id'[n] = cluster_id[n]
        BY <2>1
      <4>2. f \in {g \in cluster_node_list' : g.owner = Self(n)' /\ g.id = cluster_id[n]}
        BY <2>5, <3>1, <3>3 DEF EntryOf
      <4> QED  BY <4>1, <4>2 DEF EntryOf
    <3>5. CASE f.age = 0
      <4>1. misses'[n] \in Nat
        BY <1>0, <2>1 DEF TypeOK
      <4>2. HeardInTime(n, f)'
        BY <3>5, <4>1 DEF HeardInTime
      <4> QED  BY <3>4, <4>2
    <3>6. CASE f.age # 0
      <4>1. Found(e, e.id)
        BY <3>2, EntryFound
      <4>2. p # [node |-> n, id |-> cluster_id[n]]
        BY <2>2, <3>2, <3>3, <3>6, <4>1
      <4>3. f.age = e.age
        BY <2>2, <3>2, <3>3, <3>6
      <4>4. /\ misses'[n] = misses[n] /\ cluster_id'[n] = cluster_id[n]
            /\ [node |-> n, id |-> cluster_id[n]] \in pongs =>
                  [node |-> n, id |-> cluster_id[n]] \in pongs'
        BY <2>1, <4>2
      <4>5. HeardInTime(n, f)'
        BY <2>4, <3>1, <4>3, <4>4 DEF HeardInTime
      <4> QED  BY <3>4, <4>5
    <3> QED  BY <3>5, <3>6
  <2>7. SettledListed(n)'
    BY <2>1, <2>4, <2>6 DEF SettledListed
  <2>8. AnswerListed(n)'
    <3> SUFFICES ASSUME ctl_up, up[n], reply[n] # NoReply,
                        ctrlr_ts[n] = ctrlr_startup_ts
                 PROVE  \E f \in EntryOf(n, reply[n])' : f.age = 0
      BY <2>1 DEF AnswerListed
    <3>1. PICK e \in EntryOf(n, reply[n]) : e.age = 0
      BY <2>3 DEF AnswerListed
    <3>2. Stamp(e).age = 0
      BY <2>2, <3>1 DEF EntryOf
    <3>3. Stamp(e) \in EntryOf(n, reply[n])'
      <4>1. reply'[n] = reply[n]
        BY <2>1
      <4>2. Stamp(e) \in {f \in cluster_node_list' : f.owner = Self(n)' /\ f.id = reply[n]}
        BY <2>5, <3>1 DEF EntryOf
      <4> QED  BY <4>1, <4>2 DEF EntryOf
    <3> QED  BY <3>2, <3>3
  <2> QED  BY <2>7, <2>8
<1> QED  BY <1>1, <1>2, <1>3

\* A daemon becomes settled only through a reply, with an entry just made for it; a
\* pong of a settled daemon is under way to its entry before that is too old.
LEMMA NodeListed ==
    ASSUME ~FdsCounted, RemoteNode = {}, IssueInv, ListedInv, NEW n \in Node,
           \/ NodeStart(n) \/ NodeStop(n) \/ Handle(n)
           \/ RespRegister(n) \/ RespRegisterLost(n)
    PROVE  ListedInv'
<1> USE DEF ctlVars, listVars, nodeVars, confVars, linkVars
<1>0. TypeOK
  BY DEF IssueInv
<1>1. /\ UNCHANGED <<ctl_up, ctrlr_startup_ts, port, disc_pc, cluster_node_list, registered>>
      /\ pongs \subseteq pongs'
  BY DEF NodeStart, NodeStop, Handle, Register, RegisterRefused, Pong, RespRegister,
         RespRegisterLost
<1> SUFFICES ASSUME registered < IdSpace
             PROVE  \A m \in Node : SettledListed(m)' /\ AnswerListed(m)'
  BY <1>1 DEF ListedInv
<1>2. \A m \in Node : SettledListed(m) /\ AnswerListed(m)
  BY DEF ListedInv
<1>3. \A m \in Node \ {n} :
         /\ up'[m] = up[m] /\ phase'[m] = phase[m] /\ ctrlr_ts'[m] = ctrlr_ts[m]
         /\ starts'[m] = starts[m] /\ cluster_id'[m] = cluster_id[m]
         /\ reply'[m] = reply[m] /\ mcast'[m] = mcast[m] /\ misses'[m] = misses[m]
  BY <1>0 DEF NodeStart, NodeStop, FreshProcess, Handle, Register, RegisterRefused,
              Pong, Consumes, RespRegister, RespRegisterLost, TypeOK
<1>4. \A m \in Node \ {n} : SettledListed(m)' /\ AnswerListed(m)'
  BY <1>1, <1>2, <1>3, OthersKeep
<1>5. ASSUME NodeStop(n)  PROVE SettledListed(n)' /\ AnswerListed(n)'
  BY <1>0, <1>5 DEF NodeStop, SettledListed, AnswerListed, Settled, TypeOK
<1>6. CASE NodeStart(n)
  <2>1. ctrlr_ts'[n] = 0 /\ (ctl_up => ctrlr_startup_ts > 0)
    BY <1>0, <1>6 DEF NodeStart, FreshProcess, TypeOK, IssueInv, TsBound
  <2>2. ctl_up => ctrlr_ts'[n] # ctrlr_startup_ts
    BY <2>1
  <2> QED  BY <1>1, <1>4, <2>2 DEF SettledListed, AnswerListed, Settled
<1>7. ASSUME NEW d \in mcast[n], Register(n, d)
      PROVE  SettledListed(n)' /\ AnswerListed(n)'
  <2>1. phase'[n] = "await" /\ reply'[n] = NoReply
    BY <1>0, <1>7 DEF Register, Receives, TypeOK, IssueInv, AwaitShape
  <2> QED  BY <2>1 DEF SettledListed, AnswerListed, Settled
<1>8. ASSUME NEW d \in mcast[n], RegisterRefused(n, d)
      PROVE  SettledListed(n)' /\ AnswerListed(n)'
  <2>1. CASE NodeStop(n)
    BY <1>5, <2>1
  <2>2. CASE ~NodeStop(n)
    <3>1. ctrlr_ts'[n] = d.ts /\ reply'[n] = NoReply
      BY <1>0, <1>8, <2>2 DEF RegisterRefused, Receives, TypeOK, IssueInv, AwaitShape
    <3>2. ctl_up => d.ts # ctrlr_startup_ts
      BY <1>8 DEF RegisterRefused, Connects, IssueInv, DatagramCurrent
    <3> QED  BY <1>1, <3>1, <3>2 DEF SettledListed, AnswerListed, Settled
  <2> QED  BY <2>1, <2>2
<1>9. ASSUME NEW d \in mcast[n], Pong(n, d)
      PROVE  SettledListed(n)' /\ AnswerListed(n)'
  <2>1. /\ phase[n] = "recv" /\ reply'[n] = NoReply
        /\ UNCHANGED <<up, phase, starts, ctrlr_ts, cluster_id>>
    BY <1>9 DEF Pong, Receives, IssueInv, AwaitShape
  <2>2. Settled(n)' <=> Settled(n)
    BY <1>1, <2>1 DEF Settled
  <2>3. ASSUME Settled(n)
        PROVE  \E f \in EntryOf(n, cluster_id[n])' : HeardInTime(n, f)'
    <3>1. PICK e \in EntryOf(n, cluster_id[n]) : HeardInTime(n, e)
      BY <1>2, <2>3 DEF SettledListed
    <3>2. Connects(n, d)
      BY <1>9, <2>3 DEF Pong, Settled, Connects, IssueInv, DatagramCurrent
    <3>3. [node |-> n, id |-> cluster_id[n]] \in pongs'
      BY <1>9, <3>2 DEF Pong
    <3>4. e.age \in Nat /\ misses[n] \in 0 .. MaxMiss
      BY <1>0, <3>1 DEF TypeOK, EntryOf, Entry
    <3>5. e.age <= MaxMiss + 1
      BY <3>1, <3>4 DEF HeardInTime
    <3>6. HeardInTime(n, e)'
      BY <2>1, <3>3, <3>5 DEF HeardInTime
    <3>7. e \in EntryOf(n, cluster_id[n])'
      BY <1>1, <2>1, <3>1 DEF EntryOf, Self
    <3> QED  BY <3>6, <3>7
  <2> QED  BY <2>1, <2>2, <2>3 DEF SettledListed, AnswerListed
<1>10. CASE RespRegister(n)
  <2>1. /\ phase[n] = "await" /\ reply[n] # NoReply
        /\ cluster_id'[n] = reply[n] /\ reply'[n] = NoReply
        /\ UNCHANGED <<up, starts, ctrlr_ts, misses>>
    BY <1>0, <1>10 DEF RespRegister, TypeOK
  <2>2. ASSUME Settled(n)'
        PROVE  \E f \in EntryOf(n, cluster_id[n])' : HeardInTime(n, f)'
    <3>1. PICK e \in EntryOf(n, reply[n]) : e.age = 0
      BY <1>1, <1>2, <2>1, <2>2 DEF AnswerListed, Settled
    <3>2. misses'[n] \in Nat
      BY <1>0, <2>1 DEF TypeOK
    <3>3. HeardInTime(n, e)'
      BY <3>1, <3>2 DEF HeardInTime
    <3>4. e \in EntryOf(n, cluster_id[n])'
      BY <1>1, <2>1, <3>1 DEF EntryOf, Self
    <3> QED  BY <3>3, <3>4
  <2> QED  BY <1>4, <2>1, <2>2 DEF SettledListed, AnswerListed
<1>11. CASE RespRegisterLost(n)
  <2>1. CASE NodeStop(n)
    BY <1>4, <1>5, <2>1
  <2>2. CASE ~NodeStop(n)
    <3>1. ~(ctl_up /\ ctrlr_ts[n] = ctrlr_startup_ts)
      BY <1>11 DEF RespRegisterLost, IssueInv, ReplyOwed
    <3>2. UNCHANGED ctrlr_ts
      BY <1>11, <2>2 DEF RespRegisterLost
    <3> QED  BY <1>1, <1>4, <3>1, <3>2 DEF SettledListed, AnswerListed, Settled
  <2> QED  BY <2>1, <2>2
<1> QED  BY <1>4, <1>5, <1>6, <1>7, <1>8, <1>9, <1>10, <1>11 DEF Handle

\* A multicast that is lost is counted, and it was the only one ahead.
LEMMA LossListed ==
    ASSUME IssueInv, ListedInv, NEW n \in Node, NEW d \in mcast[n], Lose(n, d)
    PROVE  ListedInv'
<1> USE DEF ctlVars, listVars, nodeVars, confVars, linkVars
<1>0. TypeOK
  BY DEF IssueInv
<1>1. UNCHANGED <<ctl_up, ctrlr_startup_ts, port, disc_pc, cluster_node_list, registered,
                  pongs, up, phase, ctrlr_ts, starts, cluster_id, reply>>
  BY DEF Lose
<1> SUFFICES ASSUME registered < IdSpace
             PROVE  \A m \in Node : SettledListed(m)' /\ AnswerListed(m)'
  BY <1>1 DEF ListedInv
<1>2. \A m \in Node : SettledListed(m) /\ AnswerListed(m)
  BY DEF ListedInv
<1>3. \A m \in Node \ {n} : mcast'[m] = mcast[m] /\ misses'[m] = misses[m]
  BY <1>0 DEF Lose, TypeOK
<1>4. \A m \in Node \ {n} : SettledListed(m)' /\ AnswerListed(m)'
  BY <1>1, <1>2, <1>3, OthersKeep
<1>5. AnswerListed(n)'
  BY <1>1, <1>2 DEF AnswerListed, EntryOf, Self
<1>6. ASSUME NEW e \in cluster_node_list, HeardInTime(n, e)  PROVE HeardInTime(n, e)'
  <2>1. /\ misses'[n] = misses[n] + 1 /\ misses[n] \in Nat
        /\ e.age \in Nat
    BY <1>0 DEF Lose, TypeOK, Entry
  <2>2. CASE e.age <= misses[n] + (IF Ahead(n) THEN 1 ELSE 0)
    <3>1. e.age <= misses[n] + 1
      BY <2>1, <2>2
    <3>2. e.age <= misses'[n] + (IF Ahead(n)' THEN 1 ELSE 0)
      BY <2>1, <3>1
    <3> QED  BY <3>2 DEF HeardInTime
  <2>3. CASE [node |-> n, id |-> cluster_id[n]] \in pongs /\ e.age <= MaxMiss + 1
    BY <1>1, <2>3 DEF HeardInTime
  <2> QED  BY <1>6, <2>2, <2>3 DEF HeardInTime
<1>7. SettledListed(n)'
  BY <1>1, <1>2, <1>6 DEF SettledListed, Settled, EntryOf, Self
<1> QED  BY <1>4, <1>5, <1>7

\* If all that the controller and the daemons have to do in a second is done within
\* it, fewer multicasts in a row are lost than the timeout has seconds, and the
\* assumptions of IdsAreDistinct hold, then a daemon that believes it is registered
\* is in the list of the controller, until the ids are used up, however its pongs,
\* the sweep, losses and restarts interleave.
THEOREM ListingIsAccurate ==
    ASSUME SlowRestart, ~FdsCounted, RemoteNode = {}, MaxHandlers <= 1,
           Timely, MaxMiss < TimeoutSecs
    PROVE  Spec => [](registered < IdSpace => AccurateListing)
<1>1. Init => IdInv /\ ListInv /\ IdsInOrder /\ ListedInv
  <2> SUFFICES ASSUME Init  PROVE IdInv /\ ListInv /\ IdsInOrder /\ ListedInv
    OBVIOUS
  <2>1. TypeOK
    BY InitType
  <2>2. IdInv /\ ListInv
    BY <2>1 DEF Init, IdInv, CountHeld, IssuedOnce, EntriesIssued, ListInv, RanksDiffer
  <2>3. IdsInOrder /\ ListedInv
    BY DEF Init, IdsInOrder, ListedInv, SettledListed, AnswerListed, Settled
  <2> QED  BY <2>2, <2>3
<1>2. IdInv /\ [Next]_vars => IdInv'
  BY IdStep
<1>3. ListInv /\ [Next]_vars => ListInv'
  BY ListStep
<1>4. IdInv /\ ListInv /\ IdsInOrder /\ [Next]_vars => IdsInOrder'
  BY OrderStep
<1>5. IssueInv /\ ListInv /\ IdsInOrder /\ ListedInv /\ [Next]_vars => ListedInv'
  <2> SUFFICES ASSUME IssueInv, ListInv, IdsInOrder, ListedInv, [Next]_vars
               PROVE  ListedInv'
    OBVIOUS
  <2>1. CASE UNCHANGED vars
    BY <2>1 DEF vars, ctlVars, listVars, nodeVars, confVars, linkVars, ListedInv,
                SettledListed, AnswerListed, Settled, EntryOf, HeardInTime, Ahead, Self
  <2>2. CASE Next
    BY <2>2, CtlListed, TickListed, ServiceListed, NodeListed, LossListed DEF Next
  <2> QED  BY <2>1, <2>2
<1>6. ListedInv => (registered < IdSpace => AccurateListing)
  BY DEF ListedInv, SettledListed, AccurateListing, Listed, EntryOf
<1> QED  BY <1>1, <1>2, <1>3, <1>4, <1>5, <1>6, AlwaysIssued, PTL DEF Spec

=============================================================================
