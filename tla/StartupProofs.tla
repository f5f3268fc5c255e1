---------------------------- MODULE StartupProofs ----------------------------
(***************************************************************************)
(* Proofs about Startup, for any number of processes, ports and            *)
(* descriptors.                                                            *)
(***************************************************************************)
EXTENDS Startup, TLAPS

\* A scan that has tried the ports below n has taken a descriptor for each of
\* them, or all there are.
Spent(p, n) == fds[p] = IF n < FdLimit THEN n ELSE FdLimit

\* How far main has got.
ScanInv ==
    \A p \in Process :
        /\ pc[p] \in {"init", "first"} => i[p] = 0 /\ fds[p] = 0
        /\ pc[p] = "scan" => i[p] > 0 /\ Spent(p, i[p])
        /\ pc[p] = "failed" /\ i[p] > 0 => Spent(p, LastPort + 1)

\* Whoever has left the scan owns the port it ended at.
PortInv ==
    \A p \in Process :
        /\ pc[p] = "discovery" =>
              i[p] \in 1 .. LastPort /\ lfd[p] = i[p] /\ owner[i[p]] = p
        /\ pc[p] = "running" =>
              port[p] # 0 /\ port[p] = lfd[p] /\ owner[port[p]] = p

\* A multicast of a process that runs has its port, and so have the connections
\* that follow it.
McastInv ==
    \A d \in Daemon :
        /\ heard[d].live => /\ pc[heard[d].from] = "running"
                            /\ heard[d].port = port[heard[d].from]
        /\ conn[d].mcast.live => conn[d].to = conn[d].mcast.from

StartInv == TypeOK /\ ScanInv /\ PortInv /\ McastInv

USE StartupAssumption DEF StartupAssumption

-----------------------------------------------------------------------------

LEMMA StartInit == Init => StartInv
<1> SUFFICES ASSUME Init  PROVE StartInv
  OBVIOUS
<1>1. TypeOK
  BY DEF Init, TypeOK, Starting, Port, Silence, NoConn
<1>2. ScanInv /\ PortInv
  BY DEF Init, ScanInv, PortInv
<1>3. McastInv
  BY DEF Init, McastInv, Silence, NoConn
<1> QED  BY <1>1, <1>2, <1>3 DEF StartInv

\* The end of a process leaves nothing of it behind.
LEMMA CloseKeeps ==
    ASSUME StartInv, NEW p \in Process, NEW place, Close(p, place),
           \/ place = "off"
           \/ place = "failed" /\ (i[p] > 0 => Spent(p, LastPort + 1))
    PROVE  StartInv'
<1> USE DEF StartInv
<1>1. /\ pc' = [pc EXCEPT ![p] = place]
      /\ UNCHANGED <<i, fds, lfd, port>>
  BY DEF Close, Goto
<1>2. owner' = [n \in Port |-> IF owner[n] = p THEN NONE ELSE owner[n]]
  BY DEF Close
<1>3. p # NONE
  BY DEF Process
<1>4. TypeOK'
  <2>1. /\ pc' \in [Process -> Starting \cup {"off", "failed", "running"}]
        /\ i' \in [Process -> 0 .. LastPort + 1] /\ fds' \in [Process -> 0 .. FdLimit]
        /\ lfd' \in [Process -> Port] /\ port' \in [Process -> Port]
    BY <1>1 DEF TypeOK
  <2>2. owner' \in [Port -> Process \cup {NONE}]
    BY <1>2 DEF TypeOK
  <2>3. linger' \subseteq Port
    BY DEF TypeOK, Close
  <2>4. heard' \in [Daemon -> Mcast \cup {Silence}]
    <3>1. \A m \in Mcast : [m EXCEPT !.live = FALSE] \in Mcast
      BY DEF Mcast
    <3>2. \A d \in Daemon : heard[d].from = p => heard[d] \in Mcast
      BY <1>3 DEF TypeOK, Silence
    <3> QED  BY <3>1, <3>2 DEF TypeOK, Close
  <2>5. conn' \in [Daemon -> Conn \cup {NoConn}]
    <3>1. \A c \in Conn : [c EXCEPT !.mcast.live = FALSE] \in Conn
      BY DEF Conn, Mcast
    <3>2. \A d \in Daemon : conn[d].mcast.from = p => conn[d] \in Conn
      BY <1>3 DEF TypeOK, NoConn, Silence
    <3> QED  BY <3>1, <3>2 DEF TypeOK, Close
  <2> QED  BY <2>1, <2>2, <2>3, <2>4, <2>5 DEF TypeOK
<1>5. ScanInv'
  BY <1>1 DEF TypeOK, ScanInv, Spent
<1>6. PortInv'
  BY <1>1, <1>2 DEF TypeOK, PortInv, Port
<1>7. McastInv'
  <2> SUFFICES ASSUME NEW d \in Daemon
               PROVE  /\ heard'[d].live => /\ pc'[heard'[d].from] = "running"
                                           /\ heard'[d].port = port'[heard'[d].from]
                      /\ conn'[d].mcast.live => conn'[d].to = conn'[d].mcast.from
    BY DEF McastInv
  <2>1. heard[d] \in Mcast \cup {Silence} /\ conn[d] \in Conn \cup {NoConn}
    BY DEF TypeOK
  <2>2. ASSUME heard'[d].live
        PROVE  heard'[d] = heard[d] /\ heard[d].from # p
    BY <2>1, <2>2 DEF Close, Silence, Mcast
  <2>3. ASSUME conn'[d].mcast.live
        PROVE  conn'[d] = conn[d]
    BY <2>1, <2>3 DEF Close, NoConn, Silence, Conn, Mcast
  <2>4. heard[d].live => heard[d].from \in Process
    BY <2>1 DEF Mcast, Silence, Process
  <2>5. heard'[d].live => /\ pc'[heard'[d].from] = "running"
                          /\ heard'[d].port = port'[heard'[d].from]
    BY <1>1, <2>2, <2>4 DEF McastInv, TypeOK
  <2>6. conn'[d].mcast.live => conn'[d].to = conn'[d].mcast.from
    BY <2>3 DEF McastInv
  <2> QED  BY <2>5, <2>6
<1> QED  BY <1>4, <1>5, <1>6, <1>7

\* A step of main changes nothing of other processes but takes a free port.
LEMMA MainStep ==
    ASSUME StartInv, NEW p \in Process, Main(p)
    PROVE  StartInv'
<1> USE DEF StartInv
<1>0. StartInv
  OBVIOUS
<1>1. CASE XcpuinfoInit(p)
  <2>1. CASE Goto(p, "first") /\ UNCHANGED <<i, fds, owner, linger, lfd, port, heard, conn>>
    <3>1. pc[p] = "init"
      BY <1>1 DEF XcpuinfoInit
    <3> QED
      BY <2>1, <3>1 DEF Goto, TypeOK, Starting, ScanInv, PortInv, McastInv, Spent
  <2>2. CASE Close(p, "failed")
    BY <1>1, <2>2, CloseKeeps DEF XcpuinfoInit, ScanInv
  <2> QED  BY <1>1, <2>1, <2>2 DEF XcpuinfoInit
<1>2. ASSUME NEW n \in Port, InitMsgEngine(p, n)
      PROVE  /\ owner' \in [Port -> Process \cup {NONE}]
             /\ \A m \in Port : owner[m] # NONE => owner'[m] = owner[m]
             /\ Bound(p, n) => owner'[n] = p
             /\ fds' = [fds EXCEPT ![p] = IF @ < FdLimit THEN @ + 1 ELSE @]
             /\ fds' \in [Process -> 0 .. FdLimit]
  BY <1>2 DEF InitMsgEngine, Bound, Free, TypeOK
<1>3. ASSUME \A m \in Port : owner[m] # NONE => owner'[m] = owner[m],
             \A q \in Process : q # p => pc'[q] = pc[q] /\ i'[q] = i[q] /\ lfd'[q] = lfd[q],
             pc'[p] = "scan" \/ (pc'[p] = "discovery" /\ i'[p] \in 1 .. LastPort
                                 /\ lfd'[p] = i'[p] /\ owner'[i'[p]] = p),
             port' = port
      PROVE  PortInv'
  <2> SUFFICES ASSUME NEW q \in Process
               PROVE  /\ pc'[q] = "discovery" =>
                            i'[q] \in 1 .. LastPort /\ lfd'[q] = i'[q] /\ owner'[i'[q]] = q
                      /\ pc'[q] = "running" =>
                            port'[q] # 0 /\ port'[q] = lfd'[q] /\ owner'[port'[q]] = q
    BY DEF PortInv
  <2>1. CASE q = p
    BY <1>3, <2>1
  <2>2. CASE q # p
    <3>1. q # NONE
      BY DEF Process
    <3>2. port[q] \in Port /\ (i[q] \in 1 .. LastPort => i[q] \in Port)
      BY DEF TypeOK, Port
    <3> QED  BY <1>3, <2>2, <3>1, <3>2 DEF PortInv
  <2> QED  BY <2>1, <2>2
<1>4. CASE BindFirst(p)
  <2>1. 0 \in Port
    BY DEF Port
  <2>2. /\ pc[p] = "first" /\ InitMsgEngine(p, 0)
        /\ i' = [i EXCEPT ![p] = 1] /\ pc' = [pc EXCEPT ![p] = "scan"]
        /\ UNCHANGED <<linger, lfd, port, heard, conn>>
    BY <1>4 DEF BindFirst, Goto
  <2>3. TypeOK'
    BY <1>2, <2>1, <2>2 DEF TypeOK, Starting
  <2>4. ScanInv'
    BY <1>2, <2>1, <2>2 DEF TypeOK, ScanInv, Spent
  <2>5. PortInv'
    BY <1>2, <1>3, <2>1, <2>2 DEF TypeOK
  <2>6. McastInv'
    BY <2>2 DEF TypeOK, McastInv
  <2> QED  BY <2>3, <2>4, <2>5, <2>6
<1>5. CASE BindScan(p)
  <2>1. i[p] \in Port /\ i[p] \in 1 .. LastPort
    BY <1>5 DEF BindScan, Port, TypeOK, ScanInv
  <2>2. /\ pc[p] = "scan" /\ InitMsgEngine(p, i[p])
        /\ UNCHANGED <<linger, port, heard, conn>>
    BY <1>5 DEF BindScan
  <2>3. CASE Bound(p, i[p])
    <3>1. /\ lfd' = [lfd EXCEPT ![p] = i[p]] /\ pc' = [pc EXCEPT ![p] = "discovery"]
          /\ i' = i
      BY <1>5, <2>3 DEF BindScan, Goto
    <3>2. TypeOK'
      BY <1>2, <2>1, <2>2, <3>1 DEF TypeOK, Starting
    <3>3. ScanInv'
      BY <1>2, <2>1, <2>2, <3>1 DEF TypeOK, ScanInv, Spent
    <3>4. PortInv'
      BY <1>2, <1>3, <2>1, <2>2, <2>3, <3>1 DEF TypeOK
    <3>5. McastInv'
      BY <2>2, <3>1 DEF TypeOK, McastInv
    <3> QED  BY <3>2, <3>3, <3>4, <3>5
  <2>4. CASE ~Bound(p, i[p])
    <3>1. i' = [i EXCEPT ![p] = @ + 1] /\ UNCHANGED <<pc, lfd>>
      BY <1>5, <2>4 DEF BindScan
    <3>2. TypeOK'
      BY <1>2, <2>1, <2>2, <3>1 DEF TypeOK, Starting
    <3>3. ScanInv'
      BY <1>2, <2>1, <2>2, <3>1 DEF TypeOK, ScanInv, Spent
    <3>4. PortInv'
      BY <1>2, <1>3, <2>1, <2>2, <3>1 DEF TypeOK
    <3>5. McastInv'
      BY <2>2, <3>1 DEF TypeOK, McastInv
    <3> QED  BY <3>2, <3>3, <3>4, <3>5
  <2> QED  BY <2>3, <2>4
<1>6. CASE ScanFails(p)
  <2>1. Close(p, "failed") /\ i[p] = LastPort + 1 /\ Spent(p, LastPort + 1)
    BY <1>6 DEF ScanFails, ScanInv, TypeOK
  <2> QED  BY <2>1, CloseKeeps
<1>7. CASE InitDiscovery(p)
  <2>1. CASE Close(p, "off")
    BY <2>1, CloseKeeps
  <2>2. CASE ~Close(p, "off")
    <3>1. /\ pc[p] = "discovery" /\ fds[p] < FdLimit
          /\ fds' = [fds EXCEPT ![p] = @ + 1] /\ port' = [port EXCEPT ![p] = i[p]]
          /\ pc' = [pc EXCEPT ![p] = "running"]
          /\ UNCHANGED <<i, owner, linger, lfd, heard, conn>>
      BY <1>7, <2>2 DEF InitDiscovery, Goto
    <3>2. i[p] \in Port /\ i[p] # 0 /\ lfd[p] = i[p] /\ owner[i[p]] = p
      BY <3>1 DEF PortInv, Port
    <3>3. TypeOK'
      BY <3>1, <3>2 DEF TypeOK
    <3>4. ScanInv'
      BY <3>1 DEF TypeOK, ScanInv, Spent
    <3>5. PortInv'
      BY <3>1, <3>2 DEF TypeOK, PortInv
    <3>6. McastInv'
      <4>1. \A d \in Daemon : heard[d].live => heard[d].from \in Process /\ heard[d].from # p
        BY <3>1 DEF TypeOK, McastInv, Mcast, Silence, Process
      <4> QED  BY <3>1, <4>1 DEF TypeOK, McastInv
    <3> QED  BY <3>3, <3>4, <3>5, <3>6
  <2> QED  BY <2>1, <2>2
<1> QED  BY <1>1, <1>4, <1>5, <1>6, <1>7 DEF Main

LEMMA StartStep == StartInv /\ [Next]_vars => StartInv'
<1> SUFFICES ASSUME StartInv, [Next]_vars  PROVE StartInv'
  OBVIOUS
<1> USE DEF StartInv
<1>1. ASSUME NEW p \in Process, Start(p)  PROVE StartInv'
  <2>1. /\ pc[p] \in {"off", "failed"} /\ pc' = [pc EXCEPT ![p] = "init"]
        /\ i' = [i EXCEPT ![p] = 0] /\ fds' = [fds EXCEPT ![p] = 0]
        /\ lfd' = [lfd EXCEPT ![p] = 0] /\ port' = [port EXCEPT ![p] = 0]
        /\ UNCHANGED <<owner, linger, heard, conn>>
    BY <1>1 DEF Start, Goto
  <2>2. TypeOK'
    BY <2>1 DEF TypeOK, Starting, Port
  <2>3. ScanInv' /\ PortInv'
    BY <2>1 DEF TypeOK, ScanInv, PortInv, Spent
  <2>4. McastInv'
    <3>1. \A d \in Daemon : heard[d].live => heard[d].from \in Process /\ heard[d].from # p
      BY <2>1 DEF TypeOK, McastInv, Mcast, Silence, Process
    <3> QED  BY <2>1, <3>1 DEF TypeOK, McastInv
  <2> QED  BY <2>2, <2>3, <2>4
<1>2. ASSUME NEW p \in Process, Stop(p)  PROVE StartInv'
  BY <1>2, CloseKeeps DEF Stop
<1>3. ASSUME NEW p \in Process, Main(p)  PROVE StartInv'
  BY <1>3, MainStep
<1>4. ASSUME UNCHANGED <<pc, i, fds, owner, lfd, port>>, TypeOK', McastInv'
      PROVE  StartInv'
  BY <1>4 DEF ScanInv, PortInv, Spent
<1>5. ASSUME NEW c \in Controller, NEW d \in Daemon, SendDiscovery(c, d)
      PROVE  StartInv'
  <2> DEFINE m == [from |-> c, port |-> port[c], live |-> TRUE]
  <2>1. pc[c] = "running" /\ heard' = [heard EXCEPT ![d] = m]
        /\ UNCHANGED <<pc, i, fds, owner, linger, lfd, port, conn>>
    BY <1>5 DEF SendDiscovery
  <2>2. c \in Process /\ port[c] \in 1 .. LastPort
    BY <2>1 DEF TypeOK, PortInv, Port, Process
  <2>3. m \in Mcast
    BY <2>2 DEF Mcast
  <2>4. TypeOK'
    BY <2>1, <2>3 DEF TypeOK
  <2>5. McastInv'
    BY <2>1 DEF TypeOK, McastInv
  <2> QED  BY <1>4, <2>1, <2>4, <2>5
<1>6. ASSUME NEW d \in Daemon, Register(d)  PROVE StartInv'
  <2> DEFINE q == owner[heard[d].port]
             c == [to |-> q, mcast |-> heard[d]]
  <2>1. /\ heard[d] # Silence /\ heard' = [heard EXCEPT ![d] = Silence]
        /\ \/ q # NONE /\ conn' = [conn EXCEPT ![d] = c]
           \/ conn' = conn
        /\ UNCHANGED <<pc, i, fds, owner, linger, lfd, port>>
    BY <1>6 DEF Register
  <2>2. heard[d] \in Mcast /\ heard[d].port \in Port /\ heard[d].from \in Process
    BY <2>1 DEF TypeOK, Mcast, Port, Process
  <2>3. q # NONE => c \in Conn
    BY <2>2 DEF TypeOK, Conn
  <2>4. heard[d].live => q = heard[d].from
    BY <2>2 DEF McastInv, PortInv
  <2> HIDE DEF q
  <2>5. TypeOK'
    BY <2>1, <2>3 DEF TypeOK
  <2>6. McastInv'
    BY <2>1, <2>4 DEF TypeOK, McastInv, Silence
  <2> QED  BY <1>4, <2>1, <2>5, <2>6
<1>7. ASSUME NEW c \in Controller, NEW d \in Daemon, Reply(c, d)  PROVE StartInv'
  <2>1. conn' = [conn EXCEPT ![d] = NoConn]
        /\ UNCHANGED <<pc, i, fds, owner, linger, lfd, port, heard>>
    BY <1>7 DEF Reply
  <2>2. TypeOK' /\ McastInv'
    BY <2>1 DEF TypeOK, McastInv, NoConn, Silence
  <2> QED  BY <1>4, <2>1, <2>2
<1>8. ASSUME NEW n \in Port, Release(n)  PROVE StartInv'
  <2>1. TypeOK' /\ McastInv'
    BY <1>8 DEF Release, TypeOK, McastInv
  <2> QED  BY <1>4, <1>8, <2>1 DEF Release
<1>9. CASE UNCHANGED vars
  <2>1. TypeOK' /\ McastInv'
    BY <1>9 DEF vars, TypeOK, McastInv
  <2> QED  BY <1>4, <1>9, <2>1 DEF vars
<1> HIDE DEF StartInv
<1> QED
  BY <1>1, <1>2, <1>3, <1>5, <1>6, <1>7, <1>8, <1>9 DEF Next

-----------------------------------------------------------------------------

\* Every variable has its type: no port, descriptor or place of the scan is out of
\* its range.
THEOREM TypeCorrect == Spec => []TypeOK
<1> QED  BY StartInit, StartStep, PTL DEF Spec, StartInv

\* Any number of processes, started and stopped in any order, announce the ports
\* they accept from, and no two of them the same.
THEOREM PortsAreOwn == Spec => []OwnPort
<1>1. StartInv => OwnPort
  BY DEF StartInv, PortInv, OwnPort
<1> QED  BY <1>1, StartInit, StartStep, PTL DEF Spec

\* A process fails to start only when it has used up the ports or the descriptors.
THEOREM FailuresExhaust == Spec => []FailsOnlyExhausted
<1>1. StartInv => FailsOnlyExhausted
  BY DEF StartInv, ScanInv, Spent, FailsOnlyExhausted
<1> QED  BY <1>1, StartInit, StartStep, PTL DEF Spec

\* A daemon is connected to the controller it heard, as long as that one runs.
THEOREM SendersAreReached == Spec => []ReachesSender
<1>1. StartInv => ReachesSender
  BY DEF StartInv, McastInv, ReachesSender
<1> QED  BY <1>1, StartInit, StartStep, PTL DEF Spec

=============================================================================
