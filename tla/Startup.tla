------------------------------- MODULE Startup -------------------------------
(***************************************************************************)
(* How the controllers and daemons of one machine start: each looks for a  *)
(* port of its own, while the others start, run and stop, and a daemon then*)
(* connects to the port that a controller has announced.                   *)
(*                                                                         *)
(* Port 0 stands for 3434, which is tried first and never used, and        *)
(* 1 .. LastPort for 10001 to 65535.                                       *)
(***************************************************************************)
EXTENDS Naturals, FiniteSets

CONSTANTS
    Controller, Daemon, \* processes
    NONE,               \* no process
    LastPort,           \* the last port of the scan
    Busy,               \* ports that other programs hold
    FdLimit,            \* descriptors a process may have
    Topology            \* what hwloc may find when a process starts

ASSUME StartupAssumption ==
    /\ Controller \cap Daemon = {} /\ NONE \notin Controller \cup Daemon
    /\ LastPort \in Nat /\ FdLimit \in Nat
    /\ Busy \subseteq 0 .. LastPort
    /\ \A t \in Topology : t.sockets \in Nat /\ t.cores \in Nat

VARIABLES
    pc,     \* where main is
    i,      \* the next port of the scan
    fds,    \* descriptors in use
    owner,  \* whose socket is bound to each port
    linger, \* ports of closed connections, not yet free
    lfd,    \* the port of the socket that _msg_engine accepts from
    port,   \* conf->port
    heard,  \* the multicast in each daemon's socket
    conn    \* the connection in which each daemon waits for its id

vars == <<pc, i, fds, owner, linger, lfd, port, heard, conn>>

Process == Controller \cup Daemon
Port == 0 .. LastPort
Starting == {"init", "first", "scan", "discovery"}

\* A multicast: who sent it, from which port, and whether that process still runs.
Mcast == [from : Controller, port : 1 .. LastPort, live : BOOLEAN]
Silence == [from |-> NONE, port |-> 0, live |-> FALSE]

\* A connection: its other end, and the multicast it follows.
Conn == [to : Process, mcast : Mcast]
NoConn == [to |-> NONE, mcast |-> Silence]

TypeOK ==
    /\ pc \in [Process -> Starting \cup {"off", "failed", "running"}]
    /\ i \in [Process -> 0 .. LastPort + 1]
    /\ fds \in [Process -> 0 .. FdLimit]
    /\ owner \in [Port -> Process \cup {NONE}]
    /\ linger \subseteq Port
    /\ lfd \in [Process -> Port] /\ port \in [Process -> Port]
    /\ heard \in [Daemon -> Mcast \cup {Silence}]
    /\ conn \in [Daemon -> Conn \cup {NoConn}]

Init ==
    /\ pc = [p \in Process |-> "off"]
    /\ i = [p \in Process |-> 0] /\ fds = [p \in Process |-> 0]
    /\ owner = [n \in Port |-> NONE]
    /\ linger = {}
    /\ lfd = [p \in Process |-> 0] /\ port = [p \in Process |-> 0]
    /\ heard = [d \in Daemon |-> Silence]
    /\ conn = [d \in Daemon |-> NoConn]

-----------------------------------------------------------------------------
(* main, up to _msg_engine *)

Goto(p, place) == pc' = [pc EXCEPT ![p] = place]

\* The process ends, by exit, by a signal or at the end of main.  Its sockets are
\* closed and the ports of those that had connections may be taken for a while.
\* What it sent is still under way, and whoever waits for it gets an error.
Close(p, place) ==
    /\ Goto(p, place)
    /\ owner' = [n \in Port |-> IF owner[n] = p THEN NONE ELSE owner[n]]
    /\ \E S \in SUBSET {n \in Port : owner[n] = p} : linger' = linger \cup S
    /\ heard' = [d \in Daemon |->
                   IF d = p THEN Silence
                   ELSE IF heard[d].from = p THEN [heard[d] EXCEPT !.live = FALSE]
                   ELSE heard[d]]
    /\ conn' = [d \in Daemon |->
                  IF d = p \/ conn[d].to = p THEN NoConn
                  ELSE IF conn[d].mcast.from = p
                       THEN [conn[d] EXCEPT !.mcast.live = FALSE] ELSE conn[d]]
    /\ UNCHANGED <<i, fds, lfd, port>>

Stop(p) == pc[p] \notin {"off", "failed"} /\ Close(p, "off")

Start(p) ==
    /\ pc[p] \in {"off", "failed"}
    /\ Goto(p, "init")
    /\ i' = [i EXCEPT ![p] = 0] /\ fds' = [fds EXCEPT ![p] = 0]
    /\ lfd' = [lfd EXCEPT ![p] = 0] /\ port' = [port EXCEPT ![p] = 0]
    /\ UNCHANGED <<owner, linger, heard, conn>>

\* xcpuinfo_hwloc_topo_get divides the cores by the sockets and the processing
\* units by the result.
Divides(t) == t.sockets # 0 /\ t.cores >= t.sockets

\* _skrumctld_init and _skrumd_init.  XCPUINFO_ERROR is 1, which the test for < 0
\* in main passes.
XcpuinfoInit(p) ==
    /\ pc[p] = "init"
    /\ \E t \in Topology :
          \/ /\ Divides(t)
             /\ Goto(p, "first")
             /\ UNCHANGED <<i, fds, owner, linger, lfd, port, heard, conn>>
          \/ ~Divides(t) /\ Close(p, "failed")

\* Mutant: sockets are bound with SO_REUSEPORT.
FreeAlways(n) == n \notin Busy

\* bind succeeds: the sockets have no SO_REUSEADDR.
Free(n) == owner[n] = NONE /\ n \notin Busy \cup linger

Bound(p, n) == fds[p] < FdLimit /\ Free(n)

\* skrum_init_msg_engine: a socket that cannot be bound is left open.
InitMsgEngine(p, n) ==
    /\ fds' = [fds EXCEPT ![p] = IF @ < FdLimit THEN @ + 1 ELSE @]
    /\ owner' = IF Bound(p, n) THEN [owner EXCEPT ![n] = p] ELSE owner

\* The selected port.  errno = EADDRINUSE assigns, and the scan follows in any
\* case; a socket bound here stays bound.
BindFirst(p) ==
    /\ pc[p] = "first"
    /\ InitMsgEngine(p, 0)
    /\ i' = [i EXCEPT ![p] = 1]
    /\ Goto(p, "scan")
    /\ UNCHANGED <<linger, lfd, port, heard, conn>>

\* Mutant: the break does not depend on cc.
BindScanOnce(p) ==
    /\ pc[p] = "scan" /\ i[p] <= LastPort
    /\ InitMsgEngine(p, i[p])
    /\ lfd' = [lfd EXCEPT ![p] = IF Bound(p, i[p]) THEN i[p] ELSE @]
    /\ i' = [i EXCEPT ![p] = IF Bound(p, i[p]) THEN @ ELSE LastPort + 1]
    /\ pc' = [pc EXCEPT ![p] = IF Bound(p, i[p]) THEN "discovery" ELSE @]
    /\ UNCHANGED <<linger, port, heard, conn>>

BindScan(p) ==
    /\ pc[p] = "scan" /\ i[p] <= LastPort
    /\ InitMsgEngine(p, i[p])
    /\ IF Bound(p, i[p])
       THEN /\ lfd' = [lfd EXCEPT ![p] = i[p]]
            /\ Goto(p, "discovery")
            /\ UNCHANGED i
       ELSE /\ i' = [i EXCEPT ![p] = @ + 1]
            /\ UNCHANGED <<pc, lfd>>
    /\ UNCHANGED <<linger, port, heard, conn>>

\* Mutant: the variable of the loop has 16 bits.
ScanWraps(p) ==
    /\ pc[p] = "scan" /\ i[p] > LastPort
    /\ i' = [i EXCEPT ![p] = 1]
    /\ UNCHANGED <<pc, fds, owner, linger, lfd, port, heard, conn>>

\* No socket: main exits.
ScanFails(p) ==
    /\ pc[p] = "scan" /\ i[p] > LastPort
    /\ Close(p, "failed")

\* Mutant: the selected port is taken for the one bound.
DiscoveryFirst(p) ==
    /\ pc[p] = "discovery"
    /\ fds[p] < FdLimit
    /\ fds' = [fds EXCEPT ![p] = @ + 1]
    /\ port' = [port EXCEPT ![p] = CHOOSE n \in Port : owner[n] = p]
    /\ Goto(p, "running")
    /\ UNCHANGED <<i, owner, linger, lfd, heard, conn>>

\* skrum_init_discovery: its socket shares the port, and the machine may have no
\* network to join the group in.  Then the threads run with conf filled in.
InitDiscovery(p) ==
    /\ pc[p] = "discovery"
    /\ \/ /\ fds[p] < FdLimit
          /\ fds' = [fds EXCEPT ![p] = @ + 1]
          /\ port' = [port EXCEPT ![p] = i[p]]
          /\ Goto(p, "running")
          /\ UNCHANGED <<i, owner, linger, lfd, heard, conn>>
       \/ Close(p, "off")

Main(p) == XcpuinfoInit(p) \/ BindFirst(p) \/ BindScan(p) \/ ScanFails(p) \/ InitDiscovery(p)

-----------------------------------------------------------------------------
(* What runs then *)

\* skrum_send_discovery_msg, as far as one daemon gets it.
SendDiscovery(c, d) ==
    /\ pc[c] = "running" /\ pc[d] = "running"
    /\ heard[d] = Silence
    /\ heard' = [heard EXCEPT ![d] = [from |-> c, port |-> port[c], live |-> TRUE]]
    /\ UNCHANGED <<pc, i, fds, owner, linger, lfd, port, conn>>

\* skrum_send_recv_msg of _process_ctrlr_mcast: a socket listens on the port, and
\* its owner is one of our processes, or the connection is refused.  For a
\* controller the daemon knows, it does not wait.
Register(d) ==
    /\ pc[d] = "running" /\ conn[d] = NoConn
    /\ heard[d] # Silence
    /\ heard' = [heard EXCEPT ![d] = Silence]
    /\ LET q == owner[heard[d].port]
       IN \/ q # NONE /\ conn' = [conn EXCEPT ![d] = [to |-> q, mcast |-> heard[d]]]
          \/ UNCHANGED conn
    /\ UNCHANGED <<pc, i, fds, owner, linger, lfd, port>>

\* Mutant: the connection stays open without an answer.
ReplyNot(c, d) == pc[c] = "running" /\ conn[d].to = c /\ UNCHANGED vars

\* The service thread of a controller answers.  That of a daemon has no answer
\* for a registration and leaves the connection open.
Reply(c, d) ==
    /\ pc[c] = "running"
    /\ conn[d].to = c
    /\ conn' = [conn EXCEPT ![d] = NoConn]
    /\ UNCHANGED <<pc, i, fds, owner, linger, lfd, port, heard>>

\* A lingering port becomes free.
Release(n) ==
    /\ n \in linger
    /\ linger' = linger \ {n}
    /\ UNCHANGED <<pc, i, fds, owner, lfd, port, heard, conn>>

Next ==
    \/ \E p \in Process : Start(p) \/ Stop(p) \/ Main(p)
    \/ \E d \in Daemon : \/ Register(d)
                         \/ \E c \in Controller : SendDiscovery(c, d) \/ Reply(c, d)
    \/ \E n \in Port : Release(n)

Spec == Init /\ [][Next]_vars

\* main goes on, and so does each service thread of a controller.
FairSpec ==
    /\ Spec
    /\ \A p \in Process : WF_vars(Main(p))
    /\ \A c \in Controller, d \in Daemon : WF_vars(Reply(c, d))

-----------------------------------------------------------------------------

\* The port a process announces is the one its engine accepts from, and no two
\* processes have the same, although each binds two and they start and stop
\* in any order.
OwnPort ==
    \A p \in Process : pc[p] = "running" =>
        /\ port[p] = lfd[p] /\ port[p] # 0
        /\ owner[port[p]] = p

\* A start fails only if there is no port or no descriptor left: every port has
\* cost a descriptor.
FailsOnlyExhausted ==
    \A p \in Process : pc[p] = "failed" /\ i[p] > 0 => fds[p] \in {FdLimit, LastPort + 1}

\* A daemon that registers talks to the controller it heard, unless that one has
\* ended meanwhile and another process has its port.
ReachesSender ==
    \A d \in Daemon : conn[d].mcast.live => conn[d].to = conn[d].mcast.from

\* main never stays in the scan.
StartupEnds == \A p \in Process : pc[p] \in Starting ~> pc[p] \notin Starting

\* A daemon that waits for its id in a connection to the controller it heard gets
\* it, or an error.  (Connected to another daemon, or to itself, it waits as long
\* as that process runs.)
Answered ==
    \A d \in Daemon : conn[d].mcast.live ~> ~conn[d].mcast.live

=============================================================================
