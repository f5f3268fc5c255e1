------------------------------ MODULE MsgEngine ------------------------------
(***************************************************************************)
(* The threads of one process, skrumctld or skrumd: the main thread accepts*)
(* connections and gives each one a detached service thread, a discovery   *)
(* thread runs beside it, and all of them are counted by active_threads    *)
(* (cont_active_threads) under a mutex and a condition variable.  SIGINT or*)
(* SIGTERM sets the shutdown flag; the main thread then waits at most 120  *)
(* seconds for the count to reach zero, frees conf and the list, and exits.*)
(*                                                                         *)
(* Both programs have this code.  They differ in the discovery thread,     *)
(* which sleeps in skrumctld and blocks in recvfrom in skrumd.             *)
(***************************************************************************)
EXTENDS Naturals, FiniteSets

CONSTANTS
    Conn,         \* connections that may be open at the same time
    MAXTHREADS,   \* CONT_MAXTHREADS of skrumctld, MAXTHREADS of skrumd
    MaxErrors     \* bound: failures of accept without a signal, and cut messages

ASSUME EngineAssumption ==
    /\ IsFiniteSet(Conn)
    /\ MAXTHREADS \in Nat \ {0}
    /\ MaxErrors \in Nat

VARIABLES
    pc,         \* where the main thread is
    active,     \* active_threads
    shutdown,   \* _shutdown
    cli_freed,  \* whether the cli of _msg_engine has been freed
    errors,     \* accept failures that no signal caused, and messages cut short
    conn,       \* the state of each connection and of its service thread
    disc,       \* where the discovery thread is
    freed,      \* _skrumctld_fini has freed conf and the list
    timed_out,  \* history: _wait_for_all_threads gave up
    used_freed  \* history: a thread ran on conf, the list or the mutex when freed

vars == <<pc, active, shutdown, cli_freed, errors, conn, disc, freed,
          timed_out, used_freed>>

MainPlaces == {"test", "accept", "increment", "waiting", "create", "waitall",
               "timedwait", "fini", "return", "exited", "aborted"}

\* The listening socket is open until _msg_engine returns.
Listening == pc \in {"test", "accept", "increment", "waiting", "create"}
Running   == pc \notin {"exited", "aborted"}

\* Connections whose service thread exists and has not been counted out.
Live == {c \in Conn : conn[c] \in {"reading", "serving", "leaving"}}

TypeOK ==
    /\ pc \in MainPlaces
    /\ active \in 0 .. MAXTHREADS
    /\ shutdown \in BOOLEAN /\ cli_freed \in BOOLEAN /\ freed \in BOOLEAN
    /\ timed_out \in BOOLEAN /\ used_freed \in BOOLEAN
    /\ errors \in 0 .. MaxErrors
    /\ conn \in [Conn -> {"none", "pending", "accepted", "reading", "serving",
                          "leaving"}]
    /\ disc \in {"test", "work", "leaving", "ended"}

\* main has counted and created the discovery thread and enters _msg_engine.
Init ==
    /\ pc = "test"
    /\ active = 1
    /\ shutdown = FALSE
    /\ cli_freed = FALSE
    /\ errors = 0
    /\ conn = [c \in Conn |-> "none"]
    /\ disc = "test"
    /\ freed = FALSE
    /\ timed_out = FALSE
    /\ used_freed = FALSE

-----------------------------------------------------------------------------
(* The main thread. *)

\* while(!_ctl_shutdown); on the way out close(lfd) resets who has not been
\* accepted.
TestShutdown ==
    /\ pc = "test"
    /\ IF shutdown
       THEN /\ pc' = "waitall"
            /\ conn' = [c \in Conn |->
                          IF conn[c] = "pending" THEN "none" ELSE conn[c]]
       ELSE /\ pc' = "accept"
            /\ UNCHANGED conn
    /\ UNCHANGED <<active, shutdown, cli_freed, errors, disc, freed,
                   timed_out, used_freed>>

Accept(c) ==
    /\ pc = "accept"
    /\ conn[c] = "pending"
    /\ pc' = "increment"
    /\ conn' = [conn EXCEPT ![c] = "accepted"]
    /\ UNCHANGED <<active, shutdown, cli_freed, errors, disc, freed, timed_out,
                   used_freed>>

\* accept() failed: cli is freed, and freeing it again aborts the process.
FreeCli ==
    /\ pc' = IF cli_freed THEN "aborted" ELSE "test"
    /\ cli_freed' = TRUE

\* A transient error: a connection aborted by its peer, no free descriptor.
AcceptFails ==
    /\ pc = "accept"
    /\ errors < MaxErrors
    /\ errors' = errors + 1
    /\ FreeCli
    /\ UNCHANGED <<active, shutdown, conn, disc, freed, timed_out,
                   used_freed>>

\* Mutant: one thread more than there should be.
IncrementThreadCntOver ==
    /\ pc = "increment"
    /\ IF active > MAXTHREADS
       THEN pc' = "waiting" /\ UNCHANGED active
       ELSE pc' = "create" /\ active' = active + 1
    /\ UNCHANGED <<shutdown, cli_freed, errors, conn, disc, freed,
                   timed_out, used_freed>>

\* _increment_thread_cnt in _handle_connection, with the lock held throughout
\* except in the wait.
IncrementThreadCnt ==
    /\ pc = "increment"
    /\ IF active >= MAXTHREADS
       THEN pc' = "waiting" /\ UNCHANGED active
       ELSE pc' = "create" /\ active' = active + 1
    /\ UNCHANGED <<shutdown, cli_freed, errors, conn, disc, freed,
                   timed_out, used_freed>>

\* skrum_thread_create_detached
CreateThread ==
    /\ pc = "create"
    /\ pc' = "test"
    /\ conn' = [c \in Conn |-> IF conn[c] = "accepted" THEN "reading" ELSE conn[c]]
    /\ UNCHANGED <<active, shutdown, cli_freed, errors, disc, freed, timed_out,
                   used_freed>>

\* Mutant: the main thread does not wait for the others.
WaitForNoThreads ==
    /\ pc = "waitall"
    /\ pc' = "fini"
    /\ UNCHANGED <<active, shutdown, cli_freed, errors, conn, disc, freed,
                   timed_out, used_freed>>

\* _wait_for_all_threads: the test of its loop.
WaitForAllThreads ==
    /\ pc = "waitall"
    /\ pc' = IF active > 0 THEN "timedwait" ELSE "fini"
    /\ UNCHANGED <<active, shutdown, cli_freed, errors, conn, disc, freed,
                   timed_out, used_freed>>

\* Mutant: after ETIMEDOUT the main thread waits again.
WaitTimeoutRetries ==
    /\ pc = "timedwait"
    /\ pc' = "waitall"
    /\ timed_out' = TRUE
    /\ UNCHANGED <<active, shutdown, cli_freed, errors, conn, disc, freed,
                   used_freed>>

\* ETIMEDOUT: the main thread goes on without the others.
WaitTimeout ==
    /\ pc = "timedwait"
    /\ pc' = "fini"
    /\ timed_out' = TRUE
    /\ UNCHANGED <<active, shutdown, cli_freed, errors, conn, disc, freed,
                   used_freed>>

\* A wait on the condition variable may return for no reason.
SpuriousWakeup ==
    /\ \/ pc = "waiting" /\ pc' = "increment"
       \/ pc = "timedwait" /\ pc' = "waitall"
    /\ UNCHANGED <<active, shutdown, cli_freed, errors, conn, disc, freed,
                   timed_out, used_freed>>

\* _skrumctld_fini
Fini ==
    /\ pc = "fini"
    /\ pc' = "return"
    /\ freed' = TRUE
    /\ UNCHANGED <<active, shutdown, cli_freed, errors, conn, disc,
                   timed_out, used_freed>>

\* main returns and takes every other thread with it.
Exit ==
    /\ pc = "return"
    /\ pc' = "exited"
    /\ active' = 0
    /\ conn' = [c \in Conn |-> "none"]
    /\ disc' = "ended"
    /\ UNCHANGED <<shutdown, cli_freed, errors, freed, timed_out,
                   used_freed>>

\* Mutant: the handler leaves the flag alone and only interrupts accept.
SignalUnnoted ==
    /\ Running
    /\ IF pc = "accept" THEN FreeCli ELSE UNCHANGED <<pc, cli_freed>>
    /\ UNCHANGED <<active, shutdown, errors, conn, disc, freed, timed_out,
                   used_freed>>

\* The kernel runs _skrumctld_shutdown on the main thread; only a blocking
\* accept notices, since xsignal does not ask for SA_RESTART.
Signal ==
    /\ Running
    /\ shutdown' = TRUE
    /\ IF pc = "accept" THEN FreeCli ELSE UNCHANGED <<pc, cli_freed>>
    /\ UNCHANGED <<active, errors, conn, disc, freed, timed_out,
                   used_freed>>

-----------------------------------------------------------------------------
(* Service threads and their clients. *)

\* A client connects: the kernel keeps it in the backlog.
Connect(c) ==
    /\ Listening
    /\ conn[c] = "none"
    /\ conn' = [conn EXCEPT ![c] = "pending"]
    /\ UNCHANGED <<pc, active, shutdown, cli_freed, errors, disc, freed,
                   timed_out, used_freed>>

\* Mutant: the thread returns at a failure without counting itself out.
ReceiveReturns(c) ==
    /\ Running
    /\ conn[c] = "reading"
    /\ \E s \in {"serving", "none"} : conn' = [conn EXCEPT ![c] = s]
    /\ UNCHANGED <<pc, active, shutdown, cli_freed, errors, disc, freed,
                   timed_out, used_freed>>

\* skrum_receive_msg returns, with a message or, if the client closed before the
\* header, with an empty one that _service_connection serves as well.
Receive(c) ==
    /\ Running
    /\ conn[c] = "reading"
    /\ conn' = [conn EXCEPT ![c] = "serving"]
    /\ UNCHANGED <<pc, active, shutdown, cli_freed, errors, disc, freed,
                   timed_out, used_freed>>

\* The client closes in the middle of a message, or the message comes in pieces:
\* skrum_msg_recvfrom and skrum_receive_msg both free the body, and the second
\* free ends the process and every thread of it (see Connection).
ReceiveAborts(c) ==
    /\ Running
    /\ conn[c] = "reading"
    /\ errors < MaxErrors
    /\ errors' = errors + 1
    /\ pc' = "aborted"
    /\ active' = 0
    /\ conn' = [d \in Conn |-> "none"]
    /\ disc' = "ended"
    /\ UNCHANGED <<shutdown, cli_freed, freed, timed_out, used_freed>>

\* skrumctld_req works on conf and the list; then the connection is closed.
Serve(c) ==
    /\ Running
    /\ conn[c] = "serving"
    /\ conn' = [conn EXCEPT ![c] = "leaving"]
    /\ used_freed' = (used_freed \/ freed)
    /\ UNCHANGED <<pc, active, shutdown, cli_freed, errors, disc, freed,
                   timed_out>>

\* Mutant: nobody is told that a thread has left.
DecrementNoSignal ==
    /\ active' = IF active > 0 THEN active - 1 ELSE active
    /\ UNCHANGED pc
    /\ used_freed' = (used_freed \/ freed)

\* _decrement_thread_cnt: the signal wakes the main thread, the only one that
\* ever waits.
DecrementThreadCnt ==
    /\ active' = IF active > 0 THEN active - 1 ELSE active
    /\ pc' = IF pc = "waiting" THEN "increment"
             ELSE IF pc = "timedwait" THEN "waitall" ELSE pc
    /\ used_freed' = (used_freed \/ freed)

LeaveService(c) ==
    /\ Running
    /\ conn[c] = "leaving"
    /\ conn' = [conn EXCEPT ![c] = "none"]
    /\ DecrementThreadCnt
    /\ UNCHANGED <<shutdown, cli_freed, errors, disc, freed, timed_out>>

-----------------------------------------------------------------------------
(* The discovery thread. *)

DiscoveryTest ==
    /\ Running
    /\ disc = "test"
    /\ disc' = IF shutdown THEN "leaving" ELSE "work"
    /\ UNCHANGED <<pc, active, shutdown, cli_freed, errors, conn, freed,
                   timed_out, used_freed>>

\* skrumctld: a multicast, a second's sleep and _update_node_list.
\* skrumd: a datagram arrives in recvfrom and is handled.
DiscoveryWork ==
    /\ Running
    /\ disc = "work"
    /\ disc' = "test"
    /\ used_freed' = (used_freed \/ freed)
    /\ UNCHANGED <<pc, active, shutdown, cli_freed, errors, conn, freed,
                   timed_out>>

LeaveDiscovery ==
    /\ Running
    /\ disc = "leaving"
    /\ disc' = "ended"
    /\ DecrementThreadCnt
    /\ UNCHANGED <<shutdown, cli_freed, errors, conn, freed, timed_out>>

-----------------------------------------------------------------------------

Main == TestShutdown \/ (\E c \in Conn : Accept(c)) \/ IncrementThreadCnt
        \/ CreateThread \/ WaitForAllThreads \/ Fini \/ Exit

Service(c) == Receive(c) \/ Serve(c) \/ LeaveService(c)

Ended == ~Running /\ UNCHANGED vars

Next ==
    \/ Main \/ AcceptFails \/ WaitTimeout \/ SpuriousWakeup \/ Signal
    \/ \E c \in Conn : Connect(c) \/ Service(c) \/ ReceiveAborts(c)
    \/ DiscoveryTest \/ DiscoveryWork \/ LeaveDiscovery
    \/ Ended

Spec == Init /\ [][Next]_vars

\* Threads that can run do run, and the 120 seconds pass: the deadline is fixed
\* before the loop, so that no number of wakeups puts it off.  A daemon may see no
\* connection, message or datagram ever again.
Fairness ==
    /\ WF_vars(Main)
    /\ SF_vars(WaitTimeout)
    /\ WF_vars(DiscoveryTest)
    /\ WF_vars(LeaveDiscovery)
    /\ \A c \in Conn : WF_vars(Serve(c)) /\ WF_vars(LeaveService(c))

FairSpec == Spec /\ Fairness

\* In a running cluster the controller sees more: its discovery thread wakes up
\* from its sleep; its clients are daemons, which send or close, and keep
\* connecting to pong; accept takes connections in the order of the backlog.
ClusterRuns ==
    /\ WF_vars(DiscoveryWork)
    /\ \A c \in Conn : /\ WF_vars(Connect(c))
                       /\ WF_vars(Receive(c))
                       /\ SF_vars(Accept(c))

-----------------------------------------------------------------------------
(* What the engine is for. *)

\* active_threads counts the threads that run, the one that main is about to
\* create included: neither a wait, a spurious wakeup nor the two places that
\* decrement it lose or repeat a count, so the limit is on real threads.
CountsThreads ==
    active = Cardinality(Live) + (IF disc = "ended" THEN 0 ELSE 1)
                               + (IF pc = "create" THEN 1 ELSE 0)

\* conf, the list and the mutex are freed under no running thread, unless
\* _wait_for_all_threads gave up on it.
FiniAlone ==
    /\ freed /\ pc = "return" /\ ~timed_out => Live = {} /\ disc = "ended"
    /\ used_freed => timed_out

\* The failed accept that a signal causes is the last: only an accept that fails
\* for another reason as well frees cli twice, and only a message cut short has
\* its body freed twice; without either the process is never aborted.
AbortNeedsError == pc = "aborted" => errors > 0

\* In a running cluster the controller takes every connection out of the backlog,
\* full pool or not, as long as the process runs.
Accepted ==
    ClusterRuns =>
       \A c \in Conn : conn[c] = "pending" ~> conn[c] # "pending" \/ ~Running

\* There a signal ends the controller, whatever its main thread was doing.
ShutdownCompletes == ClusterRuns => (shutdown ~> ~Running)

\* Without connections or datagrams a process still ends, unless the signal came
\* between the test of the flag and accept, or a client that neither sends nor
\* closes keeps the pool full.
ShutdownOrBlocked ==
    shutdown ~> \/ ~Running
                \/ pc = "accept"
                \/ pc = "waiting"

=============================================================================
