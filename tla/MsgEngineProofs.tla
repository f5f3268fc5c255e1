--------------------------- MODULE MsgEngineProofs ---------------------------
(***************************************************************************)
(* Proofs about MsgEngine for every number of connections and threads.     *)
(***************************************************************************)
EXTENDS MsgEngine, FiniteSetTheorems, TLAPS

USE EngineAssumption DEF EngineAssumption

\* One connection at a time is between accept and its service thread.
OneAccepted ==
    /\ pc \in {"increment", "waiting", "create"} =>
          \E c \in Conn : conn[c] = "accepted"
    /\ pc \notin {"increment", "waiting", "create", "exited"} =>
          \A c \in Conn : conn[c] # "accepted"
    /\ \A c, d \in Conn : conn[c] = "accepted" /\ conn[d] = "accepted" => c = d

\* TypeOK but for the bound on active, which follows from the guard of
\* IncrementThreadCnt and from the count being right.
Shape ==
    /\ pc \in MainPlaces
    /\ shutdown \in BOOLEAN /\ cli_freed \in BOOLEAN /\ freed \in BOOLEAN
    /\ timed_out \in BOOLEAN /\ used_freed \in BOOLEAN
    /\ errors \in 0 .. MaxErrors
    /\ conn \in [Conn -> {"none", "pending", "accepted", "reading", "serving",
                          "leaving"}]
    /\ disc \in {"test", "work", "leaving", "ended"}
    /\ OneAccepted

EngineInv == TypeOK /\ OneAccepted /\ CountsThreads

\* The live threads are finitely many.
LEMMA LiveFinite == IsFiniteSet(Live) /\ Cardinality(Live) \in Nat
<1>1. Live \subseteq Conn
  BY DEF Live
<1> QED  BY <1>1, FS_Subset, FS_CardinalityType

\* The types and the accepted connection, step by step.
LEMMA ShapeStep ==
    ASSUME EngineInv, [Next]_vars
    PROVE  Shape'
<1> USE DEF EngineInv, TypeOK, Shape, OneAccepted, MainPlaces, Running
<1>1. CASE TestShutdown \/ (\E c \in Conn : Accept(c))
  BY <1>1 DEF TestShutdown, Accept
<1>2. CASE IncrementThreadCnt \/ CreateThread
  BY <1>2 DEF IncrementThreadCnt, CreateThread
<1>3. CASE WaitForAllThreads \/ WaitTimeout \/ SpuriousWakeup
  BY <1>3 DEF WaitForAllThreads, WaitTimeout, SpuriousWakeup
<1>4. CASE Fini \/ Exit
  BY <1>4 DEF Fini, Exit
<1>4a. CASE AcceptFails
  BY <1>4a DEF AcceptFails, FreeCli
<1>4b. CASE Signal
  BY <1>4b DEF Signal, FreeCli
<1>5. ASSUME NEW c \in Conn, Connect(c) \/ Service(c) \/ ReceiveAborts(c)
      PROVE  Shape'
  <2>1. CASE Connect(c)
    BY <2>1 DEF Connect, Listening
  <2>2. CASE Receive(c) \/ Serve(c)
    BY <2>2 DEF Receive, Serve
  <2>3. CASE LeaveService(c)
    BY <2>3 DEF LeaveService, DecrementThreadCnt
  <2>4. CASE ReceiveAborts(c)
    BY <2>4 DEF ReceiveAborts
  <2> QED  BY <1>5, <2>1, <2>2, <2>3, <2>4 DEF Service
<1>6. CASE DiscoveryTest \/ DiscoveryWork \/ LeaveDiscovery
  BY <1>6 DEF DiscoveryTest, DiscoveryWork, LeaveDiscovery, DecrementThreadCnt
<1>7. CASE UNCHANGED vars
  BY <1>7 DEF vars
<1> HIDE DEF EngineInv, TypeOK, Shape, OneAccepted, MainPlaces, Running
<1> QED
  BY <1>1, <1>2, <1>3, <1>4, <1>4a, <1>4b, <1>5, <1>6, <1>7 DEF Next, Main, Ended

\* One live thread more or less, and the count of them follows.
LEMMA LiveAdd ==
    ASSUME NEW c \in Conn, c \notin Live, Live' = Live \cup {c}
    PROVE  Cardinality(Live') = Cardinality(Live) + 1
BY LiveFinite, FS_AddElement

LEMMA LiveRemove ==
    ASSUME NEW c \in Conn, c \in Live, Live' = Live \ {c}
    PROVE  Cardinality(Live') = Cardinality(Live) - 1
BY LiveFinite, FS_RemoveElement

\* Every step keeps active equal to the number of threads.
LEMMA CountStep ==
    ASSUME EngineInv, [Next]_vars
    PROVE  CountsThreads' /\ active' \in 0 .. MAXTHREADS
<1> USE LiveFinite DEF EngineInv, TypeOK, CountsThreads
<1>1. CASE TestShutdown \/ (\E c \in Conn : Accept(c))
  <2>1. Live' = Live
    BY <1>1 DEF TestShutdown, Accept, Live
  <2> QED  BY <1>1, <2>1 DEF TestShutdown, Accept
<1>2. CASE IncrementThreadCnt
  <2>1. Live' = Live
    BY <1>2 DEF IncrementThreadCnt, Live
  <2> QED  BY <1>2, <2>1 DEF IncrementThreadCnt
<1>3. CASE CreateThread
  <2>1. PICK c \in Conn : conn[c] = "accepted"
    BY <1>3 DEF CreateThread, OneAccepted
  <2>2. c \notin Live /\ Live' = Live \cup {c}
    BY <1>3, <2>1 DEF CreateThread, OneAccepted, Live
  <2> QED  BY <1>3, <2>2, LiveAdd DEF CreateThread
<1>4. CASE WaitForAllThreads \/ WaitTimeout \/ SpuriousWakeup \/ Fini
  <2>1. Live' = Live
    BY <1>4 DEF WaitForAllThreads, WaitTimeout, SpuriousWakeup, Fini, Live
  <2> QED
    BY <1>4, <2>1 DEF WaitForAllThreads, WaitTimeout, SpuriousWakeup, Fini
<1>5. CASE AcceptFails \/ Signal
  <2>1. Live' = Live
    BY <1>5 DEF AcceptFails, Signal, Live
  <2> QED  BY <1>5, <2>1 DEF AcceptFails, Signal, FreeCli
<1>6. CASE Exit
  <2>1. Live' = {}
    BY <1>6 DEF Exit, Live
  <2> QED  BY <1>6, <2>1, FS_EmptySet DEF Exit
<1>7. ASSUME NEW c \in Conn, Connect(c) \/ Receive(c) \/ Serve(c)
      PROVE  CountsThreads' /\ active' \in 0 .. MAXTHREADS
  <2>1. Live' = Live
    BY <1>7 DEF Connect, Receive, Serve, Live
  <2> QED  BY <1>7, <2>1 DEF Connect, Receive, Serve
<1>8. ASSUME NEW c \in Conn, LeaveService(c)
      PROVE  CountsThreads' /\ active' \in 0 .. MAXTHREADS
  <2>1. c \in Live /\ Live' = Live \ {c}
    BY <1>8 DEF LeaveService, Live
  <2>2. Cardinality(Live') = Cardinality(Live) - 1 /\ Cardinality(Live) # 0
    BY <2>1, LiveRemove, LiveFinite, FS_EmptySet
  <2>3. active' = active - 1 /\ active > 0
    BY <1>8, <2>2 DEF LeaveService, DecrementThreadCnt
  <2>4. disc' = disc /\ (pc' = "create" <=> pc = "create")
    BY <1>8 DEF LeaveService, DecrementThreadCnt
  <2> QED  BY <2>2, <2>3, <2>4
<1>8a. ASSUME NEW c \in Conn, ReceiveAborts(c)
       PROVE  CountsThreads' /\ active' \in 0 .. MAXTHREADS
  <2>1. Live' = {}
    BY <1>8a DEF ReceiveAborts, Live
  <2> QED  BY <1>8a, <2>1, FS_EmptySet DEF ReceiveAborts
<1>9. CASE DiscoveryTest \/ DiscoveryWork
  <2>1. Live' = Live
    BY <1>9 DEF DiscoveryTest, DiscoveryWork, Live
  <2> QED  BY <1>9, <2>1 DEF DiscoveryTest, DiscoveryWork
<1>10. CASE LeaveDiscovery
  <2>1. Live' = Live
    BY <1>10 DEF LeaveDiscovery, Live
  <2> QED  BY <1>10, <2>1 DEF LeaveDiscovery, DecrementThreadCnt
<1>11. CASE UNCHANGED vars
  <2>1. Live' = Live
    BY <1>11 DEF vars, Live
  <2> QED  BY <1>11, <2>1 DEF vars
<1> HIDE DEF EngineInv, TypeOK, CountsThreads
<1> QED
  BY <1>1, <1>2, <1>3, <1>4, <1>5, <1>6, <1>7, <1>8,
     <1>8a, <1>9, <1>10, <1>11
     DEF Next, Main, Service, Ended

LEMMA EngineInit == Init => EngineInv
<1> SUFFICES ASSUME Init  PROVE EngineInv
  OBVIOUS
<1>1. Live = {} /\ Cardinality(Live) = 0
  BY FS_EmptySet DEF Init, Live
<1>2. pc \in MainPlaces /\ active \in 0 .. MAXTHREADS
  BY DEF Init, MainPlaces
<1>3. OneAccepted
  BY DEF Init, OneAccepted
<1>4. TypeOK
  <2>1. /\ shutdown \in BOOLEAN /\ cli_freed \in BOOLEAN /\ freed \in BOOLEAN
        /\ timed_out \in BOOLEAN /\ used_freed \in BOOLEAN
    BY Zenon DEF Init
  <2>2. errors \in 0 .. MaxErrors /\ disc \in {"test", "work", "leaving", "ended"}
    BY DEF Init
  <2>3. conn \in [Conn -> {"none", "pending", "accepted", "reading", "serving",
                           "leaving"}]
    BY DEF Init
  <2> QED  BY <1>2, <2>1, <2>2, <2>3, Zenon DEF TypeOK
<1>5. CountsThreads
  BY <1>1 DEF Init, CountsThreads
<1> QED  BY <1>3, <1>4, <1>5 DEF EngineInv

LEMMA EngineStep == EngineInv /\ [Next]_vars => EngineInv'
<1> SUFFICES ASSUME EngineInv, [Next]_vars  PROVE EngineInv'
  OBVIOUS
<1> QED  BY ShapeStep, CountStep DEF EngineInv, Shape, TypeOK

\* Every variable keeps its type; in particular no more threads are counted than
\* MAXTHREADS.
THEOREM TypeCorrect == Spec => []TypeOK
<1>1. EngineInv => TypeOK
  BY DEF EngineInv
<1> QED  BY <1>1, EngineInit, EngineStep, PTL DEF Spec

\* active_threads is the number of threads there are, for every size of the pool
\* and any number of connections, signals and spurious wakeups.
THEOREM ThreadsCounted == Spec => []CountsThreads
<1>1. EngineInv => CountsThreads
  BY DEF EngineInv
<1> QED  BY <1>1, EngineInit, EngineStep, PTL DEF Spec

-----------------------------------------------------------------------------
(* conf and the list are freed under no thread. *)

\* From the moment main stops waiting without a timeout nothing runs beside it.
Alone == Live = {} /\ disc = "ended"

FiniInv ==
    /\ pc \in {"fini", "return"} /\ ~timed_out => Alone
    /\ freed => pc \in {"return", "exited", "aborted"}
    /\ used_freed => timed_out

\* A count of zero is no thread at all.
LEMMA ZeroIsAlone ==
    ASSUME EngineInv, pc # "create", active = 0
    PROVE  Alone
<1>1. Cardinality(Live) = 0 /\ disc = "ended"
  BY LiveFinite DEF EngineInv, TypeOK, CountsThreads
<1> QED  BY <1>1, LiveFinite, FS_EmptySet DEF Alone

LEMMA FiniStep == EngineInv /\ FiniInv /\ [Next]_vars => FiniInv'
<1> SUFFICES ASSUME EngineInv, FiniInv, [Next]_vars  PROVE FiniInv'
  OBVIOUS
<1> USE DEF EngineInv, TypeOK, FiniInv, Alone, Live
<1>1. CASE TestShutdown \/ (\E c \in Conn : Accept(c))
  BY <1>1 DEF TestShutdown, Accept
<1>2. CASE IncrementThreadCnt \/ CreateThread
  BY <1>2 DEF IncrementThreadCnt, CreateThread
<1>3. CASE WaitForAllThreads
  BY <1>3, ZeroIsAlone DEF WaitForAllThreads
<1>4. CASE WaitTimeout \/ SpuriousWakeup \/ Fini \/ Exit
  BY <1>4 DEF WaitTimeout, SpuriousWakeup, Fini, Exit
<1>5. CASE AcceptFails
  BY <1>5 DEF AcceptFails, FreeCli
<1>6. CASE Signal
  BY <1>6 DEF Signal, FreeCli, Running
<1>7. ASSUME NEW c \in Conn, Connect(c) \/ Service(c) \/ ReceiveAborts(c)
      PROVE  FiniInv'
  <2>1. CASE Connect(c)
    BY <2>1 DEF Connect, Listening
  <2>2. CASE Receive(c) \/ Serve(c)
    BY <2>2 DEF Receive, Serve, Running
  <2>3. CASE LeaveService(c)
    BY <2>3 DEF LeaveService, DecrementThreadCnt, Running
  <2>4. CASE ReceiveAborts(c)
    BY <2>4 DEF ReceiveAborts
  <2> QED  BY <1>7, <2>1, <2>2, <2>3, <2>4 DEF Service
<1>8. CASE DiscoveryTest \/ DiscoveryWork \/ LeaveDiscovery
  BY <1>8 DEF DiscoveryTest, DiscoveryWork, LeaveDiscovery,
              DecrementThreadCnt, Running
<1>9. CASE UNCHANGED vars
  BY <1>9 DEF vars
<1> HIDE DEF EngineInv, TypeOK, FiniInv, Alone, Live
<1> QED
  BY <1>1, <1>2, <1>3, <1>4, <1>5, <1>6, <1>7, <1>8, <1>9 DEF Next, Main, Ended

\* The main thread frees conf, the list and the mutex only when no other thread
\* runs, unless its wait has timed out: no thread uses them afterwards.
THEOREM FiniIsAlone == Spec => []FiniAlone
<1>1. Init => FiniInv
  BY DEF Init, FiniInv
<1>2. FiniInv => FiniAlone
  BY DEF FiniInv, FiniAlone, Alone
<1> QED  BY <1>1, <1>2, EngineInit, EngineStep, FiniStep, PTL DEF Spec

-----------------------------------------------------------------------------
(* The process is aborted only if accept failed for a reason of its own, or a  *)
(* message was cut short.                                                      *)

\* After the failure that a signal causes, main is on its way out.
CliInv ==
    /\ errors = 0 /\ cli_freed =>
          shutdown /\ pc \notin {"accept", "increment", "waiting", "create"}
    /\ pc = "aborted" => errors > 0

LEMMA CliStep == EngineInv /\ CliInv /\ [Next]_vars => CliInv'
<1> SUFFICES ASSUME EngineInv, CliInv, [Next]_vars  PROVE CliInv'
  OBVIOUS
<1> USE DEF EngineInv, TypeOK, CliInv
<1>1. CASE TestShutdown \/ (\E c \in Conn : Accept(c))
  BY <1>1 DEF TestShutdown, Accept
<1>2. CASE IncrementThreadCnt \/ CreateThread
  BY <1>2 DEF IncrementThreadCnt, CreateThread
<1>3. CASE WaitForAllThreads \/ WaitTimeout \/ SpuriousWakeup \/ Fini \/ Exit
  BY <1>3 DEF WaitForAllThreads, WaitTimeout, SpuriousWakeup, Fini, Exit
<1>4. CASE AcceptFails
  BY <1>4 DEF AcceptFails, FreeCli
<1>5. CASE Signal
  BY <1>5 DEF Signal, FreeCli
<1>6. ASSUME NEW c \in Conn, Connect(c) \/ Service(c) \/ ReceiveAborts(c)
      PROVE  CliInv'
  BY <1>6 DEF Connect, Service, Receive, Serve, LeaveService, DecrementThreadCnt,
              ReceiveAborts
<1>7. CASE DiscoveryTest \/ DiscoveryWork \/ LeaveDiscovery
  BY <1>7 DEF DiscoveryTest, DiscoveryWork, LeaveDiscovery, DecrementThreadCnt
<1>8. CASE UNCHANGED vars
  BY <1>8 DEF vars
<1> HIDE DEF EngineInv, TypeOK, CliInv
<1> QED
  BY <1>1, <1>2, <1>3, <1>4, <1>5, <1>6, <1>7, <1>8 DEF Next, Main, Ended

\* However many signals arrive, and wherever, they alone never make
\* _msg_engine free cli twice.
THEOREM SignalsDoNotAbort == Spec => []AbortNeedsError
<1>1. Init => CliInv
  BY DEF Init, CliInv
<1>2. CliInv => AbortNeedsError
  BY DEF CliInv, AbortNeedsError
<1> QED  BY <1>1, <1>2, EngineInit, EngineStep, CliStep, PTL DEF Spec

=============================================================================
