--------------------------- MODULE ConnectionProofs ---------------------------
(***************************************************************************)
(* Proofs about Connection for frames of every size.                       *)
(***************************************************************************)
EXTENDS Connection, TLAPS

USE SizesAssumption DEF SizesAssumption

Places == Sending \cup Receiving \cup Gone \cup {"serve", "done"}

\* The types, without the bounds on the bytes.
Types ==
    /\ pc \in [Side -> Places]
    /\ sent \in [Side -> Nat] /\ taken \in [Side -> Nat]
    /\ result \in [Side -> {"none", "message", "empty"}]
    /\ registered \in BOOLEAN

\* Where a side is tells how far it has got with the frame: the controller
\* receives and then sends, the daemon the other way round.
Progress ==
    /\ \A s \in Side :
          /\ taken[s] <= sent[Peer(s)] /\ sent[s] <= Frame
          /\ pc[s] = "recvHeader" => taken[s] < HeaderSize
          /\ pc[s] = "recvBody" => HeaderSize <= taken[s] /\ taken[s] < Frame
          /\ pc[s] = "sendHeader" => sent[s] < HeaderSize
          /\ pc[s] = "sendBody" => HeaderSize <= sent[s] /\ sent[s] < Frame
          /\ result[s] = "message" => taken[s] = Frame

\* The controller sends only what a whole request has made it send.
Answers ==
    /\ registered => result["controller"] = "message" /\ kind = "register"
    /\ pc["controller"] \in Sending => registered
    /\ sent["controller"] > 0 => registered
    /\ pc["controller"] \in Receiving \cup {"serve"} => sent["controller"] = 0

ConnInv == Types /\ Progress /\ Answers

LEMMA ConnInit == Init => ConnInv
<1> SUFFICES ASSUME Init  PROVE ConnInv
  OBVIOUS
<1>1. Types
  BY DEF Init, Types, Places, Sending, Receiving, Gone, Side
<1>2. Progress
  BY DEF Init, Progress, Side, Peer, Frame
<1>3. Answers
  BY DEF Init, Answers, Sending, Side
<1> QED  BY <1>1, <1>2, <1>3 DEF ConnInv

LEMMA ConnStep == ConnInv /\ [Next]_vars => ConnInv'
<1> SUFFICES ASSUME ConnInv, [Next]_vars  PROVE ConnInv'
  OBVIOUS
<1> USE DEF ConnInv, Types, Progress, Answers, Places, Sending, Receiving, Gone,
            Side, Peer, Frame
<1>1. ASSUME NEW s \in Side, Send(s)  PROVE ConnInv'
  BY <1>1 DEF Send, EndOf, Leave
<1>2. ASSUME NEW s \in Side, SendFails(s)  PROVE ConnInv'
  BY <1>2 DEF SendFails, Leave
<1>3. ASSUME NEW s \in Side, Receive(s)  PROVE ConnInv'
  BY <1>3 DEF Receive, EndOf, Leave, Fails, NoHeader, NoBody, Returned
<1>4. ASSUME NEW s \in Side, ReceiveFails(s)  PROVE ConnInv'
  BY <1>4 DEF ReceiveFails, Leave, Fails, NoHeader, NoBody, Returned
<1>5. ASSUME NEW s \in Side, Reset(s) \/ Crash(s)  PROVE ConnInv'
  BY <1>5 DEF Reset, Crash, Leave
<1>6. CASE Serve
  <2>1. CASE kind = "register" /\ result["controller"] = "message"
    <3>1. /\ registered' = TRUE
          /\ pc' = [pc EXCEPT !["controller"] = "sendHeader"]
          /\ UNCHANGED <<kind, sent, taken, result>>
      BY <1>6, <2>1 DEF Serve, Requests, Leave
    <3>2. sent["controller"] = 0
      BY <1>6 DEF Serve
    <3> QED  BY <2>1, <3>1, <3>2
  <2>2. CASE ~(kind = "register" /\ result["controller"] = "message")
    BY <1>6, <2>2 DEF Serve, Requests, Leave
  <2> QED  BY <2>1, <2>2
<1>7. CASE UNCHANGED vars
  BY <1>7 DEF vars
<1> HIDE DEF ConnInv
<1> QED
  BY <1>1, <1>2, <1>3, <1>4, <1>5, <1>6, <1>7 DEF Next, Step, Ended

\* Whatever pieces TCP delivers and whichever process ends, a node is registered
\* for a request that has arrived in full, and a daemon takes its id from a whole
\* response that follows such a registration.
THEOREM NothingIsInvented == Spec => []NothingInvented
<1>1. ASSUME ConnInv  PROVE NothingInvented
  <2>1. registered => taken["controller"] = Frame /\ kind = "register"
    BY <1>1 DEF ConnInv, Progress, Answers, Side
  <2>2. ASSUME result["daemon"] = "message"
        PROVE  registered /\ taken["daemon"] = Frame
    <3>1. taken["daemon"] = Frame
      BY <1>1, <2>2 DEF ConnInv, Progress, Side
    <3>2. taken["daemon"] <= sent["controller"]
      BY <1>1 DEF ConnInv, Progress, Side, Peer
    <3>3. sent["controller"] \in Nat
      BY <1>1 DEF ConnInv, Types, Side
    <3>4. sent["controller"] > 0
      BY <3>1, <3>2, <3>3 DEF Frame
    <3> QED  BY <1>1, <3>1, <3>4 DEF ConnInv, Answers
  <2> QED  BY <2>1, <2>2 DEF NothingInvented
<1> QED  BY <1>1, ConnInit, ConnStep, PTL DEF Spec

-----------------------------------------------------------------------------

Flags ==
    /\ open \in [Side -> BOOLEAN] /\ rst \in [Side -> BOOLEAN]
    /\ lost \in [Side -> BOOLEAN]
    /\ split \subseteq Side /\ crashed \subseteq Side

Whole == split = {} /\ crashed = {}

\* The daemon sends the request, and then waits for the response, if any.
DaemonWhole ==
    /\ pc["daemon"] \notin Gone \cup {"serve"}
    /\ pc["daemon"] = "sendHeader" <=> sent["daemon"] < HeaderSize
    /\ pc["daemon"] = "sendBody" <=> sent["daemon"] >= HeaderSize /\ sent["daemon"] < Frame
    /\ pc["daemon"] \in Sending \cup {"recvHeader"} => taken["daemon"] = 0
    /\ pc["daemon"] = "recvBody" => taken["daemon"] = HeaderSize
    /\ pc["daemon"] \in Receiving => kind = "register"
    /\ pc["daemon"] = "done" /\ kind = "register" =>
           taken["daemon"] = Frame /\ result["daemon"] = "message"

\* The controller goes on only with all of the request.
ControllerWhole ==
    /\ pc["controller"] \notin Gone
    /\ pc["controller"] = "recvHeader" => taken["controller"] = 0
    /\ pc["controller"] = "recvBody" => taken["controller"] = HeaderSize
    /\ pc["controller"] \notin Receiving =>
           taken["controller"] = Frame /\ result["controller"] = "message"
    /\ pc["controller"] \in Sending => kind = "register"
    /\ pc["controller"] = "done" /\ kind = "register" => sent["controller"] = Frame

\* Neither side closes while the other has something to send or to receive.
OpenWhole ==
    /\ open["controller"] <=> pc["controller"] # "done"
    /\ open["daemon"] <=> ~(pc["daemon"] = "done" /\ kind = "register")
    /\ \A s \in Side : ~rst[s] /\ ~lost[s]

WholeInv ==
    /\ ConnInv /\ Flags
    /\ Whole => DaemonWhole /\ ControllerWhole /\ OpenWhole

LEMMA WholeInit == Init => WholeInv
<1> SUFFICES ASSUME Init  PROVE WholeInv
  OBVIOUS
<1>1. Flags
  BY DEF Init, Flags, Side
<1>2. DaemonWhole /\ ControllerWhole /\ OpenWhole
  BY DEF Init, DaemonWhole, ControllerWhole, OpenWhole, Side, Sending, Receiving, Gone, Frame
<1> QED  BY <1>1, <1>2, ConnInit DEF WholeInv

LEMMA WholeStep == WholeInv /\ [Next]_vars => WholeInv'
<1> SUFFICES ASSUME WholeInv, [Next]_vars  PROVE WholeInv'
  OBVIOUS
<1>a. ConnInv'
  BY ConnStep DEF WholeInv
<1>b. Flags'
  <2> USE DEF WholeInv, Flags, Side
  <2>1. ASSUME NEW s \in Side, Send(s)  PROVE Flags'
    BY <2>1 DEF Send, Leave
  <2>2. ASSUME NEW s \in Side, SendFails(s)  PROVE Flags'
    BY <2>2 DEF SendFails, Leave
  <2>3. ASSUME NEW s \in Side, Receive(s)  PROVE Flags'
    BY <2>3 DEF Receive, Leave, Fails, NoHeader, NoBody, Returned
  <2>4. ASSUME NEW s \in Side, ReceiveFails(s)  PROVE Flags'
    BY <2>4 DEF ReceiveFails, Leave, Fails, NoHeader, NoBody, Returned
  <2>5. ASSUME NEW s \in Side, Reset(s)  PROVE Flags'
    BY <2>5 DEF Reset, Leave
  <2>8. ASSUME NEW s \in Side, Crash(s)  PROVE Flags'
    BY <2>8 DEF Crash, Leave
  <2>6. CASE Serve
    BY <2>6 DEF Serve, Leave
  <2>7. CASE UNCHANGED vars
    BY <2>7 DEF vars
  <2> QED  BY <2>1, <2>2, <2>3, <2>4, <2>5, <2>6, <2>7, <2>8 DEF Next, Step, Ended
<1> SUFFICES ASSUME Whole'  PROVE (DaemonWhole /\ ControllerWhole /\ OpenWhole)'
  BY <1>a, <1>b DEF WholeInv
<1> DEFINE P == DaemonWhole /\ ControllerWhole /\ OpenWhole
<1>c. Whole /\ P /\ Types /\ Progress /\ Answers /\ Flags
  <2>1. Whole
    <3>1. ASSUME NEW s \in Side, Step(s) \/ Reset(s) \/ Crash(s)  PROVE Whole
      BY <3>1 DEF Whole, Step, Send, SendFails, Receive, ReceiveFails, Reset, Crash
    <3> QED  BY <3>1 DEF Next, Whole, Serve, Ended, vars
  <2> QED  BY <2>1 DEF WholeInv, ConnInv
<1> USE DEF DaemonWhole, ControllerWhole, OpenWhole, Types, Progress, Answers, Flags,
            Places, Sending, Receiving, Gone, Side, Peer, Frame
<1>1. ASSUME Send("daemon")  PROVE P'
  BY <1>1, <1>c DEF Send, EndOf, Leave
<1>2. ASSUME Send("controller")  PROVE P'
  BY <1>2, <1>c DEF Send, EndOf, Leave
<1>3. ASSUME Receive("daemon")  PROVE P'
  BY <1>3, <1>c DEF Receive, EndOf, Leave, Fails, NoHeader, NoBody, Returned, Whole
<1>4. ASSUME Receive("controller")  PROVE P'
  BY <1>4, <1>c DEF Receive, EndOf, Leave, Fails, NoHeader, NoBody, Returned, Whole
<1>5. ASSUME NEW s \in Side, SendFails(s) \/ ReceiveFails(s) \/ Reset(s)  PROVE P'
  <2>1. ~SendFails(s)
    BY <1>c DEF SendFails
  <2>2. ~ReceiveFails(s)
    <3>1. ~rst[s]
      BY <1>c
    <3>2. CASE s = "daemon"
      BY <1>c, <3>1, <3>2 DEF ReceiveFails
    <3>3. CASE s = "controller"
      BY <1>c, <3>1, <3>3 DEF ReceiveFails
    <3> QED  BY <3>2, <3>3
  <2>3. ~Reset(s)
    <3>1. ~lost[s]
      BY <1>c
    <3>2. CASE s = "daemon"
      BY <1>c, <3>1, <3>2 DEF Reset
    <3>3. CASE s = "controller"
      BY <1>c, <3>1, <3>3 DEF Reset
    <3> QED  BY <3>2, <3>3
  <2> QED  BY <1>5, <2>1, <2>2, <2>3
<1>6. ASSUME NEW s \in Side, Crash(s)  PROVE P'
  BY <1>6, <1>c DEF Crash, Whole
<1>7. ASSUME Serve  PROVE P'
  <2>1. /\ pc["controller"] = "serve" /\ result["controller"] = "message"
        /\ UNCHANGED <<kind, sent, taken, rst, lost, result>>
    BY <1>7, <1>c DEF Serve
  <2>2. CASE kind = "register"
    <3>1. Leave("controller", "sendHeader", FALSE)
      BY <1>7, <2>1, <2>2 DEF Serve, Requests
    <3>2. pc' = [pc EXCEPT !["controller"] = "sendHeader"]
      BY <3>1 DEF Leave
    <3>3. \A s \in Side : open'[s] <=> open[s]
      BY <3>1, <1>c DEF Leave
    <3>4. sent["controller"] = 0
      BY <1>c, <2>1
    <3> QED  BY <1>c, <2>1, <2>2, <3>2, <3>3, <3>4
  <2>3. CASE kind # "register"
    <3>1. /\ pc' = [pc EXCEPT !["controller"] = "done"]
          /\ open' = [open EXCEPT !["controller"] = FALSE]
      BY <1>7, <2>1, <2>3 DEF Serve, Requests, Leave
    <3> QED  BY <1>c, <2>1, <2>3, <3>1
  <2> QED  BY <2>2, <2>3
<1>8. ASSUME UNCHANGED vars  PROVE P'
  BY <1>8, <1>c DEF vars
<1> HIDE DEF P
<1>9. ASSUME NEW s \in Side, Step(s)  PROVE P'
  BY <1>1, <1>2, <1>3, <1>4, <1>5, <1>9 DEF Step
<1>10. P'
  BY <1>5, <1>6, <1>7, <1>8, <1>9 DEF Next, Ended
<1> QED  BY <1>10 DEF P

\* A message whose header and body arrive in one piece each is delivered, and the
\* response too, and no process is killed.
THEOREM WholeIsDelivered == Spec => []DeliveredWhole
<1>1. ASSUME WholeInv  PROVE DeliveredWhole
  BY <1>1 DEF WholeInv, Whole, DaemonWhole, ControllerWhole, DeliveredWhole, Delivered,
              SurvivesPeer, Side, Gone, Receiving
<1> QED  BY <1>1, WholeInit, WholeStep, PTL DEF Spec

=============================================================================
