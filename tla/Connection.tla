------------------------------ MODULE Connection ------------------------------
(***************************************************************************)
(* One TCP connection of a daemon to the controller, byte by byte: the     *)
(* daemon sends a registration request or a pong, the service thread of the*)
(* controller receives and serves it and, for a request, sends a response. *)
(* A message is a frame, a header with the length and a body, and each part*)
(* is sent and received by a loop over send and recv.                      *)
(*                                                                         *)
(* TCP keeps the order of bytes, and delivers them in pieces of its own.   *)
(***************************************************************************)
EXTENDS Naturals

CONSTANTS
    HeaderSize,  \* sizeof(uint32_t)
    BodySize,    \* bytes of a message
    Segmented,   \* TCP may deliver part of what a call asks for
    MayCrash     \* either process may end at any time

ASSUME SizesAssumption == HeaderSize \in Nat \ {0} /\ BodySize \in Nat \ {0}
ASSUME FlagsAssumption == Segmented \in BOOLEAN /\ MayCrash \in BOOLEAN

VARIABLES
    kind,       \* the request of the daemon
    pc,         \* what each side is doing
    sent,       \* bytes each side has sent
    taken,      \* bytes each side has received
    open,       \* whether the descriptor of each side is open
    rst,        \* whether a reset has reached each side
    lost,       \* whether each side has sent bytes to a closed peer
    result,     \* what skrum_receive_msg made of it, on each side
    registered, \* _register_cluster_node has been called
    crashed,    \* history: processes that ended by themselves
    split       \* history: sides that got a header or a body in pieces

vars == <<kind, pc, sent, taken, open, rst, lost, result, registered, crashed, split>>

Side == {"daemon", "controller"}
Peer(s) == IF s = "daemon" THEN "controller" ELSE "daemon"
Frame == HeaderSize + BodySize

Sending   == {"sendHeader", "sendBody"}
Receiving == {"recvHeader", "recvBody"}
Gone      == {"killed", "crashed"}

TypeOK ==
    /\ kind \in {"register", "pong"}
    /\ pc \in [Side -> Sending \cup Receiving \cup Gone \cup {"serve", "done"}]
    /\ sent \in [Side -> 0 .. Frame] /\ taken \in [Side -> 0 .. Frame]
    /\ \A s \in Side : taken[s] <= sent[Peer(s)]
    /\ open \in [Side -> BOOLEAN] /\ rst \in [Side -> BOOLEAN]
    /\ lost \in [Side -> BOOLEAN]
    /\ result \in [Side -> {"none", "message", "empty"}]
    /\ registered \in BOOLEAN
    /\ crashed \subseteq Side /\ split \subseteq Side

\* connect has returned, and so has accept.
Init ==
    /\ kind \in {"register", "pong"}
    /\ pc = [s \in Side |-> IF s = "daemon" THEN "sendHeader" ELSE "recvHeader"]
    /\ sent = [s \in Side |-> 0] /\ taken = [s \in Side |-> 0]
    /\ open = [s \in Side |-> TRUE]
    /\ rst = [s \in Side |-> FALSE] /\ lost = [s \in Side |-> FALSE]
    /\ result = [s \in Side |-> "none"]
    /\ registered = FALSE
    /\ crashed = {} /\ split = {}

\* The part of a frame a call is about ends here.
EndOf(s) == IF pc[s] \in {"sendHeader", "recvHeader"} THEN HeaderSize ELSE Frame

\* Leave the connection, with the descriptor closed or not.
Leave(s, place, closes) ==
    /\ pc' = [pc EXCEPT ![s] = place]
    /\ open' = [open EXCEPT ![s] = ~closes /\ @]

-----------------------------------------------------------------------------
(* skrum_msg_sendto and skrum_send *)

\* One send: the kernel takes some of the bytes.  What is sent to a peer that
\* has closed is lost.
Send(s) ==
    /\ pc[s] \in Sending
    /\ ~rst[s]
    /\ \E k \in sent[s] + 1 .. EndOf(s) :
          /\ Segmented \/ k = EndOf(s)
          /\ sent' = [sent EXCEPT ![s] = k]
          /\ lost' = [lost EXCEPT ![s] = @ \/ ~open[Peer(s)]]
          /\ IF k < HeaderSize \/ (k > HeaderSize /\ k < Frame)
             THEN UNCHANGED <<pc, open>>
             ELSE IF k = HeaderSize THEN Leave(s, "sendBody", FALSE)
             ELSE IF s = "controller" THEN Leave(s, "done", TRUE)
             ELSE IF kind = "register" THEN Leave(s, "recvHeader", FALSE)
             ELSE Leave(s, "done", FALSE)
    /\ UNCHANGED <<kind, taken, rst, result, registered, crashed, split>>

\* send on a connection that has been reset fails, and raises SIGPIPE, which
\* nothing handles, if the peer had closed before.
SendFails(s) ==
    /\ pc[s] \in Sending
    /\ rst[s]
    /\ \/ Leave(s, "done", s = "controller" \/ kind = "register")
       \/ Leave(s, "killed", TRUE)
    /\ UNCHANGED <<kind, sent, taken, rst, lost, result, registered, crashed, split>>

-----------------------------------------------------------------------------
(* skrum_receive_msg, skrum_msg_recvfrom and skrum_recv *)

\* What the caller does with the result: the controller serves it, the daemon
\* takes the id out of it and closes.
Returned(s, r) ==
    /\ result' = [result EXCEPT ![s] = r]
    /\ IF s = "controller" THEN Leave(s, "serve", FALSE) ELSE Leave(s, "done", TRUE)

\* A header that is not received is an empty message.  The daemon looks for the
\* id in it, where there is one or a null pointer.
NoHeader(s) ==
    \/ Returned(s, "empty")
    \/ s = "daemon" /\ Leave(s, "killed", TRUE) /\ UNCHANGED result

\* A body that is not received is freed by skrum_msg_recvfrom and by its caller,
\* and the second free ends the process.
NoBody(s) == Leave(s, "killed", TRUE) /\ UNCHANGED result

Fails(s) == IF pc[s] = "recvHeader" THEN NoHeader(s) ELSE NoBody(s)

\* One recv: some of the bytes that have arrived.  The loop ends when all are
\* there and skrum_recv returns the length of the last piece, which its callers
\* compare with the length of the whole.
Receive(s) ==
    /\ pc[s] \in Receiving
    /\ ~rst[s]
    /\ \E k \in taken[s] + 1 .. sent[Peer(s)] :
          /\ k <= EndOf(s)
          /\ Segmented \/ k = EndOf(s)
          /\ taken' = [taken EXCEPT ![s] = k]
          /\ LET first == taken[s] = IF pc[s] = "recvHeader" THEN 0 ELSE HeaderSize
             IN /\ split' = IF first /\ k = EndOf(s) THEN split ELSE split \cup {s}
                /\ IF k < EndOf(s) THEN UNCHANGED <<pc, open, result>>
                   ELSE IF ~first THEN Fails(s)
                   ELSE IF pc[s] = "recvHeader"
                        THEN Leave(s, "recvBody", FALSE) /\ UNCHANGED result
                   ELSE Returned(s, "message")
    /\ UNCHANGED <<kind, sent, rst, lost, registered, crashed>>

\* Mutant: a return of 0 is tried again.
ReceiveFailsOnReset(s) ==
    /\ pc[s] \in Receiving
    /\ rst[s]
    /\ Fails(s)
    /\ UNCHANGED <<kind, sent, taken, rst, lost, registered, crashed, split>>

\* recv returns 0 when the peer has closed and everything is read, and an error
\* when the connection has been reset.
ReceiveFails(s) ==
    /\ pc[s] \in Receiving
    /\ rst[s] \/ (~open[Peer(s)] /\ taken[s] = sent[Peer(s)])
    /\ Fails(s)
    /\ UNCHANGED <<kind, sent, taken, rst, lost, registered, crashed, split>>

-----------------------------------------------------------------------------

\* Mutant: whatever has been received is a request.
RequestsAny == kind = "register"

\* Mutant: the cases are mixed up.
RequestsPong == kind = "pong" /\ result["controller"] = "message"

\* skrumctld_req has a request to answer.  An empty message has the type of a
\* controller's multicast, which is none that it serves.
Requests == kind = "register" /\ result["controller"] = "message"

\* skrumctld_req, and close in _service_connection.
Serve ==
    /\ pc["controller"] = "serve"
    /\ IF Requests
       THEN registered' = TRUE /\ Leave("controller", "sendHeader", FALSE)
       ELSE UNCHANGED registered /\ Leave("controller", "done", TRUE)
    /\ UNCHANGED <<kind, sent, taken, rst, lost, result, crashed, split>>

\* The peer's kernel answers what it gets for a closed connection, and closes one
\* with unread bytes, by a reset.
Reset(s) ==
    /\ ~rst[s] /\ open[s]
    /\ ~open[Peer(s)]
    /\ lost[s] \/ taken[Peer(s)] < sent[s]
    /\ rst' = [rst EXCEPT ![s] = TRUE]
    /\ UNCHANGED <<kind, pc, sent, taken, open, lost, result, registered, crashed, split>>

\* A process ends: its kernel closes the connection.
Crash(s) ==
    /\ MayCrash
    /\ pc[s] \notin Gone
    /\ Leave(s, "crashed", TRUE)
    /\ crashed' = crashed \cup {s}
    /\ UNCHANGED <<kind, sent, taken, rst, lost, result, registered, split>>

Step(s) == Send(s) \/ SendFails(s) \/ Receive(s) \/ ReceiveFails(s)

Ended ==
    /\ \A s \in Side : pc[s] \in Gone \cup {"done"}
    /\ UNCHANGED vars

Next == (\E s \in Side : Step(s) \/ Reset(s) \/ Crash(s)) \/ Serve \/ Ended

\* Both processes go on: the kernel takes and delivers bytes.
Spec ==
    /\ Init /\ [][Next]_vars
    /\ WF_vars(Serve) /\ \A s \in Side : WF_vars(Step(s))

-----------------------------------------------------------------------------

\* A registration is for a request that has arrived in full, and an id the daemon
\* takes from a message is one the controller has assigned: a message is never
\* made of a part of a frame.
NothingInvented ==
    /\ registered => taken["controller"] = Frame /\ kind = "register"
    /\ result["daemon"] = "message" =>
          registered /\ taken["daemon"] = Frame

\* While both hosts run, a service thread always comes to its end, also when the
\* daemon fails or is killed in the middle of a message: the two sides never wait
\* for each other, nor for bytes that will not come.
ServiceEnds == <>(pc["controller"] \in Gone \cup {"done"})

\* The end of one process does not take the other with it.
SurvivesPeer == \A s \in Side : pc[s] # "killed"

\* A daemon that sends its message to a running controller is served, and gets
\* its id.
Delivered ==
    (\A s \in Side : pc[s] \in {"done", "killed"}) =>
        /\ result["controller"] = "message"
        /\ kind = "register" => result["daemon"] = "message"

\* ... at least if every header and every body arrives in one piece, and then no
\* process is killed either.
DeliveredWhole ==
    split = {} /\ crashed = {} => Delivered /\ SurvivesPeer

=============================================================================
