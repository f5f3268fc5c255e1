------------------------------- MODULE Cluster -------------------------------
(***************************************************************************)
(* The membership protocol of one controller (skrumctld) and its slave     *)
(* daemons (skrumd): the controller multicasts its start-up time once a    *)
(* second, a daemon that sees a new start-up time registers, one that sees *)
(* a known start-up time answers with a pong, and the controller drops     *)
(* every daemon it has not heard of for more than NODE_REGISTRATION_TIMEOUT*)
(* seconds.                                                                *)
(*                                                                         *)
(* Time is relative, since the code only ever compares time(NULL) -        *)
(* registration_ts with the timeout and two start-up times for equality:   *)
(* an entry holds the seconds since it was stamped, and a start-up time is *)
(* the rank of the second in which the controller started.                 *)
(*                                                                         *)
(* A message handler is one step, except that the controller's service     *)
(* threads increment node_cnt without a lock: a registration is a load and *)
(* a later store.  A daemon's equal pongs in flight count as one.          *)
(***************************************************************************)
EXTENDS Naturals, FiniteSets

CONSTANTS
    Node,           \* the slave daemons
    RemoteNode,     \* those that run on another machine than the controller
    Port,           \* ports the controller's message engine may be given
    IdSpace,        \* number of values of the uint16_t cluster_node_id
    TimeoutSecs,    \* NODE_REGISTRATION_TIMEOUT
    WildId,         \* ids an uninitialised registration response may hold
    MaxHandlers,    \* registrations the controller handles at the same time
    FdsCounted,     \* whether the descriptor limit of a daemon is in reach
    FdLimit,        \* descriptors a daemon may open after start-up
    MaxStarts,      \* bound: starts of the controller
    MaxNodeStarts,  \* bound: starts of each daemon
    MaxMiss,        \* multicasts a daemon may lose in a row
    Timely,         \* whether each second's messages are handled within it
    SlowRestart     \* whether a controller restart takes at least a second

ASSUME ClusterAssumption ==
    /\ RemoteNode \subseteq Node
    /\ IdSpace \in Nat \ {0}
    /\ TimeoutSecs \in Nat
    /\ WildId \subseteq 0 .. IdSpace - 1
    /\ MaxHandlers \in Nat
    /\ FdLimit \in Nat
    /\ MaxStarts \in Nat
    /\ MaxNodeStarts \in Nat
    /\ MaxMiss \in Nat
    /\ {FdsCounted, Timely, SlowRestart} \subseteq BOOLEAN

VARIABLES
    \* The controller.
    ctl_up,             \* the process runs
    ctl_starts,         \* how often it has been started (bound only)
    ctrlr_startup_ts,   \* conf->ctrlr_startup_ts
    new_second,         \* the clock has moved on since that start
    port,               \* conf->port
    disc_pc,            \* where its discovery thread is
    node_cnt,           \* node_cnt of skrumctld_req.c
    cluster_node_list,  \* its entries
    registered,         \* how many entries have been appended
    handling,           \* service threads that have loaded node_cnt
    issued,             \* history: the ids given since the start, and to whom
    \* The daemons.
    up,                 \* the process runs
    starts,             \* how often it has been started
    ctrlr_ts,           \* conf->ctrlr_ts, 0 before any registration
    cluster_id,         \* conf->cluster_id
    phase,              \* its discovery thread is in recvfrom or awaits a reply
    reply,              \* the id in a reply that it has not read yet
    fds,                \* descriptors that its pongs have left open
    \* The network.
    mcast,              \* multicasts on their way to each daemon
    misses,             \* multicasts in a row that each daemon has lost
    requests,           \* registration requests the controller has not handled
    pongs               \* pongs the controller has not handled

ctlVars  == <<ctl_up, ctl_starts, ctrlr_startup_ts, port>>
listVars == <<node_cnt, cluster_node_list, registered, issued>>
confVars == <<ctrlr_ts, cluster_id, fds>>
nodeVars == <<up, starts, confVars>>
linkVars == <<phase, reply, mcast, misses>>
vars == <<ctlVars, new_second, disc_pc, listVars, handling, nodeVars, linkVars,
          requests, pongs>>

IdType  == 0 .. IdSpace - 1
NoReply == IdSpace              \* no reply to read; not an id

Process  == [node : Node, inc : 0 .. MaxNodeStarts]
Datagram == [ts : 0 .. MaxStarts, port : Port]
Pongs    == [node : Node, id : IdType]

\* A skrum_cluster_node_t: the seconds since registration_ts stand for it, and
\* rank is its place in the order of the appends.
Entry == [rank : Nat, owner : Process, id : IdType, age : 0 .. TimeoutSecs + 1]

Self(n) == [node |-> n, inc |-> starts[n]]

\* Mutant: the id is not cut to 16 bits.
NextIdUncut(cnt) == cnt + 1

\* nnode->cluster_node_id = ++node_cnt, cut to 16 bits.
NextId(cnt) == (cnt + 1) % IdSpace

\* The entry list_find returns for an id: the oldest in the list that has it.
Found(e, id) ==
    /\ e.id = id
    /\ \A f \in cluster_node_list : f.id = id => e.rank <= f.rank

TypeOK ==
    /\ ctl_up \in BOOLEAN
    /\ ctl_starts \in 0 .. MaxStarts
    /\ ctrlr_startup_ts \in 0 .. ctl_starts
    /\ new_second \in BOOLEAN
    /\ port \in Port
    /\ disc_pc \in {"send", "sleep", "update"}
    /\ node_cnt \in Nat
    /\ cluster_node_list \subseteq Entry
    /\ registered \in Nat
    /\ handling \subseteq [req : Process, cnt : Nat]
    /\ issued \subseteq Process \X IdType
    /\ up \in [Node -> BOOLEAN]
    /\ starts \in [Node -> 0 .. MaxNodeStarts]
    /\ ctrlr_ts \in [Node -> 0 .. MaxStarts]
    /\ cluster_id \in [Node -> IdType]
    /\ phase \in [Node -> {"recv", "await"}]
    /\ reply \in [Node -> 0 .. IdSpace]
    /\ fds \in [Node -> 0 .. FdLimit]
    /\ mcast \in [Node -> SUBSET Datagram]
    /\ misses \in [Node -> 0 .. MaxMiss]
    /\ requests \subseteq Process
    /\ pongs \subseteq Pongs

Init ==
    /\ ctl_up = FALSE
    /\ ctl_starts = 0
    /\ ctrlr_startup_ts = 0
    /\ new_second = TRUE
    /\ port \in Port
    /\ disc_pc = "send"
    /\ node_cnt = 0
    /\ cluster_node_list = {}
    /\ registered = 0
    /\ handling = {}
    /\ issued = {}
    /\ up = [n \in Node |-> FALSE]
    /\ starts = [n \in Node |-> 0]
    /\ ctrlr_ts = [n \in Node |-> 0]
    /\ cluster_id = [n \in Node |-> 0]
    /\ phase = [n \in Node |-> "recv"]
    /\ reply = [n \in Node |-> NoReply]
    /\ fds = [n \in Node |-> 0]
    /\ mcast = [n \in Node |-> {}]
    /\ misses = [n \in Node |-> 0]
    /\ requests = {}
    /\ pongs = {}

-----------------------------------------------------------------------------
(* The controller. *)

\* A process that has handled nothing yet.
NoNodes ==
    /\ node_cnt' = 0
    /\ cluster_node_list' = {}
    /\ registered' = 0
    /\ handling' = {}
    /\ issued' = {}

\* main up to the discovery thread: a fresh conf, list and node_cnt, the
\* start-up time, and a listening port chosen by skrum_init_msg_engine_port.
CtlStart ==
    /\ ~ctl_up
    /\ ctl_starts < MaxStarts
    /\ SlowRestart => new_second
    /\ ctl_up' = TRUE
    /\ ctl_starts' = ctl_starts + 1
    /\ ctrlr_startup_ts' = IF new_second THEN ctrlr_startup_ts + 1
                                         ELSE ctrlr_startup_ts
    /\ new_second' = FALSE
    /\ port' \in Port
    /\ disc_pc' = "send"
    /\ NoNodes
    /\ UNCHANGED <<nodeVars, linkVars, requests, pongs>>

\* The process ends: its connections and everything it kept are gone.
CtlStop ==
    /\ ctl_up
    /\ ctl_up' = FALSE
    /\ disc_pc' = "send"
    /\ NoNodes
    /\ requests' = {}
    /\ pongs' = {}
    /\ UNCHANGED <<ctl_starts, ctrlr_startup_ts, new_second, port, nodeVars,
                   linkVars>>

\* Every running daemon has joined the multicast group.
SendDiscovery ==
    /\ ctl_up
    /\ disc_pc = "send"
    /\ disc_pc' = "sleep"
    /\ mcast' = [n \in Node |->
                    IF up[n]
                    THEN mcast[n] \cup {[ts |-> ctrlr_startup_ts, port |-> port]}
                    ELSE mcast[n]]
    /\ UNCHANGED <<ctlVars, new_second, listVars, handling, nodeVars, phase,
                   reply, misses, requests, pongs>>

\* The discovery thread after its sleep leaves these entries in the list.
Sweep(kept) ==
    /\ ctl_up
    /\ disc_pc = "update"
    /\ disc_pc' = "send"
    /\ cluster_node_list' = kept
    /\ UNCHANGED <<ctlVars, new_second, node_cnt, registered, handling, issued,
                   nodeVars, linkVars, requests, pongs>>

\* Mutant: >= for > in the comparison with the timeout.
UpdateNodeListEarly == Sweep({e \in cluster_node_list : e.age < TimeoutSecs})

\* Mutant: the sweep forgets list_remove.
UpdateNodeListKeeps == Sweep(cluster_node_list)

\* Silent daemons leave the list.  NodeList has the sweep call by call.
UpdateNodeList == Sweep({e \in cluster_node_list : e.age <= TimeoutSecs})

\* A service thread in _register_cluster_node loads node_cnt to increment it.
LoadNodeCnt(r) ==
    /\ r \in requests
    /\ \A h \in handling : h.req # r
    /\ Cardinality(handling) < MaxHandlers
    /\ handling' = handling \cup {[req |-> r, cnt |-> node_cnt]}
    /\ UNCHANGED <<ctlVars, new_second, disc_pc, listVars, nodeVars, linkVars,
                   requests, pongs>>

\* The rest of _req_register: the store, a new entry, and a reply if the daemon
\* is still there to read it.
Registers(h, cnt, my_id) ==
    LET r  == h.req
        id == NextId(h.cnt)
    IN  /\ h \in handling
        /\ handling' = handling \ {h}
        /\ requests' = requests \ {r}
        /\ node_cnt' = cnt
        /\ registered' = registered + 1
        /\ cluster_node_list' = cluster_node_list \cup
              {[rank |-> registered, owner |-> r, id |-> id, age |-> 0]}
        /\ issued' = issued \cup {<<r, id>>}
        /\ reply' = IF up[r.node] /\ Self(r.node) = r
                    THEN [reply EXCEPT ![r.node] = my_id]
                    ELSE reply
        /\ UNCHANGED <<ctlVars, new_second, disc_pc, nodeVars, phase, mcast,
                       misses, pongs>>

\* Mutant: the incremented node_cnt is not stored.
ReqRegisterNoStore(h) == Registers(h, h.cnt, NextId(h.cnt))

\* Mutant: the reply carries the count before the increment.
ReqRegisterOldCnt(h) == Registers(h, h.cnt + 1, h.cnt % IdSpace)

ReqRegister(h) == Registers(h, h.cnt + 1, NextId(h.cnt))

\* A service thread has handled a pong.
Heard(p, list) ==
    /\ p \in pongs
    /\ pongs' = pongs \ {p}
    /\ cluster_node_list' = list
    /\ UNCHANGED <<ctlVars, new_second, disc_pc, node_cnt, registered, handling,
                   issued, nodeVars, linkVars, requests>>

\* Mutant: a pong does not renew registration_ts.
RespPongNoStamp(p) == Heard(p, cluster_node_list)

\* Mutant: every entry with the id is stamped.
RespPongAll(p) ==
    Heard(p, {IF e.id = p.id THEN [e EXCEPT !.age = 0] ELSE e :
                 e \in cluster_node_list})

\* _resp_pong: stamp the first entry with the id; an unknown id is only logged.
RespPong(p) ==
    Heard(p, {IF Found(e, p.id) THEN [e EXCEPT !.age = 0] ELSE e :
                 e \in cluster_node_list})

-----------------------------------------------------------------------------
(* A daemon. *)

\* conf and the sockets as a fresh process has them.
FreshProcess(n) ==
    /\ ctrlr_ts' = [ctrlr_ts EXCEPT ![n] = 0]
    /\ cluster_id' = [cluster_id EXCEPT ![n] = 0]
    /\ fds' = [fds EXCEPT ![n] = 0]
    /\ phase' = [phase EXCEPT ![n] = "recv"]
    /\ reply' = [reply EXCEPT ![n] = NoReply]
    /\ mcast' = [mcast EXCEPT ![n] = {}]
    /\ misses' = [misses EXCEPT ![n] = 0]

NodeStart(n) ==
    /\ ~up[n]
    /\ starts[n] < MaxNodeStarts
    /\ up' = [up EXCEPT ![n] = TRUE]
    /\ starts' = [starts EXCEPT ![n] = @ + 1]
    /\ FreshProcess(n)
    /\ UNCHANGED <<ctlVars, new_second, disc_pc, listVars, handling, requests,
                   pongs>>

\* The process ends; what it has sent stays with the controller.
NodeStop(n) ==
    /\ up[n]
    /\ up' = [up EXCEPT ![n] = FALSE]
    /\ FreshProcess(n)
    /\ UNCHANGED <<ctlVars, new_second, disc_pc, listVars, handling, starts,
                   requests, pongs>>

\* skrum_open_msg_conn on msg->orig_addr, which _setup_controller_addr has
\* set to the loopback address: it leads to the daemon's own machine.
Connects(n, d) ==
    /\ FdsCounted => fds[n] < FdLimit
    /\ ctl_up
    /\ d.port = port
    /\ n \notin RemoteNode

Receives(n, d) ==
    /\ up[n]
    /\ phase[n] = "recv"
    /\ d \in mcast[n]

\* The daemon is done with a datagram.
Consumes(n, d) ==
    /\ mcast' = [mcast EXCEPT ![n] = @ \ {d}]
    /\ misses' = [misses EXCEPT ![n] = 0]

\* _process_ctrlr_mcast for an unknown start-up time, up to the blocking
\* read of the reply.  ctrlr_ts is set before the request is sent.
Register(n, d) ==
    /\ Receives(n, d)
    /\ d.ts # ctrlr_ts[n]
    /\ Connects(n, d)
    /\ Consumes(n, d)
    /\ ctrlr_ts' = [ctrlr_ts EXCEPT ![n] = d.ts]
    /\ phase' = [phase EXCEPT ![n] = "await"]
    /\ requests' = requests \cup {Self(n)}
    /\ UNCHANGED <<ctlVars, new_second, disc_pc, listVars, handling, up, starts,
                   cluster_id, fds, reply, pongs>>

\* The same when the connection cannot be opened: resp_register_msg was never
\* written, and the process goes on with whatever id it finds there or dies.
RegisterRefused(n, d) ==
    /\ Receives(n, d)
    /\ d.ts # ctrlr_ts[n]
    /\ ~Connects(n, d)
    /\ \/ NodeStop(n)
       \/ /\ Consumes(n, d)
          /\ ctrlr_ts' = [ctrlr_ts EXCEPT ![n] = d.ts]
          /\ \E w \in WildId : cluster_id' = [cluster_id EXCEPT ![n] = w]
          /\ UNCHANGED <<ctlVars, new_second, disc_pc, listVars, handling, up,
                         starts, fds, phase, reply, requests, pongs>>

\* The reply is there: the daemon takes its id from it.
RespRegister(n) ==
    /\ phase[n] = "await"
    /\ reply[n] # NoReply
    /\ cluster_id' = [cluster_id EXCEPT ![n] = reply[n]]
    /\ reply' = [reply EXCEPT ![n] = NoReply]
    /\ phase' = [phase EXCEPT ![n] = "recv"]
    /\ UNCHANGED <<ctlVars, new_second, disc_pc, listVars, handling, up, starts,
                   ctrlr_ts, fds, mcast, misses, requests, pongs>>

\* The connection is closed before a reply.  unpack_msg then works on an empty
\* buffer, so the message has no data, or zeroed data if msg_type, which nobody
\* set, happens to be that of a message.
RespRegisterLost(n) ==
    /\ phase[n] = "await"
    /\ reply[n] = NoReply
    /\ Self(n) \notin requests
    /\ \/ NodeStop(n)
       \/ /\ cluster_id' = [cluster_id EXCEPT ![n] = 0]
          /\ phase' = [phase EXCEPT ![n] = "recv"]
          /\ UNCHANGED <<ctlVars, new_second, disc_pc, listVars, handling, up,
                         starts, ctrlr_ts, fds, mcast, misses, reply, requests,
                         pongs>>

\* _process_ctrlr_mcast for a known start-up time: a pong over a new
\* connection whose descriptor is never closed, or nothing if it is refused.
Pong(n, d) ==
    /\ Receives(n, d)
    /\ d.ts = ctrlr_ts[n]
    /\ Consumes(n, d)
    /\ IF Connects(n, d)
       THEN /\ pongs' = pongs \cup {[node |-> n, id |-> cluster_id[n]]}
            /\ fds' = [fds EXCEPT ![n] = IF FdsCounted THEN @ + 1 ELSE @]
       ELSE UNCHANGED <<pongs, fds>>
    /\ UNCHANGED <<ctlVars, new_second, disc_pc, listVars, handling, up, starts,
                   ctrlr_ts, cluster_id, phase, reply, requests>>

-----------------------------------------------------------------------------
(* Network and clock. *)

\* UDP loses a multicast, at most MaxMiss in a row for one daemon.
Lose(n, d) ==
    /\ d \in mcast[n]
    /\ misses[n] < MaxMiss
    /\ mcast' = [mcast EXCEPT ![n] = @ \ {d}]
    /\ misses' = [misses EXCEPT ![n] = @ + 1]
    /\ UNCHANGED <<ctlVars, new_second, disc_pc, listVars, handling, nodeVars,
                   phase, reply, requests, pongs>>

\* Nothing of this second is left to do.
Quiet ==
    /\ ctl_up => disc_pc = "sleep"
    /\ \A n \in Node : mcast[n] = {} /\ phase[n] = "recv"
    /\ requests = {}
    /\ pongs = {}

Older(e) == [e EXCEPT !.age = IF @ > TimeoutSecs THEN @ ELSE @ + 1]

\* A second passes: every stamp is one second older, and a discovery thread
\* that slept through it goes on with _update_node_list.
Tick ==
    /\ Timely => Quiet
    /\ cluster_node_list' = {Older(e) : e \in cluster_node_list}
    /\ new_second' = TRUE
    /\ disc_pc' = IF disc_pc = "sleep" THEN "update" ELSE disc_pc
    /\ UNCHANGED <<ctlVars, node_cnt, registered, handling, issued, nodeVars,
                   linkVars, requests, pongs>>

-----------------------------------------------------------------------------

Handle(n) == \E d \in mcast[n] :
    Register(n, d) \/ RegisterRefused(n, d) \/ Pong(n, d)

Next ==
    \/ CtlStart \/ CtlStop \/ SendDiscovery \/ UpdateNodeList \/ Tick
    \/ \E r \in requests : LoadNodeCnt(r)
    \/ \E h \in handling : ReqRegister(h)
    \/ \E p \in pongs : RespPong(p)
    \/ \E n \in Node :
          \/ NodeStart(n) \/ NodeStop(n)
          \/ Handle(n) \/ RespRegister(n) \/ RespRegisterLost(n)
          \/ \E d \in mcast[n] : Lose(n, d)

Spec == Init /\ [][Next]_vars

\* Threads that can run do run and time passes; nothing has to be started.
Fairness ==
    /\ WF_vars(SendDiscovery)
    /\ WF_vars(UpdateNodeList)
    /\ WF_vars(Tick)
    /\ \A r \in Process :
          /\ WF_vars(r \in requests /\ LoadNodeCnt(r))
          /\ WF_vars(\E h \in handling : h.req = r /\ ReqRegister(h))
    /\ \A n \in Node :
          /\ WF_vars(\E p \in pongs : p.node = n /\ RespPong(p))
          /\ WF_vars(Handle(n))
          /\ WF_vars(RespRegister(n))
          /\ WF_vars(RespRegisterLost(n))

FairSpec == Spec /\ Fairness

-----------------------------------------------------------------------------
(* What the protocol is for. *)

\* However messages are lost, late or left over from other processes and
\* controllers, the list keeps the promise of Membership: a registration adds one
\* entry, a pong renews one, and an entry leaves by silence only.
Members == INSTANCE Membership WITH running <- ctl_up, members <- cluster_node_list
ImplementsMembership == Members!Spec

\* The daemon believes it belongs to the controller that runs now.
Settled(n) ==
    /\ ctl_up
    /\ up[n]
    /\ phase[n] = "recv"
    /\ ctrlr_ts[n] = ctrlr_startup_ts

Listed(n) == \E e \in cluster_node_list : e.owner = Self(n)

\* The id a settled daemon sends in its pongs was given to this very process,
\* by the controller that runs now: neither a reply that a previous controller
\* left in the socket, nor a request that a previous process of the same daemon
\* left with the controller, ever supplies it.  This is what comparing start-up
\* times in _process_ctrlr_mcast is for; it needs a restart to take a second.
HoldsIssuedId ==
    \A n \in Node : Settled(n) => <<Self(n), cluster_id[n]>> \in issued

\* A daemon that believes it is registered is in the controller's list, however
\* its pongs and the sweep of _update_node_list interleave, as long as fewer
\* multicasts in a row are lost than the timeout has seconds.
AccurateListing == \A n \in Node : Settled(n) => Listed(n)

\* The cluster_id of skrumd.h identifies a daemon: no two that are settled have
\* the same one while the 16 bits have not been used up.
DistinctIds ==
    registered < IdSpace =>
       \A m, n \in Node : Settled(m) /\ Settled(n) /\ cluster_id[m] = cluster_id[n]
                             => m = n

\* The entry that list_find returns for the id a settled daemon sends is the one
\* of that very process, whatever entries earlier processes of the daemons have
\* left in the list: its pongs keep no one else alive.
RenewsOwn ==
    registered < IdSpace =>
       \A n \in Node, e \in cluster_node_list :
          Settled(n) /\ Found(e, cluster_id[n]) => e.owner = Self(n)

\* "Whenever a process (controller or slave) is down, automatic registration":
\* once both stay up, the daemon ends up in the controller's list for good.
Rejoin ==
    \A n \in Node : <>[](ctl_up /\ up[n]) => <>[]Listed(n)

\* A daemon that has died leaves the list, although pongs are matched by id and
\* others keep refreshing theirs.
DeadNodesExpire ==
    \A n \in Node :
       <>[](ctl_up /\ ~up[n]) =>
          <>[](\A e \in cluster_node_list : e.owner.node # n)

=============================================================================
