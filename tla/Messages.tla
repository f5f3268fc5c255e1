------------------------------- MODULE Messages -------------------------------
(***************************************************************************)
(* How a message becomes bytes and a message again: pack_msg and unpack_msg*)
(* of common/skrum_protocol_pack.c over the buffers of common/pack.c, from *)
(* the sender's structure to the receiver's, and the free that follows.    *)
(*                                                                         *)
(* A byte is a digit in base Base, 256 in the code; integers have 2 or 4 of*)
(* them and a time_t is the pair <<val >> 32, val & 0xFFFFFFFF>> of its    *)
(* halves.  Ids are int16_t in the messages and uint16_t where they are    *)
(* compared; the cast keeps the bytes, and values are unsigned here.       *)
(***************************************************************************)
EXTENDS Integers, Sequences, SequencesExt

CONSTANTS
    Base,
    BufSize, \* BUF_SIZE, UDP_BUF_SIZE
    Values   \* values of the 16-bit fields

Square == Base * Base
Half == Square * Square
Halves == 0 .. Half - 1

\* The longest message has 36 bytes; BUF_SIZE is 16384, UDP_BUF_SIZE 512.
ASSUME MessagesAssumption ==
    /\ Base \in Nat /\ Base % 2 = 0 /\ Base >= 2
    /\ BufSize \in Nat /\ BufSize >= 36
    /\ Values \subseteq 0 .. Square - 1

\* The members of skrum_msg_type_t, in their order.
MCAST_CONTROLLER_INFO == 0
REQUEST_NODE_REGISTRATION == 1
RESPONSE_NODE_REGISTRATION == 2
RESPONSE_PONG == 3
Types == 0 .. 3

-----------------------------------------------------------------------------
(* Integers *)

\* The bytes of h in network order, and what they stand for.
Bytes16(h) == <<h \div Base, h % Base>>
Bytes32(h) == Bytes16(h \div Square) \o Bytes16(h % Square)
Value16(bs) == bs[1] * Base + bs[2]
Value32(bs) == Value16(<<bs[1], bs[2]>>) * Square + Value16(<<bs[3], bs[4]>>)

\* htonl and ntohl on a little-endian machine.
Swap(h) == Value32(Reverse(Bytes32(h)))

\* int32_t: the upper half of the values are negative.
Negative(h) == h >= Half \div 2

\* ((int64_t)up) << 32 | down, where down is extended by its sign.
Join(up, down) == <<IF Negative(down) THEN Half - 1 ELSE up, down>>

\* Mutant: the upper half twice.
hton_high_twice(val) == Join(Swap(val[1]), Swap(val[1]))

hton_int64(val) == Join(Swap(val[2]), Swap(val[1]))

\* Mutant: the sign of the wrong half.
ntoh_signed(val) == <<IF Negative(val[2]) THEN 0 ELSE Half - 1, Swap(val[1])>>

ntoh_int64(val) == Join(Swap(val[2]), Swap(val[1]))

\* What memcpy sees of an int64_t.
Memory(val) == Reverse(Bytes32(val[2])) \o Reverse(Bytes32(val[1]))
Recall(bs) == <<Value32(Reverse(SubSeq(bs, 5, 8))), Value32(Reverse(SubSeq(bs, 1, 4)))>>

-----------------------------------------------------------------------------
(* Buffers: a writer or a reader goes on at processed, and does nothing if the  *)
(* rest is too short.                                                           *)

init_buf == [head |-> [k \in 1 .. BufSize |-> 0], processed |-> 0]
create_buf(bytes) == [head |-> bytes, processed |-> 0]
remaining_buf(b) == Len(b.head) - b.processed

Pack(b, bs) ==
    IF remaining_buf(b) < Len(bs) THEN b
    ELSE [head |-> [k \in DOMAIN b.head |->
                      IF k - b.processed \in DOMAIN bs THEN bs[k - b.processed]
                      ELSE b.head[k]],
          processed |-> b.processed + Len(bs)]

\* The next n bytes, or none.
Ahead(b, n) == IF remaining_buf(b) < n THEN <<>>
              ELSE SubSeq(b.head, b.processed + 1, b.processed + n)
Skip(b, n) == [b EXCEPT !.processed = @ + Len(Ahead(b, n))]

pack16(val, b) == Pack(b, Bytes16(val))
unpack16(b, old) == IF Ahead(b, 2) = <<>> THEN old ELSE Value16(Ahead(b, 2))
pack32(val, b) == Pack(b, Bytes32(val))
unpack32(b, old) == IF Ahead(b, 4) = <<>> THEN old ELSE Value32(Ahead(b, 4))
pack_time(val, b) == Pack(b, Memory(hton_int64(val)))
unpack_time(b, old) == IF Ahead(b, 8) = <<>> THEN old ELSE ntoh_int64(Recall(Ahead(b, 8)))

\* packmem, for the eight bytes of sin_zero, and unpackmem.
Zeros == [k \in 1 .. 8 |-> 0]
packmem(b) == IF remaining_buf(b) < 12 THEN b ELSE Pack(pack32(8, b), Zeros)

\* Mutant: the bytes stay in the buffer.
unpackmem_size(b) == Skip(b, 4)

unpackmem(b) == Skip(Skip(b, 4), unpack32(b, 0))

\* sin_family, sin_port and sin_addr; the last two are in network order as they
\* are, and are swapped twice.
pack_sockaddr(a, b) == packmem(pack32(a.addr, pack16(a.port, pack16(a.family, b))))

UnpackSockaddr(b, a) ==
    LET c == Skip(b, 2) d == Skip(c, 2)
    IN [value |-> [family |-> unpack16(b, a.family), port |-> unpack16(c, a.port),
                   addr |-> unpack32(d, a.addr)],
        rest |-> unpackmem(Skip(d, 4))]

-----------------------------------------------------------------------------
(* Messages.  The data of every type starts with 16 bits: a port or an id. *)

NoTime == <<0, 0>>
Addr == [family : {2}, port : Values, addr : {0, Half - 1}]
Message ==
    [type : {MCAST_CONTROLLER_INFO}, addr : Addr, field : Values, ts : {0} \X Halves]
    \cup [type : Types \ {MCAST_CONTROLLER_INFO}, addr : Addr, field : Values, ts : {NoTime}]

\* pack_msg; data_size is never set, nor read by unpack_msg.
pack_msg(m, b) ==
    LET data == pack16(m.field, pack_sockaddr(m.addr, pack16(m.type, b)))
    IN pack32(0, IF m.type = MCAST_CONTROLLER_INFO THEN pack_time(m.ts, data) ELSE data)

\* unpack_msg into the structure m: the data is allocated, with zeros, if the
\* type is one of the four.
unpack_msg(m, b) ==
    LET type == unpack16(b, m.type)
        from == UnpackSockaddr(Skip(b, 2), m.addr)
    IN [type |-> type, addr |-> from.value,
        field |-> unpack16(from.rest, 0),
        ts |-> IF type = MCAST_CONTROLLER_INFO
               THEN unpack_time(Skip(from.rest, 2), NoTime) ELSE NoTime,
        data |-> type \in Types]

-----------------------------------------------------------------------------

VARIABLES
    msg,      \* the message sent
    receiver, \* the code that receives it
    buffer,   \* the bytes
    failed,   \* the receive has failed
    got,      \* the structure that it fills
    pc

vars == <<msg, receiver, buffer, failed, got, pc>>

NoAddr == [family |-> 0, port |-> 0, addr |-> 0]
Blank == [type |-> 0, addr |-> NoAddr, field |-> 0, ts |-> NoTime, data |-> FALSE]

Init ==
    /\ msg \in Message
    /\ receiver \in {"service", "discovery", "response"}
    /\ receiver = "discovery" <=> msg.type = MCAST_CONTROLLER_INFO
    /\ receiver = "response" <=> msg.type = RESPONSE_NODE_REGISTRATION
    /\ buffer = init_buf
    /\ failed = FALSE
    /\ got = Blank
    /\ pc = "pack"

\* skrum_send_msg and skrum_send_discovery_msg: pack_msg, and get_buf_offset bytes
\* are sent.
Send ==
    /\ pc = "pack"
    /\ buffer' = pack_msg(msg, buffer)
    /\ pc' = "receive"
    /\ UNCHANGED <<msg, receiver, failed, got>>

\* Mutant: no skrum_msg_t_init in the service threads.
MsgInitNone(r) == \E t \in Values : got' = [Blank EXCEPT !.type = t]

\* The structure to be filled: skrum_msg_t_init in the service threads, and
\* whatever is in memory elsewhere.
MsgInit(r) ==
    \E t \in Values : /\ r = "service" => t = 0
                      /\ got' = [Blank EXCEPT !.type = t]

\* skrum_receive_msg, which unpacks an empty buffer after a failure, and
\* skrum_receive_discovery_msg, which always unpacks UDP_BUF_SIZE bytes, whatever
\* the stack holds behind the ones that came.
Sent == SubSeq(buffer.head, 1, buffer.processed)
Receive ==
    /\ pc = "receive"
    /\ \/ /\ receiver = "discovery"
          /\ \E x \in 0 .. Base - 1 :
                buffer' = create_buf([k \in 1 .. BufSize |->
                                        IF k \in DOMAIN Sent THEN Sent[k] ELSE x])
          /\ UNCHANGED failed
       \/ receiver # "discovery" /\ buffer' = create_buf(Sent) /\ UNCHANGED failed
       \/ receiver # "discovery" /\ buffer' = create_buf(<<>>) /\ failed' = TRUE
    /\ MsgInit(receiver)
    /\ pc' = "unpack"
    /\ UNCHANGED <<msg, receiver>>

UnpackMsg ==
    /\ pc = "unpack"
    /\ got' = unpack_msg(got, buffer)
    /\ pc' = "handle"
    /\ UNCHANGED <<msg, receiver, buffer, failed>>

\* skrum_free_msg_members, after the handler.
Free ==
    /\ pc = "handle"
    /\ got' = [got EXCEPT !.data = FALSE]
    /\ pc' = "done"
    /\ UNCHANGED <<msg, receiver, buffer, failed>>

Done == pc = "done" /\ UNCHANGED vars

Next == Send \/ Receive \/ UnpackMsg \/ Free \/ Done

Spec == Init /\ [][Next]_vars

-----------------------------------------------------------------------------

Arrived == pc = "handle" /\ ~failed

\* A message arrives with its type, its sender's address, and its port or id,
\* although only one side of most fields knows their width, order and place; the
\* id in a pong is the one that came with the registration, negative or not.
RoundTrip ==
    Arrived => /\ got.type = msg.type /\ got.addr = msg.addr
               /\ got.field = msg.field

\* The daemon tells controllers that started at different times apart until 2106,
\* although the time itself is wrong from 2038 on: its lower half arrives.
Distinguished ==
    Arrived /\ msg.type = MCAST_CONTROLLER_INFO => got.ts[2] = msg.ts[2]

\* Until 2038 the time arrives as it is.
Preserved == Arrived /\ ~Negative(msg.ts[2]) => got.ts = msg.ts

\* What a service thread of the controller makes of a receive that has failed is
\* no request that skrumctld_req serves.
FailedIsRefused ==
    pc = "handle" /\ failed /\ receiver = "service" =>
        got.type \notin {REQUEST_NODE_REGISTRATION, RESPONSE_PONG}

=============================================================================
