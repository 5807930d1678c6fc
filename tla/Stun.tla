-------------------------------- MODULE Stun --------------------------------
(***************************************************************************)
(* Finding the address under which the world sees a peer                   *)
(* (crates/mqp2p/src/stun.rs and stun_tap.rs): a binding request from the  *)
(* socket that QUIC uses, whose tap takes the responses out of what QUIC   *)
(* receives.  Before QUIC has the socket, discover_external_addr asks on   *)
(* it directly.  A heartbeat's rediscover_srflx asks again while late      *)
(* responses to earlier requests may still come, or wait in the tap's      *)
(* channel.                                                                *)
(*                                                                         *)
(* Datagrams are byte for byte.  The server is external: it answers with   *)
(* the address it saw, XORed, plain or both; the network delays, loses and *)
(* reorders.                                                               *)
(***************************************************************************)
EXTENDS TurnCodec, FiniteSets

CONSTANTS
    Seen,         \* the addresses the server may see
    QuicPacket,   \* a datagram of QUIC
    MaxAsked      \* bound on requests

VARIABLES
    asking,    \* the request awaited: [step, txn]
    asked,     \* how many requests were sent
    out, in,   \* datagrams to the server, and to the peer
    responses, \* the tap's channel
    answered,  \* history: the address the server saw with each request
    found,     \* history: [txn, addr] that discovery returned
    quic       \* history: datagrams that reached QUIC

svars == <<asking, asked, out, in, responses, answered, found, quic>>

STUN_BINDING_REQUEST == 1
STUN_BINDING_RESPONSE == 257

random_txn_id(n) == Zeros(11) \o <<n>>

looks_like_binding_response(buf) ==
    /\ Len(buf) >= HEADER_LEN
    /\ from_be16(buf, 1) = STUN_BINDING_RESPONSE
    /\ SubSeq(buf, 5, 8) = MAGIC_COOKIE

build_binding_request(txn) == be16(STUN_BINDING_REQUEST) \o <<0, 0>> \o MAGIC_COOKIE \o txn

parse_xor_mapped_address(value, txn) ==
    IF Len(value) < 8 \/ value[2] \notin {1, 2} THEN << >>
    ELSE IF value[2] = 2 /\ Len(value) < 20 THEN << >>
    ELSE <<Masked([ip |-> SubSeq(value, 5, IF value[2] = 1 THEN 8 ELSE 20), port |-> from_be16(value, 3)], txn)>>

\* IPv4 only.
parse_mapped_address(value) ==
    IF Len(value) < 8 \/ value[2] # 1 THEN << >> ELSE <<[ip |-> SubSeq(value, 5, 8), port |-> from_be16(value, 3)]>>

\* The last of each kind of address; an attribute that runs over ends the search.
RECURSIVE mapped_addresses(_, _, _, _)
mapped_addresses(attrs, offset, txn, got) ==
    IF offset + 4 > Len(attrs) THEN got
    ELSE LET len == from_be16(attrs, offset + 3)
             value == SubSeq(attrs, offset + 5, offset + 4 + len)
             typ == from_be16(attrs, offset + 1)
         IN  IF offset + 4 + len > Len(attrs) THEN got
             ELSE mapped_addresses(attrs, offset + 4 + len + Pad(len), txn,
                      CASE typ = AttrType.XorMappedAddress -> [got EXCEPT !.xor_mapped = parse_xor_mapped_address(value, txn)]
                        [] typ = AttrType.MappedAddress -> [got EXCEPT !.mapped = parse_mapped_address(value)]
                        [] OTHER -> got)

\* Faulty parse_binding_response: a response to any request will do.
parse_binding_response_any(buf, txn) ==
    IF Len(buf) < HEADER_LEN THEN << >>
    ELSE LET id == SubSeq(buf, 9, HEADER_LEN)
             got == mapped_addresses(SubSeq(buf, HEADER_LEN + 1, Len(buf)), 0, id, [xor_mapped |-> << >>, mapped |-> << >>])
         IN  IF got.xor_mapped # << >> THEN got.xor_mapped ELSE got.mapped

\* The XORed address before the plain one.
parse_binding_response(buf, txn) ==
    IF Len(buf) < HEADER_LEN THEN << >>
    ELSE IF from_be16(buf, 1) # STUN_BINDING_RESPONSE \/ SubSeq(buf, 9, HEADER_LEN) # txn THEN << >>
    ELSE LET end == HEADER_LEN + from_be16(buf, 3)
             attrs == SubSeq(buf, HEADER_LEN + 1, IF end < Len(buf) THEN end ELSE Len(buf))
             got == mapped_addresses(attrs, 0, txn, [xor_mapped |-> << >>, mapped |-> << >>])
         IN  IF got.xor_mapped # << >> THEN got.xor_mapped ELSE got.mapped

-----------------------------------------------------------------------------
Asks_stun(step) ==
    /\ asked' = asked + 1
    /\ asking' = [step |-> step, txn |-> random_txn_id(asked')]
    /\ out' = out \cup {build_binding_request(random_txn_id(asked'))}

\* Peer::new, before QUIC has the socket.
discover_external_addr ==
    /\ asked = 0 /\ Asks_stun("direct")
    /\ UNCHANGED <<in, responses, answered, found, quic>>

\* The first datagram decides.
discovered_first(d) ==
    /\ asking.step = "direct" /\ d \in in /\ in' = in \ {d}
    /\ found' = found \cup {[txn |-> asking.txn, addr |-> a] : a \in ToSet(parse_binding_response(d, asking.txn))}
    /\ asking' = [step |-> "idle"]
    /\ UNCHANGED <<asked, out, responses, answered, quic>>

rediscover_srflx ==
    /\ asking.step = "idle" /\ asked \in 1 .. MaxAsked - 1 /\ Asks_stun("tapped")
    /\ UNCHANGED <<in, responses, answered, found, quic>>

\* What is not the response awaited is thrown away.
response_received ==
    /\ asking.step = "tapped" /\ responses # << >>
    /\ LET addr == parse_binding_response(Head(responses), asking.txn)
       IN  /\ found' = found \cup {[txn |-> asking.txn, addr |-> a] : a \in ToSet(addr)}
           /\ asking' = IF addr = << >> THEN asking ELSE [step |-> "idle"]
    /\ responses' = Tail(responses)
    /\ UNCHANGED <<asked, out, in, answered, quic>>

timed_out ==
    /\ asking.step \in {"direct", "tapped"} /\ asking' = [step |-> "idle"]
    /\ UNCHANGED <<asked, out, in, responses, answered, found, quic>>

\* The tap: a datagram that looks like a response goes to the channel, QUIC gets the rest,
\* and whatever the socket received coalesced with other datagrams.
StunTap_poll_recv(d, coalesced) ==
    /\ asking.step # "direct" /\ d \in in /\ in' = in \ {d}
    /\ IF looks_like_binding_response(d) /\ ~ coalesced
       THEN responses' = Append(responses, d) /\ UNCHANGED quic
       ELSE quic' = quic \cup {d} /\ UNCHANGED responses
    /\ UNCHANGED <<asking, asked, out, answered, found>>

-----------------------------------------------------------------------------
(* External *)

\* The server's response to the request of that transaction.
BindingResponse(txn, addr, kinds) ==
    LET body == FoldLeft(LAMBDA b, k : push_raw_attribute(b, AttrType[k], encode_attribute(Attribute(k, addr), txn)), << >>, kinds)
    IN  be16(STUN_BINDING_RESPONSE) \o be16(Len(body)) \o MAGIC_COOKIE \o txn \o body

ServerAnswers(d) ==
    /\ d \in out /\ out' = out \ {d}
    /\ \E addr \in Seen, kinds \in {<<"XorMappedAddress">>, <<"MappedAddress">>, <<"MappedAddress", "XorMappedAddress">>} :
           LET txn == SubSeq(d, 9, HEADER_LEN)
           IN  /\ in' = in \cup {BindingResponse(txn, addr, kinds)}
               /\ answered' = answered \cup {[txn |-> txn, addr |-> addr]}
    /\ UNCHANGED <<asking, asked, responses, found, quic>>

QuicArrives ==
    /\ QuicPacket \notin quic /\ in' = in \cup {QuicPacket}
    /\ UNCHANGED <<asking, asked, out, responses, answered, found, quic>>

StunInit ==
    /\ asking = [step |-> "idle"] /\ asked = 0 /\ out = {} /\ in = {}
    /\ responses = << >> /\ answered = {} /\ found = {} /\ quic = {}

StunNext ==
    \/ discover_external_addr \/ rediscover_srflx \/ response_received \/ timed_out \/ QuicArrives
    \/ \E d \in in : discovered_first(d) \/ \E coalesced \in BOOLEAN : StunTap_poll_recv(d, coalesced)
    \/ \E d \in out : ServerAnswers(d)

-----------------------------------------------------------------------------
\* An address that discovery returns is the one the server saw with that very request,
\* although responses to earlier ones come late or wait in the channel; and no datagram of
\* QUIC's is taken from it.
OwnAnswer == found \subseteq answered /\ QuicPacket \notin ToSet(responses)

=============================================================================
