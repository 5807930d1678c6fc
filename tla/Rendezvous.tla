------------------------------ MODULE Rendezvous ------------------------------
(***************************************************************************)
(* Making a peer-to-peer connection (crates/mqp2p/src/peer.rs with         *)
(* signaling.rs and quic.rs): initiators call connect_to, one responder    *)
(* calls accept_connection again and again.  Offers, answers and syncs go  *)
(* over the broker and may be late; a fresh bounded channel receives them  *)
(* for each call.  The initiator then tries the responder's direct address *)
(* and its relayed one, while the responder's endpoint routes what arrives *)
(* (Acceptor).                                                             *)
(*                                                                         *)
(* Attempts are numbered; the number is the session id.  A certificate's   *)
(* fingerprint is the name of its initiator.  A direct handshake may       *)
(* succeed, fail, or be given up by the initiator when the responder's     *)
(* side has finished.  Whether a TURN allocation succeeds is a choice.     *)
(***************************************************************************)
EXTENDS Acceptor

CONSTANTS
    Initiators,
    MaxAttempts,   \* bound on calls of connect_to
    MaxCalls,      \* bound on calls of accept_connection
    ChannelCap     \* capacity of the channels behind the subscriptions

ASSUME RendezvousAssumption ==
    /\ MaxBuffered \in Nat \ {0} /\ ChannelCap \in Nat \ {0}
    /\ MaxAttempts \in Nat /\ MaxCalls \in Nat

VARIABLES
    dial,      \* connect_to, for each initiator: the step it awaits
    answers,   \* the channel of subscribe_answers, for each initiator
    call,      \* accept_connection: the step it awaits
    offers, syncs,   \* the channels of subscribe_offers and subscribe_sync
    wire,      \* signaling messages the broker has not delivered
    acc,       \* accept_state of the responder's endpoint
    place,     \* the responder's side of each connection: where it is
    open,      \* connections the initiator still holds open
    dead,      \* connections the responder knows to be closed
    attempts, calls,
    paired     \* history: the offers accept_connection returned a connection for, and which

dialing == <<dial, answers, attempts>>
accepting == <<call, offers, syncs, calls, paired>>
vars == <<dialing, accepting, wire, acc, place, open, dead>>

Sessions == 1 .. MaxAttempts
NoDial == [step |-> "idle"]
NoCall == [step |-> "idle"]
Conn(i, n, via) == [by |-> i, n |-> n, via |-> via]

\* A subscription's callback: channel_try_send drops what does not fit.
channel_try_send(channel, m) == IF Len(channel) < ChannelCap THEN Append(channel, m) ELSE channel

Pairing(c) == paired \cup {[from |-> call.from, n |-> call.n, conn |-> c]}

\* The calls whose waiter still listens.
Listening == IF call.step = "accept" THEN {calls} ELSE {}

-----------------------------------------------------------------------------
(* connect_to *)

\* What SignalingClient publishes.
send_offer(i, n, relay) == wire' = wire \cup {[kind |-> "offer", from |-> i, n |-> n, relay |-> relay]}
send_answer(i, n, relay) == wire' = wire \cup {[kind |-> "answer", from |-> i, n |-> n, relay |-> relay]}
send_sync(i, n) == wire' = wire \cup {[kind |-> "sync", from |-> i, n |-> n, relay |-> FALSE]}

\* Whether there is a relay: the TURN server may fail or be too slow.
allocate_relay == BOOLEAN

\* A channel for the answers, a relay if one can be had, and the offer.
connect_to(i) ==
    /\ dial[i] = NoDial /\ attempts < MaxAttempts
    /\ attempts' = attempts + 1
    /\ \E turn \in allocate_relay :
           /\ dial' = [dial EXCEPT ![i] = [step |-> "offered", n |-> attempts', turn |-> turn, relay |-> FALSE]]
           /\ send_offer(i, attempts', turn)
    /\ answers' = [answers EXCEPT ![i] = << >>]
    /\ UNCHANGED <<accepting, acc, place, open, dead>>

\* The first answer that comes decides: one of another session is an error.
answer_received(i) ==
    /\ dial[i].step = "offered" /\ answers[i] # << >>
    /\ LET a == Head(answers[i])
       IN  IF a.n # dial[i].n
           THEN dial' = [dial EXCEPT ![i] = NoDial] /\ UNCHANGED wire
           ELSE /\ dial' = [dial EXCEPT ![i] = [@ EXCEPT !.step = "direct", !.relay = a.relay]]
                /\ send_sync(i, a.n)
    /\ answers' = [answers EXCEPT ![i] = << >>]
    /\ UNCHANGED <<accepting, attempts, acc, place, open, dead>>

answer_timeout(i) ==
    /\ dial[i].step = "offered"
    /\ dial' = [dial EXCEPT ![i] = NoDial]
    /\ UNCHANGED <<accepting, answers, attempts, wire, acc, place, open, dead>>

\* A connection the responder's accept loop has got.
Arrives(c, held) ==
    /\ place' = [x \in DOMAIN place \cup {c} |-> IF x = c THEN "inbound" ELSE place[x]]
    /\ open' = IF held THEN open \cup {c} ELSE open

NothingArrives == UNCHANGED <<place, open>>

\* The direct candidates: connected, given up although the handshake ends on the
\* other side, or failed; then the relay, if both sides have one.
try_direct(i) ==
    /\ dial[i].step = "direct"
    /\ \E outcome \in (IF acc.closed THEN {} ELSE {"connected", "given_up"}) \cup {"failed"} :
           /\ IF outcome = "failed" THEN NothingArrives ELSE Arrives(Conn(i, dial[i].n, "direct"), outcome = "connected")
           /\ dial' = [dial EXCEPT ![i] = IF outcome # "connected" /\ @.turn /\ @.relay
                                          THEN [@ EXCEPT !.step = "relay"] ELSE NoDial]
    /\ UNCHANGED <<accepting, answers, attempts, wire, acc, dead>>

\* The relay works only while the responder's relay endpoint for this offer is up.
connect_via_relay(i, n) ==
    /\ call.step = "accept" /\ call.n = n /\ call.relay
    /\ Arrives(Conn(i, n, "relay"), TRUE)

try_relay(i) ==
    /\ dial[i].step = "relay"
    /\ connect_via_relay(i, dial[i].n) \/ NothingArrives
    /\ dial' = [dial EXCEPT ![i] = NoDial]
    /\ UNCHANGED <<accepting, answers, attempts, wire, acc, dead>>

\* The initiator's application drops a connection; the responder hears of it later.
InitiatorCloses(c) ==
    /\ c \in open /\ open' = open \ {c}
    /\ UNCHANGED <<dialing, accepting, wire, acc, place, dead>>

close_reason_known(c) ==
    /\ c \in DOMAIN place \ (open \cup dead)
    /\ dead' = dead \cup {c}
    /\ UNCHANGED <<dialing, accepting, wire, acc, place, open>>

-----------------------------------------------------------------------------
(* Signaling *)

\* The channels of the subscriptions: a call that is over does not get the message.
subscribe_answers(m) ==
    /\ answers' = IF dial[m.from].step = "offered" THEN [answers EXCEPT ![m.from] = channel_try_send(@, m)] ELSE answers
    /\ UNCHANGED <<offers, syncs>>

subscribe_offers(m) ==
    /\ offers' = IF call.step = "listen" THEN channel_try_send(offers, m) ELSE offers
    /\ UNCHANGED <<answers, syncs>>

subscribe_sync(m) ==
    /\ syncs' = IF call.step \in {"listen", "answered"} THEN channel_try_send(syncs, m) ELSE syncs
    /\ UNCHANGED <<answers, offers>>

\* The broker delivers a message, those of one topic and peer in order.
deliver_message(m) ==
    /\ \A x \in wire : x.kind = m.kind /\ x.from = m.from => m.n <= x.n
    /\ wire' = wire \ {m}
    /\ \/ m.kind = "answer" /\ subscribe_answers(m)
       \/ m.kind = "offer" /\ subscribe_offers(m)
       \/ m.kind = "sync" /\ subscribe_sync(m)
    /\ UNCHANGED <<dial, attempts, call, calls, paired, acc, place, open, dead>>

-----------------------------------------------------------------------------
(* accept_connection *)

accept_connection ==
    /\ call = NoCall /\ calls < MaxCalls
    /\ calls' = calls + 1
    /\ call' = [step |-> "listen"]
    /\ offers' = << >> /\ syncs' = << >>
    /\ UNCHANGED <<dialing, paired, wire, acc, place, open, dead>>

\* The first offer: a relay only if the offer has one; the answer.
offer_received ==
    /\ call.step = "listen" /\ offers # << >>
    /\ LET o == Head(offers)
       IN  \E relay \in IF o.relay THEN allocate_relay ELSE {FALSE} :
               /\ call' = [step |-> "answered", from |-> o.from, n |-> o.n, relay |-> relay, got |-> << >>]
               /\ send_answer(o.from, o.n, relay)
    /\ offers' = << >>
    /\ UNCHANGED <<dialing, syncs, calls, paired, acc, place, open, dead>>

\* Places of connections after a step of the acceptor's state from acc to b.
Relocated(b, c, where) ==
    [x \in DOMAIN place |-> CASE x = c -> where
                              [] x # c /\ x \in Dropped(acc, b) -> "closed"
                              [] OTHER -> place[x]]

\* A buffered connection of the offer's fingerprint, or a waiter; the relay endpoint
\* may fail.
accept_direct_or_relay ==
    LET i == TakenFrom(acc, call.from, dead)
        b == accept_with_fingerprint(acc, call.from, calls, dead)
    IN  /\ acc' = b
        /\ IF i = 0
           THEN /\ \E relay \in {call.relay, FALSE} : call' = [call EXCEPT !.step = "accept", !.relay = relay]
                /\ place' = Relocated(b, NoCall, "closed")
                /\ UNCHANGED paired
           ELSE /\ call' = NoCall
                /\ paired' = Pairing(acc.arrived[i].conn)
                /\ place' = Relocated(b, acc.arrived[i].conn, "accepted")

\* Any sync ends the wait.
sync_received ==
    /\ call.step = "answered" /\ syncs # << >> /\ ~ acc.closed
    /\ accept_direct_or_relay
    /\ syncs' = << >>
    /\ UNCHANGED <<dialing, offers, calls, wire, open, dead>>

\* The endpoint is closed when the call comes to accept.
sync_after_close ==
    /\ call.step = "answered" /\ syncs # << >> /\ acc.closed
    /\ call' = NoCall /\ syncs' = << >>
    /\ UNCHANGED <<dialing, offers, calls, paired, wire, acc, place, open, dead>>

\* A direct connection reaches deliver.
accept_loop(c) ==
    /\ c \in DOMAIN place /\ place[c] = "inbound" /\ c.via = "direct"
    /\ LET b == deliver(acc, c.by, c, Listening)
           handed == ~ acc.closed /\ c \notin ConnsIn(b.arrived)
       IN  /\ acc' = b
           /\ place' = Relocated(b, c, IF acc.closed THEN "closed" ELSE IF handed THEN "handed" ELSE "buffered")
           /\ call' = IF handed THEN [call EXCEPT !.step = "handed", !.got = <<c>>] ELSE call
    /\ UNCHANGED <<dialing, offers, syncs, calls, paired, wire, open, dead>>

\* The call returns the connection it was handed.
accepted ==
    /\ call.step = "handed"
    /\ paired' = Pairing(call.got[1])
    /\ place' = [place EXCEPT ![call.got[1]] = "accepted"]
    /\ call' = NoCall
    /\ UNCHANGED <<dialing, offers, syncs, calls, wire, acc, open, dead>>

\* select! takes the relayed connection; the direct future is dropped, a connection
\* handed to it with it, and its waiter is still to be removed.
accepted_relayed(c) ==
    /\ c \in DOMAIN place /\ place[c] = "inbound" /\ c.via = "relay"
    /\ IF call.step \in {"accept", "handed"} /\ call.n = c.n /\ call.relay
       THEN /\ paired' = Pairing(c)
            /\ place' = [x \in DOMAIN place |-> CASE x = c -> "accepted"
                                                  [] x # c /\ place[x] = "handed" -> "closed"
                                                  [] OTHER -> place[x]]
            /\ call' = [step |-> "cancelled"]
       ELSE place' = [place EXCEPT ![c] = "closed"] /\ UNCHANGED <<paired, call>>
    /\ UNCHANGED <<dialing, offers, syncs, calls, wire, acc, open, dead>>

\* No sync, or no connection, in time; or the caller gives up: the futures are
\* dropped, the receiver before the guard that removes the waiter.
accept_ends ==
    /\ call.step \in {"listen", "answered", "accept", "handed"}
    /\ place' = [x \in DOMAIN place |-> IF place[x] = "handed" THEN "closed" ELSE place[x]]
    /\ call' = IF call.step = "accept" THEN [step |-> "cancelled"] ELSE NoCall
    /\ UNCHANGED <<dialing, offers, syncs, calls, paired, wire, acc, open, dead>>

WaiterGuard_drop ==
    /\ call.step = "cancelled"
    /\ acc' = remove_waiter(acc, calls)
    /\ call' = NoCall
    /\ UNCHANGED <<dialing, offers, syncs, calls, paired, wire, place, open, dead>>

\* spawn_sweep_loop
sweep ==
    /\ ~ acc.closed
    /\ \E n \in 1 .. Len(acc.arrived) :
           LET b == expire_buffered(acc, n)
           IN  acc' = b /\ place' = Relocated(b, NoCall, "closed")
    /\ UNCHANGED <<dialing, accepting, wire, open, dead>>

\* Peer::disconnect closes the endpoint: the waiters are dropped, so a call that
\* waits fails; connections that nobody has taken are closed.
disconnect ==
    /\ ~ acc.closed
    /\ acc' = close(acc)
    /\ place' = Relocated(close(acc), NoCall, "closed")
    /\ dead' = DOMAIN place
    /\ call' = IF call.step = "accept" THEN NoCall ELSE call
    /\ UNCHANGED <<dialing, offers, syncs, calls, paired, wire, open>>

-----------------------------------------------------------------------------
Init ==
    /\ dial = [i \in Initiators |-> NoDial] /\ answers = [i \in Initiators |-> << >>]
    /\ call = NoCall /\ offers = << >> /\ syncs = << >> /\ wire = {}
    /\ acc = AcceptState /\ place = << >> /\ open = {} /\ dead = {}
    /\ attempts = 0 /\ calls = 0 /\ paired = {}

Dialing(i) ==
    connect_to(i) \/ answer_received(i) \/ answer_timeout(i) \/ try_direct(i) \/ try_relay(i)

Accepting ==
    \/ accept_connection \/ offer_received \/ sync_received \/ sync_after_close \/ accepted \/ accept_ends \/ WaiterGuard_drop
    \/ \E c \in DOMAIN place : accept_loop(c) \/ accepted_relayed(c)

Next ==
    \/ \E i \in Initiators : Dialing(i)
    \/ Accepting \/ sweep \/ disconnect
    \/ \E m \in wire : deliver_message(m)
    \/ \E c \in DOMAIN place : InitiatorCloses(c) \/ close_reason_known(c)

Spec == Init /\ [][Next]_vars

-----------------------------------------------------------------------------
Places == {"inbound", "buffered", "handed", "accepted", "closed"}

TypeOK ==
    /\ \A i \in Initiators : dial[i].step \in {"idle", "offered", "direct", "relay"}
    /\ call.step \in {"idle", "listen", "answered", "accept", "handed", "cancelled"}
    /\ \A c \in DOMAIN place : c.by \in Initiators /\ c.n \in Sessions /\ place[c] \in Places
    /\ open \subseteq DOMAIN place /\ dead \subseteq DOMAIN place
    /\ {c \in DOMAIN place : place[c] = "buffered"} = ConnsIn(acc.arrived)
    /\ \A c \in DOMAIN place : place[c] = "handed" <=> call.step = "handed" /\ call.got = <<c>>

\* deliver and accept_with_fingerprint agree under every interleaving with time-outs,
\* cancelled waiters and the sweep: a call that waits has its waiter registered while no
\* connection for it lies in the buffer, and the buffer keeps to its capacity.
NoneMissed ==
    /\ Len(acc.arrived) <= MaxBuffered
    /\ call.step = "accept" => Served(acc, call.from, calls)

\* NoneMissed, in well-typed states.
RendezvousSound == TypeOK /\ NoneMissed

\* accept_connection returns a connection of the peer whose offer it answered, and never
\* one made for an offer that came later.
PairedRight == \A p \in paired : p.conn.by = p.from /\ p.conn.n <= p.n

=============================================================================
