------------------------------ MODULE TurnClient ------------------------------
(***************************************************************************)
(* The TURN client (crates/mqp2p/src/turn_client.rs): an allocation on a   *)
(* relay is obtained through a challenge, kept alive by run_maintenance,   *)
(* and bound to one peer, whose datagrams the relay socket exchanges.  Two *)
(* tasks make requests, the caller and run_maintenance; request_lock lets  *)
(* one transaction run at a time, and run_demux gives the answer to the    *)
(* transaction in the single pending slot.                                 *)
(*                                                                         *)
(* Datagrams travel as the bytes TurnCodec makes of them, in sets: any of  *)
(* them may be lost, late or overtaken, and a resent one repeats another.  *)
(* The TURN server is external: it knows one user, may change its nonce at *)
(* any time, and lets allocations expire.  Time is counted in minutes and  *)
(* passes between requests: a request takes less than half a minute.       *)
(***************************************************************************)
EXTENDS TurnCodec, FiniteSets, FiniteSetsExt

CONSTANTS
    Peers,            \* relayed addresses of peers
    Relayed,          \* the relayed address of this client
    Grants,           \* lifetimes the server may grant, in seconds
    MaxSends,         \* MAX_ATTEMPTS of a transaction
    InboundCapacity,  \* INBOUND_CAPACITY
    MaxTxns,          \* bound on transactions with a trace in the system
    MaxNonces,        \* bound on nonces of the server
    MaxRelays,        \* bound on calls of relay_socket
    MaxData,          \* bound on relayed datagrams
    MaxFlying         \* bound on datagrams on their way, in each direction; more are lost

ASSUME TurnClientAssumption ==
    /\ MaxSends \in Nat \ {0} /\ InboundCapacity \in Nat \ {0} /\ MaxTxns \in 1 .. 255 /\ MaxNonces \in 1 .. 255
    /\ \A l \in Grants : l \in Nat /\ l % 60 = 0

VARIABLES
    client,   \* TurnInner and TurnClient
    task,     \* what the caller and run_maintenance await
    lock,     \* request_lock: the task that holds it
    socket,   \* TurnRelaySocket: its peer, while it is held
    inbound,  \* the queue from run_demux to poll_recv
    up, down, \* datagrams on their way to and from the server
    server,
    relays, data,
    failed    \* history: a refresh has failed

net == <<up, down>>
turn_vars == <<client, task, lock, socket, inbound, net, server, relays, data, failed>>

Username == <<117>>
Password == <<112>>
ServerRealm == <<114>>
Nonce(n) == <<110, n>>
LifetimeSecs == 600
Minute == 60
Idle == [step |-> "idle"]
Sent(way, d) == IF Cardinality(way) < MaxFlying THEN way \cup {d} ELSE way

-----------------------------------------------------------------------------
(* Requests *)

Txn(n) == Zeros(11) \o <<n>>
TxnOf(d) == d[HEADER_LEN]
Used ==
    {TxnOf(d) : d \in {x \in up \cup down : ~ is_channel_data(x)}} \cup {p.txn : p \in Range(client.pending)}
    \cup {task[t].txn : t \in {x \in DOMAIN task : task[x].step \in {"lock", "sent"}}} \cup {a.txn : a \in Range(server.alloc)}

\* An id that nothing in the system carries.
new_transaction_id == Min(1 .. MaxTxns \ Used)
HasTxn == 1 .. MaxTxns \ Used # {}

MethodOf(what) == CASE what \in {"challenge", "allocate"} -> METHOD_ALLOCATE
                    [] what = "refresh" -> METHOD_REFRESH
                    [] what \in {"bind", "rebind"} -> METHOD_CHANNEL_BIND

Extra(c, what, peer) ==
    CASE what = "challenge" -> <<Attribute("RequestedTransport", 17)>>
      [] what = "allocate" -> <<Attribute("RequestedTransport", 17), Attribute("Lifetime", LifetimeSecs)>>
      [] what = "refresh" -> <<Attribute("Lifetime", c.lifetime)>>
      [] what \in {"bind", "rebind"} -> <<Attribute("ChannelNumber", CHANNEL_MIN), Attribute("XorPeerAddress", peer[1])>>

\* The request's bytes, with the realm, the nonce and the key of this moment.
RequestBytes(c, what, peer, txn) ==
    LET auth == <<Attribute("Username", Username), Attribute("Realm", c.realm), Attribute("Nonce", c.nonce)>>
        extra == Extra(c, what, peer)
    IN  Message_encode([method |-> MethodOf(what), class |-> "Request", transaction_id |-> Txn(txn),
                        attributes |-> IF what = "challenge" THEN extra ELSE extra \o auth],
                       IF what = "challenge" THEN << >> ELSE c.key, FALSE)

\* A request is built before the lock is awaited.
Asking(c, what, peer, attempt) ==
    [step |-> "lock", what |-> what, peer |-> peer, attempt |-> attempt, txn |-> new_transaction_id,
     bytes |-> RequestBytes(c, what, peer, new_transaction_id), sends |-> 0, got |-> << >>]

-----------------------------------------------------------------------------
(* transact *)

transact_begins(t) ==
    /\ task[t].step = "lock" /\ lock = {}
    /\ lock' = {t}
    /\ client' = [client EXCEPT !.pending =
                     <<[txn |-> task[t].txn, expect_integrity |-> task[t].what # "challenge", by |-> t]>>]
    /\ up' = Sent(up, task[t].bytes)
    /\ task' = [task EXCEPT ![t].step = "sent", ![t].sends = 1]
    /\ UNCHANGED <<socket, inbound, down, server, relays, data, failed>>

\* No answer within the retransmission time-out.
transact_resends(t) ==
    /\ task[t].step = "sent" /\ task[t].got = << >> /\ task[t].sends < MaxSends
    /\ up' = Sent(up, task[t].bytes)
    /\ task' = [task EXCEPT ![t].sends = @ + 1]
    /\ UNCHANGED <<client, lock, socket, inbound, down, server, relays, data, failed>>

\* How transact returns: with the answer; after the last time-out, which empties the
\* slot; or because a send fails, which leaves the slot as it is.
Outcome(t) ==
    IF task[t].got # << >> THEN [r |-> task[t].got, c |-> client]
    ELSE [r |-> << >>, c |-> IF task[t].sends = MaxSends THEN [client EXCEPT !.pending = << >>] ELSE client]

\* A stale nonce on the first attempt: request_authed adopts the new one and asks again.
Stale(t) ==
    /\ task[t].what # "challenge" /\ task[t].attempt = 0 /\ task[t].got # << >>
    /\ LET m == task[t].got[1]
       IN  m.class = "Error" /\ Find(m, "ErrorCode") # << >> /\ Find(m, "ErrorCode")[1].code = 438

request_authed_again(t) ==
    /\ task[t].step = "sent" /\ Stale(t) /\ HasTxn
    /\ LET n == Find(task[t].got[1], "Nonce")
           c == IF n = << >> THEN client ELSE [client EXCEPT !.nonce = n[1]]
       IN  client' = c /\ task' = [task EXCEPT ![t] = Asking(c, task[t].what, task[t].peer, 1)]
    /\ lock' = {}
    /\ UNCHANGED <<socket, inbound, net, server, relays, data, failed>>

\* The request what of t is over, with the answer r or an error, << >>.
Ends(t, what) == task[t].step = "sent" /\ task[t].what = what /\ ~ Stale(t) /\ lock' = {}
Succeeded(r) == r # << >> /\ r[1].class = "Success"

-----------------------------------------------------------------------------
(* TurnClient::connect *)

connect ==
    /\ client.phase = "new"
    /\ client' = [client EXCEPT !.phase = "connecting", !.demux = TRUE]
    /\ task' = [task EXCEPT !["caller"] = Asking(client, "challenge", << >>, 0)]
    /\ UNCHANGED <<lock, socket, inbound, net, server, relays, data, failed>>

\* Faulty alloc_period: the allocation is refreshed after its whole lifetime.
alloc_period_whole(lifetime) == Min({Max({lifetime, Minute}), 240}) \div Minute

\* The pause of run_maintenance, in minutes.
alloc_period(lifetime) == Min({Max({lifetime \div 2, Minute}), 240}) \div Minute

Sleeping(lifetime) == [step |-> "sleep", left |-> alloc_period(lifetime)]

connect_fails(c) ==
    /\ client' = [c EXCEPT !.phase = "failed", !.demux = FALSE]
    /\ task' = [task EXCEPT !["caller"] = Idle]

\* A success with a relayed address starts run_maintenance.
parse_allocation(c, r) ==
    IF Succeeded(r) /\ Find(r[1], "XorRelayedAddress") # << >>
    THEN LET l == Find(r[1], "Lifetime")
             lifetime == IF l = << >> THEN LifetimeSecs ELSE l[1]
         IN  /\ client' = [c EXCEPT !.phase = "up", !.lifetime = lifetime, !.tasks = TRUE]
             /\ task' = [task EXCEPT !["caller"] = Idle, !["maintenance"] = Sleeping(lifetime)]
    ELSE connect_fails(c)

\* The answer to the request without credentials: normally the challenge.
allocate ==
    /\ Ends("caller", "challenge") /\ HasTxn
    /\ LET o == Outcome("caller")
       IN  IF o.r = << >> \/ Succeeded(o.r) THEN parse_allocation(o.c, o.r)
           ELSE LET realm == Find(o.r[1], "Realm")
                    nonce == Find(o.r[1], "Nonce")
                    c == [o.c EXCEPT !.realm = realm[1], !.nonce = nonce[1],
                                     !.key = long_term_key(Username, realm[1], Password)]
                IN  IF realm = << >> \/ nonce = << >> THEN connect_fails(o.c)
                    ELSE client' = c /\ task' = [task EXCEPT !["caller"] = Asking(c, "allocate", << >>, 0)]
    /\ UNCHANGED <<socket, inbound, net, server, relays, data, failed>>

allocated ==
    /\ Ends("caller", "allocate")
    /\ parse_allocation(Outcome("caller").c, Outcome("caller").r)
    /\ UNCHANGED <<socket, inbound, net, server, relays, data, failed>>

\* allocate_relay of Peer gives connect five seconds; the future is dropped, and
\* run_demux goes on without an owner.
connect_dropped ==
    /\ client.phase = "connecting"
    /\ client' = [client EXCEPT !.phase = "abandoned"]
    /\ task' = [task EXCEPT !["caller"] = Idle] /\ lock' = {}
    /\ UNCHANGED <<socket, inbound, net, server, relays, data, failed>>

-----------------------------------------------------------------------------
(* relay_socket *)

relay_socket(p) ==
    /\ client.phase = "up" /\ task["caller"] = Idle /\ relays < MaxRelays /\ HasTxn
    /\ relays' = relays + 1
    /\ task' = [task EXCEPT !["caller"] = Asking(client, "bind", <<p>>, 0)]
    /\ UNCHANGED <<client, lock, socket, inbound, net, server, data, failed>>

\* bind_channel notes the peer; then the queue and the tasks move to the socket, once.
bind_channel ==
    /\ Ends("caller", "bind")
    /\ LET o == Outcome("caller")
           bound == [o.c EXCEPT !.bound = task["caller"].peer]
       IN  IF ~ Succeeded(o.r) THEN client' = o.c /\ UNCHANGED socket
           ELSE IF ~ client.tasks THEN client' = bound /\ UNCHANGED socket
           ELSE client' = [bound EXCEPT !.tasks = FALSE] /\ socket' = task["caller"].peer
    /\ task' = [task EXCEPT !["caller"] = Idle]
    /\ UNCHANGED <<inbound, net, server, relays, data, failed>>

relay_socket_dropped ==
    /\ client.phase = "up" /\ task["caller"] # Idle
    /\ task' = [task EXCEPT !["caller"] = Idle] /\ lock' = lock \ {"caller"}
    /\ UNCHANGED <<client, socket, inbound, net, server, relays, data, failed>>

\* TaskGuard::abort stops run_demux and run_maintenance, wherever it is.
abort(c) ==
    /\ client' = [c EXCEPT !.demux = FALSE]
    /\ task' = [task EXCEPT !["maintenance"] = Idle]
    /\ lock' = lock \ {"maintenance"}

\* Faulty TurnClient_drop: the client stops the tasks although the socket has them.
TurnClient_drop_aborts ==
    /\ client.phase = "up" /\ task["caller"] = Idle
    /\ abort([client EXCEPT !.phase = "dropped", !.tasks = FALSE])
    /\ UNCHANGED <<socket, inbound, net, server, relays, data, failed>>

TurnClient_drop ==
    /\ client.phase = "up" /\ task["caller"] = Idle
    /\ LET c == [client EXCEPT !.phase = "dropped", !.tasks = FALSE]
       IN  IF client.tasks THEN abort(c) ELSE client' = c /\ UNCHANGED <<task, lock>>
    /\ UNCHANGED <<socket, inbound, net, server, relays, data, failed>>

TurnRelaySocket_drop ==
    /\ socket # << >> /\ socket' = << >> /\ inbound' = << >>
    /\ abort(client)
    /\ UNCHANGED <<net, server, relays, data, failed>>

-----------------------------------------------------------------------------
(* run_maintenance *)

run_maintenance ==
    /\ task["maintenance"].step = "sleep" /\ task["maintenance"].left = 0 /\ HasTxn
    /\ task' = [task EXCEPT !["maintenance"] = Asking(client, "refresh", << >>, 0)]
    /\ UNCHANGED <<client, lock, socket, inbound, net, server, relays, data, failed>>

\* The lifetime granted is the next one asked for; a channel that is bound is bound again.
refreshed ==
    /\ Ends("maintenance", "refresh") /\ HasTxn
    /\ LET o == Outcome("maintenance")
           l == IF Succeeded(o.r) THEN Find(o.r[1], "Lifetime") ELSE << >>
           c == IF l = << >> THEN o.c ELSE [o.c EXCEPT !.lifetime = l[1]]
       IN  /\ client' = c
           /\ failed' = (failed \/ ~ Succeeded(o.r))
           /\ task' = [task EXCEPT !["maintenance"] =
                          IF c.bound = << >> THEN Sleeping(c.lifetime) ELSE Asking(c, "rebind", c.bound, 0)]
    /\ UNCHANGED <<socket, inbound, net, server, relays, data>>

rebound ==
    /\ Ends("maintenance", "rebind")
    /\ client' = Outcome("maintenance").c
    /\ task' = [task EXCEPT !["maintenance"] = Sleeping(client.lifetime)]
    /\ UNCHANGED <<socket, inbound, net, server, relays, data, failed>>

-----------------------------------------------------------------------------
(* run_demux *)

\* Faulty Matches: whatever transaction waits takes the answer.
MatchesAny(m) == client.pending # << >>

Matches(m) == client.pending # << >> /\ Txn(client.pending[1].txn) = m.transaction_id

\* The answer fills the slot's channel, if its task still listens.
Answered(m) ==
    LET p == client.pending[1]
    IN  /\ client' = [client EXCEPT !.pending = << >>]
        /\ task' = IF task[p.by].step = "sent" /\ task[p.by].txn = p.txn THEN [task EXCEPT ![p.by].got = <<m>>] ELSE task

run_demux(d) ==
    /\ client.demux /\ down' = down \ {d}
    /\ LET m == Message_decode(d)
           f == ChannelData_decode(d)
       IN  IF is_channel_data(d)
           THEN /\ inbound' = IF f # << >> /\ Len(inbound) < InboundCapacity /\ (client.phase = "up" \/ socket # << >>)
                              THEN Append(inbound, f[1].data) ELSE inbound
                /\ UNCHANGED <<client, task>>
           ELSE /\ IF m = << >> THEN UNCHANGED <<client, task>>
                   ELSE IF ~ Matches(m[1]) THEN UNCHANGED <<client, task>>
                   ELSE IF client.pending[1].expect_integrity /\ m[1].class = "Success" /\ ~ verify_integrity(d, client.key)
                   THEN UNCHANGED <<client, task>>
                   ELSE Answered(m[1])
                /\ UNCHANGED inbound
    /\ UNCHANGED <<lock, socket, up, server, relays, data, failed>>

-----------------------------------------------------------------------------
(* The relay socket *)

\* A datagram for anyone but the bound peer is dropped.
try_send(p) ==
    /\ socket # << >> /\ data < MaxData
    /\ data' = data + 1
    /\ up' = IF p = socket[1] THEN Sent(up, ChannelData_encode([channel |-> CHANNEL_MIN, data |-> <<data'>>])) ELSE up
    /\ UNCHANGED <<client, task, lock, socket, inbound, down, server, relays, failed>>

poll_recv ==
    /\ socket # << >> /\ inbound # << >>
    /\ inbound' = Tail(inbound)
    /\ UNCHANGED <<client, task, lock, socket, net, server, relays, data, failed>>

-----------------------------------------------------------------------------
(* The TURN server and the network *)

ServerKey == long_term_key(Username, ServerRealm, Password)
Challenge(code) ==
    <<Attribute("ErrorCode", [code |-> code, reason |-> << >>]), Attribute("Realm", ServerRealm),
      Attribute("Nonce", Nonce(server.nonce)), Attribute("Software", <<99, 111, 116>>)>>
Reply(m, class, attributes) ==
    Message_encode([method |-> m.method, class |-> class, transaction_id |-> m.transaction_id, attributes |-> attributes],
                   IF class = "Success" THEN ServerKey ELSE << >>, TRUE)
Refuses(m, code) == down' = Sent(down, Reply(m, "Error", Challenge(code))) /\ UNCHANGED server
Grants_(m, attributes, s) == down' = Sent(down, Reply(m, "Success", attributes)) /\ server' = s

\* Credentials, nonce and integrity are checked in turn; an allocation belongs to the
\* request that made it; a channel that is bound stays with its peer.
Serves(d, m) ==
    LET txn == m.transaction_id[12]
        bound == Find(m, "XorPeerAddress")
        taken == server.alloc # << >>
    IN  CASE Find(m, "Username") = << >> -> Refuses(m, 401)
          [] Find(m, "Username") # << >> /\ Find(m, "Nonce") # <<Nonce(server.nonce)>> -> Refuses(m, 438)
          [] Find(m, "Nonce") = <<Nonce(server.nonce)>> /\ ~ verify_integrity(d, ServerKey) -> Refuses(m, 401)
          [] OTHER ->
               CASE m.method = METHOD_ALLOCATE /\ ~ taken ->
                      \E l \in Grants : Grants_(m, <<Attribute("XorRelayedAddress", Relayed), Attribute("Lifetime", l)>>,
                                                [server EXCEPT !.alloc = <<[txn |-> txn, lifetime |-> l, left |-> l \div Minute]>>])
                 [] m.method = METHOD_ALLOCATE /\ taken ->
                      IF server.alloc[1].txn # txn THEN Refuses(m, 437)
                      ELSE Grants_(m, <<Attribute("XorRelayedAddress", Relayed), Attribute("Lifetime", server.alloc[1].lifetime)>>, server)
                 [] m.method # METHOD_ALLOCATE /\ ~ taken -> Refuses(m, 437)
                 [] m.method = METHOD_REFRESH /\ taken ->
                      Grants_(m, <<Attribute("Lifetime", server.alloc[1].lifetime)>>,
                              [server EXCEPT !.alloc[1].left = server.alloc[1].lifetime \div Minute])
                 [] m.method = METHOD_CHANNEL_BIND /\ taken ->
                      IF server.channel \in {<< >>, bound} THEN Grants_(m, << >>, [server EXCEPT !.channel = bound])
                      ELSE Refuses(m, 400)

ServerReceives(d) ==
    /\ up' = up \ {d}
    /\ IF is_channel_data(d) THEN UNCHANGED <<down, server>> ELSE Serves(d, Message_decode(d)[1])
    /\ UNCHANGED <<client, task, lock, socket, inbound, relays, data, failed>>

NonceChanges ==
    /\ server.nonce < MaxNonces /\ server' = [server EXCEPT !.nonce = @ + 1]
    /\ UNCHANGED <<client, task, lock, socket, inbound, net, relays, data, failed>>

PeerSends ==
    /\ server.channel # << >> /\ data < MaxData
    /\ data' = data + 1
    /\ down' = Sent(down, ChannelData_encode([channel |-> CHANNEL_MIN, data |-> <<data'>>]))
    /\ UNCHANGED <<client, task, lock, socket, inbound, up, server, relays, failed>>

Lost(d) ==
    /\ up' = up \ {d} /\ down' = down \ {d}
    /\ UNCHANGED <<client, task, lock, socket, inbound, server, relays, data, failed>>

\* A minute passes; run_maintenance is woken when it is due.
Resting(t) == task[t].step \in {"idle", "sleep"}
Tick ==
    /\ server.alloc # << >> /\ Resting("caller") /\ Resting("maintenance") /\ client.phase # "connecting"
    /\ task["maintenance"].step = "sleep" => task["maintenance"].left > 0
    /\ task' = IF task["maintenance"].step = "sleep" THEN [task EXCEPT !["maintenance"].left = @ - 1] ELSE task
    /\ server' = IF server.alloc[1].left = 1 THEN [server EXCEPT !.alloc = << >>, !.channel = << >>]
                 ELSE [server EXCEPT !.alloc[1].left = @ - 1]
    /\ UNCHANGED <<client, lock, socket, inbound, net, relays, data, failed>>

-----------------------------------------------------------------------------
TurnInit ==
    /\ client = [phase |-> "new", realm |-> << >>, nonce |-> << >>, key |-> Zeros(16), pending |-> << >>,
                 bound |-> << >>, lifetime |-> 0, demux |-> FALSE, tasks |-> FALSE]
    /\ task = [t \in {"caller", "maintenance"} |-> Idle] /\ lock = {}
    /\ socket = << >> /\ inbound = << >> /\ up = {} /\ down = {}
    /\ server = [nonce |-> 1, alloc |-> << >>, channel |-> << >>]
    /\ relays = 0 /\ data = 0 /\ failed = FALSE

Transacting(t) == transact_begins(t) \/ transact_resends(t) \/ request_authed_again(t)

TurnNext ==
    \/ connect \/ allocate \/ allocated \/ connect_dropped
    \/ \E p \in Peers : relay_socket(p)
    \/ \E p \in Peers \cup {Relayed} : try_send(p)
    \/ bind_channel \/ relay_socket_dropped \/ TurnClient_drop \/ TurnRelaySocket_drop
    \/ run_maintenance \/ refreshed \/ rebound \/ poll_recv
    \/ \E t \in DOMAIN task : Transacting(t)
    \/ \E d \in down : run_demux(d)
    \/ \E d \in up : ServerReceives(d)
    \/ \E d \in up \cup down : Lost(d)
    \/ NonceChanges \/ PeerSends \/ Tick

TurnSpec == TurnInit /\ [][TurnNext]_turn_vars

-----------------------------------------------------------------------------
TurnTypeOK ==
    /\ client.phase \in {"new", "connecting", "up", "failed", "abandoned", "dropped"}
    /\ \A t \in DOMAIN task : task[t].step \in {"idle", "lock", "sent", "sleep"}
    /\ \A t \in DOMAIN task : t \in lock <=> task[t].step = "sent"
    /\ Cardinality(lock) <= 1 /\ Len(client.pending) <= 1 /\ Len(inbound) <= InboundCapacity
    /\ socket = << >> \/ socket[1] \in Peers

\* What t asked and was answered, read back from the bytes.
ReadsBack(t) ==
    LET m == Message_decode(task[t].bytes)[1]
    IN  /\ m.class = "Request" /\ m.method = MethodOf(task[t].what) /\ m.transaction_id = Txn(task[t].txn)
        /\ Find(m, "XorPeerAddress") = task[t].peer
        /\ \A a \in Range(task[t].got) : a.class \in {"Success", "Error"}

\* encode and decode are inverse on everything client and server send: a datagram is
\* channel data or a message, never both, encodes to the same bytes again, and means
\* to its receiver what its sender put into it.
Understood ==
    /\ \A d \in up \cup down :
           LET m == Message_decode(d)
               f == ChannelData_decode(d)
               own == SelectSeq(m[1].attributes, LAMBDA a : a.is \notin Exact)
               key == IF Find(m[1], "MessageIntegrity") = << >> THEN << >> ELSE ServerKey
           IN  IF is_channel_data(d) THEN m = << >> /\ f # << >> /\ ChannelData_encode(f[1]) = d
               ELSE m # << >> /\ Message_encode([m[1] EXCEPT !.attributes = own], key, Find(m[1], "Fingerprint") # << >>) = d
    /\ \A t \in DOMAIN task : ~ Resting(t) => ReadsBack(t)

\* No refresh has failed while run_maintenance runs.
Maintained == task["maintenance"] # Idle /\ ~ failed

\* bind_channel notes a peer only when the server has bound the channel to that peer,
\* whatever answers to earlier requests, of either task, are still on their way.
BoundAtServer == Maintained /\ client.bound # << >> => server.channel = client.bound

\* run_maintenance keeps the allocation: it does not expire before a refresh has failed,
\* although the nonce changes, answers get lost and the caller uses the same lock.
KeptAlive == Maintained => server.alloc # << >>

\* run_demux and run_maintenance run exactly as long as the client or the socket that
\* owns them, in whatever order the two are dropped; only a connect that is dropped
\* leaves run_demux behind.
TasksOwned ==
    LET owned == client.tasks \/ socket # << >>
    IN  /\ task["maintenance"] # Idle <=> owned
        /\ client.demux <=> owned \/ client.phase \in {"connecting", "abandoned"}

\* TasksOwned, in well-typed states.
TurnSound == TurnTypeOK /\ TasksOwned

=============================================================================
