------------------------------ MODULE Directory ------------------------------
(***************************************************************************)
(* Finding peers through the broker's database (crates/mqp2p/src:          *)
(* SignalingClient in signaling.rs, Peer in peer.rs): a peer registers a   *)
(* record with a lease and renews it at every heartbeat, repairing a       *)
(* record that is gone and an address that changed; another client lists   *)
(* the records, judges each lease from its own sightings and drops peers   *)
(* that the presence feed saw leave.                                       *)
(*                                                                         *)
(* The broker's database and its presence feed are external: updates of a  *)
(* missing record and creations of an existing one fail, an expired record *)
(* is removed at some time, events come in order.  Time passes in half     *)
(* seconds, the clocks in a record count whole ones; the peer's clock may  *)
(* be off.  A request may be lost, or served without an answer in time;    *)
(* the time-out of a request may strike at any time.                       *)
(***************************************************************************)
EXTENDS Naturals, Sequences, FiniteSets, Functions

CONSTANTS
    Addrs,
    LeaseSecs,     \* effective_lease_secs, at least MIN_LEASE_SECS
    Offsets,       \* how far the peer's clock may be from an arbitrary origin, in half seconds
    Offset,        \* the offset of the clocks of the broker and of the lister
    MaxTracked,    \* MAX_TRACKED_CLIENTS
    MaxLives,      \* bound on starts of the peer
    MaxFeed,       \* bound on presence events under way
    MaxTime        \* bound on time, in half seconds

\* Clocks count from before the first of them started.
ASSUME DirectoryAssumption == Offsets \subseteq Nat /\ LeaseSecs \in Nat

VARIABLES
    now, offset,   \* time, and the offset of the peer's clock
    peer,          \* the Peer and its heartbeat task
    recs,          \* the database: records by id
    feed,          \* presence events the lister has not received
    presence,      \* the lister's mark for the peer's client id
    leases,        \* the lister's sightings by record id
    misled         \* history: an address update was served and not answered

dvars == <<now, offset, peer, recs, feed, presence, leases, misled>>
lister == <<presence, leases>>

heartbeat_interval_secs(lease_secs) == IF lease_secs \div 3 > 1 THEN lease_secs \div 3 ELSE 1
unix_now_secs(off) == (now + off) \div 2
peer_is_live(expires_at, unix_now) == expires_at > unix_now

Down(id) == [step |-> "down", id |-> id]
\* What STUN finds, if it answers.
discovered == {<<a>> : a \in Addrs} \cup {<< >>}
Expires == unix_now_secs(offset) + LeaseSecs

-----------------------------------------------------------------------------
(* Requests: [op, id, addr, at, expires_at]; at is when the lease was stamped. *)

Request(op, id, addr) == [op |-> op, id |-> id, addr |-> addr, at |-> now, expires_at |-> Expires]
register_peer(id, addr) == Request("create", id, addr)
renew_lease(id) == Request("renew", id, << >>)
update_peer_addr(id, addr) == Request("addr", id, addr)
deregister_peer(id) == Request("delete", id, << >>)

\* check_response: creating what is there and changing what is not are errors.
check_response(q) == (q.op = "create") <=> (q.id \notin DOMAIN recs)

Served(q) ==
    CASE ~ check_response(q) -> recs
      [] check_response(q) /\ q.op = "delete" -> Restrict(recs, DOMAIN recs \ {q.id})
      [] check_response(q) /\ q.op = "create" ->
             [i \in DOMAIN recs \cup {q.id} |->
                 IF i = q.id THEN [addr |-> q.addr, expires_at |-> q.expires_at, at |-> q.at] ELSE recs[i]]
      [] check_response(q) /\ q.op = "renew" -> [recs EXCEPT ![q.id].expires_at = q.expires_at, ![q.id].at = q.at]
      [] check_response(q) /\ q.op = "addr" -> [recs EXCEPT ![q.id].addr = q.addr]

\* publish_and_wait, its end: answered, served but timed out, or lost.
publish_and_wait(q, ok) ==
    \/ ok = check_response(q) /\ recs' = Served(q) /\ UNCHANGED misled
    \/ /\ ~ ok /\ check_response(q) /\ recs' = Served(q)
       /\ misled' = (misled \/ q.op = "addr")
    \/ ~ ok /\ UNCHANGED <<recs, misled>>

-----------------------------------------------------------------------------
(* The peer *)

Asks(q) == peer' = [peer EXCEPT !.ask = <<q>>]
Waits == peer.ask # << >>
Asked(op) == Waits /\ peer.ask[1].op = op
Answer(step, op, ok) ==
    peer.step = step /\ Asked(op) /\ publish_and_wait(peer.ask[1], ok)

\* The broker's presence event.
Announced(online) ==
    Len(feed) < MaxFeed /\ feed' = Append(feed, [online |-> online, ts |-> unix_now_secs(Offset)])

\* Peer::new: a new record id, the address STUN finds if it answers; the broker
\* announces the client.
new ==
    /\ peer.step = "down" /\ peer.id < MaxLives
    /\ \E addr \in discovered : peer' = [step |-> "new", id |-> peer.id + 1, addr |-> addr, due |-> 0, ask |-> << >>]
    /\ Announced(TRUE)
    /\ UNCHANGED <<now, offset, recs, lister, misled>>

register ==
    /\ peer.step = "new" /\ ~ Waits
    /\ Asks(register_peer(peer.id, peer.addr))
    /\ UNCHANGED <<now, offset, recs, feed, lister, misled>>

\* The heartbeat task starts when the record is there; an error goes to the caller.
registered(ok) ==
    /\ Answer("new", "create", ok)
    /\ peer' = IF ok
               THEN [peer EXCEPT !.step = "registered", !.ask = << >>,
                                 !.due = now + 2 * heartbeat_interval_secs(LeaseSecs)]
               ELSE [peer EXCEPT !.ask = << >>]
    /\ UNCHANGED <<now, offset, feed, lister>>

\* ticker.tick, then rediscover_srflx, which may fail: an address that is not the one
\* in the record is sent first.
heartbeat ==
    /\ peer.step = "registered" /\ ~ Waits /\ now >= peer.due
    /\ \E found \in discovered :
           LET q == IF found \in {<< >>, peer.addr} THEN renew_lease(peer.id) ELSE update_peer_addr(peer.id, found)
           IN  peer' = [peer EXCEPT !.due = @ + 2 * heartbeat_interval_secs(LeaseSecs), !.ask = <<q>>]
    /\ UNCHANGED <<now, offset, recs, feed, lister, misled>>

\* Faulty addr_updated: the address counts as sent whatever the answer.
addr_updated_anyway(ok) ==
    /\ Answer("registered", "addr", ok)
    /\ peer' = [peer EXCEPT !.addr = peer.ask[1].addr, !.ask = <<renew_lease(peer.id)>>]
    /\ UNCHANGED <<now, offset, feed, lister>>

addr_updated(ok) ==
    /\ Answer("registered", "addr", ok)
    /\ peer' = [peer EXCEPT !.addr = IF ok THEN peer.ask[1].addr ELSE @, !.ask = <<renew_lease(peer.id)>>]
    /\ UNCHANGED <<now, offset, feed, lister>>

\* ensure_registered: a lease that cannot be renewed is created again.
ensure_registered(ok) ==
    /\ \/ Answer("registered", "renew", ok) /\ peer' = [peer EXCEPT !.ask = IF ok THEN << >> ELSE <<register_peer(peer.id, peer.addr)>>]
       \/ Answer("registered", "create", ok) /\ peer' = [peer EXCEPT !.ask = << >>]
    /\ UNCHANGED <<now, offset, feed, lister>>

\* What becomes of a request whose sender stops waiting for it.
Abandoned == IF Waits THEN \E ok \in BOOLEAN : publish_and_wait(peer.ask[1], ok) ELSE UNCHANGED <<recs, misled>>

\* disconnect: the heartbeat is aborted, the record deleted, ...
disconnect ==
    /\ peer.step = "registered"
    /\ Abandoned
    /\ peer' = [peer EXCEPT !.step = "leaving", !.ask = <<deregister_peer(peer.id)>>]
    /\ UNCHANGED <<now, offset, feed, lister>>

\* ... and the client disconnected, whether that succeeded or not.
disconnected(ok) ==
    /\ Answer("leaving", "delete", ok)
    /\ peer' = Down(peer.id)
    /\ Announced(FALSE)
    /\ UNCHANGED <<now, offset, lister>>

\* The Peer is dropped, or its process dies: the record stays.
dropped ==
    /\ peer.step # "down"
    /\ Abandoned
    /\ peer' = Down(peer.id)
    /\ Announced(FALSE)
    /\ UNCHANGED <<now, offset, lister>>

-----------------------------------------------------------------------------
(* The lister *)

\* An event older than the mark is ignored.
apply_presence(e) ==
    presence' = IF presence # << >> /\ presence[1].ts > e.ts THEN presence ELSE <<e>>

track_presence ==
    /\ feed # << >> /\ feed' = Tail(feed)
    /\ apply_presence(Head(feed))
    /\ UNCHANGED <<now, offset, peer, recs, leases, misled>>

departed == presence # << >> /\ ~ presence[1].online

\* Faulty seen_at: a sighting is kept although the record was renewed since.
seen_at_first(table, id) == IF id \in DOMAIN table THEN table[id].seen_at ELSE now

\* When the expiry time that the record shows was first seen.
seen_at(table, id) ==
    IF id \in DOMAIN table /\ table[id].expires_at = recs[id].expires_at THEN table[id].seen_at ELSE now

\* Which of the records find room in the table is up to their order.
lease_is_live(table, tracked, id) ==
    IF id \in tracked THEN now - seen_at(table, id) < 2 * LeaseSecs
                      ELSE peer_is_live(recs[id].expires_at, unix_now_secs(Offset))

\* The peers that list_peers returns.
Kept == Restrict(leases, DOMAIN leases \cap DOMAIN recs)
peers(tracked) == {i \in DOMAIN recs : lease_is_live(Kept, tracked, i) /\ ~ departed}

\* list_peers: sightings of records that are gone are dropped, those that are there
\* are noted as far as the table has room.
list_peers(tracked) ==
    /\ DOMAIN Kept \subseteq tracked /\ tracked \subseteq DOMAIN recs
    /\ tracked = DOMAIN recs \/ Cardinality(tracked) >= MaxTracked
    /\ tracked = DOMAIN Kept \/ Cardinality(tracked) <= MaxTracked
    /\ leases' = [i \in tracked |-> [expires_at |-> recs[i].expires_at, seen_at |-> seen_at(Kept, i)]]
    /\ UNCHANGED <<now, offset, peer, recs, feed, presence, misled>>

-----------------------------------------------------------------------------
(* The world *)

Tick ==
    /\ now < MaxTime /\ now' = now + 1
    /\ UNCHANGED <<offset, peer, recs, feed, lister, misled>>

\* The database removes a record that has expired.
Reaps(id) ==
    /\ ~ peer_is_live(recs[id].expires_at, unix_now_secs(Offset))
    /\ recs' = Restrict(recs, DOMAIN recs \ {id})
    /\ UNCHANGED <<now, offset, peer, feed, lister, misled>>

DirectoryInit ==
    /\ now = 0 /\ offset \in Offsets
    /\ peer = Down(0) /\ recs = << >> /\ feed = << >> /\ presence = << >>
    /\ leases = << >> /\ misled = FALSE

Beats == \E ok \in BOOLEAN : registered(ok) \/ addr_updated(ok) \/ ensure_registered(ok) \/ disconnected(ok)

DirectoryNext ==
    \/ new \/ register \/ heartbeat \/ Beats \/ disconnect \/ dropped
    \/ track_presence \/ \E tracked \in SUBSET DOMAIN recs : list_peers(tracked)
    \/ Tick \/ \E id \in DOMAIN recs : Reaps(id)

DirectorySpec == DirectoryInit /\ [][DirectoryNext]_dvars

-----------------------------------------------------------------------------
\* A peer that the lister believes to be online, and that stamped its record's lease less
\* than a second short of the lease ago, is listed, however far its clock is off; where
\* the table of sightings is full, only if the clocks agree.
LeaseHonoured ==
    [][\A tracked \in SUBSET DOMAIN recs :
           list_peers(tracked) =>
               \A id \in DOMAIN recs :
                   /\ ~ departed /\ now - recs[id].at < 2 * (LeaseSecs - 1)
                   /\ id \in tracked \/ offset = Offset
                   => id \in peers(tracked)]_dvars

\* The address in the peer's record is the one its heartbeat task compares with, through
\* lost updates, records reaped and created again; unless an update was served that the
\* peer takes for failed.
AddrInSync ==
    /\ peer.step = "registered" /\ peer.id \in DOMAIN recs /\ ~ misled
    => recs[peer.id].addr = peer.addr

=============================================================================
