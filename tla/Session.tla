------------------------------- MODULE Session -------------------------------
(***************************************************************************)
(* Anti-entropy over sessions (crates/stitch-p2p/src/session.rs, with the  *)
(* fan-out of node.rs): what Replication leaves open, namely which frames  *)
(* reach which peer and whether they ever do.                              *)
(*                                                                         *)
(* What a frame holds is of no concern here, so a peer's log is its        *)
(* cursors: seen[p][o] frames of origin o, of which it can still serve     *)
(* those above base[p][o].  A frame is a pair of an origin and a sequence  *)
(* number.  A Delta holds, for each origin, the frames from above lo[o] up *)
(* to hi[o], which is what delta_since builds and apply consumes.          *)
(*                                                                         *)
(* A session is two endpoints, each a task running session::run; a task's  *)
(* step from one await to the next is one action.  A message is put on the *)
(* stream when its content is read under the state lock: the endpoint      *)
(* writes nothing else between the two, and the stream keeps the order.    *)
(***************************************************************************)
EXTENDS Integers, Sequences, FiniteSets, FiniteSetsExt

CONSTANTS
    Peer,       \* peer ids, ordered
    Link,       \* pairs of peers that discovery connects, as two-element sets
    Durable,    \* peers with a FramePersister, which survive a crash
    Reclaiming, \* peers whose application calls reclaim
    Members,    \* the member list it passes
    Quota,      \* Quota[p]: bound on the writes of p's application
    MaxDelta,   \* frames of the largest Delta within MAX_MESSAGE_LEN
    MaxWrites,  \* the largest quota
    MaxFaults,  \* bound on lost connections, crashes and failed appends
    MaxHellos   \* bound on the Hellos in flight on a link when a tick sends one

ASSUME SessionPeerAssumption == Peer \subseteq Nat
ASSUME LinkAssumption == Link \subseteq SUBSET Peer /\ \A l \in Link : Cardinality(l) = 2
ASSUME SessionMembersAssumption == {Members, Reclaiming} \subseteq SUBSET Peer
ASSUME BoundsAssumption == {MaxDelta, MaxWrites, MaxFaults, MaxHellos} \subseteq Nat
ASSUME QuotaAssumption == Quota \in [Peer -> 0 .. MaxWrites]

VARIABLES
    written,      \* written[o]: how many frames o originated
    seen,         \* seen[p][o]: p's cursor for origin o
    base,         \* base[p][o]: the frames of o that p has reclaimed
    peerCursors,  \* peerCursors[p][q]: the cursors p last heard from q
    unsent,       \* unsent[p]: frames p has applied but not yet fanned out
    conn,         \* the links that are connected
    running,      \* running[e]: endpoint e is in its select loop
    knows,        \* knows[e]: e has learned the remote's id
    owes,         \* owes[e]: e is about to answer a Hello with one of its own
    outbound,     \* outbound[e]: frames queued for e to push
    chan,         \* chan[e]: messages e has sent and the other end has not read
    faults        \* faults so far

logVars  == <<written, seen, base>>
loopVars == <<conn, running, knows, owes>>
vars == <<written, seen, base, peerCursors, unsent, conn, running, knows, owes, outbound,
          chan, faults>>

\* Endpoint <<p, q>> is p's end of its session with q.
End == {e \in Peer \X Peer : {e[1], e[2]} \in Link}
Other(e) == <<e[2], e[1]>>
LinkOf(e) == {e[1], e[2]}

Zero == [o \in Peer |-> 0]
Cursors == [Peer -> 0 .. MaxWrites]
FrameId == Peer \X (1 .. MaxWrites)

HelloMsg(cursors) == [type |-> "Hello", cursors |-> cursors]
DeltaMsg(lo, hi)  == [type |-> "Delta", lo |-> lo, hi |-> hi]

Message == [type : {"Hello"}, cursors : Cursors] \cup [type : {"Delta"}, lo : Cursors, hi : Cursors]

TypeOK ==
    /\ written \in Cursors
    /\ seen \in [Peer -> Cursors] /\ base \in [Peer -> Cursors]
    /\ peerCursors \in [Peer -> [Peer -> Cursors]]
    /\ unsent \in [Peer -> SUBSET FrameId]
    /\ conn \subseteq Link
    /\ running \in [End -> BOOLEAN] /\ knows \in [End -> BOOLEAN] /\ owes \in [End -> BOOLEAN]
    /\ outbound \in [End -> Seq(FrameId)]
    /\ chan \in [End -> Seq(Message)]
    /\ faults \in 0 .. MaxFaults

Init ==
    /\ written = Zero
    /\ seen = [p \in Peer |-> Zero] /\ base = [p \in Peer |-> Zero]
    /\ peerCursors = [p \in Peer |-> [q \in Peer |-> Zero]]
    /\ unsent = [p \in Peer |-> {}]
    /\ conn = {}
    /\ running = [e \in End |-> FALSE]
    /\ knows = [e \in End |-> FALSE]
    /\ owes = [e \in End |-> FALSE]
    /\ outbound = [e \in End |-> << >>]
    /\ chan = [e \in End |-> << >>]
    /\ faults = 0

------------------------------------------------------------------------------
(* Local writes and their fan-out. *)

\* The state lock is released before the session list is locked.
LocalWrite(p) ==
    /\ written[p] < Quota[p]
    /\ written' = [written EXCEPT ![p] = @ + 1]
    /\ seen' = [seen EXCEPT ![p][p] = @ + 1]
    /\ unsent' = [unsent EXCEPT ![p] = @ \cup {<<p, written[p] + 1>>}]
    /\ UNCHANGED <<base, peerCursors, loopVars, outbound, chan, faults>>

\* Concurrent writers reach the session list in any order.
FanOut(p, f) ==
    /\ f \in unsent[p]
    /\ unsent' = [unsent EXCEPT ![p] = @ \ {f}]
    /\ outbound' = [e \in End |->
                      IF e[1] = p /\ running[e] THEN Append(outbound[e], f) ELSE outbound[e]]
    /\ UNCHANGED <<logVars, peerCursors, loopVars, chan, faults>>

------------------------------------------------------------------------------
(* The life of a session. *)

\* Discovery finds the peer and the two nodes connect.
Connect(l) ==
    /\ l \in Link \ conn
    /\ conn' = conn \cup {l}
    /\ UNCHANGED <<logVars, peerCursors, unsent, running, knows, owes, outbound, chan, faults>>

\* The session registers for fan-out, and its first act is a Hello.
Start(e) ==
    /\ LinkOf(e) \in conn /\ ~running[e]
    /\ running' = [running EXCEPT ![e] = TRUE]
    /\ chan' = [chan EXCEPT ![e] = Append(@, HelloMsg(seen[e[1]]))]
    /\ UNCHANGED <<logVars, peerCursors, unsent, conn, knows, owes, outbound, faults>>

\* Both ends of the links in ls go, with all that was under way on them.
TearDown(ls) ==
    LET gone(e) == LinkOf(e) \in ls
    IN  /\ conn' = conn \ ls
        /\ running' = [e \in End |-> running[e] /\ ~gone(e)]
        /\ knows' = [e \in End |-> knows[e] /\ ~gone(e)]
        /\ owes' = [e \in End |-> owes[e] /\ ~gone(e)]
        /\ outbound' = [e \in End |-> IF gone(e) THEN << >> ELSE outbound[e]]
        /\ chan' = [e \in End |-> IF gone(e) THEN << >> ELSE chan[e]]

\* The connection is lost, or an end leaves its loop with an error.
Drop(l) ==
    /\ l \in conn /\ faults < MaxFaults
    /\ faults' = faults + 1
    /\ TearDown({l})
    /\ UNCHANGED <<logVars, peerCursors, unsent>>

\* A durable peer crashes and replays its disk, which reclaim never shortens.
Crash(p) ==
    /\ p \in Durable /\ faults < MaxFaults
    /\ faults' = faults + 1
    /\ TearDown({l \in conn : p \in l})
    /\ base' = [base EXCEPT ![p] = Zero]
    /\ peerCursors' = [peerCursors EXCEPT ![p] = [q \in Peer |-> Zero]]
    /\ unsent' = [unsent EXCEPT ![p] = {}]
    /\ UNCHANGED <<written, seen>>

------------------------------------------------------------------------------
(* The select loop. *)

Idle(e) == running[e] /\ ~owes[e]

\* The lower id of a session ticks; each does until it knows the other.
ShouldInitiate(e) == knows[e] => e[1] < e[2]

\* peer_ahead: cursors theirs show a frame that ours lack.
PeerAhead(theirs, ours) == \E o \in Peer : theirs[o] > ours[o]

\* Hellos under way on link l, the ones about to be sent included.
HellosOn(l) ==
    LET hellos(e) == Len(SelectSeq(chan[e], LAMBDA m : m.type = "Hello"))
    IN  MapThenSumSet(LAMBDA e : hellos(e) + (IF owes[e] THEN 1 ELSE 0),
                      {e \in End : LinkOf(e) = l})

\* The ticker fires.  Ticks come a pull interval apart.
TickHello(e) ==
    /\ Idle(e) /\ ShouldInitiate(e)
    /\ HellosOn(LinkOf(e)) < MaxHellos
    /\ chan' = [chan EXCEPT ![e] = Append(@, HelloMsg(seen[e[1]]))]
    /\ UNCHANGED <<logVars, peerCursors, unsent, loopVars, outbound, faults>>

\* A queued frame is pushed as a Delta of its own.
Push(e) ==
    LET f == Head(outbound[e])
    IN  /\ Idle(e) /\ outbound[e] # << >>
        /\ outbound' = [outbound EXCEPT ![e] = Tail(@)]
        /\ chan' = [chan EXCEPT ![e] =
                      Append(@, DeltaMsg([Zero EXCEPT ![f[1]] = f[2] - 1],
                                         [Zero EXCEPT ![f[1]] = f[2]]))]
        /\ UNCHANGED <<logVars, peerCursors, unsent, loopVars, faults>>

\* What p can serve a peer with the given cursors.
DeltaSince(p, theirs) ==
    DeltaMsg([o \in Peer |-> Min({seen[p][o], Max({theirs[o], base[p][o]})})], seen[p])

Frames(m) == MapThenSumSet(LAMBDA o : m.hi[o] - m.lo[o], Peer)

\* The handler of a Hello, answering it as the last argument says.
OnHello(e, in, answer) ==
    LET p == e[1]
        m == Head(in)
        delta == DeltaSince(p, m.cursors)
    IN  /\ knows' = [knows EXCEPT ![e] = TRUE]
        /\ peerCursors' = [peerCursors EXCEPT ![p][e[2]] = m.cursors]
        /\ owes' = [owes EXCEPT ![e] = answer]
        /\ chan' = [chan EXCEPT
                      ![Other(e)] = Tail(@),
                      ![e] = IF Frames(delta) > 0 THEN Append(@, delta) ELSE @]
        /\ UNCHANGED <<logVars, unsent, conn, running, outbound, faults>>

HasHello(e) ==
    LET in == chan[Other(e)]
    IN  Idle(e) /\ in # << >> /\ Head(in).type = "Hello"

\* Faulty ReadHello: no Hello is answered with a Hello.
ReadHelloServesOnly(e) == HasHello(e) /\ OnHello(e, chan[Other(e)], FALSE)

\* Faulty ReadHello: an end that is not behind does not answer.
ReadHelloAheadOnly(e) ==
    /\ HasHello(e)
    /\ OnHello(e, chan[Other(e)], PeerAhead(Head(chan[Other(e)]).cursors, seen[e[1]]))

\* A Hello: note the cursors, serve what the peer lacks, and decide under the
\* same lock whether to answer with a Hello.
ReadHello(e) ==
    /\ HasHello(e)
    /\ OnHello(e, chan[Other(e)],
               PeerAhead(Head(chan[Other(e)]).cursors, seen[e[1]]) \/ ~(e[1] < e[2]))

\* send_hello reads the cursors again, after the Delta went out.
AnswerHello(e) ==
    /\ owes[e]
    /\ owes' = [owes EXCEPT ![e] = FALSE]
    /\ chan' = [chan EXCEPT ![e] = Append(@, HelloMsg(seen[e[1]]))]
    /\ UNCHANGED <<logVars, peerCursors, unsent, conn, running, knows, outbound, faults>>

\* The cursors after the frames of a Delta were received in order: an origin's
\* frames are recorded unless its first one is ahead of the log.
Applied(cursors, lo, hi) ==
    [o \in Peer |-> IF lo[o] <= cursors[o] /\ hi[o] > cursors[o] THEN hi[o] ELSE cursors[o]]

\* A Delta; upTo[o] is the last frame of o before one whose append fails.
Apply(e, upTo) ==
    LET m == Head(chan[Other(e)])
    IN  /\ seen' = [seen EXCEPT ![e[1]] = Applied(@, m.lo, upTo)]
        /\ chan' = [chan EXCEPT ![Other(e)] = Tail(@)]
        /\ UNCHANGED <<written, base, peerCursors, unsent, loopVars, outbound>>

HasDelta(e) ==
    LET in == chan[Other(e)]
    IN  Idle(e) /\ in # << >> /\ Head(in).type = "Delta"

ReadDelta(e) ==
    LET m == Head(chan[Other(e)])
    IN  /\ HasDelta(e) /\ Frames(m) <= MaxDelta
        /\ Apply(e, m.hi)
        /\ UNCHANGED faults

ReadDeltaUnpersisted(e) ==
    LET m == Head(chan[Other(e)])
    IN  /\ HasDelta(e) /\ Frames(m) <= MaxDelta
        /\ e[1] \in Durable /\ faults < MaxFaults
        /\ \E o \in Peer : \E n \in m.lo[o] .. m.hi[o] - 1 :
              n >= seen[e[1]][o] /\ Apply(e, [m.hi EXCEPT ![o] = n])
        /\ faults' = faults + 1

\* read_message refuses the announced length, and the session ends.
ReadTooLarge(e) ==
    /\ HasDelta(e) /\ Frames(Head(chan[Other(e)])) > MaxDelta
    /\ TearDown({LinkOf(e)})
    /\ UNCHANGED <<logVars, peerCursors, unsent, faults>>

------------------------------------------------------------------------------

\* Faulty LowWater: the members are not asked.
LowWaterOwn(p, o) == seen[p][o]

LowWater(p, o) == Min({seen[p][o]} \cup {peerCursors[p][m][o] : m \in Members \ {p}})

Reclaim(p) ==
    /\ p \in Reclaiming
    /\ base' = [base EXCEPT ![p] = [o \in Peer |-> Max({@[o], LowWater(p, o)})]]
    /\ UNCHANGED <<written, seen, peerCursors, unsent, loopVars, outbound, chan, faults>>

Read(e) == ReadHello(e) \/ ReadDelta(e) \/ ReadTooLarge(e)

Next ==
    \/ \E p \in Peer :
         LocalWrite(p) \/ Crash(p) \/ Reclaim(p) \/ \E f \in unsent[p] : FanOut(p, f)
    \/ \E l \in Link : Connect(l) \/ Drop(l)
    \/ \E e \in End :
         \/ Start(e) \/ TickHello(e) \/ Push(e) \/ AnswerHello(e)
         \/ Read(e) \/ ReadDeltaUnpersisted(e)

\* Tasks are scheduled and discovery goes on trying; select! picks among its
\* ready branches at random, so none of them is passed over for ever.
Fairness ==
    /\ \A l \in Link : WF_vars(Connect(l))
    /\ \A e \in End :
         /\ WF_vars(Start(e)) /\ WF_vars(AnswerHello(e))
         /\ WF_vars(Read(e))
         /\ SF_vars(TickHello(e))

Spec == Init /\ [][Next]_vars
FairSpec == Spec /\ Fairness

\* The same, with pushes that are never put off for ever.
PushSpec ==
    /\ FairSpec
    /\ \A p \in Peer : WF_vars(\E f \in unsent[p] : FanOut(p, f))
    /\ \A e \in End : SF_vars(Push(e))

------------------------------------------------------------------------------
(* Properties. *)

\* Reclaiming never drops a frame that a listed member still lacks, although
\* the low-water-mark is computed from cursors that were sent earlier, by a
\* member that may have crashed since.
ReclaimedIsDelivered == \A p, o \in Peer, q \in Members : base[p][o] <= seen[q][o]

\* No cursor a peer has sent or noted is ahead of its owner's log, so what
\* delta_since skips for a peer is something that peer has.
CursorsAreBehind ==
    /\ \A p, q, o \in Peer : peerCursors[p][q][o] <= seen[q][o]
    /\ \A e \in End : \A i \in 1 .. Len(chan[e]) :
         chan[e][i].type = "Hello" => \A o \in Peer : chan[e][i].cursors[o] <= seen[e[1]][o]

\* No frame is logged, queued or sent that its origin has not written.
NothingInvented ==
    /\ \A p, o \in Peer : seen[p][o] <= written[o]
    /\ \A p \in Peer : \A f \in unsent[p] : f[2] <= written[f[1]]
    /\ \A e \in End :
         /\ \A i \in 1 .. Len(outbound[e]) : outbound[e][i][2] <= written[outbound[e][i][1]]
         /\ \A i \in 1 .. Len(chan[e]) :
              chan[e][i].type = "Delta" => \A o \in Peer : chan[e][i].hi[o] <= written[o]

\* The three, in well-typed states.
SessionSound == TypeOK /\ ReclaimedIsDelivered /\ CursorsAreBehind /\ NothingInvented

\* Every write reaches every peer in the end, over peers in between and with
\* connections lost, peers restarted and pushed frames lost or out of order on
\* the way.  "Gaps and lost frames self-heal on the next pull."
SelfHeals == <>[](\A p, o \in Peer : seen[p][o] = written[o])

\* The frames that q holds and p lacks.
Backlog(p, q) ==
    MapThenSumSet(LAMBDA o : Max({seen[q][o] - seen[p][o], 0}), Peer)

\* Only a backlog that does not fit one message keeps a peer from receiving
\* every write: whatever else is lost, a pull brings it.
HealsUnlessTooFarBehind ==
    SelfHeals \/ []<>(\E e \in End : Backlog(e[1], e[2]) > MaxDelta)

\* Both ends of a session come to know where the other stands, also the end
\* that ticks: the other answers each of its Hellos.  "so the ticking peer's
\* reclaim low-water-mark stays current"
LowWaterCurrent == <>[](\A e \in End : peerCursors[e[1]][e[2]] = seen[e[2]])
==============================================================================
