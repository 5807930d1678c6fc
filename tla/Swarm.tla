-------------------------------- MODULE Swarm --------------------------------
(***************************************************************************)
(* The swarm of every node (crates/stitch-p2p/src/discovery.rs): a connect *)
(* loop that dials discovered peers, an accept loop, and a task for each   *)
(* connection that admits the peer and runs the session.                   *)
(*                                                                         *)
(* The two loops and the tasks run on several threads and share the set of *)
(* connected ids and the list of task handles, each under a lock of its    *)
(* own.  A step ends at an await or where it lets go of a lock.  Aborting  *)
(* a task takes effect at its next await.                                  *)
(***************************************************************************)
EXTENDS Naturals, FiniteSets, Functions

CONSTANTS
    Node,      \* peer ids, ordered
    Aborting,  \* nodes whose application calls Swarm::abort
    MaxConns,  \* bound on the connections of a pair that exist at a time
    MaxFaults  \* bound on lost connections and failed attempts

ASSUME SwarmAssumption ==
    Node \subseteq Nat \ {0} /\ Aborting \subseteq Node /\ MaxConns \in Nat /\ MaxFaults \in Nat

None == 0
Loop == {"connect", "accept"}

VARIABLES
    connected,  \* connected[p]: the ids p takes to be connected
    dialing,    \* dialing[p]: the id p's connect loop awaits connect_to for
    conns,      \* the transport connections that are open
    arriving,   \* arriving[p]: connections that accept_connection will return
    bridges,    \* bridges[p]: connections p runs a task for
    spawned,    \* spawned[p][l]: the task loop l has spawned and not yet tracked
    tracked,    \* tracked[p]: the tasks whose handles p holds
    swarm,      \* swarm[p]: "running", "aborting" (the loops are told), "stopped"
    faults      \* faults so far

vars == <<connected, dialing, conns, arriving, bridges, spawned, tracked, swarm, faults>>

\* A connection is the dialler, the acceptor and a number.
Conn == {c \in Node \X Node \X (1 .. MaxConns) : c[1] # c[2]}
From(c) == c[1]
To(c)   == c[2]
Remote(p, c) == IF From(c) = p THEN To(c) ELSE From(c)

TypeOK ==
    /\ connected \in [Node -> SUBSET Node]
    /\ dialing \in [Node -> Node \cup {None}]
    /\ \A p \in Node : p \notin connected[p] /\ dialing[p] # p
    /\ conns \subseteq Conn
    /\ arriving \in [Node -> SUBSET Conn] /\ bridges \in [Node -> SUBSET Conn]
    /\ spawned \in [Node -> [Loop -> SUBSET Conn]] /\ tracked \in [Node -> SUBSET Conn]
    /\ swarm \in [Node -> {"running", "aborting", "stopped"}]
    /\ faults \in 0 .. MaxFaults

Init ==
    /\ connected = [p \in Node |-> {}]
    /\ dialing = [p \in Node |-> None]
    /\ conns = {}
    /\ arriving = [p \in Node |-> {}]
    /\ bridges = [p \in Node |-> {}]
    /\ spawned = [p \in Node |-> [l \in Loop |-> {}]]
    /\ tracked = [p \in Node |-> {}]
    /\ swarm = [p \in Node |-> "running"]
    /\ faults = 0

\* A loop is at an await: it has tracked the task it last spawned.
AtAwait(p, l) == swarm[p] = "running" /\ spawned[p][l] = {}

\* Whether some node still knows of connection c.
InUse(c) ==
    \/ c \in conns
    \/ \E p \in Node : c \in arriving[p] \cup bridges[p] \cup tracked[p] \cup UNION Range(spawned[p])

\* The next connection from p to q, named by the first number that is free.
Fresh(p, q) ==
    LET free == {n \in 1 .. MaxConns : ~InUse(<<p, q, n>>)}
    IN  {<<p, q, n>> : n \in {m \in free : \A k \in free : m <= k}}

Fault == faults < MaxFaults /\ faults' = faults + 1

------------------------------------------------------------------------------
(* The connect loop. *)

\* Faulty Dial: the set of connected ids is not asked.
DialAgain(p, q) ==
    /\ AtAwait(p, "connect") /\ dialing[p] = None
    /\ q > p
    /\ connected' = [connected EXCEPT ![p] = @ \cup {q}]
    /\ dialing' = [dialing EXCEPT ![p] = q]
    /\ UNCHANGED <<conns, arriving, bridges, spawned, tracked, swarm, faults>>

\* Faulty Dial: the round ends at the first target that is connected.
DialBreaks(p, q) ==
    /\ AtAwait(p, "connect") /\ dialing[p] = None
    /\ q > p /\ \A r \in p + 1 .. q : r \notin connected[p]
    /\ connected' = [connected EXCEPT ![p] = @ \cup {q}]
    /\ dialing' = [dialing EXCEPT ![p] = q]
    /\ UNCHANGED <<conns, arriving, bridges, spawned, tracked, swarm, faults>>

\* discover_peers lists q, which has a larger id and is not connected.
Dial(p, q) ==
    /\ AtAwait(p, "connect") /\ dialing[p] = None
    /\ q > p /\ q \notin connected[p]
    /\ connected' = [connected EXCEPT ![p] = @ \cup {q}]
    /\ dialing' = [dialing EXCEPT ![p] = q]
    /\ UNCHANGED <<conns, arriving, bridges, spawned, tracked, swarm, faults>>

\* connect_to returns a connection, and a task is spawned for it.
Dialled(p, c) ==
    /\ AtAwait(p, "connect") /\ dialing[p] # None /\ c \in Fresh(p, dialing[p])
    /\ conns' = conns \cup {c}
    /\ arriving' = [arriving EXCEPT ![To(c)] = @ \cup {c}]
    /\ bridges' = [bridges EXCEPT ![p] = @ \cup {c}]
    /\ spawned' = [spawned EXCEPT ![p]["connect"] = {c}]
    /\ dialing' = [dialing EXCEPT ![p] = None]
    /\ UNCHANGED <<connected, tracked, swarm, faults>>

\* connect_to fails; when it gave up late, the other side may yet accept a
\* connection that is already closed.
DialFails(p, late) ==
    /\ AtAwait(p, "connect") /\ dialing[p] # None
    /\ late \subseteq Fresh(p, dialing[p])
    /\ arriving' = [arriving EXCEPT ![dialing[p]] = @ \cup late]
    /\ connected' = [connected EXCEPT ![p] = @ \ {dialing[p]}]
    /\ dialing' = [dialing EXCEPT ![p] = None]
    /\ Fault
    /\ UNCHANGED <<conns, bridges, spawned, tracked, swarm>>

------------------------------------------------------------------------------
(* The accept loop. *)

Accept(p, c) ==
    /\ AtAwait(p, "accept") /\ c \in arriving[p]
    /\ arriving' = [arriving EXCEPT ![p] = @ \ {c}]
    /\ connected' = [connected EXCEPT ![p] = @ \cup {From(c)}]
    /\ bridges' = [bridges EXCEPT ![p] = @ \cup {c}]
    /\ spawned' = [spawned EXCEPT ![p]["accept"] = {c}]
    /\ UNCHANGED <<dialing, conns, tracked, swarm, faults>>

\* accept_connection fails and the connection is closed.
AcceptFails(p, c) ==
    /\ c \in arriving[p]
    /\ arriving' = [arriving EXCEPT ![p] = @ \ {c}]
    /\ conns' = conns \ {c}
    /\ Fault
    /\ UNCHANGED <<connected, dialing, bridges, spawned, tracked, swarm>>

\* Either loop takes the lock on the handles, drops those of finished tasks
\* and adds the new one; a loop that was told to stop ends here.
Track(p, l) ==
    /\ spawned[p][l] # {}
    /\ tracked' = [tracked EXCEPT ![p] = (@ \cap bridges[p]) \cup spawned[p][l]]
    /\ spawned' = [spawned EXCEPT ![p][l] = {}]
    /\ UNCHANGED <<connected, dialing, conns, arriving, bridges, swarm, faults>>

------------------------------------------------------------------------------
(* A connection's task. *)

\* The connection is lost, or closed by a task that refuses the peer or whose
\* session ended.
Lose(c) ==
    /\ c \in conns
    /\ conns' = conns \ {c}
    /\ Fault
    /\ UNCHANGED <<connected, dialing, arriving, bridges, spawned, tracked, swarm>>

\* admit_and_bridge returns: the connection is gone.
Ends(p, c) ==
    /\ c \in bridges[p] /\ c \notin conns
    /\ bridges' = [bridges EXCEPT ![p] = @ \ {c}]
    /\ connected' = [connected EXCEPT ![p] = @ \ {Remote(p, c)}]
    /\ UNCHANGED <<dialing, conns, arriving, spawned, tracked, swarm, faults>>

------------------------------------------------------------------------------
(* Swarm::abort. *)

\* The loops are told.  One that is at an await is gone at once.
Abort(p) ==
    /\ p \in Aborting /\ swarm[p] = "running"
    /\ swarm' = [swarm EXCEPT ![p] = "aborting"]
    /\ dialing' = [dialing EXCEPT ![p] = None]
    /\ UNCHANGED <<connected, conns, arriving, bridges, spawned, tracked, faults>>

\* Faulty Drain: the tasks are forgotten instead of aborted.
DrainDetaches(p) ==
    /\ swarm[p] = "aborting"
    /\ swarm' = [swarm EXCEPT ![p] = "stopped"]
    /\ tracked' = [tracked EXCEPT ![p] = {}]
    /\ UNCHANGED <<connected, dialing, conns, arriving, bridges, spawned, faults>>

\* The handles are drained and their tasks aborted.
Drain(p) ==
    /\ swarm[p] = "aborting"
    /\ swarm' = [swarm EXCEPT ![p] = "stopped"]
    /\ bridges' = [bridges EXCEPT ![p] = @ \ tracked[p]]
    /\ conns' = conns \ (tracked[p] \cap bridges[p])
    /\ tracked' = [tracked EXCEPT ![p] = {}]
    /\ UNCHANGED <<connected, dialing, arriving, spawned, faults>>

Next ==
    \/ \E p, q \in Node : Dial(p, q)
    \/ \E p \in Node :
         \/ Abort(p) \/ Drain(p)
         \/ \E c \in Conn : Dialled(p, c)
         \/ DialFails(p, {}) \/ \E c \in Conn : DialFails(p, {c})
         \/ \E c \in arriving[p] : Accept(p, c) \/ AcceptFails(p, c)
         \/ \E l \in Loop : Track(p, l)
         \/ \E c \in bridges[p] : Ends(p, c)
    \/ \E c \in conns : Lose(c)

\* The connect loop goes through all its targets again and again; connect_to
\* and accept_connection return; tasks are scheduled.
Fairness ==
    \A p \in Node :
        /\ WF_vars(\E q \in Node : Dial(p, q))
        /\ WF_vars(\E c \in Conn : Dialled(p, c))
        /\ WF_vars(\E c \in arriving[p] : Accept(p, c))
        /\ WF_vars(\E c \in bridges[p] : Ends(p, c))
        /\ WF_vars(Drain(p))
        /\ \A l \in Loop : WF_vars(Track(p, l))

Spec == Init /\ [][Next]_vars
FairSpec == Spec /\ Fairness

------------------------------------------------------------------------------
(* Properties. *)

\* A pair never has two connections open, whatever was lost, refused or
\* accepted late before.  "so each pair forms exactly one connection"
OneConnection ==
    \A c, d \in conns : {From(c), To(c)} = {From(d), To(d)} => c = d

\* An id a node will not dial is one it is dialling or has a task for: no peer
\* is left out for good by an id that was not given back.
NoIdLeaked ==
    \A p, q \in Node : swarm[p] = "running" /\ q \in connected[p] /\ q > p =>
        dialing[p] = q \/ \E c \in bridges[p] : Remote(p, c) = q

\* Both, of well-typed states.
SwarmSound == TypeOK /\ OneConnection /\ NoIdLeaked

\* Every pair of running nodes is connected in the end, with a task on both
\* sides, once connections are no longer lost.
Reconnects ==
    <>[](\A p, q \in Node : p < q /\ swarm[p] = "running" /\ swarm[q] = "running" =>
            \E c \in conns : c \in bridges[p] \cap bridges[q])

\* After abort no task is left but the one a loop was spawning meanwhile.
AbortLeavesAtMostSpawned ==
    [][\A p \in Node : swarm[p] = "aborting" /\ swarm'[p] = "stopped" =>
         bridges'[p] \subseteq UNION {spawned[p][l] : l \in Loop}]_vars

==============================================================================
