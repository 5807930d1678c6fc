-------------------------------- MODULE MCMesh -------------------------------
(***************************************************************************)
(* Three parts of a peer-to-peer node that share no state: the swarm's     *)
(* loops, the stream of one session and the evaluation of a list of        *)
(* grants.  One run explores each on its own: part says which of them      *)
(* moves, the others rest in a state in which they have nothing to do.     *)
(***************************************************************************)
EXTENDS Swarm, Stream, AuthorizedMembers

VARIABLE part

mesh_vars == <<part, vars, stream_vars, grant_vars>>

SwarmRests ==
    /\ connected = [p \in Node |-> {}] /\ dialing = [p \in Node |-> None] /\ conns = {}
    /\ arriving = [p \in Node |-> {}] /\ bridges = [p \in Node |-> {}]
    /\ spawned = [p \in Node |-> [l \in Loop |-> {}]] /\ tracked = [p \in Node |-> {}]
    /\ swarm = [p \in Node |-> "stopped"] /\ faults = 0

StreamRests ==
    /\ pipe = [e \in End |-> << >>] /\ writing = pipe /\ taken = [e \in End |-> 0]
    /\ served = [e \in End |-> TRUE] /\ caughtUp = served
    /\ events = [e \in End |-> MaxEvents] /\ failed = [e \in End |-> FALSE]

GrantsRest ==
    /\ grants = {} /\ left = {} /\ changed = FALSE /\ done = TRUE
    /\ authorized = [p \in Peer |-> IF p = Owner THEN "Owner" ELSE NoRole]

MeshInit ==
    \/ part = "swarm" /\ Init /\ StreamRests /\ GrantsRest
    \/ part = "stream" /\ SwarmRests /\ StreamInit /\ GrantsRest
    \/ part = "grants" /\ SwarmRests /\ StreamRests /\ GrantsInit

MeshNext ==
    /\ UNCHANGED part
    /\ \/ part = "swarm" /\ Next /\ UNCHANGED <<stream_vars, grant_vars>>
       \/ part = "stream" /\ StreamNext /\ UNCHANGED <<vars, grant_vars>>
       \/ part = "grants" /\ GrantsNext /\ UNCHANGED <<vars, stream_vars>>

\* A part at rest is no burden to another's fairness: nothing of it is enabled.
MeshSpec == MeshInit /\ [][MeshNext]_mesh_vars /\ Fairness /\ StreamFairness /\ GrantsFairness

==============================================================================
