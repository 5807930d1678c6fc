------------------------------ MODULE Membership -----------------------------
(***************************************************************************)
(* The membership of a scope as its members see it (Membership of          *)
(* membership.rs, Store::invite and revoke of store.rs, and the proof      *)
(* exchange of discovery.rs).                                              *)
(*                                                                         *)
(* Membership is replicated like any record: a grant or a revocation is a  *)
(* frame, delivered in order for each origin, and the newest frame for a   *)
(* target wins.  Only `_members` frames are modelled.  A peer admits       *)
(* another on its own view, or on that view merged with the chain of       *)
(* frames that the other presents.                                         *)
(***************************************************************************)
EXTENDS Roles, SequencesExt

CONSTANTS
    Caller,     \* peers whose application calls invite and revoke
    Offers,     \* the roles they give; Revoked is a revocation
    Revoked,
    Reclaiming, \* peers that reclaim their log
    MayLeave,   \* peers that may go offline for good
    MaxLinks,   \* bound on the connections that are open at a time
    MaxDrops,   \* bound on the connections lost
    MaxFrames,  \* bound on the frames written in all
    MaxStamp    \* bound on the stamps

ASSUME MembershipAssumption ==
    /\ Peer \subseteq Nat /\ IsFiniteSet(Peer)
    /\ Caller \subseteq Peer /\ Reclaiming \subseteq Peer /\ MayLeave \subseteq Peer
    /\ Offers \subseteq Role \cup {Revoked} /\ Revoked \notin Role

VARIABLES
    frames,   \* every `_members` frame written so far
    seen,     \* seen[p][o]: p's cursor for origin o
    base,     \* base[p][o]: the frames of o that p has reclaimed
    noted,    \* noted[p][q]: the cursors q last reported to p
    links,    \* the open connections, as two-element sets
    stance,   \* stance[q][p]: what q has decided about its connection to p
    offer,    \* offer[p][q]: the proof p has sent to q and q has not judged
    up,       \* peers that have not left
    drops     \* connections lost so far

vars == <<frames, seen, base, noted, links, stance, offer, up, drops>>

Frame == [origin : Peer, seq : 1 .. MaxFrames, target : Peer,
          role : Role \cup {Revoked}, at : 1 .. MaxStamp]

Newer(f, g) == f.at > g.at \/ (f.at = g.at /\ f.origin > g.origin)

Known(p) == {f \in frames : f.seq <= seen[p][f.origin]}
Held(p)  == {f \in Known(p) : f.seq > base[p][f.origin]}

\* The newest frame for each target.
Winners(fs) == {f \in fs : \A g \in fs : g.target = f.target => ~Newer(g, f)}

\* The records an evaluation of fs sees: a revoked one is not visible.
GrantsIn(fs) ==
    {[target |-> f.target, granter |-> f.origin, role |-> f.role] :
        f \in {g \in Winners(fs) : g.role # Revoked}}

Authorized(fs) == MembersOf(GrantsIn(fs))

\* Faulty Proof: a peer presents its own record only.
ProofOwnRecord(p) == SetToSeq({f \in Winners(Held(p)) : f.target = p})

\* The records from p up to the owner, taken from the frames p still holds.
Proof(p) ==
    LET winners == Winners(Held(p))
        next(chain) == IF chain = <<>> THEN p ELSE Last(chain).origin
        ends(chain) == chain # <<>> /\ Last(chain).origin = Owner
        above(chain) ==
          {f \in winners : /\ f.target = next(chain) /\ ~ends(chain)
                           /\ \A i \in DOMAIN chain : chain[i].target # f.target}
        upTo[n \in Nat] == IF n = 0 THEN <<>> ELSE upTo[n - 1] \o SetToSeq(above(upTo[n - 1]))
    IN  upTo[Cardinality(Peer)]

\* Faulty Merged: what is presented replaces what is held.
MergedPresentedFirst(q, proof) ==
    ToSet(proof) \cup {f \in Known(q) : \A g \in ToSet(proof) : g.target # f.target}

\* Faulty Merged: the proof is left aside.
MergedKnownOnly(q, proof) == Known(q)

\* q's state with the frames of a proof merged onto it.
Merged(q, proof) == Known(q) \cup ToSet(proof)

Stance == {"none", "passed", "asked", "admitted"}

TypeOK ==
    /\ frames \subseteq Frame
    /\ seen \in [Peer -> [Peer -> 0 .. MaxFrames]] /\ base \in [Peer -> [Peer -> 0 .. MaxFrames]]
    /\ noted \in [Peer -> [Peer -> [Peer -> 0 .. MaxFrames]]]
    /\ stance \in [Peer -> [Peer -> Stance]]
    /\ \A p, q \in Peer :
         /\ \A proof \in offer[p][q] : ToSet(proof) \subseteq frames /\ stance[q][p] = "asked"
         /\ stance[p][q] # "none" => {p, q} \in links
    /\ up \subseteq Peer /\ drops \in 0 .. MaxDrops

Init ==
    /\ frames = {}
    /\ seen = [p \in Peer |-> [o \in Peer |-> 0]] /\ base = seen
    /\ noted = [p \in Peer |-> seen]
    /\ links = {}
    /\ stance = [p \in Peer |-> [q \in Peer |-> "none"]]
    /\ offer = [p \in Peer |-> [q \in Peer |-> {}]]
    /\ up = Peer /\ drops = 0

------------------------------------------------------------------------------
(* Membership changes. *)

\* invite and revoke write whatever the caller's standing; the stamp is newer
\* than every frame the caller knows.
Write(p, t, role, at) ==
    /\ p \in up \cap Caller /\ Cardinality(frames) < MaxFrames
    /\ \A f \in Known(p) : f.at < at
    /\ frames' = frames \cup {[origin |-> p, seq |-> seen[p][p] + 1, target |-> t,
                               role |-> role, at |-> at]}
    /\ seen' = [seen EXCEPT ![p][p] = @ + 1]
    /\ UNCHANGED <<base, noted, links, stance, offer, up, drops>>

------------------------------------------------------------------------------
(* Admission.  Each side of a connection decides for itself. *)

\* The swarm of the peer with the smaller id dials.
Connect(p, q) ==
    /\ p < q /\ {p, q} \subseteq up
    /\ {p, q} \notin links /\ Cardinality(links) < MaxLinks
    /\ links' = links \cup {{p, q}}
    /\ UNCHANGED <<frames, seen, base, noted, stance, offer, up, drops>>

\* The connections of ls are closed, with all that was under way on them.
Close(ls) ==
    /\ links' = links \ ls
    /\ stance' = [p \in Peer |-> [q \in Peer |-> IF {p, q} \in ls THEN "none" ELSE stance[p][q]]]
    /\ offer' = [p \in Peer |-> [q \in Peer |-> IF {p, q} \in ls THEN {} ELSE offer[p][q]]]

\* q looks p up in its own membership, and asks for a proof if it is not there.
Check(q, p) ==
    /\ {p, q} \in links /\ stance[q][p] = "none"
    /\ stance' = [stance EXCEPT ![q][p] = IF p \in Authorized(Known(q)) THEN "passed" ELSE "asked"]
    /\ UNCHANGED <<frames, seen, base, noted, links, offer, up, drops>>

\* p, still in its own exchange, serves the proof that q asked for.
Present(p, q) ==
    /\ stance[q][p] = "asked" /\ offer[p][q] = {}
    /\ stance[p][q] \in {"passed", "asked"}
    /\ offer' = [offer EXCEPT ![p][q] = {Proof(p)}]
    /\ UNCHANGED <<frames, seen, base, noted, links, stance, up, drops>>

\* Whether q has served the proof that p asked for, if p asked.
Served(q, p) == stance[p][q] # "none" /\ (stance[p][q] = "asked" => offer[q][p] # {})

\* q's exchange is over, and it needed no proof itself.
Admit(q, p) ==
    /\ stance[q][p] = "passed" /\ Served(q, p)
    /\ stance' = [stance EXCEPT ![q][p] = "admitted"]
    /\ UNCHANGED <<frames, seen, base, noted, links, offer, up, drops>>

\* The cursors once the frames of a proof were received one by one.
Ingested(cursors, proof) ==
    FoldLeft(LAMBDA c, f : IF f.seq = c[f.origin] + 1 THEN [c EXCEPT ![f.origin] = f.seq] ELSE c,
             cursors, proof)

\* q, which has served p if p asked, judges the proof p presented: it admits p
\* and ingests the proof, or closes the connection.
Judge(q, p) ==
    /\ stance[q][p] = "asked" /\ Served(q, p)
    /\ \E proof \in offer[p][q] :
         IF p \in Authorized(Merged(q, proof))
           THEN /\ stance' = [stance EXCEPT ![q][p] = "admitted"]
                /\ offer' = [offer EXCEPT ![p][q] = {}]
                /\ seen' = [seen EXCEPT ![q] = Ingested(@, proof)]
                /\ UNCHANGED links
           ELSE Close({{p, q}}) /\ UNCHANGED seen
    /\ UNCHANGED <<frames, base, noted, up, drops>>

\* The connection is lost, or an exchange times out: the side that waited for a
\* proof closes the connection, and so does the other side's peer if it is the
\* one that went without.
Disconnect(l) ==
    /\ l \in links /\ drops < MaxDrops
    /\ Close({l})
    /\ drops' = drops + 1
    /\ UNCHANGED <<frames, seen, base, noted, up>>

Leave(p) ==
    /\ p \in up \cap MayLeave
    /\ up' = up \ {p}
    /\ Close({l \in links : p \in l})
    /\ UNCHANGED <<frames, seen, base, noted, drops>>

------------------------------------------------------------------------------
(* Replication between peers that admitted each other. *)

InSession(p, q) == stance[p][q] = "admitted" /\ stance[q][p] = "admitted"

\* p receives from q the next frame of o it lacks.
Pull(p, q, o) ==
    /\ InSession(p, q)
    /\ seen[p][o] < seen[q][o] /\ base[q][o] <= seen[p][o]
    /\ seen' = [seen EXCEPT ![p][o] = @ + 1]
    /\ UNCHANGED <<frames, base, noted, links, stance, offer, up, drops>>

\* q reports its cursors to p, which only a p that reclaims makes use of.
Hello(p, q) ==
    /\ InSession(p, q) /\ p \in Reclaiming
    /\ noted' = [noted EXCEPT ![p][q] = seen[q]]
    /\ UNCHANGED <<frames, seen, base, links, stance, offer, up, drops>>

\* p drops what, to its knowledge, every member has delivered.
Reclaim(p) ==
    /\ p \in up \cap Reclaiming
    /\ LET others == Authorized(Known(p)) \ {p}
       IN  base' = [base EXCEPT ![p] =
             [o \in Peer |-> Max({@[o], Min({seen[p][o]} \cup {noted[p][m][o] : m \in others})})]]
    /\ UNCHANGED <<frames, seen, noted, links, stance, offer, up, drops>>

Next ==
    \/ \E p, t \in Peer, role \in Offers, at \in 1 .. MaxStamp : Write(p, t, role, at)
    \/ \E p, q \in Peer :
         \/ Connect(p, q) \/ Check(q, p) \/ Present(p, q)
         \/ Admit(q, p) \/ Judge(q, p)
         \/ Hello(p, q) \/ \E o \in Peer : Pull(p, q, o)
    \/ \E l \in links : Disconnect(l)
    \/ \E p \in Peer : Leave(p) \/ Reclaim(p)

Spec == Init /\ [][Next]_vars

\* Swarms go on dialling, so that a peer that was refused is tried again; both
\* ends of a connection go through the exchange; sessions pull.
FairSpec ==
    /\ Spec
    /\ \A r \in {r \in Peer \X Peer : r[1] < r[2]} : SF_vars(Connect(r[1], r[2]))
    /\ \A r \in {r \in Peer \X Peer : r[1] # r[2]} :
         /\ WF_vars(Check(r[1], r[2])) /\ WF_vars(Present(r[1], r[2]))
         /\ WF_vars(Admit(r[1], r[2])) /\ WF_vars(Judge(r[1], r[2]))
         /\ WF_vars(\E o \in Peer : Pull(r[1], r[2], o))

------------------------------------------------------------------------------
(* Properties. *)

\* Whether p, a member to its own knowledge, can convince q.
Convinces(p, q) ==
    p \in Authorized(Known(p)) => p \in Authorized(Merged(q, Proof(p)))

\* A member whose log is complete convinces every peer that knows nothing
\* beyond what the member knows, whoever granted what to whom before.
ProofSuffices ==
    \A p, q \in Peer : Held(p) = Known(p) /\ Known(q) \subseteq Known(p) => Convinces(p, q)

\* ProofSuffices, in well-typed states.
MembershipSound == TypeOK /\ ProofSuffices

\* A peer whose newest record is a revocation is not admitted on a proof by
\* anyone who has received the revocation, whatever the peer presents.  "a
\* stale invite loses LWW to a newer revoke already held"
RevocationHolds ==
    [][\A p \in Peer \ {Owner}, q \in Peer :
         stance[q][p] = "asked" /\ stance'[q][p] = "admitted" =>
            ~ \E f \in Known(q) \cap Winners(frames) : f.target = p /\ f.role = Revoked]_vars

\* Members find together in the end, also those that never met the owner, or
\* meet after it has left.  "breaking the member-to-member bootstrap deadlock"
MembersMeet ==
    <>[](\A p, q \in up : p \in Authorized(Known(p)) /\ q \in Authorized(Known(q)) => seen[p] = seen[q])
==============================================================================
