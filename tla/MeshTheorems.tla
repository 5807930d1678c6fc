---------------------------- MODULE MeshTheorems -----------------------------
(***************************************************************************)
(* What the parts of the mesh keep, for any number of nodes, connections,  *)
(* faults, grants and messages.                                            *)
(*                                                                         *)
(* Swarm: one connection a pair, no id leaked and no task that abort       *)
(* forgets. What SwarmSound lacks to be inductive is who dials: every      *)
(* connection goes from the lower id to the higher one, and its dialler    *)
(* has a task for it, holds the remote's id in connected for as long, and  *)
(* has at most one such task for an id.                                    *)
(*                                                                         *)
(* AuthorizedMembers: the evaluation ends with the members and their       *)
(* roles, whatever the order of its visits.  Everyone in the map is a      *)
(* member throughout, and what a pass that changes nothing has visited has *)
(* nothing more to give.                                                   *)
(*                                                                         *)
(* Stream: reads that are not interrupted stay in step with the messages.  *)
(* What an end has yet to read goes on with the message it is reading, and *)
(* then goes from message to message.                                      *)
(***************************************************************************)
EXTENDS Swarm, AuthorizedMembers, Stream, SequenceTheorems, TLAPS

------------------------------------------------------------------------------
(* Swarm. *)

\* The tasks of p that its connect loop spawned.
Dials(p) == {c \in bridges[p] : From(c) = p}

\* The tasks of p that a loop has spawned and not yet tracked.
Untracked(p) == UNION {spawned[p][l] : l \in Loop}

\* A connection is dialled by the lower id.
Upward ==
    /\ \A p \in Node : \A c \in arriving[p] : To(c) = p /\ From(c) < p
    /\ \A p \in Node : \A c \in bridges[p] : From(c) < To(c) /\ p \in {From(c), To(c)}
    /\ \A p \in Node : dialing[p] # None => dialing[p] > p

\* The id of a peer that is dialled or has been is held, and held once.
Held ==
    /\ \A c \in conns : c \in bridges[From(c)]
    /\ \A p \in Node : dialing[p] # None => dialing[p] \in connected[p]
    /\ \A p \in Node : \A c \in Dials(p) : To(c) \in connected[p] /\ dialing[p] # To(c)
    /\ \A p \in Node : \A c, d \in Dials(p) : To(c) = To(d) => c = d

\* A task is known by its handle or to the loop that spawned it.
Known == \A p \in Node : bridges[p] \subseteq tracked[p] \cup Untracked(p)

SwarmInv == TypeOK /\ Upward /\ Held /\ Known /\ NoIdLeaked

------------------------------------------------------------------------------

\* The facts about ids and connections that the steps use.
LEMMA ConnFacts ==
  ASSUME NEW c \in Conn
  PROVE  /\ From(c) \in Node /\ To(c) \in Node /\ From(c) # To(c)
         /\ From(c) \in Nat /\ To(c) \in Nat
  BY SwarmAssumption, Zenon DEF Conn, From, To

\* An id is a natural number, and None is none.
LEMMA NodeFacts ==
  ASSUME NEW p \in Node
  PROVE  p \in Nat /\ p # None
  BY SwarmAssumption DEF None

\* A fresh connection goes from the dialler to the peer it dials.
LEMMA FreshFacts ==
  ASSUME NEW p \in Node, NEW q \in Node, p # q, NEW c \in Fresh(p, q)
  PROVE  c \in Conn /\ From(c) = p /\ To(c) = q
  <1>1. PICK n \in 1 .. MaxConns : c = <<p, q, n>>
    BY Zenon DEF Fresh
  <1> QED
    BY <1>1 DEF Conn, From, To

\* A pair has one connection: both would be tasks of the lower id.
LEMMA OnlyOne ==
  ASSUME SwarmInv
  PROVE  OneConnection
  <1> SUFFICES ASSUME NEW c \in conns, NEW d \in conns, {From(c), To(c)} = {From(d), To(d)} PROVE c = d
    BY DEF OneConnection
  <1>1. c \in Conn /\ d \in Conn
    BY DEF SwarmInv, TypeOK
  <1>2. /\ From(c) \in Node /\ From(d) \in Node
        /\ From(c) \in Nat /\ To(c) \in Nat /\ From(d) \in Nat /\ To(d) \in Nat
    BY <1>1, ConnFacts
  <1>3. c \in bridges[From(c)] /\ d \in bridges[From(d)]
    BY DEF SwarmInv, Held
  <1>4. From(c) < To(c) /\ From(d) < To(d)
    BY <1>2, <1>3 DEF SwarmInv, Upward
  <1>5. From(c) = From(d) /\ To(c) = To(d)
    BY <1>2, <1>4
  <1>6. c \in Dials(From(c)) /\ d \in Dials(From(c))
    BY <1>3, <1>5 DEF Dials
  <1> QED
    BY <1>2, <1>5, <1>6 DEF SwarmInv, Held

\* At first nothing is dialled, connected or spawned.
LEMMA SwarmInit == Init => SwarmInv
  <1> SUFFICES ASSUME Init PROVE SwarmInv
    OBVIOUS
  <1>1. TypeOK
    BY SwarmAssumption DEF Init, TypeOK, None
  <1> QED
    BY <1>1 DEF Init, SwarmInv, Upward, Held, Known, NoIdLeaked, Dials

------------------------------------------------------------------------------
(* The steps. *)

\* The id dialled was not connected, so no task for it is left.
LEMMA DialStep ==
  ASSUME SwarmInv, NEW p \in Node, NEW q \in Node, Dial(p, q)
  PROVE  SwarmInv'
  <1> USE DEF SwarmInv, Dial
  <1>1. p \in Nat /\ q \in Nat /\ p # q /\ q # None
    BY NodeFacts
  <1>2. TypeOK'
    BY <1>1 DEF TypeOK
  <1>3. /\ \A r \in Node : dialing'[r] = IF r = p THEN q ELSE dialing[r]
        /\ \A r \in Node : connected'[r] = IF r = p THEN connected[p] \cup {q} ELSE connected[r]
        /\ \A r \in Node : Dials(r)' = Dials(r) /\ Untracked(r)' = Untracked(r)
    BY DEF TypeOK, Dials, Untracked
  <1>4. Upward'
    BY <1>3 DEF Upward
  <1>5. Held'
    BY <1>1, <1>3 DEF Held
  <1>6. Known'
    BY <1>3 DEF Known
  <1>7. NoIdLeaked'
    <2> SUFFICES ASSUME NEW r \in Node, NEW s \in Node, swarm'[r] = "running", s \in connected'[r], s > r
                 PROVE  dialing'[r] = s \/ \E d \in bridges'[r] : Remote(r, d) = s
      BY DEF NoIdLeaked
    <2>1. CASE r = p /\ s = q
      BY <1>3, <2>1
    <2>2. CASE ~ (r = p /\ s = q)
      <3>1. s \in connected[r] /\ swarm[r] = "running"
        BY <1>3, <2>2
      <3>2. dialing[r] = s \/ \E d \in bridges[r] : Remote(r, d) = s
        BY <3>1 DEF NoIdLeaked
      <3> QED
        BY <1>3, <3>2, NodeFacts
    <2> QED
      BY <2>1, <2>2
  <1> QED
    BY <1>2, <1>4, <1>5, <1>6, <1>7

\* The task takes over the id from the dial.
LEMMA DialledStep ==
  ASSUME SwarmInv, NEW p \in Node, NEW c \in Conn, Dialled(p, c)
  PROVE  SwarmInv'
  <1> DEFINE q == dialing[p]
  <1>1. q \in Node /\ q # None /\ q > p /\ q \in connected[p] /\ p \in Nat /\ q \in Nat /\ p # q
    BY NodeFacts DEF SwarmInv, TypeOK, Dialled, Upward, Held
  <1>2. From(c) = p /\ To(c) = q
    BY <1>1, FreshFacts DEF Dialled
  <1>3. /\ UNCHANGED <<connected, tracked, swarm, faults>>
        /\ conns' = conns \cup {c}
        /\ \A r \in Node : /\ arriving'[r] = IF r = q THEN arriving[q] \cup {c} ELSE arriving[r]
                           /\ bridges'[r] = IF r = p THEN bridges[p] \cup {c} ELSE bridges[r]
                           /\ dialing'[r] = IF r = p THEN None ELSE dialing[r]
                           /\ Dials(r)' = IF r = p THEN Dials(p) \cup {c} ELSE Dials(r)
    BY <1>1, <1>2 DEF SwarmInv, TypeOK, Dialled, Dials
  <1>4. spawned[p]["connect"] = {} /\ spawned' = [spawned EXCEPT ![p]["connect"] = {c}]
    BY DEF Dialled, AtAwait
  <1>5. \A r \in Node : Untracked(r)' = IF r = p THEN Untracked(p) \cup {c} ELSE Untracked(r)
    BY <1>4 DEF SwarmInv, TypeOK, Untracked, Loop
  <1>6. TypeOK'
    <2>1. arriving' \in [Node -> SUBSET Conn] /\ bridges' \in [Node -> SUBSET Conn]
      BY <1>1, <1>2 DEF SwarmInv, TypeOK, Dialled
    <2>2. spawned' \in [Node -> [Loop -> SUBSET Conn]]
      BY <1>4 DEF SwarmInv, TypeOK, Loop
    <2>3. dialing' \in [Node -> Node \cup {None}] /\ \A r \in Node : dialing'[r] # r
      BY <1>3, NodeFacts DEF SwarmInv, TypeOK, Dialled
    <2> QED
      BY <1>3, <2>1, <2>2, <2>3 DEF SwarmInv, TypeOK
  <1> HIDE DEF q
  <1>7. Upward'
    <2>1. Upward
      BY DEF SwarmInv
    <2>2. ASSUME NEW r \in Node, NEW d \in arriving'[r] PROVE To(d) = r /\ From(d) < r
      BY <1>1, <1>2, <1>3, <2>1, <2>2 DEF Upward
    <2>3. ASSUME NEW r \in Node, NEW d \in bridges'[r] PROVE From(d) < To(d) /\ r \in {From(d), To(d)}
      BY <1>1, <1>2, <1>3, <2>1, <2>3 DEF Upward
    <2>4. ASSUME NEW r \in Node, dialing'[r] # None PROVE dialing'[r] > r
      BY <1>1, <1>3, <2>1, <2>4 DEF Upward
    <2> QED
      BY <2>2, <2>3, <2>4 DEF Upward
  <1>8. Held'
    <2>1. \A d \in conns' : d \in bridges'[From(d)]
      BY <1>2, <1>3, ConnFacts, SMTT(60) DEF SwarmInv, Held, TypeOK
    <2>2. \A r \in Node : dialing'[r] # None => dialing'[r] \in connected'[r]
      BY <1>3 DEF SwarmInv, Held
    <2>3. \A r \in Node : \A d \in Dials(r)' : To(d) \in connected'[r] /\ dialing'[r] # To(d)
      <3> SUFFICES ASSUME NEW r \in Node, NEW d \in Dials(r)' PROVE To(d) \in connected'[r] /\ dialing'[r] # To(d)
        OBVIOUS
      <3>1. CASE d \in Dials(r)
        <4>1. d \in Conn
          BY <3>1 DEF Dials, SwarmInv, TypeOK
        <4>2. To(d) # None
          BY <4>1, ConnFacts, NodeFacts
        <4> QED
          BY <1>3, <3>1, <4>2 DEF SwarmInv, Held
      <3>2. CASE r = p /\ d = c
        BY <1>1, <1>2, <1>3, <3>2
      <3> QED
        BY <1>3, <3>1, <3>2, Zenon
    <2>4. \A r \in Node : \A d, f \in Dials(r)' : To(d) = To(f) => d = f
      <3>1. \A d \in Dials(p) : To(d) # q
        BY DEF SwarmInv, Held, q
      <3> QED
        BY <1>2, <1>3, <3>1 DEF SwarmInv, Held
    <2> QED
      BY <2>1, <2>2, <2>3, <2>4, Zenon DEF Held
  <1>9. Known'
    BY <1>3, <1>5, Zenon DEF SwarmInv, Known
  <1>10. NoIdLeaked'
    <2> SUFFICES ASSUME NEW r \in Node, NEW s \in Node, swarm'[r] = "running", s \in connected'[r], s > r
                 PROVE  dialing'[r] = s \/ \E d \in bridges'[r] : Remote(r, d) = s
      BY DEF NoIdLeaked
    <2>1. dialing[r] = s \/ \E d \in bridges[r] : Remote(r, d) = s
      BY <1>3 DEF SwarmInv, NoIdLeaked
    <2>2. Remote(p, c) = q
      BY <1>2 DEF Remote
    <2> QED
      BY <1>3, <2>1, <2>2, ZenonT(60) DEF q
  <1> QED
    BY <1>6, <1>7, <1>8, <1>9, <1>10 DEF SwarmInv

\* The id is given back, and no task holds it.
LEMMA DialFailsStep ==
  ASSUME SwarmInv, NEW p \in Node, NEW late \in SUBSET Conn, DialFails(p, late)
  PROVE  SwarmInv'
  <1> DEFINE q == dialing[p]
  <1>1. q \in Node /\ q # None /\ q > p /\ q \in connected[p] /\ p \in Nat /\ q \in Nat /\ p # q
    BY NodeFacts DEF SwarmInv, TypeOK, DialFails, Upward, Held
  <1>2. \A c \in late : From(c) = p /\ To(c) = q
    BY <1>1, FreshFacts DEF DialFails
  <1>3. /\ UNCHANGED <<conns, bridges, spawned, tracked, swarm>>
        /\ \A r \in Node : /\ arriving'[r] = IF r = q THEN arriving[q] \cup late ELSE arriving[r]
                           /\ connected'[r] = IF r = p THEN connected[p] \ {q} ELSE connected[r]
                           /\ dialing'[r] = IF r = p THEN None ELSE dialing[r]
                           /\ Dials(r)' = Dials(r) /\ Untracked(r)' = Untracked(r)
    BY <1>1 DEF SwarmInv, TypeOK, DialFails, Dials, Untracked
  <1>4. TypeOK'
    <2>1. arriving' \in [Node -> SUBSET Conn] /\ connected' \in [Node -> SUBSET Node]
      BY <1>1, Zenon DEF SwarmInv, TypeOK, DialFails
    <2>2. dialing' \in [Node -> Node \cup {None}] /\ \A r \in Node : dialing'[r] # r
      BY <1>3, NodeFacts DEF SwarmInv, TypeOK, DialFails
    <2>3. faults' \in 0 .. MaxFaults
      BY SwarmAssumption, SMTT(60) DEF SwarmInv, TypeOK, DialFails, Fault
    <2> QED
      BY <1>3, <2>1, <2>2, <2>3 DEF SwarmInv, TypeOK
  <1> HIDE DEF q
  <1>5. Upward'
    BY <1>1, <1>2, <1>3, ZenonT(60) DEF SwarmInv, Upward
  <1>6. Held'
    <2>1. \A r \in Node : \A d \in Dials(r) : To(d) \in connected'[r] /\ dialing'[r] # To(d)
      <3> SUFFICES ASSUME NEW r \in Node, NEW d \in Dials(r)
                   PROVE  To(d) \in connected'[r] /\ dialing'[r] # To(d)
        BY Zenon
      <3>1. To(d) # None
        BY ConnFacts, NodeFacts DEF Dials, SwarmInv, TypeOK
      <3>2. To(d) \in connected[r] /\ dialing[r] # To(d)
        BY Zenon DEF SwarmInv, Held
      <3> QED
        BY <1>3, <3>1, <3>2, SMTT(60) DEF q
    <2> QED
      BY <1>3, <2>1, SMTT(60) DEF SwarmInv, Held
  <1>7. Known'
    BY <1>3, Zenon DEF SwarmInv, Known
  <1>8. NoIdLeaked'
    <2> SUFFICES ASSUME NEW r \in Node, NEW s \in Node, swarm'[r] = "running", s \in connected'[r], s > r
                 PROVE  dialing'[r] = s \/ \E d \in bridges'[r] : Remote(r, d) = s
      BY Zenon DEF NoIdLeaked
    <2>1. dialing[r] = s \/ \E d \in bridges[r] : Remote(r, d) = s
      BY <1>3 DEF SwarmInv, NoIdLeaked
    <2> QED
      BY <1>3, <2>1 DEF q
  <1> QED
    BY <1>4, <1>5, <1>6, <1>7, <1>8, Zenon DEF SwarmInv

\* What is accepted comes from a lower id, which is not one that p dials.
LEMMA AcceptStep ==
  ASSUME SwarmInv, NEW p \in Node, NEW c \in arriving[p], Accept(p, c)
  PROVE  SwarmInv'
  <1>1. c \in Conn /\ To(c) = p /\ From(c) < p /\ From(c) \in Node /\ p \in Nat /\ From(c) \in Nat
    BY ConnFacts, NodeFacts, Zenon DEF SwarmInv, TypeOK, Upward
  <1>2. /\ UNCHANGED <<dialing, conns, tracked, swarm, faults>>
        /\ \A r \in Node : /\ arriving'[r] = IF r = p THEN arriving[p] \ {c} ELSE arriving[r]
                           /\ connected'[r] = IF r = p THEN connected[p] \cup {From(c)} ELSE connected[r]
                           /\ bridges'[r] = IF r = p THEN bridges[p] \cup {c} ELSE bridges[r]
    BY DEF SwarmInv, TypeOK, Accept
  <1>3. \A r \in Node : Dials(r)' = Dials(r)
    BY <1>1, <1>2 DEF Dials
  <1>4. spawned[p]["accept"] = {} /\ spawned' = [spawned EXCEPT ![p]["accept"] = {c}]
    BY DEF Accept, AtAwait
  <1>5. \A r \in Node : Untracked(r)' = IF r = p THEN Untracked(p) \cup {c} ELSE Untracked(r)
    BY <1>4, SMTT(60) DEF SwarmInv, TypeOK, Untracked, Loop
  <1>6. TypeOK'
    <2>1. /\ arriving' \in [Node -> SUBSET Conn] /\ bridges' \in [Node -> SUBSET Conn]
          /\ connected' \in [Node -> SUBSET Node]
      BY <1>1, SMTT(60) DEF SwarmInv, TypeOK, Accept
    <2>2. spawned' \in [Node -> [Loop -> SUBSET Conn]]
      BY <1>1, <1>4, ZenonT(60) DEF SwarmInv, TypeOK, Loop
    <2>3. ASSUME NEW r \in Node PROVE r \notin connected'[r]
      <3>1. r \notin connected[r] /\ From(c) # p
        BY <1>1, SMTT(60) DEF SwarmInv, TypeOK
      <3> QED
        BY <1>2, <3>1, Zenon
    <2> QED
      BY <1>2, <2>1, <2>2, <2>3, Zenon DEF SwarmInv, TypeOK
  <1>7. Upward'
    BY <1>1, <1>2, SMTT(60) DEF SwarmInv, Upward
  <1>8. Held'
    <2>1. \A d \in conns : From(d) \in Node
      BY ConnFacts, Zenon DEF SwarmInv, TypeOK
    <2> QED
      BY <1>2, <1>3, <2>1, SMTT(60) DEF SwarmInv, Held
  <1>9. Known'
    BY <1>2, <1>5, Zenon DEF SwarmInv, Known
  <1>10. NoIdLeaked'
    <2> SUFFICES ASSUME NEW r \in Node, NEW s \in Node, swarm'[r] = "running", s \in connected'[r], s > r
                 PROVE  dialing'[r] = s \/ \E d \in bridges'[r] : Remote(r, d) = s
      BY Zenon DEF NoIdLeaked
    <2>1. s \in connected[r]
      BY <1>1, <1>2, SMTT(60)
    <2>2. dialing[r] = s \/ \E d \in bridges[r] : Remote(r, d) = s
      BY <1>2, <2>1 DEF SwarmInv, NoIdLeaked
    <2> QED
      BY <1>2, <2>2, Zenon
  <1> QED
    BY <1>6, <1>7, <1>8, <1>9, <1>10, Zenon DEF SwarmInv

\* A connection that is closed, and what else may be forgotten about it.
LEMMA CloseStep ==
  ASSUME SwarmInv, UNCHANGED <<connected, dialing, bridges, spawned, tracked, swarm>>,
         conns' \subseteq conns, faults' \in 0 .. MaxFaults,
         arriving' \in [Node -> SUBSET Conn], \A p \in Node : arriving'[p] \subseteq arriving[p]
  PROVE  SwarmInv'
  <1>1. TypeOK'
    BY DEF SwarmInv, TypeOK
  <1>2. \A p \in Node : Dials(p)' = Dials(p) /\ Untracked(p)' = Untracked(p)
    BY DEF Dials, Untracked
  <1>3. Upward'
    BY Zenon DEF SwarmInv, Upward
  <1>4. Held'
    BY <1>2, SMTT(60) DEF SwarmInv, Held
  <1>5. Known' /\ NoIdLeaked'
    BY <1>2 DEF SwarmInv, Known, NoIdLeaked
  <1> QED
    BY <1>1, <1>3, <1>4, <1>5, Zenon DEF SwarmInv

\* A handle is taken over from the loop.
LEMMA TrackStep ==
  ASSUME SwarmInv, NEW p \in Node, NEW l \in Loop, Track(p, l)
  PROVE  SwarmInv'
  <1>1. UNCHANGED <<connected, dialing, conns, arriving, bridges, swarm, faults>>
    BY DEF Track
  <1>2. /\ tracked' = [tracked EXCEPT ![p] = (@ \cap bridges[p]) \cup spawned[p][l]]
        /\ spawned' = [spawned EXCEPT ![p][l] = {}]
    BY Zenon DEF Track
  <1>3. TypeOK'
    BY <1>1, <1>2, SMTT(60) DEF SwarmInv, TypeOK
  <1>4. \A r \in Node : Dials(r)' = Dials(r)
    BY <1>1, Zenon DEF Dials
  <1>5. Upward' /\ NoIdLeaked'
    BY <1>1, Zenon DEF SwarmInv, Upward, NoIdLeaked
  <1>6. Held'
    BY <1>1, <1>4, SMTT(60) DEF SwarmInv, Held
  <1>7. Known'
    <2> SUFFICES ASSUME NEW r \in Node, NEW c \in bridges[r], c \notin Untracked(r)' PROVE c \in tracked'[r]
      BY <1>1 DEF Known
    <2>1. c \in tracked[r] \/ \E k \in Loop : c \in spawned[r][k]
      BY DEF SwarmInv, Known, Untracked
    <2>2. \A k \in Loop : c \notin spawned'[r][k]
      BY Zenon DEF Untracked
    <2>3. \A k \in Loop : spawned'[r][k] = IF r = p /\ k = l THEN {} ELSE spawned[r][k]
      BY <1>2, Zenon DEF SwarmInv, TypeOK
    <2>4. tracked'[r] = IF r = p THEN (tracked[p] \cap bridges[p]) \cup spawned[p][l] ELSE tracked[r]
      BY <1>2, Zenon DEF SwarmInv, TypeOK
    <2> QED
      BY <2>1, <2>2, <2>3, <2>4, Zenon
  <1> QED
    BY <1>3, <1>5, <1>6, <1>7 DEF SwarmInv

\* The task that gives its id back was the only one that held it.
LEMMA EndsStep ==
  ASSUME SwarmInv, NEW p \in Node, NEW c \in bridges[p], Ends(p, c)
  PROVE  SwarmInv'
  <1> DEFINE q == Remote(p, c)
  <1>1. /\ UNCHANGED <<dialing, conns, arriving, spawned, tracked, swarm, faults>> /\ c \notin conns
        /\ \A r \in Node : /\ bridges'[r] = IF r = p THEN bridges[p] \ {c} ELSE bridges[r]
                           /\ connected'[r] = IF r = p THEN connected[p] \ {q} ELSE connected[r]
    BY Zenon DEF SwarmInv, TypeOK, Ends
  <1>2. \A r \in Node : Untracked(r)' = Untracked(r) /\ Dials(r)' = IF r = p THEN Dials(p) \ {c} ELSE Dials(r)
    BY <1>1, Zenon DEF Dials, Untracked
  <1>3. c \in Conn /\ From(c) < To(c) /\ p \in {From(c), To(c)} /\ From(c) \in Nat /\ To(c) \in Nat
    BY ConnFacts DEF SwarmInv, TypeOK, Upward
  <1>4. q > p => c \in Dials(p) /\ To(c) = q
    BY <1>3, SMTT(60) DEF Remote, Dials
  <1>5. TypeOK'
    <2>1. bridges' \in [Node -> SUBSET Conn] /\ connected' \in [Node -> SUBSET Node]
      BY Zenon DEF SwarmInv, TypeOK, Ends
    <2>2. \A r \in Node : r \notin connected'[r]
      BY <1>1, Zenon DEF SwarmInv, TypeOK
    <2> QED
      BY <1>1, <2>1, <2>2, Zenon DEF SwarmInv, TypeOK
  <1> HIDE DEF q
  <1>6. Upward'
    BY <1>1, Zenon DEF SwarmInv, Upward
  <1>7. Held'
    <2>1. \A d \in conns' : d \in bridges'[From(d)]
      BY <1>1, ConnFacts, ZenonT(60) DEF SwarmInv, Held, TypeOK
    <2>2. \A r \in Node : dialing'[r] # None => dialing'[r] \in connected'[r]
      <3> SUFFICES ASSUME dialing[p] # None PROVE dialing[p] # q
        BY <1>1, Zenon DEF SwarmInv, Held
      <3>1. dialing[p] > p /\ \A d \in Dials(p) : dialing[p] # To(d)
        BY Zenon DEF SwarmInv, Upward, Held
      <3> QED
        BY <1>4, <3>1, Zenon
    <2>3. \A r \in Node : \A d \in Dials(r)' : To(d) \in connected'[r] /\ dialing'[r] # To(d)
      <3> SUFFICES ASSUME NEW r \in Node, NEW d \in Dials(r)' PROVE To(d) \in connected'[r] /\ dialing'[r] # To(d)
        BY Zenon
      <3>1. d \in Dials(r) /\ To(d) \in connected[r] /\ dialing[r] # To(d)
        BY <1>2, Zenon DEF SwarmInv, Held
      <3>2. CASE r = p /\ To(d) = q
        <4>1. To(d) > p
          BY <3>1, <3>2, Zenon DEF SwarmInv, Upward, Dials
        <4>2. c \in Dials(p) /\ To(c) = To(d)
          BY <1>4, <3>2, <4>1, Zenon
        <4>3. c = d
          BY <3>1, <3>2, <4>2, Zenon DEF SwarmInv, Held
        <4> QED
          BY <1>2, <3>2, <4>3, Zenon
      <3>3. CASE ~ (r = p /\ To(d) = q)
        BY <1>1, <3>1, <3>3, Zenon
      <3> QED
        BY <3>2, <3>3, Zenon
    <2>4. \A r \in Node : \A d, f \in Dials(r)' : To(d) = To(f) => d = f
      BY <1>2, SMTT(60) DEF SwarmInv, Held
    <2> QED
      BY <2>1, <2>2, <2>3, <2>4, Zenon DEF Held
  <1>8. Known'
    BY <1>1, <1>2, Zenon DEF SwarmInv, Known
  <1>9. NoIdLeaked'
    <2> SUFFICES ASSUME NEW r \in Node, NEW s \in Node, swarm'[r] = "running", s \in connected'[r], s > r
                 PROVE  dialing'[r] = s \/ \E d \in bridges'[r] : Remote(r, d) = s
      BY Zenon DEF NoIdLeaked
    <2>1. s \in connected[r] /\ (r = p => s # q)
      BY <1>1, ZenonT(60)
    <2>2. dialing[r] = s \/ \E d \in bridges[r] : Remote(r, d) = s
      BY <1>1, <2>1 DEF SwarmInv, NoIdLeaked
    <2> QED
      BY <1>1, <2>1, <2>2, Zenon DEF q
  <1> QED
    BY <1>5, <1>6, <1>7, <1>8, <1>9 DEF SwarmInv

\* A swarm that is told to stop dials no more; the ids it holds stay held.
LEMMA AbortStep ==
  ASSUME SwarmInv, NEW p \in Node, Abort(p)
  PROVE  SwarmInv'
  <1>1. /\ UNCHANGED <<connected, conns, arriving, bridges, spawned, tracked, faults>>
        /\ \A r \in Node : /\ dialing'[r] = IF r = p THEN None ELSE dialing[r]
                           /\ swarm'[r] = IF r = p THEN "aborting" ELSE swarm[r]
    BY Zenon DEF SwarmInv, TypeOK, Abort
  <1>2. \A r \in Node : Dials(r)' = Dials(r) /\ Untracked(r)' = Untracked(r)
    BY <1>1, Zenon DEF Dials, Untracked
  <1>3. TypeOK'
    <2>1. dialing' \in [Node -> Node \cup {None}] /\ swarm' \in [Node -> {"running", "aborting", "stopped"}]
      BY Zenon DEF SwarmInv, TypeOK, Abort
    <2>2. \A r \in Node : dialing'[r] # r
      BY <1>1, NodeFacts, ZenonT(60) DEF SwarmInv, TypeOK
    <2> QED
      BY <1>1, <2>1, <2>2, Zenon DEF SwarmInv, TypeOK
  <1>4. Upward' /\ Known'
    <2>1. Upward'
      BY <1>1, Zenon DEF SwarmInv, Upward
    <2>2. Known'
      BY <1>1, <1>2, Zenon DEF SwarmInv, Known
    <2> QED
      BY <2>1, <2>2
  <1>5. \A r \in Node : \A d \in Dials(r) : To(d) # None
    BY ConnFacts, NodeFacts, Zenon DEF Dials, SwarmInv, TypeOK
  <1>6. Held'
    <2>0. Held
      BY DEF SwarmInv
    <2>1. \A c \in conns' : c \in bridges'[From(c)]
      BY <1>1, <2>0, Zenon DEF Held
    <2>2. \A r \in Node : dialing'[r] # None => dialing'[r] \in connected'[r]
      BY <1>1, <2>0, Zenon DEF Held
    <2>3. ASSUME NEW r \in Node, NEW c \in Dials(r)'
          PROVE  To(c) \in connected'[r] /\ dialing'[r] # To(c)
      BY <1>1, <1>2, <1>5, <2>0, Zenon DEF Held
    <2>4. ASSUME NEW r \in Node, NEW c \in Dials(r)', NEW d \in Dials(r)', To(c) = To(d) PROVE c = d
      BY <1>2, <2>0, <2>4, SMTT(60) DEF Held
    <2> QED
      BY <2>1, <2>2, <2>3, <2>4, Zenon DEF Held
  <1>7. NoIdLeaked'
    BY <1>1 DEF SwarmInv, NoIdLeaked
  <1> QED
    BY <1>3, <1>4, <1>6, <1>7, Zenon DEF SwarmInv

\* The tasks that are aborted take their connections with them.
LEMMA DrainStep ==
  ASSUME SwarmInv, NEW p \in Node, Drain(p)
  PROVE  SwarmInv'
  <1>1. /\ UNCHANGED <<connected, dialing, arriving, spawned, faults>>
        /\ conns' = conns \ (tracked[p] \cap bridges[p])
        /\ \A r \in Node : /\ bridges'[r] = IF r = p THEN bridges[p] \ tracked[p] ELSE bridges[r]
                           /\ tracked'[r] = IF r = p THEN {} ELSE tracked[r]
                           /\ swarm'[r] = IF r = p THEN "stopped" ELSE swarm[r]
    BY Zenon DEF SwarmInv, TypeOK, Drain
  <1>2. \A r \in Node : Dials(r)' \subseteq Dials(r) /\ Untracked(r)' = Untracked(r)
    BY <1>1, Zenon DEF Dials, Untracked
  <1>3. TypeOK'
    <2>1. /\ bridges' \in [Node -> SUBSET Conn] /\ tracked' \in [Node -> SUBSET Conn]
          /\ swarm' \in [Node -> {"running", "aborting", "stopped"}]
      BY Zenon DEF SwarmInv, TypeOK, Drain
    <2> QED
      BY <1>1, <2>1, Zenon DEF SwarmInv, TypeOK
  <1>4. Upward'
    BY <1>1, Zenon DEF SwarmInv, Upward
  <1>5. Known'
    BY <1>1, <1>2, ZenonT(60) DEF SwarmInv, Known
  <1>6. Held'
    <2>1. \A d \in conns' : d \in bridges'[From(d)]
      BY <1>1, ConnFacts, ZenonT(60) DEF SwarmInv, Held, TypeOK
    <2> QED
      BY <1>1, <1>2, <2>1, Zenon DEF SwarmInv, Held
  <1>7. NoIdLeaked'
    BY <1>1, ZenonT(60) DEF SwarmInv, NoIdLeaked
  <1> QED
    BY <1>3, <1>4, <1>5, <1>6, <1>7, Zenon DEF SwarmInv

\* SwarmInv is inductive.
LEMMA SwarmStep == SwarmInv /\ [Next]_vars => SwarmInv'
  <1> SUFFICES ASSUME SwarmInv, [Next]_vars PROVE SwarmInv'
    OBVIOUS
  <1>1. ASSUME NEW p \in Node, NEW q \in Node, Dial(p, q) PROVE SwarmInv'
    BY <1>1, DialStep
  <1>2. ASSUME NEW p \in Node, Abort(p) PROVE SwarmInv'
    BY <1>2, AbortStep
  <1>3. ASSUME NEW p \in Node, Drain(p) PROVE SwarmInv'
    BY <1>3, DrainStep
  <1>4. ASSUME NEW p \in Node, NEW c \in Conn, Dialled(p, c) PROVE SwarmInv'
    BY <1>4, DialledStep
  <1>5. ASSUME NEW p \in Node, DialFails(p, {}) \/ \E c \in Conn : DialFails(p, {c}) PROVE SwarmInv'
    BY <1>5, DialFailsStep, Zenon
  <1>6. ASSUME NEW p \in Node, NEW c \in arriving[p], Accept(p, c) PROVE SwarmInv'
    BY <1>6, AcceptStep, Zenon
  <1>7. ASSUME NEW p \in Node, NEW c \in arriving[p], AcceptFails(p, c) PROVE SwarmInv'
    <2>1. faults' \in 0 .. MaxFaults
      BY <1>7, SwarmAssumption, SMTT(60) DEF SwarmInv, TypeOK, AcceptFails, Fault
    <2>2. arriving' \in [Node -> SUBSET Conn] /\ \A r \in Node : arriving'[r] \subseteq arriving[r]
      BY <1>7 DEF SwarmInv, TypeOK, AcceptFails
    <2>3. conns' \subseteq conns /\ UNCHANGED <<connected, dialing, bridges, spawned, tracked, swarm>>
      BY <1>7 DEF AcceptFails
    <2> QED
      BY <2>1, <2>2, <2>3, CloseStep, Zenon
  <1>8. ASSUME NEW p \in Node, NEW l \in Loop, Track(p, l) PROVE SwarmInv'
    BY <1>8, TrackStep, Zenon
  <1>9. ASSUME NEW p \in Node, NEW c \in bridges[p], Ends(p, c) PROVE SwarmInv'
    BY <1>9, EndsStep
  <1>10. ASSUME NEW c \in conns, Lose(c) PROVE SwarmInv'
    <2>1. faults' \in 0 .. MaxFaults
      BY <1>10, SwarmAssumption DEF SwarmInv, TypeOK, Lose, Fault
    <2>2. conns' \subseteq conns /\ UNCHANGED <<connected, dialing, arriving, bridges, spawned, tracked, swarm>>
      BY <1>10, Zenon DEF Lose
    <2> QED
      BY <2>1, <2>2, CloseStep, Zenon DEF SwarmInv, TypeOK
  <1>11. CASE UNCHANGED vars
    BY <1>11, CloseStep DEF vars, SwarmInv, TypeOK
  <1> QED
    BY <1>1, <1>2, <1>3, <1>4, <1>5, <1>6, <1>7, <1>8, <1>9, <1>10, <1>11, ZenonT(60) DEF Next

\* Whatever is dialled, accepted late, lost or aborted in whatever order: a pair
\* has at most one connection, and an id that a running node will not dial is
\* one it is dialling or has a task for.
THEOREM SwarmIsSound == Spec => []SwarmSound
  <1>1. SwarmInv => SwarmSound
    BY OnlyOne DEF SwarmInv, SwarmSound
  <1> QED
    BY <1>1, SwarmInit, SwarmStep, PTL DEF Spec

\* Swarm::abort leaves no task but one that a loop has just spawned: it is the
\* step in which a swarm stops that empties the rest.
THEOREM AbortIsThorough == Spec => AbortLeavesAtMostSpawned
  <1> DEFINE Thorough == \A p \in Node : swarm[p] = "aborting" /\ swarm'[p] = "stopped" =>
                            bridges'[p] \subseteq UNION {spawned[p][l] : l \in Loop}
  <1>1. SwarmInv /\ [Next]_vars => [Thorough]_vars
    <2> SUFFICES ASSUME SwarmInv, Next, NEW p \in Node, swarm[p] = "aborting", swarm'[p] = "stopped"
                 PROVE  bridges'[p] \subseteq UNION {spawned[p][l] : l \in Loop}
      BY Zenon
    <2>0. ASSUME NEW r \in Node, Abort(r) PROVE FALSE
      BY <2>0 DEF Abort, SwarmInv, TypeOK
    <2>1. PICK r \in Node : Drain(r)
      BY <2>0, ZenonT(60) DEF Next, Dial, Dialled, DialFails, Accept, AcceptFails, Track, Ends, Lose
    <2>2. r = p
      BY <2>1, Zenon DEF Drain, SwarmInv, TypeOK
    <2>3. bridges'[p] = bridges[p] \ tracked[p]
      BY <2>1, <2>2 DEF Drain, SwarmInv, TypeOK
    <2> QED
      BY <2>3 DEF SwarmInv, Known, Untracked
  <1> QED
    BY <1>1, SwarmInit, SwarmStep, PTL DEF Spec, AbortLeavesAtMostSpawned

------------------------------------------------------------------------------
(* AuthorizedMembers. *)

\* Whoever is in the map is a member, with its role.
OnlyMembers ==
    \A p \in Peer : authorized[p] # NoRole => p \in MembersOf(grants) /\ authorized[p] = RoleIn(grants, p)

\* The grants this pass has visited have nothing more to give, unless it has changed something.
Settled == (~ changed => \A g \in grants \ left : ~ Takes(g)) /\ (done => left = {} /\ ~ changed)

GrantsInv == GrantsTypeOK /\ Rooted /\ OnlyMembers /\ Settled

------------------------------------------------------------------------------

\* The role of a peer that is named is that of the grant that names it.
LEMMA RoleOfTarget ==
  ASSUME OnePerTarget(grants), NEW g \in grants, g.target # Owner
  PROVE  RoleIn(grants, g.target) = g.role
  BY DEF OnePerTarget, RoleIn

LEMMA GrantsStart == GrantsInit => GrantsInv
  <1> SUFFICES ASSUME GrantsInit PROVE GrantsInv
    OBVIOUS
  <1>0. PICK named \in SUBSET Peer :
           \E by \in [named -> Peer], role \in [named -> Role] :
             grants = {[target |-> t, granter |-> by[t], role |-> role[t]] : t \in named}
    BY Zenon DEF GrantsInit
  <1>1. PICK by \in [named -> Peer], role \in [named -> Role] :
           grants = {[target |-> t, granter |-> by[t], role |-> role[t]] : t \in named}
    BY <1>0, Zenon
  <1>2. grants \subseteq Grant /\ OnePerTarget(grants)
    BY <1>1, SMTT(60) DEF Grant, OnePerTarget
  <1>3. /\ authorized = [p \in Peer |-> IF p = Owner THEN "Owner" ELSE NoRole] /\ left = grants
        /\ changed = FALSE /\ done = FALSE
    BY DEF GrantsInit
  <1>4. GrantsTypeOK
    BY <1>2, <1>3, ZenonT(60) DEF GrantsTypeOK, Role
  <1>5. Owner \in MembersOf(grants) /\ RoleIn(grants, Owner) = "Owner"
    BY OwnerAssumption DEF MembersOf, Closed, RoleIn
  <1>6. Rooted /\ OnlyMembers
    BY <1>3, <1>5, OwnerAssumption, Zenon DEF Rooted, OnlyMembers
  <1> QED
    BY <1>3, <1>4, <1>6, Zenon DEF GrantsInv, Settled

\* Whoever a member names that may administrate is a member.
LEMMA NamedByMember ==
  ASSUME GrantsInv, NEW g \in grants, CanAdmin(authorized[g.granter])
  PROVE  g.target \in MembersOf(grants)
  <1>1. g \in Grant /\ g.granter \in Peer /\ g.target \in Peer
    BY Zenon DEF GrantsInv, GrantsTypeOK, Grant
  <1>2. authorized[g.granter] # NoRole
    BY NoRoleAssumption, Zenon DEF CanAdmin, Role
  <1>3. g.granter \in MembersOf(grants)
    BY <1>1, <1>2, Zenon DEF GrantsInv, OnlyMembers
  <1>4. MayAdmin(grants, g.granter)
    BY <1>1, <1>2, Zenon DEF GrantsInv, Rooted, MayAdmin
  <1> QED
    BY <1>1, <1>3, <1>4 DEF MembersOf, Closed

\* A peer is named once: its role does not change any more.
LEMMA TakenOnce ==
  ASSUME GrantsInv, NEW g \in grants, Takes(g)
  PROVE  authorized[g.target] = NoRole
  <1>1. g \in Grant /\ g.target \in Peer /\ g.target # Owner /\ authorized[g.target] # g.role
    BY Zenon DEF GrantsInv, GrantsTypeOK, Grant, Takes
  <1>2. RoleIn(grants, g.target) = g.role
    BY <1>1, RoleOfTarget DEF GrantsInv, GrantsTypeOK
  <1> QED
    BY <1>1, <1>2, Zenon DEF GrantsInv, OnlyMembers

LEMMA VisitStep ==
  ASSUME GrantsInv, NEW g \in left, Visit(g)
  PROVE  GrantsInv'
  <1>1. /\ g \in grants /\ g \in Grant /\ g.target \in Peer /\ g.role \in Role /\ g.granter \in Peer
        /\ left' = left \ {g} /\ UNCHANGED <<grants, done>> /\ changed' = (changed \/ Takes(g))
    BY DEF GrantsInv, GrantsTypeOK, Grant, Visit
  <1>2. ~ done
    BY DEF GrantsInv, Settled
  <1>3. CASE Takes(g)
    <2>1. authorized' = [authorized EXCEPT ![g.target] = g.role] /\ g.target # Owner /\ CanAdmin(authorized[g.granter])
      BY <1>3, Zenon DEF Visit, Takes
    <2>2. authorized[g.target] = NoRole
      BY <1>1, <1>3, TakenOnce, Zenon
    <2>3. g.granter # g.target
      BY <2>1, <2>2, NoRoleAssumption, Zenon DEF CanAdmin, Role
    <2>4. \A p \in Peer : authorized'[p] = IF p = g.target THEN g.role ELSE authorized[p]
      BY <2>1, Zenon DEF GrantsInv, GrantsTypeOK
    <2>5. GrantsTypeOK'
      BY <1>1, <1>3, <2>1, ZenonT(60) DEF GrantsInv, GrantsTypeOK
    <2>6. Rooted'
      <3>1. authorized'[Owner] = "Owner"
        BY <2>1, <2>4, OwnerAssumption, Zenon DEF GrantsInv, Rooted
      <3>2. ASSUME NEW p \in Peer \ {Owner}, authorized'[p] # NoRole
            PROVE  \E h \in grants' : h.target = p /\ h.role = authorized'[p] /\ CanAdmin(authorized'[h.granter])
        <4>1. CASE p = g.target
          BY <1>1, <2>1, <2>3, <2>4, <4>1, Zenon
        <4>2. CASE p # g.target
          <5>1. PICK h \in grants : h.target = p /\ h.role = authorized[p] /\ CanAdmin(authorized[h.granter])
            BY <2>4, <3>2, <4>2, Zenon DEF GrantsInv, Rooted
          <5>2. h.granter \in Peer
            BY Zenon DEF GrantsInv, GrantsTypeOK, Grant
          <5>3. h.granter # g.target
            BY <2>2, <5>1, NoRoleAssumption, Zenon DEF CanAdmin, Role
          <5> QED
            BY <1>1, <2>4, <4>2, <5>1, <5>2, <5>3, Zenon
        <4> QED
          BY <4>1, <4>2, Zenon
      <3> QED
        BY <3>1, <3>2, Zenon DEF Rooted
    <2>7. OnlyMembers'
      <3>1. g.target \in MembersOf(grants) /\ RoleIn(grants, g.target) = g.role
        BY <1>1, <2>1, NamedByMember, RoleOfTarget, Zenon DEF GrantsInv, GrantsTypeOK
      <3>2. ASSUME NEW p \in Peer, authorized'[p] # NoRole
            PROVE  p \in MembersOf(grants) /\ authorized'[p] = RoleIn(grants, p)
        BY <2>4, <3>1, <3>2, Zenon DEF GrantsInv, OnlyMembers
      <3>3. grants' = grants
        BY <1>1, Zenon
      <3> QED
        BY <3>2, <3>3, Zenon DEF OnlyMembers
    <2>8. Settled'
      BY <1>1, <1>2, <1>3, ZenonT(60) DEF Settled
    <2> QED
      BY <2>5, <2>6, <2>7, <2>8, Zenon DEF GrantsInv
  <1>4. CASE ~ Takes(g)
    <2>1. authorized' = authorized
      BY <1>4 DEF Visit
    <2>2. GrantsTypeOK'
      BY <1>1, <1>4, <2>1, ZenonT(60) DEF GrantsInv, GrantsTypeOK
    <2>3. Rooted' /\ OnlyMembers'
      BY <1>1, <2>1, SMTT(60) DEF GrantsInv, Rooted, OnlyMembers, MembersOf, RoleIn
    <2>4. Settled'
      <3>1. \A h \in grants : Takes(h)' = Takes(h)
        BY <2>1 DEF Takes
      <3> QED
        BY <1>1, <1>2, <1>4, <3>1, Zenon DEF GrantsInv, GrantsTypeOK, Settled
    <2> QED
      BY <2>2, <2>3, <2>4 DEF GrantsInv
  <1> QED
    BY <1>3, <1>4, Zenon

LEMMA EndPassStep == GrantsInv /\ EndPass => GrantsInv'
  <1> SUFFICES ASSUME GrantsInv, EndPass PROVE GrantsInv'
    OBVIOUS
  <1>1. /\ left = {} /\ done' = ~ changed /\ left' = (IF changed THEN grants ELSE {}) /\ changed' = FALSE
        /\ UNCHANGED <<grants, authorized>>
    BY DEF EndPass
  <1>2. GrantsTypeOK'
    BY <1>1, ZenonT(60) DEF GrantsInv, GrantsTypeOK
  <1>3. Rooted' /\ OnlyMembers'
    BY <1>1, SMTT(60) DEF GrantsInv, Rooted, OnlyMembers, MembersOf, RoleIn
  <1>4. Settled'
    <2>1. \A h \in grants : Takes(h)' = Takes(h)
      BY <1>1 DEF Takes
    <2> QED
      BY <1>1, <2>1 DEF GrantsInv, GrantsTypeOK, Settled
  <1> QED
    BY <1>2, <1>3, <1>4 DEF GrantsInv

\* The invariant is inductive.
LEMMA GrantsStep == GrantsInv /\ [GrantsNext]_grant_vars => GrantsInv'
  <1>1. GrantsInv /\ UNCHANGED grant_vars => GrantsInv'
    BY SMTT(60) DEF grant_vars, GrantsInv, GrantsTypeOK, Rooted, OnlyMembers, Settled, Takes, MembersOf, RoleIn
  <1> QED
    BY <1>1, VisitStep, EndPassStep, ZenonT(60) DEF GrantsNext

\* A map that no grant can change holds every member.
LEMMA MembersAreIn ==
  ASSUME GrantsInv, done, NEW p \in MembersOf(grants)
  PROVE  authorized[p] # NoRole
  <1> DEFINE In == {q \in Peer : authorized[q] # NoRole}
  <1>1. \A g \in grants : ~ Takes(g)
    BY DEF GrantsInv, GrantsTypeOK, Settled
  <1>2. Owner \in In
    BY OwnerAssumption, NoRoleAssumption DEF GrantsInv, Rooted, Role
  <1>3. ASSUME NEW g \in grants, g.granter \in In, MayAdmin(grants, g.granter) PROVE g.target \in In
    <2>1. g.granter \in Peer /\ g.target \in Peer /\ g.role \in Role
      BY Zenon DEF GrantsInv, GrantsTypeOK, Grant
    <2>2. CanAdmin(authorized[g.granter])
      <3>1. CASE g.granter = Owner
        BY <3>1, Zenon DEF GrantsInv, Rooted, CanAdmin
      <3>2. CASE g.granter # Owner
        <4>1. PICK h \in grants : h.target = g.granter /\ CanAdmin(h.role)
          BY <1>3, <3>2, ZenonT(60) DEF MayAdmin
        <4>2. RoleIn(grants, h.target) = h.role
          BY <3>2, <4>1, RoleOfTarget, ZenonT(60) DEF GrantsInv, GrantsTypeOK
        <4> QED
          BY <1>3, <4>1, <4>2, ZenonT(60) DEF GrantsInv, OnlyMembers
      <3> QED
        BY <3>1, <3>2, Zenon
    <2>3. g.target = Owner \/ authorized[g.target] = g.role
      BY <1>1, <2>2, ZenonT(60) DEF Takes
    <2> QED
      BY <1>2, <2>1, <2>3, NoRoleAssumption, Zenon
  <1>4. Closed(grants, In)
    BY <1>2, <1>3, ZenonT(60) DEF Closed
  <1>5. In \in SUBSET Peer
    OBVIOUS
  <1>6. p \in In
    BY <1>4, <1>5, ZenonT(60) DEF MembersOf
  <1> QED
    BY <1>6

\* Whatever the order in which the passes visit the grants: the map is rooted in the
\* owner at every point, and at the end it has exactly the members and their roles.
THEOREM EvaluationIsCorrect == GrantsSpec => []Correct
  <1>1. GrantsInv => Correct
    <2> SUFFICES ASSUME GrantsInv PROVE Correct
      BY Zenon
    <2>1. ASSUME done, NEW p \in Peer
          PROVE  authorized[p] = IF p \in MembersOf(grants) THEN RoleIn(grants, p) ELSE NoRole
      BY <2>1, MembersAreIn, Zenon DEF GrantsInv, OnlyMembers
    <2> QED
      BY <2>1 DEF GrantsInv, Correct
  <1> QED
    BY <1>1, GrantsStart, GrantsStep, PTL DEF GrantsSpec

------------------------------------------------------------------------------
(* Stream. *)

Type == {"Hello", "Delta", "Push"}
Size(type) == IF type = "Delta" THEN DeltaPieces ELSE 3
Final(p) == p.pos = Size(p.type)

\* The pieces of s go on with a message of which n have been taken, and end with a whole one.
Aligned(s, n) ==
    /\ s \in Seq(Piece) /\ n \in Nat
    /\ \A i \in 1 .. Len(s) : s[i].pos <= Size(s[i].type)
    /\ IF s = << >> THEN n = 0 ELSE s[1].pos = n + 1 /\ Final(s[Len(s)])
    /\ \A i \in 1 .. Len(s) - 1 : s[i + 1].pos = IF Final(s[i]) THEN 1 ELSE s[i].pos + 1

\* What the other end has still to read of what e has set out to write.
Flow(e) == pipe[e] \o writing[e]

StreamInv ==
    /\ StreamTypeOK /\ NeverDerails
    /\ \A e \in End : Aligned(Flow(e), taken[Other(e)])

------------------------------------------------------------------------------

LEMMA TwoEnds == \A e \in End : Other(e) \in End /\ Other(e) # e /\ Other(Other(e)) = e
  BY SMTT(60) DEF End, Other

LEMMA PieceFacts == \A p \in Piece : p.type \in Type /\ p.pos \in Nat /\ p.pos >= 1 /\ Size(p.type) \in Nat
  BY StreamAssumption, SMTT(60) DEF Piece, Type, Size

\* A message as it is written is aligned with a read that is between messages.
LEMMA PiecesAligned ==
  ASSUME NEW type \in Type
  PROVE  Pieces(type) \in Seq(Piece) /\ Len(Pieces(type)) = Size(type) /\ Aligned(Pieces(type), 0)
  <1>1. Size(type) \in Nat /\ Size(type) >= 3 /\ Size(type) <= DeltaPieces
    BY StreamAssumption DEF Size, Type
  <1>2. Pieces(type) = [i \in 1 .. Size(type) |-> [type |-> type, pos |-> i]]
    BY DEF Pieces, Size
  <1>3. \A i \in 1 .. Size(type) : [type |-> type, pos |-> i] \in Piece
    BY <1>1, StreamAssumption, SMTT(60) DEF Piece, Type
  <1>4. Pieces(type) \in Seq(Piece) /\ Len(Pieces(type)) = Size(type)
    BY <1>1, <1>2, <1>3, SMTT(60)
  <1>5. \A i \in 1 .. Size(type) : Pieces(type)[i].pos = i /\ Pieces(type)[i].type = type
    BY <1>2, SMTT(60)
  <1>6. Pieces(type) # << >>
    BY <1>1, <1>4, SMTT(60)
  <1> QED
    BY <1>1, <1>4, <1>5, <1>6, SMTT(60) DEF Aligned, Final

LEMMA NothingAligned == Aligned(<< >>, 0)
  BY SMTT(60) DEF Aligned

\* Whole messages may follow.
LEMMA ConcatAligned ==
  ASSUME NEW s, NEW t, NEW n, Aligned(s, n), Aligned(t, 0)
  PROVE  Aligned(s \o t, n)
  <1>1. s \in Seq(Piece) /\ t \in Seq(Piece) /\ n \in Nat
    BY ZenonT(60) DEF Aligned
  <1>2. CASE s = << >>
    <2>1. s \o t = t /\ n = 0
      BY <1>1, <1>2, SMTT(60) DEF Aligned
    <2> QED
      BY <2>1, Zenon
  <1>3. CASE t = << >>
    <2>1. s \o t = s
      BY <1>1, <1>3, SMTT(60)
    <2> QED
      BY <2>1, Zenon
  <1>4. CASE s # << >> /\ t # << >>
    <2> DEFINE u == s \o t
    <2>1. u \in Seq(Piece) /\ Len(u) = Len(s) + Len(t) /\ Len(s) \in Nat /\ Len(t) \in Nat /\ Len(s) > 0 /\ Len(t) > 0
      BY <1>1, <1>4, SMTT(60)
    <2>2. \A i \in 1 .. Len(s) : u[i] = s[i]
      BY <1>1, SMTT(60)
    <2>3. \A i \in Len(s) + 1 .. Len(u) : u[i] = t[i - Len(s)] /\ i - Len(s) \in 1 .. Len(t)
      BY <1>1, <2>1, SMTT(60)
    <2> HIDE DEF u
    <2>4. ASSUME NEW i \in 1 .. Len(u) PROVE u[i].pos <= Size(u[i].type)
      <3>1. CASE i <= Len(s)
        <4>1. i \in 1 .. Len(s) /\ u[i] = s[i]
          BY <2>1, <2>2, <3>1, SMTT(60)
        <4> QED
          BY <4>1, ZenonT(60) DEF Aligned
      <3>2. CASE i > Len(s)
        <4> DEFINE j == i - Len(s)
        <4>1. j \in 1 .. Len(t) /\ u[i] = t[j]
          BY <2>1, <2>3, <3>2, SMTT(60)
        <4> HIDE DEF j
        <4> QED
          BY <4>1, Zenon DEF Aligned
      <3> QED
        BY <2>1, <3>1, <3>2, SMTT(60)
    <2>5. u # << >> /\ u[1].pos = n + 1 /\ Final(u[Len(u)])
      <3>1. u[1] = s[1] /\ u[Len(u)] = t[Len(t)]
        BY <2>1, <2>2, <2>3, SMTT(60)
      <3> QED
        BY <1>4, <2>1, <3>1, SMTT(60) DEF Aligned
    <2>6. ASSUME NEW i \in 1 .. Len(u) - 1
          PROVE  u[i + 1].pos = IF Final(u[i]) THEN 1 ELSE u[i].pos + 1
      <3>1. CASE i < Len(s)
        <4>1. i \in 1 .. Len(s) - 1 /\ u[i] = s[i] /\ u[i + 1] = s[i + 1]
          BY <2>1, <2>2, <3>1, SMTT(60)
        <4> QED
          BY <4>1, Zenon DEF Aligned
      <3>2. CASE i = Len(s)
        <4>1. u[i] = s[Len(s)] /\ u[i + 1] = t[1]
          BY <2>1, <2>2, <2>3, <3>2, SMTT(60)
        <4>2. Final(s[Len(s)]) /\ t[1].pos = 1
          BY <1>4, SMTT(60) DEF Aligned
        <4> QED
          BY <4>1, <4>2, ZenonT(60)
      <3>3. CASE i > Len(s)
        <4> DEFINE j == i - Len(s)
        <4>1. j \in 1 .. Len(t) - 1 /\ u[i] = t[j] /\ u[i + 1] = t[j + 1]
          <5>1. /\ i \in Len(s) + 1 .. Len(u) /\ i + 1 \in Len(s) + 1 .. Len(u)
                /\ (i + 1) - Len(s) = j + 1 /\ j \in 1 .. Len(t) - 1
            BY <2>1, <3>3
          <5>2. u[i] = t[i - Len(s)] /\ u[i + 1] = t[(i + 1) - Len(s)]
            BY <2>3, <5>1, ZenonT(60)
          <5> QED
            BY <5>1, <5>2
        <4> QED
          BY <4>1, ZenonT(60) DEF Aligned
      <3> QED
        BY <2>1, <3>1, <3>2, <3>3, SMTT(60)
    <2> QED
      BY <1>1, <2>1, <2>4, <2>5, <2>6, ZenonT(60) DEF Aligned, u
  <1> QED
    BY <1>2, <1>3, <1>4, Zenon

\* The next piece is in its place, and what follows it is in step again.
LEMMA TailAligned ==
  ASSUME NEW s, NEW n, Aligned(s, n), s # << >>
  PROVE  /\ Head(s) \in Piece /\ Head(s).pos = n + 1 /\ Head(s).pos <= Size(Head(s).type)
         /\ Aligned(Tail(s), IF Final(Head(s)) THEN 0 ELSE n + 1)
  <1>1. s \in Seq(Piece) /\ n \in Nat /\ Len(s) \in Nat /\ Len(s) > 0 /\ Head(s) = s[1]
    BY SMTT(60) DEF Aligned
  <1>2. s[1] \in Piece /\ s[1].pos = n + 1 /\ s[1].pos <= Size(s[1].type)
    BY <1>1, SMTT(60) DEF Aligned
  <1> DEFINE t == Tail(s)
             m == IF Final(s[1]) THEN 0 ELSE n + 1
  <1>3. t \in Seq(Piece) /\ Len(t) = Len(s) - 1
    BY <1>1
  <1>4. \A i \in 1 .. Len(t) : t[i] = s[i + 1] /\ i + 1 \in 1 .. Len(s)
    BY <1>1, <1>3, SMTT(60)
  <1> HIDE DEF t
  <1>5. m \in Nat
    BY <1>1, SMTT(60)
  <1>6. \A i \in 1 .. Len(t) : t[i].pos <= Size(t[i].type)
    BY <1>4, ZenonT(60) DEF Aligned
  <1>7. CASE Len(s) = 1
    <2>0. t = << >>
      <3>1. Len(t) = 0
        BY <1>3, <1>7, SMTT(60)
      <3> QED
        BY <1>3, <3>1, EmptySeq, Zenon
    <2>1. Final(s[1])
      BY <1>1, <1>7, Zenon DEF Aligned
    <2> QED
      BY <1>1, <1>2, <2>0, <2>1, NothingAligned, ZenonT(60) DEF t
  <1>8. CASE Len(s) > 1
    <2>0. 1 \in 1 .. Len(t) /\ Len(t) \in 1 .. Len(t) /\ Len(t) + 1 = Len(s) /\ t # << >>
      <3>1. PICK k \in Nat : k = Len(s)
        BY <1>1
      <3>2. Len(t) = k - 1 /\ k > 1
        BY <1>3, <1>8, <3>1, Zenon
      <3>3. 1 \in 1 .. Len(t) /\ Len(t) \in 1 .. Len(t) /\ Len(t) + 1 = k
        BY <3>2
      <3>4. t # << >>
        BY <3>2
      <3> QED
        BY <3>1, <3>3, <3>4
    <2>1. t # << >> /\ t[1] = s[2] /\ t[Len(t)] = s[Len(s)]
      BY <1>4, <2>0
    <2>2. s[2].pos = IF Final(s[1]) THEN 1 ELSE s[1].pos + 1
      <3>1. 1 \in 1 .. Len(s) - 1
        BY <1>1, <1>8
      <3> QED
        BY <3>1 DEF Aligned
    <2>3. t[1].pos = m + 1 /\ Final(t[Len(t)])
      BY <1>1, <1>2, <2>1, <2>2 DEF Aligned
    <2>4. ASSUME NEW i \in 1 .. Len(t) - 1
          PROVE  t[i + 1].pos = IF Final(t[i]) THEN 1 ELSE t[i].pos + 1
      <3>1. i + 1 \in 1 .. Len(s) - 1 /\ t[i] = s[i + 1] /\ t[i + 1] = s[i + 1 + 1]
        BY <1>1, <1>3, <1>4, SMTT(60)
      <3> QED
        BY <3>1 DEF Aligned
    <2> HIDE DEF m
    <2>5. Aligned(t, m)
      BY <1>3, <1>5, <1>6, <2>1, <2>3, <2>4 DEF Aligned
    <2> QED
      BY <1>1, <1>2, <2>5, Zenon DEF t, m
  <1>9. Len(s) = 1 \/ Len(s) > 1
    <2>1. \A k \in Nat : k > 0 => k = 1 \/ k > 1
      OBVIOUS
    <2> QED
      BY <1>1, <2>1, Zenon
  <1> QED
    BY <1>7, <1>8, <1>9, ZenonT(60)

------------------------------------------------------------------------------

LEMMA StreamStart == StreamInit => StreamInv
  <1> SUFFICES ASSUME StreamInit PROVE StreamInv
    OBVIOUS
  <1>1. Pieces("Hello") \in Seq(Piece) /\ Aligned(Pieces("Hello"), 0)
    BY PiecesAligned DEF Type
  <1>2. StreamTypeOK /\ NeverDerails
    BY <1>1, StreamAssumption DEF StreamInit, StreamTypeOK, NeverDerails
  <1>3. ASSUME NEW e \in End PROVE Aligned(Flow(e), taken[Other(e)])
    <2>1. Flow(e) = Pieces("Hello") /\ taken[Other(e)] = 0
      BY <1>1, TwoEnds DEF StreamInit, Flow
    <2> QED
      BY <1>1, <2>1
  <1> QED
    BY <1>2, <1>3 DEF StreamInv

LEMMA WriteStep ==
  ASSUME StreamInv, NEW e \in End, WritePiece(e)
  PROVE  StreamInv'
  <1>1. /\ writing[e] # << >> /\ pipe[e] \in Seq(Piece) /\ writing[e] \in Seq(Piece)
        /\ pipe' = [pipe EXCEPT ![e] = Append(@, Head(writing[e]))]
        /\ writing' = [writing EXCEPT ![e] = Tail(@)]
        /\ UNCHANGED <<taken, served, caughtUp, events, failed>>
    BY DEF StreamInv, StreamTypeOK, WritePiece
  <1>2. Head(writing[e]) \in Piece /\ Tail(writing[e]) \in Seq(Piece)
        /\ Append(pipe[e], Head(writing[e])) \in Seq(Piece)
    BY <1>1
  <1>3. StreamTypeOK' /\ NeverDerails'
    BY <1>1, <1>2, Zenon DEF StreamInv, StreamTypeOK, NeverDerails
  <1>4. Append(pipe[e], Head(writing[e])) \o Tail(writing[e]) = pipe[e] \o writing[e]
    <2>1. ASSUME NEW s \in Seq(Piece), NEW t \in Seq(Piece), t # << >>
          PROVE  Append(s, Head(t)) \o Tail(t) = s \o t
      BY <2>1
    <2> QED
      BY <1>1, <2>1, Zenon
  <1>5. \A d \in End : Flow(d)' = Flow(d)
    BY <1>1, <1>4, ZenonT(60) DEF Flow, StreamInv, StreamTypeOK
  <1> QED
    BY <1>1, <1>3, <1>5, Zenon DEF StreamInv

LEMMA EventStep ==
  ASSUME StreamInv, ~ Interrupts, NEW e \in End, NEW type \in Type, LocalEvent(e, type)
  PROVE  StreamInv'
  <1>1. /\ writing[e] = << >> /\ events[e] < MaxEvents /\ taken[e] = 0
        /\ events' = [events EXCEPT ![e] = @ + 1]
        /\ writing' = [writing EXCEPT ![e] = Pieces(type)]
        /\ taken' = [taken EXCEPT ![e] = 0]
        /\ UNCHANGED <<pipe, served, caughtUp, failed>>
    BY DEF LocalEvent, Selecting
  <1>2. Pieces(type) \in Seq(Piece) /\ Aligned(Pieces(type), 0)
    BY PiecesAligned, Zenon
  <1>3. taken' = taken
    BY <1>1 DEF StreamInv, StreamTypeOK
  <1>4. events' \in [End -> 0 .. MaxEvents]
    BY <1>1, StreamAssumption, SMTT(60) DEF StreamInv, StreamTypeOK
  <1>5. StreamTypeOK' /\ NeverDerails'
    BY <1>1, <1>2, <1>3, <1>4 DEF StreamInv, StreamTypeOK, NeverDerails
  <1>6. ASSUME NEW d \in End PROVE Aligned(Flow(d)', taken'[Other(d)])
    <2>1. CASE d = e
      <3>1. pipe[e] \in Seq(Piece) /\ Flow(e) = pipe[e]
        BY <1>1 DEF StreamInv, StreamTypeOK, Flow
      <3>2. Flow(e)' = pipe[e] \o Pieces(type)
        BY <1>1 DEF StreamInv, StreamTypeOK, Flow
      <3>3. Aligned(pipe[e], taken[Other(e)])
        BY <3>1 DEF StreamInv
      <3> QED
        BY <1>2, <1>3, <2>1, <3>2, <3>3, ConcatAligned, Zenon
    <2>2. CASE d # e
      BY <1>1, <1>3, <2>2, ZenonT(60) DEF StreamInv, StreamTypeOK, Flow
    <2> QED
      BY <2>1, <2>2
  <1> QED
    BY <1>5, <1>6, Zenon DEF StreamInv

LEMMA ReplyAligned ==
  ASSUME NEW e \in End
  PROVE  Reply(e) \in Seq(Piece) /\ Aligned(Reply(e), 0)
  <1>1. Aligned(IF served[e] THEN << >> ELSE Pieces("Delta"), 0) /\ Aligned(IF e = 2 THEN Pieces("Hello") ELSE << >>, 0)
    BY PiecesAligned, NothingAligned DEF Type
  <1>2. Aligned(Reply(e), 0)
    BY <1>1, ConcatAligned, ZenonT(60) DEF Reply
  <1> QED
    BY <1>2 DEF Aligned

LEMMA ReadStep ==
  ASSUME StreamInv, NEW e \in End, ReadPiece(e)
  PROVE  StreamInv'
  <1> DEFINE o == Other(e)
  <1>0. o \in End /\ o # e /\ Other(o) = e /\ Other(e) = o
    BY TwoEnds
  <1> HIDE DEF o
  <1>1. PICK p : p = Head(pipe[o])
    OBVIOUS
  <1>2. PICK c \in BOOLEAN : c = (p.pos = taken[e] + 1 /\ p.pos = Len(Pieces(p.type)))
    BY Zenon
  <1>3. /\ writing[e] = << >> /\ pipe[o] # << >> /\ pipe[o] \in Seq(Piece) /\ pipe[e] \in Seq(Piece) /\ writing[o] \in Seq(Piece)
        /\ pipe' = [pipe EXCEPT ![o] = Tail(@)]
        /\ taken' = [taken EXCEPT ![e] = IF p.pos = taken[e] + 1 /\ ~ c THEN @ + 1 ELSE 0]
        /\ failed' = [failed EXCEPT ![e] = p.pos # taken[e] + 1]
        /\ writing' = (IF c /\ p.type = "Hello" THEN [writing EXCEPT ![e] = Reply(e)] ELSE writing)
        /\ served' = (IF c /\ p.type = "Hello" THEN [served EXCEPT ![e] = TRUE] ELSE served)
        /\ caughtUp' = [caughtUp EXCEPT ![e] = @ \/ (c /\ p.type = "Delta")]
        /\ events' = events
    BY <1>0, <1>1, <1>2, ZenonT(60) DEF ReadPiece, Selecting, StreamInv, StreamTypeOK
  <1>4. Aligned(Flow(o), taken[e]) /\ Flow(o) # << >> /\ Head(Flow(o)) = p /\ Tail(Flow(o)) = Tail(pipe[o]) \o writing[o]
    <2>1. ASSUME NEW s \in Seq(Piece), NEW t \in Seq(Piece), s # << >>
          PROVE  s \o t # << >> /\ Head(s \o t) = Head(s) /\ Tail(s \o t) = Tail(s) \o t
      BY <2>1
    <2> QED
      BY <1>0, <1>1, <1>3, <2>1, ZenonT(60) DEF StreamInv, Flow
  <1>5. /\ p \in Piece /\ p.pos = taken[e] + 1 /\ p.pos <= Size(p.type)
        /\ Aligned(Tail(Flow(o)), IF Final(p) THEN 0 ELSE taken[e] + 1)
    BY <1>4, TailAligned, ZenonT(60)
  <1>6. c = Final(p)
    BY <1>2, <1>5, PieceFacts, PiecesAligned DEF Final
  <1>7. taken' = [taken EXCEPT ![e] = IF Final(p) THEN 0 ELSE taken[e] + 1]
    BY <1>3, <1>5, <1>6, ZenonT(60) DEF StreamInv, StreamTypeOK
  <1>8. taken[e] + 1 \in Nat /\ (~ Final(p) => taken[e] + 1 \in 0 .. DeltaPieces - 1)
    <2>1. Size(p.type) \in Nat /\ Size(p.type) <= DeltaPieces
      BY StreamAssumption DEF Size
    <2>2. taken[e] \in Nat
      BY DEF StreamInv, StreamTypeOK
    <2> QED
      BY <1>5, <2>1, <2>2, StreamAssumption DEF Final
  <1>9. Reply(e) \in Seq(Piece) /\ Aligned(Reply(e), 0)
    BY ReplyAligned
  <1>10. StreamTypeOK'
    <2>1. taken' \in [End -> 0 .. DeltaPieces - 1]
      BY <1>7, <1>8, StreamAssumption DEF StreamInv, StreamTypeOK
    <2>2. Tail(pipe[o]) \in Seq(Piece)
      BY <1>3
    <2>4. pipe' \in [End -> Seq(Piece)]
      BY <1>3, <2>2, ZenonT(60) DEF StreamInv, StreamTypeOK
    <2>5. writing' \in [End -> Seq(Piece)]
      BY <1>3, <1>9, Zenon DEF StreamInv, StreamTypeOK
    <2>3. served' \in [End -> BOOLEAN] /\ caughtUp' \in [End -> BOOLEAN] /\ failed' \in [End -> BOOLEAN]
      BY <1>3, ZenonT(60) DEF StreamInv, StreamTypeOK
    <2> QED
      BY <1>3, <2>1, <2>3, <2>4, <2>5, ZenonT(60) DEF StreamInv, StreamTypeOK
  <1>11. NeverDerails'
    BY <1>3, <1>5 DEF StreamInv, StreamTypeOK, NeverDerails
  <1>12. Aligned(Flow(o)', taken'[Other(o)])
    <2>1. Flow(o)' = Tail(Flow(o))
      BY <1>0, <1>3, <1>4, Zenon DEF Flow, StreamInv, StreamTypeOK
    <2>2. taken'[e] = IF Final(p) THEN 0 ELSE taken[e] + 1
      BY <1>7 DEF StreamInv, StreamTypeOK
    <2> QED
      BY <1>0, <1>5, <2>1, <2>2, Zenon
  <1>13. Aligned(Flow(e)', taken'[Other(e)])
    <2>1. Aligned(pipe[e], taken[o])
      <3>1. Flow(e) = pipe[e]
        BY <1>3 DEF Flow
      <3> QED
        BY <1>0, <3>1, Zenon DEF StreamInv
    <2>2. taken'[o] = taken[o] /\ pipe'[e] = pipe[e]
      BY <1>0, <1>3 DEF StreamInv, StreamTypeOK
    <2>3. Aligned(pipe[e] \o Reply(e), taken[o])
      BY <1>9, <2>1, ConcatAligned
    <2>4. writing'[e] = Reply(e) \/ writing'[e] = << >>
      BY <1>3, Zenon DEF StreamInv, StreamTypeOK
    <2>5. Flow(e)' = pipe[e] \o Reply(e) \/ Flow(e)' = pipe[e]
      <3>1. pipe[e] \o << >> = pipe[e]
        BY <1>3
      <3> QED
        BY <2>2, <2>4, <3>1, Zenon DEF Flow
    <2> QED
      BY <1>0, <2>1, <2>2, <2>3, <2>5, ZenonT(60)
  <1>14. \A d \in End : d = e \/ d = o
    BY DEF End, Other, o
  <1> QED
    BY <1>10, <1>11, <1>12, <1>13, <1>14 DEF StreamInv

\* As long as ticks and pushes fall between messages, no read of a stream fails,
\* whatever the size of the messages, the window, and the replies that cross.
THEOREM WholeReadsStayInStep == ~ Interrupts => (StreamSpec => [](StreamTypeOK /\ NeverDerails))
  <1> SUFFICES ASSUME ~ Interrupts PROVE StreamSpec => [](StreamTypeOK /\ NeverDerails)
    OBVIOUS
  <1>1. StreamInv /\ [StreamNext]_stream_vars => StreamInv'
    <2>1. StreamInv /\ UNCHANGED stream_vars => StreamInv'
      BY DEF stream_vars, StreamInv, StreamTypeOK, NeverDerails, Flow
    <2> QED
      BY <2>1, WriteStep, ReadStep, EventStep, Zenon DEF StreamNext, Type
  <1>2. StreamInv => StreamTypeOK /\ NeverDerails
    BY DEF StreamInv
  <1> QED
    BY <1>1, <1>2, StreamStart, PTL DEF StreamSpec

==============================================================================
