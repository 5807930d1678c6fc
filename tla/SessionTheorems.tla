--------------------------- MODULE SessionTheorems ---------------------------
(***************************************************************************)
(* SessionSound is inductive: what reclaim drops was delivered, for any    *)
(* number of peers, links, members, writes and faults.  A queue is taken   *)
(* as a sequence over the set of what may be in it, so that a step has to  *)
(* be looked at only for the message it adds.                              *)
(***************************************************************************)
EXTENDS Session, SequenceTheorems, FiniteSetTheorems, WellFoundedInduction, TLAPS

\* A message p may have sent: a Hello is behind p, a Delta behind its origins.
Sendable(p) ==
    {m \in Message : /\ m.type = "Hello" => \A o \in Peer : m.cursors[o] <= seen[p][o]
                     /\ m.type = "Delta" => \A o \in Peer : m.hi[o] <= written[o]}

\* The frames that exist.
Existing == {f \in FrameId : f[2] <= written[f[1]]}

\* SessionSound, with the queues as sequences over these sets.
Sound ==
    /\ TypeOK
    /\ ReclaimedIsDelivered
    /\ \A p, q, o \in Peer : peerCursors[p][q][o] <= seen[q][o]
    /\ \A p, o \in Peer : seen[p][o] <= written[o]
    /\ \A p \in Peer : unsent[p] \subseteq Existing
    /\ \A e \in End : outbound[e] \in Seq(Existing) /\ chan[e] \in Seq(Sendable(e[1]))

------------------------------------------------------------------------------
(* Sequences and minima. *)

\* A sequence whose elements are in S is a sequence over S.
LEMMA SeqOver ==
  ASSUME NEW S, NEW T, NEW s \in Seq(T), \A i \in 1 .. Len(s) : s[i] \in S
  PROVE  s \in Seq(S)
  <1>1. Len(s) \in Nat /\ s \in [1 .. Len(s) -> T]
    BY LenProperties
  <1>2. s \in [1 .. Len(s) -> S]
    BY <1>1
  <1> QED
    BY <1>1, <1>2, SeqDef

\* Appending keeps a sequence over its set.
LEMMA AppendOver ==
  ASSUME NEW S, NEW s \in Seq(S), NEW x \in S
  PROVE  Append(s, x) \in Seq(S)
  OBVIOUS

\* A minimum of naturals is below every element.
LEMMA MinIsLower ==
  ASSUME NEW S \in SUBSET Nat, NEW x \in S
  PROVE  Min(S) \in Nat /\ Min(S) <= x
  <1> DEFINE R == OpToRel(<, Nat)
  <1>1. IsWellFoundedOn(R, Nat)
    BY NatLessThanWellFounded, Zenon
  <1>2. \E y \in S : \A z \in S : ~ (<<z, y>> \in R)
    <2> HIDE DEF R
    <2> QED
      BY <1>1, WFMin, Zenon
  <1>3. ASSUME NEW y \in S, NEW z \in S, ~ (<<z, y>> \in R) PROVE y <= z
    <2>1. <<z, y>> \in Nat \X Nat /\ <<z, y>>[1] = z /\ <<z, y>>[2] = y
      OBVIOUS
    <2>2. ~ (z < y)
      BY <1>3, <2>1 DEF OpToRel
    <2> QED
      BY <2>2
  <1> HIDE DEF R
  <1>4. \E y \in S : \A z \in S : y <= z
    BY <1>2, <1>3, Zenon
  <1> QED
    BY <1>4, Zenon DEF Min

\* The two-element cases that delta_since and reclaim use.
LEMMA MinMaxOfTwo ==
  ASSUME NEW a \in Nat, NEW b \in Nat
  PROVE  Min({a, b}) \in {a, b} /\ Max({a, b}) \in {a, b}
  <1>1. \E x \in {a, b} : \A y \in {a, b} : x <= y
    OBVIOUS
  <1>2. \E x \in {a, b} : \A y \in {a, b} : x >= y
    OBVIOUS
  <1> QED
    BY <1>1, <1>2 DEF Min, Max

------------------------------------------------------------------------------
(* The two forms of the invariant. *)

\* A queue whose elements are allowed is a sequence over what is allowed.
LEMMA Equivalent == SessionSound <=> Sound
  <1>1. ASSUME SessionSound PROVE Sound
    <2> USE <1>1 DEF SessionSound
    <2>1. \A p \in Peer : unsent[p] \subseteq Existing
      BY DEF TypeOK, NothingInvented, Existing
    <2>2. ASSUME NEW e \in End PROVE outbound[e] \in Seq(Existing) /\ chan[e] \in Seq(Sendable(e[1]))
      <3>1. outbound[e] \in Seq(FrameId) /\ chan[e] \in Seq(Message)
        BY DEF TypeOK
      <3>2. \A i \in 1 .. Len(outbound[e]) : outbound[e][i] \in Existing
        BY <3>1, ElementOfSeq DEF NothingInvented, Existing
      <3>3. \A i \in 1 .. Len(chan[e]) : chan[e][i] \in Sendable(e[1])
        BY <3>1, ElementOfSeq DEF NothingInvented, CursorsAreBehind, Sendable
      <3> QED
        BY <3>1, <3>2, <3>3, SeqOver, Zenon
    <2> QED
      BY <2>1, <2>2 DEF Sound, CursorsAreBehind, NothingInvented
  <1>2. ASSUME Sound PROVE SessionSound
    <2> USE <1>2 DEF Sound
    <2>1. CursorsAreBehind
      <3> SUFFICES ASSUME NEW e \in End, NEW i \in 1 .. Len(chan[e]), chan[e][i].type = "Hello", NEW o \in Peer
                   PROVE  chan[e][i].cursors[o] <= seen[e[1]][o]
        BY DEF CursorsAreBehind
      <3>1. chan[e] \in Seq(Sendable(e[1]))
        OBVIOUS
      <3>2. chan[e][i] \in Sendable(e[1])
        BY <3>1, ElementOfSeq
      <3> QED
        BY <3>2 DEF Sendable
    <2>2. ASSUME NEW e \in End
          PROVE  /\ \A i \in 1 .. Len(outbound[e]) : outbound[e][i][2] <= written[outbound[e][i][1]]
                 /\ \A i \in 1 .. Len(chan[e]) :
                      chan[e][i].type = "Delta" => \A o \in Peer : chan[e][i].hi[o] <= written[o]
      <3>1. \A i \in 1 .. Len(outbound[e]) : outbound[e][i] \in Existing
        BY ElementOfSeq
      <3>2. \A i \in 1 .. Len(chan[e]) : chan[e][i] \in Sendable(e[1])
        BY ElementOfSeq
      <3> QED
        BY <3>1, <3>2 DEF Existing, Sendable
    <2>3. NothingInvented
      BY <2>2 DEF NothingInvented, Existing
    <2> QED
      BY <2>1, <2>3 DEF SessionSound
  <1> QED
    BY <1>1, <1>2

------------------------------------------------------------------------------
(* What the steps have in common. *)

\* The two ends of a link are different peers.
LEMMA EndFacts ==
  ASSUME NEW e \in End
  PROVE  /\ e[1] \in Peer /\ e[2] \in Peer
         /\ Other(e) \in End /\ Other(e)[1] = e[2] /\ Other(e) # e
  <1>1. e = <<e[1], e[2]>> /\ e[1] \in Peer /\ e[2] \in Peer /\ {e[1], e[2]} \in Link
    BY DEF End
  <1>2. e[1] # e[2]
    <2> SUFFICES ASSUME e[1] = e[2] PROVE FALSE
      OBVIOUS
    <2>1. Cardinality({e[1]}) = 1
      BY FS_Singleton, Zenon
    <2>2. {e[1], e[2]} = {e[1]}
      OBVIOUS
    <2>3. Cardinality({e[1], e[2]}) = 2
      BY <1>1, LinkAssumption
    <2>4. Cardinality({e[1], e[2]}) = Cardinality({e[1]})
      BY <2>2, Zenon
    <2> QED
      BY <2>1, <2>3, <2>4
  <1>3. {e[2], e[1]} = {e[1], e[2]}
    OBVIOUS
  <1> QED
    BY <1>1, <1>2, <1>3 DEF End, Other

\* Types of the parts that the steps look at.
LEMMA SessionTypes ==
  ASSUME TypeOK
  PROVE  /\ MaxWrites \in Nat /\ MaxFaults \in Nat
         /\ written \in [Peer -> 0 .. MaxWrites]
         /\ \A p, o \in Peer : written[o] \in Nat /\ seen[p][o] \in Nat /\ base[p][o] \in Nat
         /\ \A p, q, o \in Peer : peerCursors[p][q][o] \in Nat
  BY BoundsAssumption DEF TypeOK, Cursors

\* What was sendable stays so while logs grow.
LEMMA Grows ==
  ASSUME TypeOK, TypeOK', NEW p \in Peer,
         \A o \in Peer : written[o] <= written'[o] /\ seen[p][o] <= seen'[p][o]
  PROVE  Existing \subseteq Existing' /\ Sendable(p) \subseteq Sendable(p)'
  <1>1. \A o \in Peer : /\ written[o] \in Nat /\ written'[o] \in Nat
                        /\ seen[p][o] \in Nat /\ seen'[p][o] \in Nat
    BY BoundsAssumption DEF TypeOK, Cursors
  <1>2. Existing \subseteq Existing'
    <2> SUFFICES ASSUME NEW f \in Existing PROVE f \in Existing'
      OBVIOUS
    <2>1. f \in FrameId /\ f[1] \in Peer /\ f[2] \in Nat /\ f[2] <= written[f[1]]
      BY DEF Existing, FrameId
    <2> QED
      BY <1>1, <2>1 DEF Existing, FrameId
  <1>3. ASSUME NEW m \in Sendable(p) PROVE m \in Sendable(p)'
    <2>1. m \in Message
      BY DEF Sendable
    <2>2. CASE m.type = "Hello"
      <3>1. \A o \in Peer : m.cursors[o] \in Nat /\ m.cursors[o] <= seen[p][o]
        BY <2>1, <2>2, BoundsAssumption DEF Sendable, Message, Cursors
      <3>2. \A o \in Peer : m.cursors[o] <= seen'[p][o]
        BY <1>1, <3>1
      <3> QED
        BY <2>1, <2>2, <3>2 DEF Sendable, Message
    <2>3. CASE m.type = "Delta"
      <3>1. \A o \in Peer : m.hi[o] \in Nat /\ m.hi[o] <= written[o]
        BY <2>1, <2>3, BoundsAssumption DEF Sendable, Message, Cursors
      <3>2. \A o \in Peer : m.hi[o] <= written'[o]
        BY <1>1, <3>1
      <3> QED
        BY <2>1, <2>3, <3>2 DEF Sendable, Message
    <2> QED
      BY <2>1, <2>2, <2>3 DEF Message
  <1> QED
    BY <1>2, <1>3

\* The part of Sound that sessions see, when only they move.
LEMMA SessionsMove ==
  ASSUME Sound, TypeOK', UNCHANGED <<written, seen, base>>,
         \A p, q, o \in Peer : peerCursors'[p][q][o] <= seen[q][o],
         \A p \in Peer : unsent'[p] \subseteq Existing,
         \A e \in End : outbound'[e] \in Seq(Existing) /\ chan'[e] \in Seq(Sendable(e[1]))
  PROVE  Sound'
  <1>1. Existing' = Existing /\ \A p \in Peer : Sendable(p)' = Sendable(p)
    BY DEF Existing, Sendable
  <1>2. \A e \in End : Sendable(e[1])' = Sendable(e[1])
    BY <1>1, EndFacts
  <1>3. ReclaimedIsDelivered'
    BY DEF Sound, ReclaimedIsDelivered
  <1> QED
    BY <1>1, <1>2, <1>3 DEF Sound

\* A peer may send its own cursors.
LEMMA HelloSendable ==
  ASSUME TypeOK, NEW p \in Peer
  PROVE  HelloMsg(seen[p]) \in Sendable(p)
  <1>1. seen[p] \in Cursors /\ \A o \in Peer : seen[p][o] <= seen[p][o]
    BY BoundsAssumption, SMTT(60) DEF TypeOK, Cursors
  <1> QED
    BY <1>1 DEF HelloMsg, Sendable, Message

\* Sending a message that may be sent.
LEMMA SendInv ==
  ASSUME Sound, NEW e \in End, NEW m \in Sendable(e[1]),
         chan' = [chan EXCEPT ![e] = Append(@, m)],
         conn' = conn, running' \in [End -> BOOLEAN], knows' = knows, owes' \in [End -> BOOLEAN],
         outbound' \in [End -> Seq(Existing)],
         UNCHANGED <<written, seen, base, peerCursors, unsent, faults>>
  PROVE  Sound'
  <1> USE DEF Sound
  <1>1. \A x \in End : chan'[x] \in Seq(Sendable(x[1]))
    <2> SUFFICES ASSUME NEW x \in End PROVE chan'[x] \in Seq(Sendable(x[1]))
      OBVIOUS
    <2>1. chan'[x] = IF x = e THEN Append(chan[e], m) ELSE chan[x]
      BY DEF TypeOK
    <2>2. Append(chan[e], m) \in Seq(Sendable(e[1]))
      BY AppendOver
    <2> QED
      BY <2>1, <2>2, Zenon
  <1>2. \A x \in End : outbound'[x] \in Seq(Existing)
    OBVIOUS
  <1>3. TypeOK'
    <2>1. ASSUME NEW x \in End PROVE chan'[x] \in Seq(Message)
      <3>1. Sendable(x[1]) \subseteq Message
        BY DEF Sendable
      <3> QED
        BY <1>1, <3>1, SeqMonotonic
    <2>2. chan' \in [End -> Seq(Message)]
      BY <2>1 DEF TypeOK
    <2>3. \A x \in End : outbound'[x] \in Seq(FrameId)
      BY <1>2, SeqMonotonic, ZenonT(60) DEF Existing
    <2>4. outbound' \in [End -> Seq(FrameId)]
      BY <2>3
    <2> QED
      BY <2>2, <2>4 DEF TypeOK
  <1> QED
    BY <1>1, <1>2, <1>3, SessionsMove

\* Tearing links down, with whatever else is forgotten.
LEMMA TearDownInv ==
  ASSUME Sound, NEW ls, TearDown(ls), UNCHANGED <<written, seen>>,
         faults' \in 0 .. MaxFaults,
         \A p, o \in Peer : base'[p][o] = base[p][o] \/ base'[p][o] = 0, base' \in [Peer -> Cursors],
         \A p, q, o \in Peer : peerCursors'[p][q][o] = peerCursors[p][q][o] \/ peerCursors'[p][q][o] = 0,
         peerCursors' \in [Peer -> [Peer -> Cursors]],
         unsent' \in [Peer -> SUBSET FrameId], \A p \in Peer : unsent'[p] \subseteq unsent[p]
  PROVE  Sound'
  <1> USE DEF Sound
  <1>1. \A e \in End : /\ outbound'[e] = << >> \/ outbound'[e] = outbound[e]
                       /\ chan'[e] = << >> \/ chan'[e] = chan[e]
    BY DEF TearDown
  <1>2. \A e \in End : outbound'[e] \in Seq(Existing) /\ chan'[e] \in Seq(Sendable(e[1]))
    BY <1>1, EmptySeq, Zenon
  <1>3. TypeOK'
    <2>1. /\ running' \in [End -> BOOLEAN] /\ knows' \in [End -> BOOLEAN] /\ owes' \in [End -> BOOLEAN]
          /\ conn' \subseteq Link
      BY DEF TypeOK, TearDown
    <2>2. outbound' \in [End -> Seq(FrameId)] /\ chan' \in [End -> Seq(Message)]
      BY EmptySeq DEF TypeOK, TearDown
    <2> QED
      BY <2>1, <2>2 DEF TypeOK
  <1>4. Existing' = Existing /\ \A e \in End : Sendable(e[1])' = Sendable(e[1])
    BY DEF Existing, Sendable
  <1>5. ReclaimedIsDelivered'
    <2> SUFFICES ASSUME NEW p \in Peer, NEW o \in Peer, NEW q \in Members PROVE base'[p][o] <= seen'[q][o]
      BY DEF ReclaimedIsDelivered
    <2>1. q \in Peer /\ base[p][o] <= seen[q][o]
      BY SessionMembersAssumption DEF ReclaimedIsDelivered
    <2>2. seen[q][o] \in Nat
      BY <2>1, SessionTypes, Zenon
    <2>3. base'[p][o] = base[p][o] \/ base'[p][o] = 0
      OBVIOUS
    <2> QED
      BY <2>1, <2>2, <2>3
  <1>6. ASSUME NEW p \in Peer, NEW q \in Peer, NEW o \in Peer PROVE peerCursors'[p][q][o] <= seen'[q][o]
    <2>1. seen[q][o] \in Nat /\ peerCursors[p][q][o] <= seen[q][o]
      BY SessionTypes
    <2>2. peerCursors'[p][q][o] = peerCursors[p][q][o] \/ peerCursors'[p][q][o] = 0
      OBVIOUS
    <2> QED
      BY <2>1, <2>2
  <1>7. \A p \in Peer : unsent'[p] \subseteq Existing
    OBVIOUS
  <1> QED
    BY <1>2, <1>3, <1>4, <1>5, <1>6, <1>7, ZenonT(60)

------------------------------------------------------------------------------
(* The steps. *)

\* Before anything is written every log, cursor and queue is empty.
LEMMA InitInv == Init => Sound
  <1> SUFFICES ASSUME Init PROVE Sound
    OBVIOUS
  <1>1. 0 \in 0 .. MaxWrites /\ 0 \in 0 .. MaxFaults /\ Zero \in Cursors
    BY BoundsAssumption DEF Zero, Cursors
  <1>2. << >> \in Seq(FrameId) /\ << >> \in Seq(Message) /\ << >> \in Seq(Existing)
        /\ \A e \in End : << >> \in Seq(Sendable(e[1]))
    BY EmptySeq
  <1>3. TypeOK
    BY <1>1, <1>2 DEF Init, TypeOK
  <1>4. ReclaimedIsDelivered
    BY SessionMembersAssumption DEF Init, ReclaimedIsDelivered, Zero
  <1>5. \A e \in End : outbound[e] \in Seq(Existing) /\ chan[e] \in Seq(Sendable(e[1]))
    BY <1>2 DEF Init
  <1>6. /\ \A p, q, o \in Peer : peerCursors[p][q][o] <= seen[q][o]
        /\ \A p, o \in Peer : seen[p][o] <= written[o]
        /\ \A p \in Peer : unsent[p] \subseteq Existing
    BY DEF Init, Zero
  <1> QED
    BY <1>3, <1>4, <1>5, <1>6 DEF Sound

\* Logs that grow within what was written keep everything said about them.
LEMMA GrowInv ==
  ASSUME Sound, TypeOK', UNCHANGED <<base, peerCursors>>,
         \A p, o \in Peer : /\ written[o] <= written'[o] /\ seen[p][o] <= seen'[p][o]
                            /\ seen'[p][o] <= written'[o],
         \A p \in Peer : unsent'[p] \subseteq Existing',
         \A e \in End : outbound'[e] = outbound[e] /\ chan'[e] \in Seq(Sendable(e[1]))
  PROVE  Sound'
  <1> USE DEF Sound
  <1>1. \A p, q, o \in Peer : seen[q][o] \in Nat /\ seen'[q][o] \in Nat /\ base[p][o] \in Nat
                            /\ peerCursors[p][q][o] \in Nat
    BY BoundsAssumption DEF TypeOK, Cursors
  <1>2. ReclaimedIsDelivered'
    <2> SUFFICES ASSUME NEW p \in Peer, NEW o \in Peer, NEW q \in Members PROVE base'[p][o] <= seen'[q][o]
      BY DEF ReclaimedIsDelivered
    <2>1. q \in Peer /\ base[p][o] <= seen[q][o]
      BY SessionMembersAssumption DEF ReclaimedIsDelivered
    <2> QED
      BY <1>1, <2>1
  <1>3. ASSUME NEW p \in Peer, NEW q \in Peer, NEW o \in Peer PROVE peerCursors'[p][q][o] <= seen'[q][o]
    <2>1. peerCursors[p][q][o] <= seen[q][o] /\ seen[q][o] <= seen'[q][o]
      OBVIOUS
    <2> QED
      BY <1>1, <2>1
  <1>4. ASSUME NEW e \in End PROVE outbound'[e] \in Seq(Existing') /\ chan'[e] \in Seq(Sendable(e[1])')
    <2>1. e[1] \in Peer
      BY EndFacts
    <2>2. Existing \subseteq Existing' /\ Sendable(e[1]) \subseteq Sendable(e[1])'
      BY <2>1, Grows
    <2>3. outbound'[e] \in Seq(Existing) /\ chan'[e] \in Seq(Sendable(e[1]))
      BY Zenon
    <2> QED
      BY <2>2, <2>3, SeqMonotonic
  <1> QED
    BY <1>2, <1>3, <1>4, ZenonT(60)

\* A write grows its own log by the frame it numbers.
LEMMA LocalWriteInv ==
  ASSUME Sound, NEW p \in Peer, LocalWrite(p)
  PROVE  Sound'
  <1> USE DEF Sound, LocalWrite
  <1>1. /\ MaxWrites \in Nat /\ written[p] \in 0 .. MaxWrites /\ seen[p][p] \in 0 .. MaxWrites
        /\ Quota[p] \in 0 .. MaxWrites /\ seen[p][p] <= written[p]
    BY BoundsAssumption, QuotaAssumption, ZenonT(60) DEF TypeOK, Cursors
  <1>2. written[p] + 1 \in 1 .. MaxWrites /\ seen[p][p] + 1 \in 0 .. MaxWrites
    BY <1>1
  <1>3. written' \in Cursors /\ seen' \in [Peer -> Cursors]
    BY <1>1, <1>2 DEF TypeOK, Cursors
  <1>4. <<p, written[p] + 1>> \in FrameId
    BY <1>2 DEF FrameId
  <1>5. TypeOK'
    BY <1>3, <1>4, ZenonT(60) DEF TypeOK, loopVars
  <1>6. \A q, o \in Peer : /\ written[o] <= written'[o] /\ seen[q][o] <= seen'[q][o]
                           /\ seen'[q][o] <= written'[o]
    <2> SUFFICES ASSUME NEW q \in Peer, NEW o \in Peer
                 PROVE  /\ written[o] <= written'[o] /\ seen[q][o] <= seen'[q][o]
                        /\ seen'[q][o] <= written'[o]
      OBVIOUS
    <2>1. written'[o] = IF o = p THEN written[p] + 1 ELSE written[o]
      BY DEF TypeOK, Cursors
    <2>2. seen'[q][o] = IF q = p /\ o = p THEN seen[p][p] + 1 ELSE seen[q][o]
      BY Zenon DEF TypeOK, Cursors
    <2>3. written[o] \in Nat /\ seen[q][o] \in Nat /\ seen[q][o] <= written[o]
      BY SessionTypes
    <2> QED
      BY <1>1, <2>1, <2>2, <2>3, SMTT(60)
  <1>7. \A q \in Peer : unsent'[q] \subseteq Existing'
    <2>1. Existing \subseteq Existing'
      BY <1>5, <1>6, Grows, ZenonT(60)
    <2>2. written'[p] = written[p] + 1
      BY DEF TypeOK, Cursors
    <2>3. <<p, written[p] + 1>> \in Existing'
      BY <1>2, <1>4, <2>2 DEF Existing
    <2>4. \A q \in Peer : unsent'[q] \subseteq unsent[q] \cup {<<p, written[p] + 1>>}
      BY DEF TypeOK
    <2> QED
      BY <2>1, <2>3, <2>4, Zenon
  <1>8. UNCHANGED <<base, peerCursors>> /\ \A e \in End : outbound'[e] = outbound[e] /\ chan'[e] \in Seq(Sendable(e[1]))
    BY Zenon
  <1> QED
    BY <1>5, <1>6, <1>7, <1>8, GrowInv, Zenon

\* Fan-out queues a frame that was written.
LEMMA FanOutInv ==
  ASSUME Sound, NEW p \in Peer, NEW f \in unsent[p], FanOut(p, f)
  PROVE  Sound'
  <1> USE DEF Sound, FanOut
  <1>1. f \in Existing
    OBVIOUS
  <1>2. ASSUME NEW e \in End PROVE outbound'[e] \in Seq(Existing)
    <2>1. Append(outbound[e], f) \in Seq(Existing)
      BY <1>1, AppendOver, Zenon
    <2>2. outbound'[e] = Append(outbound[e], f) \/ outbound'[e] = outbound[e]
      OBVIOUS
    <2> QED
      BY <2>1, <2>2, Zenon
  <1>3. outbound' \in [End -> Seq(FrameId)]
    <2>1. \A e \in End : outbound'[e] \in Seq(FrameId)
      BY <1>2, SeqMonotonic, ZenonT(60) DEF Existing
    <2>2. outbound' = [e \in End |-> outbound'[e]]
      OBVIOUS
    <2> QED
      BY <2>1, <2>2, Zenon
  <1>4. unsent' \in [Peer -> SUBSET FrameId] /\ \A q \in Peer : unsent'[q] \subseteq unsent[q]
    BY DEF TypeOK
  <1>5. TypeOK'
    BY <1>3, <1>4, Zenon DEF TypeOK, logVars, loopVars
  <1>6. \A e \in End : outbound'[e] \in Seq(Existing) /\ chan'[e] \in Seq(Sendable(e[1]))
    BY <1>2, Zenon
  <1>7. /\ UNCHANGED <<written, seen, base>>
        /\ \A q, r, o \in Peer : peerCursors'[q][r][o] <= seen[r][o]
        /\ \A q \in Peer : unsent'[q] \subseteq Existing
    BY <1>4 DEF logVars
  <1> QED
    BY <1>5, <1>6, <1>7, SessionsMove, Zenon

\* A Hello, first, ticked or answering, carries the cursors as they are.
LEMMA HelloInv ==
  ASSUME Sound, NEW e \in End, Start(e) \/ TickHello(e) \/ AnswerHello(e)
  PROVE  Sound'
  <1>1. TypeOK /\ e[1] \in Peer
    BY EndFacts DEF Sound
  <1>2. HelloMsg(seen[e[1]]) \in Sendable(e[1])
    BY <1>1, HelloSendable
  <1>3. /\ chan' = [chan EXCEPT ![e] = Append(@, HelloMsg(seen[e[1]]))]
        /\ UNCHANGED <<written, seen, base, peerCursors, unsent, faults, conn, knows, outbound>>
    BY DEF Start, TickHello, AnswerHello, logVars, loopVars
  <1>4. running' \in [End -> BOOLEAN] /\ owes' \in [End -> BOOLEAN]
    BY <1>1, ZenonT(60) DEF TypeOK, Start, TickHello, AnswerHello, loopVars
  <1>5. outbound' \in [End -> Seq(Existing)]
    BY <1>1, <1>3 DEF Sound, TypeOK
  <1> QED
    BY <1>2, <1>3, <1>4, <1>5, SendInv, ZenonT(60)

\* Connecting touches no log and no queue.
LEMMA ConnectInv ==
  ASSUME Sound, NEW l \in Link, Connect(l)
  PROVE  Sound'
  <1>1. TypeOK'
    BY DEF Sound, TypeOK, Connect, logVars
  <1>2. /\ UNCHANGED <<written, seen, base>>
        /\ \A p, q, o \in Peer : peerCursors'[p][q][o] <= seen[q][o]
        /\ \A p \in Peer : unsent'[p] \subseteq Existing
        /\ \A e \in End : outbound'[e] \in Seq(Existing) /\ chan'[e] \in Seq(Sendable(e[1]))
    BY DEF Sound, Connect, logVars
  <1> QED
    BY <1>1, <1>2, SessionsMove

\* A lost connection empties queues.
LEMMA DropInv ==
  ASSUME Sound, NEW l \in Link, Drop(l)
  PROVE  Sound'
  <1>1. TypeOK
    BY DEF Sound
  <1>2. faults' \in 0 .. MaxFaults
    BY <1>1, BoundsAssumption DEF TypeOK, Drop
  <1>3. /\ TearDown({l})
        /\ UNCHANGED <<written, seen, base, peerCursors, unsent>>
    BY DEF Drop, logVars
  <1> QED
    BY <1>1, <1>2, <1>3, TearDownInv, ZenonT(60) DEF TypeOK

\* A refused message ends its session, as a lost connection does.
LEMMA ReadTooLargeInv ==
  ASSUME Sound, NEW e \in End, ReadTooLarge(e)
  PROVE  Sound'
  <1>1. TypeOK
    BY DEF Sound
  <1>2. /\ TearDown({LinkOf(e)})
        /\ UNCHANGED <<written, seen, base, peerCursors, unsent, faults>>
    BY DEF ReadTooLarge, logVars
  <1> QED
    BY <1>1, <1>2, TearDownInv, ZenonT(60) DEF TypeOK

\* A crash forgets what was reclaimed and noted, and keeps the log.
LEMMA CrashInv ==
  ASSUME Sound, NEW p \in Peer, Crash(p)
  PROVE  Sound'
  <1>1. TypeOK
    BY DEF Sound
  <1>2. faults' \in 0 .. MaxFaults
    BY <1>1, BoundsAssumption DEF TypeOK, Crash
  <1>3. TearDown({l \in conn : p \in l}) /\ UNCHANGED <<written, seen>>
    BY DEF Crash
  <1>4. Zero \in Cursors /\ \A o \in Peer : Zero[o] = 0
    BY BoundsAssumption DEF Zero, Cursors
  <1>5. base' \in [Peer -> Cursors]
        /\ \A q, o \in Peer : base'[q][o] = base[q][o] \/ base'[q][o] = 0
    BY <1>1, <1>4 DEF TypeOK, Crash
  <1>6. peerCursors' \in [Peer -> [Peer -> Cursors]]
        /\ \A q, r, o \in Peer : peerCursors'[q][r][o] = peerCursors[q][r][o] \/ peerCursors'[q][r][o] = 0
    BY <1>1, <1>4 DEF TypeOK, Crash
  <1>7. unsent' \in [Peer -> SUBSET FrameId] /\ \A q \in Peer : unsent'[q] \subseteq unsent[q]
    BY <1>1 DEF TypeOK, Crash
  <1> QED
    BY <1>2, <1>3, <1>5, <1>6, <1>7, TearDownInv, ZenonT(60)

\* A push sends one written frame.
LEMMA PushInv ==
  ASSUME Sound, NEW e \in End, Push(e)
  PROVE  Sound'
  <1> DEFINE f == Head(outbound[e])
             m == DeltaMsg([Zero EXCEPT ![f[1]] = f[2] - 1], [Zero EXCEPT ![f[1]] = f[2]])
  <1>1. outbound[e] \in Seq(Existing) /\ outbound[e] # << >>
    BY DEF Sound, Push
  <1>2. f \in Existing /\ Tail(outbound[e]) \in Seq(Existing)
    BY <1>1, HeadTailProperties
  <1>3. /\ chan' = [chan EXCEPT ![e] = Append(@, m)]
        /\ outbound' = [outbound EXCEPT ![e] = Tail(@)]
        /\ UNCHANGED <<written, seen, base, peerCursors, unsent, faults, conn, running, knows, owes>>
    BY DEF Push, logVars, loopVars
  <1>4. m \in Sendable(e[1])
    <2> HIDE DEF f
    <2>1. f[1] \in Peer /\ f[2] \in 1 .. MaxWrites /\ f[2] <= written[f[1]] /\ MaxWrites \in Nat
      BY <1>2, BoundsAssumption DEF Existing, FrameId
    <2>2. f[2] - 1 \in 0 .. MaxWrites /\ f[2] \in 0 .. MaxWrites
      BY <2>1
    <2>3. [Zero EXCEPT ![f[1]] = f[2] - 1] \in Cursors /\ [Zero EXCEPT ![f[1]] = f[2]] \in Cursors
      BY <2>1, <2>2 DEF Zero, Cursors
    <2>4. \A o \in Peer : [Zero EXCEPT ![f[1]] = f[2]][o] <= written[o]
      <3>1. \A o \in Peer : written[o] \in Nat
        BY SessionTypes DEF Sound
      <3> QED
        BY <2>1, <3>1 DEF Zero
    <2> QED
      BY <2>3, <2>4, ZenonT(60) DEF DeltaMsg, Sendable, Message
  <1>5. outbound' \in [End -> Seq(Existing)]
    BY <1>2, <1>3, ZenonT(60) DEF Sound, TypeOK
  <1>6. running' \in [End -> BOOLEAN] /\ owes' \in [End -> BOOLEAN]
    BY <1>3 DEF Sound, TypeOK
  <1> HIDE DEF m
  <1> QED
    BY <1>3, <1>4, <1>5, <1>6, SendInv, ZenonT(60)

\* What delta_since answers may be sent.
LEMMA DeltaSendable ==
  ASSUME Sound, NEW p \in Peer, NEW theirs \in Cursors
  PROVE  DeltaSince(p, theirs) \in Sendable(p)
  <1> DEFINE lo == [o \in Peer |-> Min({seen[p][o], Max({theirs[o], base[p][o]})})]
  <1>1. \A o \in Peer : /\ seen[p][o] \in 0 .. MaxWrites /\ base[p][o] \in 0 .. MaxWrites
                        /\ theirs[o] \in 0 .. MaxWrites
    BY DEF Sound, TypeOK, Cursors
  <1>2. MaxWrites \in Nat
    BY BoundsAssumption
  <1>3. ASSUME NEW o \in Peer PROVE Min({seen[p][o], Max({theirs[o], base[p][o]})}) \in 0 .. MaxWrites
    <2> DEFINE hi == Max({theirs[o], base[p][o]})
    <2>1. theirs[o] \in Nat /\ base[p][o] \in Nat /\ seen[p][o] \in Nat
      BY <1>1, <1>2
    <2>2. hi \in {theirs[o], base[p][o]}
      BY <2>1, MinMaxOfTwo, Zenon
    <2> HIDE DEF hi
    <2>3. hi \in Nat /\ hi \in 0 .. MaxWrites
      BY <1>1, <2>1, <2>2
    <2>4. Min({seen[p][o], hi}) \in {seen[p][o], hi}
      BY <2>1, <2>3, MinMaxOfTwo, ZenonT(60)
    <2>5. Min({seen[p][o], hi}) \in 0 .. MaxWrites
      BY <1>1, <2>3, <2>4, Zenon
    <2> QED
      BY <2>5 DEF hi
  <1>4. lo \in Cursors
    BY <1>3, Zenon DEF Cursors
  <1>5. seen[p] \in Cursors /\ \A o \in Peer : seen[p][o] <= written[o]
    BY DEF Sound, TypeOK
  <1>6. DeltaSince(p, theirs) = DeltaMsg(lo, seen[p])
    BY DEF DeltaSince
  <1> HIDE DEF lo
  <1> QED
    BY <1>4, <1>5, <1>6, SMTT(60) DEF DeltaMsg, Sendable, Message

\* Noting the cursors of a Hello, which were behind when sent, and serving it.
LEMMA ReadHelloInv ==
  ASSUME Sound, NEW e \in End, ReadHello(e)
  PROVE  Sound'
  <1> DEFINE x == Other(e)
             m == Head(chan[x])
             delta == DeltaSince(e[1], m.cursors)
             answer == PeerAhead(m.cursors, seen[e[1]]) \/ ~(e[1] < e[2])
  <1>1. x \in End /\ x # e /\ x[1] = e[2] /\ e[1] \in Peer /\ e[2] \in Peer
    BY EndFacts, Zenon
  <1>2. TypeOK
    BY DEF Sound
  <1>3. /\ chan[x] # << >> /\ m.type = "Hello"
        /\ knows' = [knows EXCEPT ![e] = TRUE]
        /\ peerCursors' = [peerCursors EXCEPT ![e[1]][e[2]] = m.cursors]
        /\ owes' = [owes EXCEPT ![e] = answer]
        /\ chan' = [chan EXCEPT ![x] = Tail(@), ![e] = IF Frames(delta) > 0 THEN Append(@, delta) ELSE @]
        /\ UNCHANGED <<written, seen, base, unsent, conn, running, outbound, faults>>
    BY Zenon DEF ReadHello, HasHello, OnHello, logVars
  <1>4. chan[x] \in Seq(Sendable(e[2]))
    BY <1>1 DEF Sound
  <1>5. m \in Sendable(e[2]) /\ Tail(chan[x]) \in Seq(Sendable(e[2]))
    BY <1>3, <1>4, HeadTailProperties, ZenonT(60)
  <1> HIDE DEF m
  <1>6. m.cursors \in Cursors /\ \A o \in Peer : m.cursors[o] <= seen[e[2]][o]
    BY <1>3, <1>5, ZenonT(60) DEF Sendable, Message
  <1>7. delta \in Sendable(e[1])
    BY <1>1, <1>6, DeltaSendable
  <1> HIDE DEF delta, answer, x
  <1>8. ASSUME NEW y \in End PROVE chan'[y] \in Seq(Sendable(y[1]))
    <2>1. CASE y = e
      <3>1. chan'[e] = chan[e] \/ chan'[e] = Append(chan[e], delta)
        BY <1>1, <1>2, <1>3, Zenon DEF TypeOK
      <3>2. chan[e] \in Seq(Sendable(e[1]))
        BY DEF Sound
      <3>3. Append(chan[e], delta) \in Seq(Sendable(e[1]))
        BY <1>7, <3>2, AppendOver, Zenon
      <3> QED
        BY <2>1, <3>1, <3>2, <3>3, Zenon
    <2>2. CASE y = x
      <3>1. chan'[x] = Tail(chan[x])
        BY <1>1, <1>2, <1>3, Zenon DEF TypeOK
      <3> QED
        BY <1>1, <1>5, <2>2, <3>1, Zenon
    <2>3. CASE y # e /\ y # x
      <3>1. chan'[y] = chan[y]
        BY <1>1, <1>2, <1>3, <2>3, Zenon DEF TypeOK
      <3> QED
        BY <3>1, Zenon DEF Sound
    <2> QED
      BY <2>1, <2>2, <2>3
  <1>9. peerCursors' \in [Peer -> [Peer -> Cursors]]
    BY <1>1, <1>2, <1>3, <1>6, Zenon DEF TypeOK
  <1>10. answer \in BOOLEAN
    BY Zenon DEF answer
  <1>11. TypeOK'
    <2>1. \A y \in End : chan'[y] \in Seq(Message)
      <3> SUFFICES ASSUME NEW y \in End PROVE chan'[y] \in Seq(Message)
        OBVIOUS
      <3>1. Sendable(y[1]) \subseteq Message
        BY DEF Sendable
      <3> QED
        BY <1>8, <3>1, SeqMonotonic, Zenon
    <2>2. chan' \in [End -> Seq(Message)]
      <3>1. chan' = [y \in End |-> chan'[y]]
        BY <1>2, <1>3, ZenonT(60) DEF TypeOK
      <3> QED
        BY <2>1, <3>1
    <2>3. knows' \in [End -> BOOLEAN] /\ owes' \in [End -> BOOLEAN]
      BY <1>2, <1>3, <1>10, Zenon DEF TypeOK
    <2> QED
      BY <1>2, <1>3, <1>9, <2>2, <2>3, ZenonT(60) DEF TypeOK
  <1>12. \A p, q, o \in Peer : peerCursors'[p][q][o] <= seen[q][o]
    <2> SUFFICES ASSUME NEW p \in Peer, NEW q \in Peer, NEW o \in Peer
                 PROVE  peerCursors'[p][q][o] <= seen[q][o]
      OBVIOUS
    <2>1. peerCursors'[p][q] = IF p = e[1] /\ q = e[2] THEN m.cursors ELSE peerCursors[p][q]
      BY <1>1, <1>2, <1>3, Zenon DEF TypeOK
    <2>2. peerCursors[p][q][o] <= seen[q][o]
      BY Zenon DEF Sound
    <2> QED
      BY <1>6, <2>1, <2>2, Zenon
  <1>13. /\ UNCHANGED <<written, seen, base>>
         /\ \A p \in Peer : unsent'[p] \subseteq Existing
         /\ \A y \in End : outbound'[y] \in Seq(Existing) /\ chan'[y] \in Seq(Sendable(y[1]))
    BY <1>3, <1>8, ZenonT(60) DEF Sound
  <1> QED
    BY <1>11, <1>12, <1>13, SessionsMove, Zenon

\* A Delta that is read: no cursor goes back, and none passes its origin.
LEMMA ApplyInv ==
  ASSUME Sound, NEW e \in End, HasDelta(e), faults' \in 0 .. MaxFaults,
         NEW upTo \in Cursors, Apply(e, upTo),
         \A o \in Peer : upTo[o] <= Head(chan[Other(e)]).hi[o]
  PROVE  Sound'
  <1> DEFINE x == Other(e)
             m == Head(chan[x])
             p == e[1]
  <1>1. x \in End /\ x[1] = e[2] /\ p \in Peer
    BY EndFacts, Zenon
  <1>2. TypeOK
    BY Zenon DEF Sound
  <1>3. /\ chan[x] # << >> /\ m.type = "Delta"
        /\ seen' = [seen EXCEPT ![p] = Applied(@, m.lo, upTo)]
        /\ chan' = [chan EXCEPT ![x] = Tail(@)]
        /\ UNCHANGED <<written, base, peerCursors, unsent, conn, running, knows, owes, outbound>>
    BY Zenon DEF HasDelta, Apply, loopVars
  <1>4. chan[x] \in Seq(Sendable(x[1])) /\ chan[x] \in Seq(Message)
    BY <1>1, <1>2, Zenon DEF Sound, TypeOK
  <1>5. m \in Sendable(x[1]) /\ Tail(chan[x]) \in Seq(Sendable(x[1])) /\ Tail(chan[x]) \in Seq(Message)
    BY <1>3, <1>4, HeadTailProperties, ZenonT(60)
  <1>6. \A o \in Peer : upTo[o] <= m.hi[o]
    OBVIOUS
  <1> HIDE DEF m, x, p
  <1>7. m.lo \in Cursors /\ m.hi \in Cursors /\ \A o \in Peer : m.hi[o] <= written[o]
    BY <1>3, <1>5 DEF Sendable, Message
  <1>8. \A o \in Peer : /\ upTo[o] \in 0 .. MaxWrites /\ m.hi[o] \in 0 .. MaxWrites
                        /\ m.lo[o] \in 0 .. MaxWrites /\ seen[p][o] \in 0 .. MaxWrites
                        /\ written[o] \in 0 .. MaxWrites
    BY <1>1, <1>2, <1>7, ZenonT(60) DEF Cursors, TypeOK
  <1>9. \A o \in Peer : /\ Applied(seen[p], m.lo, upTo)[o] \in 0 .. MaxWrites
                        /\ seen[p][o] <= Applied(seen[p], m.lo, upTo)[o]
                        /\ Applied(seen[p], m.lo, upTo)[o] <= written[o]
    <2> SUFFICES ASSUME NEW o \in Peer
                 PROVE  /\ Applied(seen[p], m.lo, upTo)[o] \in 0 .. MaxWrites
                        /\ seen[p][o] <= Applied(seen[p], m.lo, upTo)[o]
                        /\ Applied(seen[p], m.lo, upTo)[o] <= written[o]
      OBVIOUS
    <2>1. Applied(seen[p], m.lo, upTo)[o] =
            IF m.lo[o] <= seen[p][o] /\ upTo[o] > seen[p][o] THEN upTo[o] ELSE seen[p][o]
      BY Zenon DEF Applied
    <2>2. seen[p][o] <= written[o] /\ upTo[o] <= m.hi[o] /\ m.hi[o] <= written[o] /\ MaxWrites \in Nat
      BY <1>1, <1>6, <1>7, BoundsAssumption, Zenon DEF Sound
    <2> QED
      BY <1>8, <2>1, <2>2, SMTT(60)
  <1>10. Applied(seen[p], m.lo, upTo) \in Cursors
    BY <1>9, Zenon DEF Applied, Cursors
  <1>11. seen' \in [Peer -> Cursors] /\ chan' \in [End -> Seq(Message)]
    BY <1>1, <1>2, <1>3, <1>5, <1>10, Zenon DEF TypeOK
  <1>12. TypeOK'
    BY <1>2, <1>3, <1>11, ZenonT(60) DEF TypeOK
  <1>13. \A q, o \in Peer : /\ written[o] <= written'[o] /\ seen[q][o] <= seen'[q][o]
                            /\ seen'[q][o] <= written'[o]
    <2> SUFFICES ASSUME NEW q \in Peer, NEW o \in Peer
                 PROVE  /\ written[o] <= written'[o] /\ seen[q][o] <= seen'[q][o]
                        /\ seen'[q][o] <= written'[o]
      BY Zenon
    <2>1. seen'[q] = IF q = p THEN Applied(seen[p], m.lo, upTo) ELSE seen[q]
      BY <1>1, <1>2, <1>3, Zenon DEF TypeOK
    <2>2. seen[q][o] \in Nat /\ written[o] \in Nat /\ seen[q][o] <= written[o]
      BY SessionTypes, Zenon DEF Sound
    <2>3. seen[q][o] <= seen[q][o] /\ written[o] <= written[o]
      BY <2>2
    <2>4. CASE q = p
      BY <1>3, <1>9, <2>1, <2>3, <2>4, Zenon
    <2>5. CASE q # p
      BY <1>3, <2>1, <2>2, <2>3, <2>5, Zenon
    <2> QED
      BY <2>4, <2>5, Zenon
  <1>14. \A q \in Peer : unsent'[q] \subseteq Existing'
    BY <1>3, Zenon DEF Sound, Existing
  <1>15. \A y \in End : outbound'[y] = outbound[y] /\ chan'[y] \in Seq(Sendable(y[1]))
    <2> SUFFICES ASSUME NEW y \in End PROVE chan'[y] \in Seq(Sendable(y[1]))
      BY <1>3, ZenonT(60)
    <2>1. chan'[y] = IF y = x THEN Tail(chan[x]) ELSE chan[y]
      BY <1>1, <1>2, <1>3 DEF TypeOK
    <2> QED
      BY <1>5, <2>1, Zenon DEF Sound
  <1> QED
    BY <1>3, <1>12, <1>13, <1>14, <1>15, GrowInv, ZenonT(60)

\* A Delta applied in full, or up to the frame whose append fails.
LEMMA ReadDeltaInv ==
  ASSUME Sound, NEW e \in End, ReadDelta(e) \/ ReadDeltaUnpersisted(e)
  PROVE  Sound'
  <1> DEFINE x == Other(e)
             m == Head(chan[x])
  <1>1. HasDelta(e)
    BY Zenon DEF ReadDelta, ReadDeltaUnpersisted
  <1>2. x \in End /\ chan[x] # << >> /\ m.type = "Delta" /\ chan[x] \in Seq(Message)
    BY <1>1, EndFacts, Zenon DEF HasDelta, Sound, TypeOK
  <1>3. m \in Message
    BY <1>2, HeadTailProperties, Zenon
  <1>4. m.hi \in Cursors /\ m.lo \in Cursors
    BY <1>2, <1>3, Zenon DEF Message
  <1>5. MaxWrites \in Nat /\ \A o \in Peer : m.hi[o] \in 0 .. MaxWrites /\ m.lo[o] \in 0 .. MaxWrites
    BY <1>4, BoundsAssumption, Zenon DEF Cursors
  <1>6. CASE ReadDelta(e)
    <2>1. Apply(e, m.hi) /\ faults' = faults
      BY <1>6, Zenon DEF ReadDelta
    <2>2. faults' \in 0 .. MaxFaults
      BY <2>1, Zenon DEF Sound, TypeOK
    <2>3. \A o \in Peer : m.hi[o] <= m.hi[o]
      BY <1>5, SMTT(60)
    <2> QED
      BY <1>1, <1>4, <2>1, <2>2, <2>3, ApplyInv, Zenon
  <1>7. CASE ReadDeltaUnpersisted(e)
    <2>1. PICK o \in Peer : \E n \in m.lo[o] .. m.hi[o] - 1 : Apply(e, [m.hi EXCEPT ![o] = n])
      BY <1>7, Zenon DEF ReadDeltaUnpersisted
    <2>2. PICK n \in m.lo[o] .. m.hi[o] - 1 : Apply(e, [m.hi EXCEPT ![o] = n])
      BY <2>1, ZenonT(60)
    <2> DEFINE upTo == [m.hi EXCEPT ![o] = n]
    <2>3. n \in 0 .. MaxWrites /\ n <= m.hi[o]
      BY <1>5, <2>2, SMTT(60)
    <2>4. upTo \in Cursors
      BY <1>4, <2>3, ZenonT(60) DEF Cursors
    <2>5. \A a \in Peer : upTo[a] <= m.hi[a]
      BY <1>4, <1>5, <2>3, SMTT(60) DEF Cursors
    <2>6. faults' \in 0 .. MaxFaults
      <3>1. faults < MaxFaults /\ faults' = faults + 1
        BY <1>7, Zenon DEF ReadDeltaUnpersisted
      <3>2. faults \in 0 .. MaxFaults /\ MaxFaults \in Nat
        BY BoundsAssumption, ZenonT(60) DEF Sound, TypeOK
      <3> QED
        BY <3>1, <3>2, SMTT(60)
    <2>7. Apply(e, upTo)
      BY <2>2
    <2> HIDE DEF upTo
    <2> QED
      BY <1>1, <2>4, <2>5, <2>6, <2>7, ApplyInv, Zenon
  <1> QED
    BY <1>6, <1>7, Zenon

\* The low-water-mark is behind every member, the reclaiming peer included.
LEMMA LowWaterBehind ==
  ASSUME Sound, NEW p \in Peer, NEW o \in Peer
  PROVE  /\ LowWater(p, o) \in Nat /\ LowWater(p, o) <= seen[p][o]
         /\ \A q \in Members : LowWater(p, o) <= seen[q][o]
  <1> DEFINE S == {seen[p][o]} \cup {peerCursors[p][m][o] : m \in Members \ {p}}
  <1>1. TypeOK /\ Members \subseteq Peer
    BY SessionMembersAssumption, Zenon DEF Sound
  <1>2. /\ \A q, r \in Peer : seen[q][o] \in Nat /\ peerCursors[q][r][o] \in Nat
        /\ \A r \in Peer : peerCursors[p][r][o] <= seen[r][o]
    BY <1>1, SessionTypes, Zenon DEF Sound
  <1>3. S \in SUBSET Nat /\ seen[p][o] \in S
    BY <1>1, <1>2, Zenon
  <1>4. \A q \in Members \ {p} : peerCursors[p][q][o] \in S
    OBVIOUS
  <1>5. LowWater(p, o) = Min(S)
    BY DEF LowWater
  <1> HIDE DEF S
  <1>6. LowWater(p, o) \in Nat /\ LowWater(p, o) <= seen[p][o]
    BY <1>3, <1>5, MinIsLower, ZenonT(60)
  <1>7. ASSUME NEW q \in Members PROVE LowWater(p, o) <= seen[q][o]
    <2>1. CASE q = p
      BY <1>6, <2>1
    <2>2. CASE q # p
      <3>1. LowWater(p, o) <= peerCursors[p][q][o]
        BY <1>3, <1>4, <1>5, <2>2, MinIsLower, ZenonT(60)
      <3>2. peerCursors[p][q][o] <= seen[q][o] /\ peerCursors[p][q][o] \in Nat /\ seen[q][o] \in Nat
        BY <1>1, <1>2, Zenon
      <3> QED
        BY <1>6, <3>1, <3>2
    <2> QED
      BY <2>1, <2>2
  <1> QED
    BY <1>6, <1>7, Zenon

\* Reclaim moves base to the low-water-mark at most.
LEMMA ReclaimInv ==
  ASSUME Sound, NEW p \in Peer, Reclaim(p)
  PROVE  Sound'
  <1>1. TypeOK
    BY DEF Sound
  <1>2. /\ UNCHANGED <<written, seen, peerCursors, unsent, conn, running, knows, owes, outbound, chan, faults>>
        /\ base' = [base EXCEPT ![p] = [o \in Peer |-> Max({base[p][o], LowWater(p, o)})]]
    BY DEF Reclaim, loopVars
  <1>3. ASSUME NEW o \in Peer
        PROVE  Max({base[p][o], LowWater(p, o)}) \in {base[p][o], LowWater(p, o)}
    <2>1. base[p][o] \in Nat /\ LowWater(p, o) \in Nat
      BY <1>1, SessionTypes, LowWaterBehind, Zenon
    <2> QED
      BY <2>1, MinMaxOfTwo, ZenonT(60)
  <1>4. ASSUME NEW o \in Peer PROVE base[p][o] \in 0 .. MaxWrites /\ LowWater(p, o) \in 0 .. MaxWrites
    <2>1. base[p][o] \in 0 .. MaxWrites /\ seen[p][o] \in 0 .. MaxWrites /\ MaxWrites \in Nat
      BY <1>1, BoundsAssumption, Zenon DEF TypeOK, Cursors
    <2>2. LowWater(p, o) \in Nat /\ LowWater(p, o) <= seen[p][o]
      BY LowWaterBehind, Zenon
    <2> QED
      BY <2>1, <2>2, SMTT(60)
  <1>5. [o \in Peer |-> Max({base[p][o], LowWater(p, o)})] \in Cursors
    BY <1>3, <1>4, Zenon DEF Cursors
  <1>6. base' \in [Peer -> Cursors]
    BY <1>1, <1>2, <1>5, Zenon DEF TypeOK
  <1>7. TypeOK'
    BY <1>1, <1>2, <1>6, Zenon DEF TypeOK
  <1>8. ReclaimedIsDelivered'
    <2> SUFFICES ASSUME NEW r \in Peer, NEW o \in Peer, NEW q \in Members PROVE base'[r][o] <= seen'[q][o]
      BY Zenon DEF ReclaimedIsDelivered
    <2>1. base[r][o] <= seen[q][o]
      BY Zenon DEF Sound, ReclaimedIsDelivered
    <2>2. LowWater(p, o) <= seen[q][o]
      BY LowWaterBehind, Zenon
    <2>3. base'[r][o] = IF r = p THEN Max({base[p][o], LowWater(p, o)}) ELSE base[r][o]
      BY <1>1, <1>2, Zenon DEF TypeOK
    <2> QED
      BY <1>2, <1>3, <2>1, <2>2, <2>3, Zenon
  <1>9. Existing' = Existing /\ \A q \in Peer : Sendable(q)' = Sendable(q)
    BY <1>2, Zenon DEF Existing, Sendable
  <1>10. \A e \in End : Sendable(e[1])' = Sendable(e[1])
    BY <1>9, EndFacts, Zenon
  <1> QED
    BY <1>2, <1>7, <1>8, <1>9, <1>10, ZenonT(60) DEF Sound

\* A step that changes nothing.
LEMMA StutterInv ==
  ASSUME Sound, UNCHANGED vars
  PROVE  Sound'
  <1>1. Existing' = Existing /\ \A e \in End : Sendable(e[1])' = Sendable(e[1])
    BY Zenon DEF vars, Existing, Sendable
  <1>2. TypeOK' /\ ReclaimedIsDelivered'
    BY Zenon DEF vars, Sound, TypeOK, ReclaimedIsDelivered
  <1> QED
    BY <1>1, <1>2, Zenon DEF vars, Sound

\* Sound is inductive.
LEMMA StepInv == Sound /\ [Next]_vars => Sound'
  <1> SUFFICES ASSUME Sound, [Next]_vars PROVE Sound'
    OBVIOUS
  <1>1. ASSUME NEW p \in Peer, LocalWrite(p) PROVE Sound'
    BY <1>1, LocalWriteInv
  <1>2. ASSUME NEW p \in Peer, Crash(p) PROVE Sound'
    BY <1>2, CrashInv, Zenon
  <1>3. ASSUME NEW p \in Peer, Reclaim(p) PROVE Sound'
    BY <1>3, ReclaimInv
  <1>4. ASSUME NEW p \in Peer, NEW f \in unsent[p], FanOut(p, f) PROVE Sound'
    BY <1>4, FanOutInv, ZenonT(60)
  <1>5. ASSUME NEW l \in Link, Connect(l) PROVE Sound'
    BY <1>5, ConnectInv
  <1>6. ASSUME NEW l \in Link, Drop(l) PROVE Sound'
    BY <1>6, DropInv
  <1>7. ASSUME NEW e \in End, Start(e) \/ TickHello(e) \/ AnswerHello(e) PROVE Sound'
    BY <1>7, HelloInv
  <1>8. ASSUME NEW e \in End, Push(e) PROVE Sound'
    BY <1>8, PushInv
  <1>9. ASSUME NEW e \in End, ReadHello(e) PROVE Sound'
    BY <1>9, ReadHelloInv
  <1>10. ASSUME NEW e \in End, ReadDelta(e) \/ ReadDeltaUnpersisted(e) PROVE Sound'
    BY <1>10, ReadDeltaInv, Zenon
  <1>11. ASSUME NEW e \in End, ReadTooLarge(e) PROVE Sound'
    BY <1>11, ReadTooLargeInv
  <1>12. CASE UNCHANGED vars
    BY <1>12, StutterInv
  <1> QED
    BY <1>1, <1>2, <1>3, <1>4, <1>5, <1>6, <1>7, <1>8, <1>9, <1>10, <1>11, <1>12, ZenonT(60) DEF Next, Read

\* Whatever is written, lost, restarted and reclaimed in whatever order, reclaim
\* drops no frame that a listed member lacks, no cursor on its way or noted is
\* ahead of its owner's log, and no log holds a frame its origin did not write.
THEOREM SessionIsSound == Spec => []SessionSound
  <1>1. Sound => SessionSound
    BY Equivalent
  <1> QED
    BY <1>1, InitInv, StepInv, PTL DEF Spec
==============================================================================
