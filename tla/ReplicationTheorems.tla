------------------------- MODULE ReplicationTheorems -------------------------
(***************************************************************************)
(* What holds of Replication in every reachable state, for any peers,      *)
(* records, number of writes and wall clock readings; and that it          *)
(* implements ConvergentStore.  That a step maps to a step follows from    *)
(* the inductive invariant before and after it, and from what it does to   *)
(* the history of the peer that takes it: grow by one write at most.       *)
(***************************************************************************)
EXTENDS ReplicationWrites, ReplicationDelivery, ReplicationRestart, ReplicationPromise

------------------------------------------------------------------------------
(* The invariant is inductive. *)

\* The initial state, every peer running and empty, satisfies the invariant.
LEMMA InitInv ==
  ASSUME Init PROVE IInv
  <1> USE DEF Init
  <1>1. ZeroHlc \in Hlc /\ EmptyLog \in Log /\ EmptyCell \in Cell
    <2>1. ZeroHlc \in Hlc
      BY LogicalModAssumption DEF ZeroHlc, Hlc
    <2>2. EmptyLog \in Log
      BY DEF EmptyLog, Log
    <2>3. EmptyCell \in Cell
      BY DEF EmptyCell, Cell
    <2> QED
      BY <2>1, <2>2, <2>3
  <1>2. TypeOK
    BY <1>1 DEF TypeOK
  <1>3. ASSUME NEW p \in Peer, NEW o \in Peer
        PROVE  /\ Seen(p)[o] = 0 /\ Len(written[o]) = 0 /\ Len(disk[p][o]) = 0
               /\ log[p].base[o] = 0 /\ Len(log[p].observed[o]) = 0
    BY DEF Seen, Cursors, CursorFor, EmptyLog
  <1>4. WrittenInv /\ PrefixConsistent /\ OwnInv
    BY <1>3 DEF WrittenInv, StampsIncrease, PrefixConsistent, OwnInv
  <1>5. DiskInv
    BY <1>3, DurableAssumption DEF DiskInv, OwnDiskOK, DiskOK
  <1>6. ClockInv
    BY <1>3 DEF ClockInv
  <1>7. CellInv
    BY <1>3 DEF CellInv, CellOK, EmptyCell
  <1>8. MirrorFaithful
    BY DEF MirrorFaithful, Visible, EmptyCell
  <1>9. ReclaimInv
    BY <1>3, MembersAssumption DEF ReclaimInv, Held
  <1> QED
    BY <1>2, <1>4, <1>5, <1>6, <1>7, <1>8, <1>9, ZenonT(60) DEF IInv

\* No step breaks the invariant, and each is a step of one peer.
LEMMA NextInv ==
  ASSUME IInv, [Next]_vars PROVE IInv' /\ (UNCHANGED vars \/ \E p \in Peer : Progress(p))
  <1>1. ASSUME NEW p \in Peer, Write(p) PROVE IInv' /\ Progress(p)
    BY <1>1, LocalWriteInv, LocalWriteRefusedInv, ZenonT(60) DEF Write
  <1>2. ASSUME NEW p \in Peer, Deliver(p) PROVE IInv' /\ Progress(p)
    BY <1>2, ReceiveInv, HeardOnlyInv, ZenonT(60) DEF Deliver
  <1>3. ASSUME NEW p \in Peer, Restart(p) PROVE IInv' /\ Progress(p)
    BY <1>3, CrashInvariant, OpenInvariant, ReplayInvariant, ZenonT(60) DEF Restart
  <1>4. ASSUME NEW p \in Peer, Maintain(p) PROVE IInv' /\ Progress(p)
    <2>1. CASE Reclaim(p)
      BY <2>1, ReclaimInvariant, Zenon
    <2>2. CASE \E k \in Key : Collect(p, k)
      BY <2>2, CollectInvariant, Zenon
    <2>3. ASSUME NEW q \in Members \ {p}, NEW cs \in [Peer -> 0 .. MaxWrites],
                 NoteCursors(p, q, cs)
          PROVE  IInv' /\ Progress(p)
      <3>1. \A c \in 0 .. MaxWrites : c \in Nat
        OBVIOUS
      <3>2. q \in Peer /\ cs \in [Peer -> Nat]
        BY <3>1, MembersAssumption, ZenonT(60)
      <3> QED
        BY <2>3, <3>2, NoteCursorsInv, ZenonT(60)
    <2> QED
      BY <1>4, <2>1, <2>2, <2>3, ZenonT(60) DEF Maintain
  <1>5. CASE UNCHANGED vars
    <2>1. /\ clock' = clock /\ log' = log /\ cells' = cells /\ disk' = disk /\ phase' = phase
          /\ peerCursors' = peerCursors /\ written' = written /\ mirror' = mirror
      BY <1>5, Zenon DEF vars
    <2>2. TypeOK' /\ WrittenInv'
      BY <2>1, SMTT(60) DEF IInv, TypeOK, WrittenInv, StampsIncrease
    <2>3. PrefixConsistent' /\ OwnInv' /\ MirrorFaithful'
      BY <2>1, SMTT(60) DEF IInv, PrefixConsistent, OwnInv, MirrorFaithful, Seen
    <2>4. DiskInv'
      BY <2>1, SMTT(60) DEF IInv, DiskInv, OwnDiskOK, DiskOK, Seen
    <2>5. ClockInv' /\ CellInv'
      BY <2>1, SMTT(60) DEF IInv, ClockInv, CellInv, CellOK, Has, Seen
    <2>6. ReclaimInv'
      BY <2>1, SMTT(60) DEF IInv, ReclaimInv, Held, Seen
    <2> QED
      BY <1>5, <2>2, <2>3, <2>4, <2>5, <2>6, Zenon DEF IInv
  <1> QED
    BY <1>1, <1>2, <1>3, <1>4, <1>5, ZenonT(60) DEF Next

\* IInv holds in every reachable state: histories, logs, durable logs, clocks,
\* cells and reclaimed prefixes stay in step over every interleaving of local
\* writes, deliveries, failed appends, crashes, replays, reclaiming and
\* tombstone collection.
THEOREM Invariance == Spec => []IInv
  <1>1. Init => IInv
    BY InitInv
  <1>2. IInv /\ [Next]_vars => IInv'
    BY NextInv
  <1> QED
    BY <1>1, <1>2, PTL DEF Spec

------------------------------------------------------------------------------
(* The properties follow from it. *)

\* Delivered writes with the same stamp are the same write.
LEMMA StampIdentifies ==
  ASSUME IInv, NEW o \in Peer, NEW i \in 1 .. Len(written[o]),
         NEW r \in Peer, NEW j \in 1 .. Len(written[r]),
         StampLeq(written[o][i].stamp, written[r][j].stamp),
         StampLeq(written[r][j].stamp, written[o][i].stamp)
  PROVE  written[o][i] = written[r][j]
  <1> DEFINE f == written[o][i]
             g == written[r][j]
  <1>1. /\ f.stamp \in Stamp /\ g.stamp \in Stamp /\ f.stamp.hlc \in Hlc /\ g.stamp.hlc \in Hlc
        /\ Len(written[o]) \in Nat
    BY TypeFacts, FrameFields, Zenon DEF IInv
  <1>2. f.stamp = g.stamp
    <2> HIDE DEF f, g
    <2>1. StampLeq(f.stamp, g.stamp) /\ StampLeq(g.stamp, f.stamp)
      BY Zenon DEF f, g
    <2> QED
      BY <1>1, <2>1, StampOrder, ZenonT(60) DEF StampLeq
  <1>3. o = r
    BY <1>2, SMTT(60) DEF IInv, WrittenInv, IsFrameOf
  <1>4. ~(i < j) /\ ~(j < i)
    <2>1. ~HlcLt(f.stamp.hlc, g.stamp.hlc) /\ ~HlcLt(g.stamp.hlc, f.stamp.hlc)
      BY <1>1, <1>2, HlcOrder, SMTT(60)
    <2> QED
      BY <1>3, <2>1, ZenonT(60) DEF IInv, WrittenInv, StampsIncrease
  <1>5. i = j
    BY <1>1, <1>3, <1>4, SMTT(60)
  <1> QED
    BY <1>3, <1>5, Zenon

\* The members of Delivered(p), by origin and number.
LEMMA DeliveredIs ==
  ASSUME IInv, NEW p \in Peer
  PROVE  \A f : f \in Delivered(p) <=>
            \E o \in Peer : \E i \in 1 .. Len(written[o]) : Has(p, o, i) /\ f = written[o][i]
  <1>1. ASSUME NEW o \in Peer, NEW i \in 1 .. Seen(p)[o] PROVE i \in 1 .. Len(written[o])
    <2>1. Seen(p)[o] <= Len(written[o]) /\ Seen(p)[o] \in Nat /\ Len(written[o]) \in Nat
      BY TypeFacts, Zenon DEF IInv, PrefixConsistent
    <2> QED
      BY <2>1
  <1> QED
    BY <1>1 DEF Delivered, Has

\* The newest delivered write to a record is the one its cell shows.
LEMMA NewestWinsInv ==
  ASSUME IInv PROVE NewestWins
  <1> SUFFICES ASSUME NEW p \in Peer, NEW k \in Key
               PROVE  LET writes == {f \in Delivered(p) : f.key = k}
                          newest == {f \in writes : \A g \in writes : StampLeq(g.stamp, f.stamp)}
                      IN  {f \in newest : ~IsDelete(f)} = {Visible(cells[p][k])} \ {None}
    BY DEF NewestWins
  <1> DEFINE c == cells[p][k]
             writes == {f \in Delivered(p) : f.key = k}
             newest == {f \in writes : \A g \in writes : StampLeq(g.stamp, f.stamp)}
  <1>1. c \in Cell /\ CellOK(p, k, c)
    BY TypeFacts DEF IInv, CellInv
  <1>2. \A f : f \in writes <=>
            \E o \in Peer : \E i \in 1 .. Len(written[o]) :
                Has(p, o, i) /\ f = written[o][i] /\ written[o][i].key = k
    BY DeliveredIs
  <1>3. \A f \in newest : f \in writes /\ \A g \in writes : StampLeq(g.stamp, f.stamp)
    OBVIOUS
  <1>x. \A f \in writes : (\A g \in writes : StampLeq(g.stamp, f.stamp)) => f \in newest
    OBVIOUS
  <1> HIDE DEF c, writes, newest
  <1>4. \A f, g \in writes : StampLeq(f.stamp, g.stamp) /\ StampLeq(g.stamp, f.stamp) => f = g
    BY <1>2, StampIdentifies, SMTT(60)
  <1>5. \A f \in writes : f \in Frame /\ f.stamp \in Stamp /\ f # None /\ Covers(c, f.stamp)
    <2> TAKE f \in writes
    <2>1. PICK o \in Peer : \E i \in 1 .. Len(written[o]) :
                Has(p, o, i) /\ f = written[o][i] /\ written[o][i].key = k
      BY <1>2
    <2>2. PICK i \in 1 .. Len(written[o]) :
                Has(p, o, i) /\ f = written[o][i] /\ written[o][i].key = k
      BY <2>1
    <2>3. written[o][i] \in Frame
      BY TypeFacts, Zenon DEF IInv
    <2>4. Covers(c, written[o][i].stamp)
      BY <1>1, <2>2, ZenonT(60) DEF CellOK
    <2> QED
      BY <2>2, <2>3, <2>4, FrameFields, ZenonT(60)
  <1>6. c.current # None => c.current \in writes
    BY <1>1, <1>2, ZenonT(60) DEF CellOK
  <1>7. c.gcFloor # None => \E g \in writes : c.gcFloor = g.stamp /\ IsDelete(g)
    BY <1>1, <1>2, ZenonT(60) DEF CellOK
  <1>8. CASE c.current # None
    <2>1. ASSUME NEW g \in writes PROVE StampLeq(g.stamp, c.current.stamp)
      <3>1. g.stamp \in Stamp /\ c.current.stamp \in Stamp /\ Covers(c, g.stamp)
        BY <1>5, <1>6, <1>8, ZenonT(60)
      <3>2. CASE StampLeq(g.stamp, c.current.stamp)
        BY <3>2, Zenon
      <3>3. CASE c.gcFloor # None /\ StampLeq(g.stamp, c.gcFloor)
        <4>1. c.gcFloor \in Stamp /\ StampLt(c.gcFloor, c.current.stamp)
          BY <1>1, <1>5, <1>7, <1>8, <3>3, ZenonT(60) DEF CellOK
        <4> QED
          BY <3>1, <3>3, <4>1, StampOrder, ZenonT(60) DEF StampLeq
      <3> QED
        BY <3>1, <3>2, <3>3, ZenonT(60) DEF Covers
    <2>2. newest = {c.current}
      <3>1. c.current \in newest
        BY <1>6, <1>8, <1>x, <2>1, ZenonT(60)
      <3>2. \A f \in newest : f = c.current
        BY <1>3, <1>4, <1>6, <1>8, <2>1, ZenonT(60)
      <3> QED
        BY <3>1, <3>2
    <2> QED
      BY <1>8, <2>2, ZenonT(60) DEF Visible, c, writes, newest
  <1>9. CASE c.current = None
    <2>1. ASSUME NEW f \in newest PROVE IsDelete(f)
      <3>1. Covers(c, f.stamp) /\ f \in writes
        BY <1>3, <1>5, ZenonT(60)
      <3>2. c.gcFloor # None /\ StampLeq(f.stamp, c.gcFloor)
        BY <1>9, <3>1, ZenonT(60) DEF Covers
      <3>3. PICK g \in writes : c.gcFloor = g.stamp /\ IsDelete(g)
        BY <1>7, <3>2, ZenonT(60)
      <3>4. f = g
        BY <1>3, <1>4, <3>1, <3>2, <3>3, ZenonT(60)
      <3> QED
        BY <3>3, <3>4, ZenonT(60)
    <2>2. Visible(c) = None
      BY <1>9 DEF Visible
    <2> QED
      BY <2>1, <2>2 DEF c, writes, newest
  <1> QED
    BY <1>8, <1>9, Zenon

\* The same cursors mean the same delivered writes, hence the same records.
LEMMA ConvergedInv ==
  ASSUME IInv PROVE Converged
  <1> SUFFICES ASSUME NEW p \in Peer, NEW q \in Peer, Seen(p) = Seen(q), NEW k \in Key
               PROVE  Visible(cells[p][k]) = Visible(cells[q][k])
    BY DEF Converged
  <1>1. Delivered(p) = Delivered(q)
    BY DEF Delivered
  <1>2. {Visible(cells[p][k])} \ {None} = {Visible(cells[q][k])} \ {None}
    BY <1>1, NewestWinsInv, SMTT(60) DEF NewestWins
  <1> QED
    BY <1>2

\* No log starts above what a listed running member has.
LEMMA PullAdvancesInv ==
  ASSUME IInv PROVE PullAdvances
  <1> USE DEF IInv
  <1> SUFFICES ASSUME NEW p \in Peer, NEW q \in Members, NEW o \in Peer,
                      phase[q] = "up", Seen(q)[o] < Seen(p)[o]
               PROVE  LET delta == DeltaSince(log[p], Seen(q), o)
                      IN  delta # << >> /\ delta[1].seq = Seen(q)[o] + 1
    BY Zenon DEF PullAdvances
  <1> DEFINE obs == log[p].observed[o]
             b == log[p].base[o]
             n == Len(obs)
             have == Seen(q)[o]
             delta == DeltaSince(log[p], Seen(q), o)
  <1>1. /\ b \in Nat /\ n \in Nat /\ obs \in Seq(Frame) /\ Seen(p)[o] = b + n
        /\ have \in Nat
    BY TypeFacts, CursorType, MembersAssumption, ZenonT(60) DEF Seen
  <1>2. b <= have
    BY DEF ReclaimInv, Held
  <1>3. have < b + n
    BY <1>1, Zenon
  <1>4. delta = SubSeq(obs, (have - b) + 1, n)
    <2>1. have >= b /\ have - b <= n
      <3> HIDE DEF b, n, have
      <3> QED
        BY <1>1, <1>2, <1>3, SMTT(60)
    <2> QED
      BY <2>1, ZenonT(60) DEF DeltaSince
  <1>5. \A i \in 1 .. n : obs[i] = written[o][b + i]
    BY DEF PrefixConsistent
  <1>6. have + 1 <= Len(written[o]) /\ Len(written[o]) \in Nat
    <2>1. Seen(p)[o] <= Len(written[o]) /\ Len(written[o]) \in Nat
      BY TypeFacts, Zenon DEF PrefixConsistent
    <2> HIDE DEF b, n, have
    <2> QED
      BY <1>1, <1>3, <2>1, SMTT(60)
  <1>7. written[o][have + 1].seq = have + 1
    <2>1. have + 1 \in 1 .. Len(written[o])
      <3> HIDE DEF have
      <3> QED
        BY <1>1, <1>6, SMTT(60)
    <2> QED
      BY <2>1, ZenonT(60) DEF WrittenInv, IsFrameOf
  <1> HIDE DEF obs, b, n, have, delta
  <1>8. /\ (have - b) + 1 \in 1 .. n /\ n = Len(obs)
        /\ b + ((have - b) + 1) = have + 1
    BY <1>1, <1>2, <1>3, SMTT(60) DEF n
  <1>9. delta # << >> /\ delta[1] = obs[(have - b) + 1]
    <2> DEFINE m == (have - b) + 1
    <2>1. m \in 1 .. n /\ n \in Nat /\ n = Len(obs) /\ delta = SubSeq(obs, m, n)
      BY <1>1, <1>4, <1>8, ZenonT(60)
    <2> HIDE DEF m
    <2>2. Len(delta) = (n - m) + 1 /\ delta[1] = obs[m] /\ delta \in Seq(Frame)
      BY <1>1, <2>1, SMTT(60)
    <2>3. Len(delta) > 0
      BY <1>1, <2>1, <2>2, SMTT(60)
    <2> QED
      BY <2>2, <2>3, SMTT(60) DEF m
  <1>10. delta[1] = written[o][have + 1]
    BY <1>5, <1>8, <1>9, ZenonT(60)
  <1> QED
    BY <1>7, <1>9, <1>10, ZenonT(60) DEF delta, have

\* What was acknowledged is on disk.
LEMMA AckedInv ==
  ASSUME IInv PROVE AckedIsDurable
  <1> USE DEF IInv
  <1> SUFFICES ASSUME NEW p \in Durable, NEW o \in Peer
               PROVE  LET acked == IF o = p THEN Len(written[p]) ELSE Seen(p)[o]
                      IN  /\ acked <= Len(disk[p][o])
                          /\ \A i \in 1 .. acked : disk[p][o][i] = written[o][i]
    BY DEF AckedIsDurable
  <1>1. OwnDiskOK(p) /\ DiskOK(p, o) /\ p \in Peer
    BY DurableAssumption, Zenon DEF DiskInv
  <1>2. /\ Seen(p)[o] \in Nat /\ Len(disk[p][o]) \in Nat /\ Len(written[o]) \in Nat
        /\ Seen(p)[o] <= Len(written[o])
    BY <1>1, TypeFacts, ZenonT(60) DEF PrefixConsistent
  <1>3. CASE o = p
    BY <1>1, <1>2, <1>3, SMTT(60) DEF OwnDiskOK, DiskOK
  <1>4. CASE o # p
    BY <1>1, <1>2, <1>4, SMTT(60) DEF DiskOK
  <1> QED
    BY <1>3, <1>4, Zenon

\* The clock is ahead of what was delivered.
LEMMA ClockDominatesInv ==
  ASSUME IInv PROVE ClockDominates
  BY DeliveredIs DEF IInv, ClockInv, ClockDominates

\* Every peer's clock, log, cells, disk and cursors keep their types.
THEOREM TypeCorrect == Spec => []TypeOK
  <1>1. IInv => TypeOK
    BY DEF IInv
  <1> QED
    BY <1>1, Invariance, PTL

\* ReplLog holds no gap, no misplaced frame and no frame whose number its origin
\* gave to another one.
THEOREM PrefixConsistency == Spec => []PrefixConsistent
  <1>1. IInv => PrefixConsistent
    BY Zenon DEF IInv
  <1> QED
    BY <1>1, Invariance, PTL

\* The stamps an origin gives its writes increase, restarts included.
THEOREM StampMonotonicity == Spec => []StampsIncrease
  <1>1. IInv => StampsIncrease
    BY Zenon DEF IInv, WrittenInv
  <1> QED
    BY <1>1, Invariance, PTL

\* The events local_write and receive emit keep a subscriber equal to the state.
THEOREM SubscriberAgreement == Spec => []MirrorFaithful
  <1>1. IInv => MirrorFaithful
    BY Zenon DEF IInv
  <1> QED
    BY <1>1, Invariance, PTL

\* A reader sees the newest delivered write to a record, whatever the order of
\* delivery and whatever tombstones were collected.
THEOREM LastWriterWins == Spec => []NewestWins
  <1>1. IInv => NewestWins
    BY NewestWinsInv, ZenonT(60)
  <1> QED
    BY <1>1, Invariance, PTL

\* Peers that delivered the same writes show the same records.
THEOREM StrongConvergence == Spec => []Converged
  <1>1. IInv => Converged
    BY ConvergedInv, ZenonT(60)
  <1> QED
    BY <1>1, Invariance, PTL

\* The clock is at or past every delivered stamp, so a local write always wins.
THEOREM ClockDominance == Spec => []ClockDominates
  <1>1. IInv => ClockDominates
    BY ClockDominatesInv, Zenon
  <1> QED
    BY <1>1, Invariance, PTL

\* Reclaiming never leaves a listed, running member unable to catch up by pulling.
THEOREM ReclaimSafety == Spec => []PullAdvances
  <1>1. IInv => PullAdvances
    BY PullAdvancesInv, Zenon
  <1> QED
    BY <1>1, Invariance, PTL

\* What a durable peer acknowledged is on disk, at every point it may crash.
THEOREM Durability == Spec => []AckedIsDurable
  <1>1. IInv => AckedIsDurable
    BY AckedInv
  <1> QED
    BY <1>1, Invariance, PTL

------------------------------------------------------------------------------
(* Replication implements ConvergentStore. *)

\* An open peer shows the newest write it knows.
LEMMA ViewFacts ==
  ASSUME IInv, NEW p \in Peer, phase[p] = "up", NEW k \in Key
  PROVE  Visible(cells[p][k]) = Promise!Shown(Promise!KnownWrites(Hist, Know, p, k))
  <1> DEFINE writes == {f \in Delivered(p) : f.key = k}
             best == {f \in writes : ~IsDelete(f) /\ \A g \in writes : StampLeq(g.stamp, f.stamp)}
             v == Visible(cells[p][k])
  <1>1. \A o \in Peer : \A i \in 1 .. Know[p][o] : Know[p][o] = Seen(p)[o] /\ Hist[o][i] = written[o][i]
    <2> SUFFICES ASSUME NEW o \in Peer, NEW i \in 1 .. Know[p][o]
                 PROVE  Know[p][o] = Seen(p)[o] /\ Hist[o][i] = written[o][i]
      OBVIOUS
    <2>1. Know[p][o] = Seen(p)[o]
      BY MapCases, Zenon
    <2>2. Seen(p)[o] \in Nat /\ Len(written[o]) \in Nat /\ Seen(p)[o] <= Len(written[o])
      BY TypeFacts, Zenon DEF IInv, PrefixConsistent
    <2>3. i \in 1 .. Len(written[o])
      BY <2>1, <2>2
    <2> QED
      BY <2>1, <2>3, HistFacts, ZenonT(60)
  <1>2. Know[p] = Seen(p)
    BY MapCases
  <1>3. Promise!KnownWrites(Hist, Know, p, k) = writes
    <2> DEFINE Knows(o) == {Hist[o][i] : i \in 1 .. Know[p][o]}
               Sees(o) == {written[o][i] : i \in 1 .. Seen(p)[o]}
    <2>1. \A o \in Peer : Knows(o) = Sees(o)
      BY <1>1, <1>2, Zenon
    <2>2. UNION {Knows(o) : o \in Peer} = Delivered(p)
      <3>1. Delivered(p) = UNION {Sees(o) : o \in Peer}
        BY Zenon DEF Delivered
      <3> HIDE DEF Knows, Sees
      <3> QED
        BY <2>1, <3>1, Zenon
    <2> QED
      BY <2>2 DEF Promise!KnownWrites
  <1>4. best = {v} \ {None}
    BY NewestWinsInv DEF NewestWins
  <1>5. Promise!Shown(writes) = IF best = {} THEN None ELSE CHOOSE f \in best : TRUE
    BY DEF Promise!Shown, Promise!IsDelete, Promise!StampLeq, Promise!StampLt, Promise!HlcLt,
           IsDelete, StampLeq, StampLt, HlcLt
  <1> HIDE DEF best, writes, v
  <1>6. CASE v = None
    BY <1>3, <1>4, <1>5, <1>6 DEF v
  <1>7. CASE v # None
    <2>1. best = {v}
      BY <1>4, <1>7, Zenon
    <2>2. (CHOOSE f \in best : TRUE) = v
      BY <2>1, Zenon
    <2> QED
      BY <1>3, <1>5, <2>1, <2>2, ZenonT(60) DEF v
  <1> QED
    BY <1>6, <1>7, Zenon

\* What every open peer shows.
ViewsOK ==
    \A p \in Peer, k \in Key : phase[p] = "up" =>
        Visible(cells[p][k]) = Promise!Shown(Promise!KnownWrites(Hist, Know, p, k))

\* It is so before a step.
LEMMA ViewsNow == IInv => ViewsOK
  BY ViewFacts, Zenon DEF ViewsOK

\* And after it.
LEMMA ViewsNext == IInv' => ViewsOK'
  BY ViewsNow, PTL

------------------------------------------------------------------------------
(* A step of p. *)

\* A step that grows the history of p and leaves the others alone is one of
\* ConvergentStore.
LEMMA MapsToStep ==
  ASSUME IInv, IInv', NEW p \in Peer, OthersKeep(p), HistGrows(p)
  PROVE  Promise!StoreStep(p)
  <1>m. MapOK(p)'
    BY MapsNext
  <1>1. Promise!Publishes(p)
    <2> DEFINE n == Len(Hist[p])
               m == Len(Hist'[p])
    <2>1. n \in Nat /\ m \in {n, n + 1} /\ \A i \in 1 .. n : Hist'[p][i] = Hist[p][i]
      BY HistFacts, Zenon DEF HistGrows
    <2>2. \A j \in 1 .. m :
            /\ IsFrameOf(Hist'[p][j], p, j)
            /\ \A i \in 1 .. m : i < j => HlcLt(Hist'[p][i].stamp.hlc, Hist'[p][j].stamp.hlc)
      BY <1>m, Zenon DEF MapOK
    <2>3. ASSUME m = n + 1
          PROVE  /\ Hist'[p][m].stamp.peer = p /\ Hist'[p][m].seq = m
                 /\ \A i \in 1 .. n : HlcLt(Hist[p][i].stamp.hlc, Hist'[p][m].stamp.hlc)
      <3> HIDE DEF m, n
      <3>1. m \in 1 .. m /\ \A i \in 1 .. n : i \in 1 .. m /\ i < m
        BY <2>1, <2>3, SMTT(60)
      <3> QED
        BY <2>1, <2>2, <3>1, ZenonT(60) DEF IsFrameOf
    <2> QED
      BY <2>1, <2>3, Zenon DEF Promise!Publishes, Promise!HlcLt, HlcLt
  <1>2. Promise!Learns(p)
    <2>1. \A o \in Peer : Know[p][o] <= Know'[p][o] /\ Know'[p][o] <= Len(Hist'[o])
      BY <1>m, Zenon DEF HistGrows, MapOK
    <2>2. Know'[p][p] = Len(Hist'[p])
      BY <1>m, Zenon DEF MapOK
    <2> QED
      BY <2>1, <2>2, Zenon DEF Promise!Learns
  <1>3. ASSUME p \in Up', NEW k \in Key
        PROVE  View'[p][k] = Promise!Shown(Promise!KnownWrites(Hist', Know', p, k))
    <2>1. phase'[p] = "up"
      BY <1>3, Zenon DEF Up
    <2>2. Visible(cells'[p][k]) = Promise!Shown(Promise!KnownWrites(Hist', Know', p, k))
      BY <2>1, ViewsNext, Zenon DEF ViewsOK
    <2> QED
      BY <2>2 DEF View
  <1>4. ASSUME NEW q \in Peer \ {p}
        PROVE  /\ Hist'[q] = Hist[q] /\ Know'[q] = Know[q] /\ (q \in Up' <=> q \in Up) /\ View'[q] = View[q]
    <2>1. /\ written'[q] = written[q] /\ disk'[q] = disk[q] /\ phase'[q] = phase[q]
          /\ log'[q] = log[q] /\ cells'[q] = cells[q]
      BY Zenon DEF OthersKeep
    <2>2. q \in Up' <=> q \in Up
      BY <2>1, Zenon DEF Up
    <2>3. Seen(q)' = Seen(q)
      BY <2>1 DEF Seen
    <2> QED
      BY <2>1, <2>2, <2>3, ZenonT(60) DEF Hist, Know, View
  <1> QED
    BY <1>1, <1>2, <1>3, <1>4, ZenonT(60) DEF Promise!StoreStep

------------------------------------------------------------------------------

\* At first nothing is written, and every peer is open and shows nothing.
LEMMA InitMaps ==
  ASSUME Init PROVE Promise!StoreInit
  <1>1. /\ Up = Peer /\ \A p \in Peer : Seen(p) = [o \in Peer |-> 0]
    BY SMTT(60) DEF Init, Up, Seen, Cursors, CursorFor, EmptyLog
  <1>2. \A p \in Peer, k \in Key : Visible(cells[p][k]) = None
    BY DEF Init, Visible, EmptyCell
  <1>3. Hist = [o \in Peer |-> << >>]
    BY <1>1, Zenon DEF Hist, Init
  <1>4. Know = [p \in Peer |-> [o \in Peer |-> 0]]
    BY <1>1, Zenon DEF Know
  <1>5. View = [p \in Peer |-> [k \in Key |-> None]]
    BY <1>2, Zenon DEF View
  <1> QED
    BY <1>1, <1>3, <1>4, <1>5, ZenonT(60) DEF Promise!StoreInit

\* Every step is one of ConvergentStore, or leaves its state alone.
LEMMA StepMaps ==
  ASSUME IInv, [Next]_vars PROVE [Promise!StoreNext]_(Promise!storeVars)
  <1>1. IInv' /\ (UNCHANGED vars \/ \E p \in Peer : Progress(p))
    BY NextInv, Zenon
  <1>2. ASSUME NEW p \in Peer, Progress(p) PROVE Promise!StoreStep(p)
    <2>1. OthersKeep(p) /\ HistGrows(p)
      BY <1>1, <1>2, ProgressGrows, ZenonT(60) DEF Progress
    <2> QED
      BY <1>1, <2>1, MapsToStep, ZenonT(60)
  <1>3. CASE UNCHANGED vars
    BY <1>3 DEF vars, Promise!storeVars, Hist, Know, View, Up, Seen
  <1> QED
    BY <1>1, <1>2, <1>3, ZenonT(60) DEF Promise!StoreNext

\* Every behaviour of the peers is one of ConvergentStore: whatever is refused,
\* lost, replayed, reclaimed or collected, a history is only appended to, a peer
\* forgets no write it knew, and an open peer shows the newest one it knows.
THEOREM Refinement == Spec => ImplementsStore
  <1>1. Init => Promise!StoreInit
    BY InitMaps
  <1>2. IInv /\ [Next]_vars => [Promise!StoreNext]_(Promise!storeVars)
    BY StepMaps
  <1> QED
    BY <1>1, <1>2, Invariance, PTL DEF Spec, ImplementsStore, Promise!StoreSpec
==============================================================================
