------------------------- MODULE ReplicationWrites ---------------------------
(***************************************************************************)
(* Local writes preserve the inductive invariant of Replication.           *)
(***************************************************************************)
EXTENDS ReplicationLemmas

\* The frame of a local write is p's next, and newer than p's clock.
LEMMA NewFrameFacts ==
  ASSUME TypeOK, NEW p \in Peer, NEW k \in Key, NEW op \in Op, NEW wall \in Wall, CanWrite(p)
  PROVE  LET f == NewFrame(p, k, op, wall)
         IN  /\ f \in Frame /\ f.stamp.peer = p /\ f.key = k
             /\ f.stamp.hlc = Tick(clock[p], wall)
             /\ f.seq = Seen(p)[p] + 1
             /\ Classify(log[p], f) = "Appended"
             /\ Tick(clock[p], wall) \in Hlc /\ HlcLt(clock[p], Tick(clock[p], wall))
  <1> DEFINE f == NewFrame(p, k, op, wall)
  <1>1. clock[p] \in Hlc /\ log[p] \in Log /\ Seen(p)[p] \in Nat
    BY TypeFacts
  <1>2. Tick(clock[p], wall) \in Hlc /\ HlcLt(clock[p], Tick(clock[p], wall))
    BY <1>1, TickForward, WallAssumption DEF CanWrite
  <1>3. CursorFor(log[p], p) = Seen(p)[p]
    BY <1>1, CursorType DEF Seen
  <1>4. /\ f.stamp = [hlc |-> Tick(clock[p], wall), peer |-> p]
        /\ f.seq = Seen(p)[p] + 1 /\ f.op = op /\ f.key = k
        /\ f = [stamp |-> f.stamp, seq |-> f.seq, op |-> f.op, key |-> f.key]
    BY <1>3 DEF NewFrame, NextSeq
  <1>5. f.stamp \in Stamp /\ f.stamp.peer = p /\ f.stamp.hlc = Tick(clock[p], wall)
    BY <1>2, <1>4 DEF Stamp
  <1>6. f \in Frame
    <2> HIDE DEF f
    <2>1. f.seq \in Nat \ {0}
      BY <1>1, <1>4
    <2> QED
      BY <1>4, <1>5, <2>1 DEF Frame
  <1>7. Classify(log[p], f) = "Appended"
    <2> HIDE DEF f
    <2> QED
      BY <1>1, <1>3, <1>4, <1>5 DEF Classify
  <1> QED
    BY <1>2, <1>4, <1>5, <1>6, <1>7

\* A write newer than p's clock wins over whatever p holds.
LEMMA NewerIsApplied ==
  ASSUME IInv, NEW p \in Peer, NEW k \in Key, NEW f \in Frame,
         HlcLt(clock[p], f.stamp.hlc)
  PROVE  MergeOutcome(cells[p][k], f) = "Applied"
  <1> DEFINE c == cells[p][k]
  <1>1. CellOK(p, k, c) /\ c \in Cell
    BY TypeFacts DEF IInv, CellInv
  <1>2. ASSUME NEW o \in Peer, NEW i \in 1 .. Len(written[o]), Has(p, o, i)
        PROVE  ~StampLeq(f.stamp, written[o][i].stamp)
    <2>1. HlcLeq(written[o][i].stamp.hlc, clock[p])
      BY <1>2 DEF IInv, ClockInv
    <2>2. /\ written[o][i].stamp.hlc \in Hlc /\ written[o][i].stamp \in Stamp
          /\ clock[p] \in Hlc
      BY TypeFacts, FrameFields DEF IInv
    <2>3. f.stamp.hlc \in Hlc /\ f.stamp \in Stamp
      BY FrameFields
    <2>4. HlcLt(written[o][i].stamp.hlc, f.stamp.hlc)
      BY <2>1, <2>2, <2>3, HlcOrder, SMTT(60)
    <2> QED
      BY <2>2, <2>3, <2>4, StampOrder
  <1>3. c.current # None => ~StampLeq(f.stamp, c.current.stamp)
    BY <1>1, <1>2 DEF CellOK
  <1>4. c.gcFloor # None => ~StampLeq(f.stamp, c.gcFloor)
    BY <1>1, <1>2 DEF CellOK
  <1> QED
    BY <1>3, <1>4 DEF MergeOutcome

\* A local write keeps the types.
LEMMA LocalWriteType ==
  ASSUME IInv, NEW p \in Peer, NEW k \in Key, NEW op \in Op, NEW wall \in Wall,
         LocalWrite(p, k, op, wall)
  PROVE  TypeOK'
  <1> DEFINE f == NewFrame(p, k, op, wall)
  <1> USE DEF IInv
  <1>0. CanWrite(p) /\ phase[p] = "up"
    BY DEF LocalWrite, CanWrite
  <1>1. /\ f \in Frame /\ f.stamp.peer = p /\ f.key = k
        /\ f.seq = Seen(p)[p] + 1
        /\ Classify(log[p], f) = "Appended"
        /\ Tick(clock[p], wall) \in Hlc
    BY <1>0, NewFrameFacts
  <1>2. /\ clock' = [clock EXCEPT ![p] = Tick(clock[p], wall)]
        /\ log' = [log EXCEPT ![p] = Record(log[p], f)]
        /\ cells' = [cells EXCEPT ![p][k] = Merge(cells[p][k], f)]
        /\ mirror' = [mirror EXCEPT ![p][f.key] = IF IsDelete(f) THEN None ELSE f]
        /\ written' = [written EXCEPT ![p] = Append(written[p], f)]
        /\ disk' = IF p \in Durable THEN [disk EXCEPT ![p] = Stored(disk[p], f)] ELSE disk
        /\ phase' = phase /\ peerCursors' = peerCursors
    BY DEF LocalWrite, Persist, Announce
  <1> HIDE DEF f
  <1>3. clock' \in [Peer -> Hlc]
    BY <1>1, <1>2 DEF TypeOK
  <1>4. log' \in [Peer -> Log]
    <2>1. Record(log[p], f) \in Log
      BY <1>1, TypeFacts, RecordAppends
    <2> QED
      BY <1>2, <2>1, Zenon DEF TypeOK
  <1>5. cells' \in [Peer -> [Key -> Cell]]
    <2>1. Merge(cells[p][k], f) \in Cell
      <3>1. cells[p][k] \in Cell /\ CellOK(p, k, cells[p][k])
        BY TypeFacts DEF CellInv
      <3> QED
        BY <1>1, <3>1, MergeCovers DEF CellOK
    <2> QED
      BY <1>2, <2>1, Zenon DEF TypeOK
  <1>6. disk' \in [Peer -> [Peer -> Seq(Frame)]]
    <2>1. CASE p \in Durable
      <3>1. DiskGains(p, f)
        BY <1>0, <1>1, <1>2, <2>1, PersistFacts, ZenonT(60)
      <3> QED
        BY <3>1 DEF DiskGains
    <2>2. CASE p \notin Durable
      BY <1>2, <2>2, Zenon DEF TypeOK
    <2> QED
      BY <2>1, <2>2
  <1>7. written' \in [Peer -> Seq(Frame)]
    BY <1>1, <1>2, SMTT(60) DEF TypeOK
  <1>8. mirror' \in [Peer -> [Key -> Frame \cup {None}]]
    BY <1>1, <1>2 DEF TypeOK
  <1> QED
    BY <1>2, <1>3, <1>4, <1>5, <1>6, <1>7, <1>8, ZenonT(60) DEF TypeOK

\* A local write joins its origin's history, log, applier and disk in one step.
LEMMA LocalWriteInv ==
  ASSUME IInv, NEW p \in Peer, NEW k \in Key, NEW op \in Op, NEW wall \in Wall,
         LocalWrite(p, k, op, wall)
  PROVE  IInv' /\ Progress(p)
  <1> DEFINE f == NewFrame(p, k, op, wall)
             n == Len(written[p])
  <1> USE DEF IInv
  <1>t. TypeOK'
    BY LocalWriteType, Zenon
  <1>0. CanWrite(p) /\ phase[p] = "up"
    BY DEF LocalWrite, CanWrite
  <1>1. /\ f \in Frame /\ f.stamp.peer = p /\ f.key = k
        /\ f.seq = Seen(p)[p] + 1
        /\ f.stamp.hlc = Tick(clock[p], wall)
        /\ Classify(log[p], f) = "Appended"
        /\ Tick(clock[p], wall) \in Hlc /\ HlcLt(clock[p], Tick(clock[p], wall))
    BY <1>0, NewFrameFacts, SMTT(60)
  <1>2. /\ clock' = [clock EXCEPT ![p] = Tick(clock[p], wall)]
        /\ log' = [log EXCEPT ![p] = Record(log[p], f)]
        /\ cells' = [cells EXCEPT ![p][k] = Merge(cells[p][k], f)]
        /\ mirror' = [mirror EXCEPT ![p][f.key] = IF IsDelete(f) THEN None ELSE f]
        /\ written' = [written EXCEPT ![p] = Append(written[p], f)]
        /\ disk' = IF p \in Durable THEN [disk EXCEPT ![p] = Stored(disk[p], f)] ELSE disk
        /\ phase' = phase /\ peerCursors' = peerCursors
    BY DEF LocalWrite, Persist, Announce
  <1> HIDE DEF f
  <1>3. /\ n \in Nat /\ Seen(p)[p] = n /\ f.seq = n + 1
        /\ written[p] \in Seq(Frame)
    BY <1>0, <1>1, TypeFacts DEF OwnInv
  <1>4. /\ \A o \in Peer : o # p => written'[o] = written[o]
        /\ Len(written'[p]) = n + 1 /\ written'[p][n + 1] = f
        /\ \A i \in 1 .. n : written'[p][i] = written[p][i]
    <2>1. written'[p] = Append(written[p], f) /\ \A o \in Peer : o # p => written'[o] = written[o]
      BY <1>2 DEF TypeOK
    <2> QED
      BY <1>1, <1>3, <2>1
  <1>5. WrittenGrows
    <2> SUFFICES ASSUME NEW o \in Peer
                 PROVE  /\ Len(written[o]) <= Len(written'[o])
                        /\ \A i \in 1 .. Len(written[o]) : written'[o][i] = written[o][i]
      BY DEF WrittenGrows
    <2>1. Len(written[o]) \in Nat
      BY TypeFacts
    <2> QED
      BY <1>3, <1>4, <2>1
  <1>6. Absorbs(p, f)
    <2>1. HlcLeq(clock[p], clock'[p]) /\ HlcLeq(f.stamp.hlc, clock'[p])
      <3>1. clock[p] \in Hlc /\ clock'[p] = Tick(clock[p], wall)
        BY <1>2 DEF TypeOK
      <3> QED
        BY <1>1, <3>1, HlcOrder, SMTT(60)
    <2>2. \A q \in Peer : q # p => clock'[q] = clock[q]
      BY <1>2 DEF TypeOK
    <2>3. f.seq <= Len(written'[p]) /\ written'[p][f.seq] = f
      BY <1>3, <1>4, SMTT(60)
    <2> QED
      BY <1>1, <1>2, <2>1, <2>2, <2>3, ZenonT(60) DEF Absorbs
  <1>7. PrefixConsistent' /\ ClockInv' /\ CellInv'
    BY <1>t, <1>1, <1>5, <1>6, AbsorbPrefix, AbsorbClock, AbsorbCells, ZenonT(60)
  <1>8. \A q, o \in Peer : Seen(q)'[o] = IF q = p /\ o = p THEN n + 1 ELSE Seen(q)[o]
    BY <1>1, <1>3, <1>6, AbsorbSeen
  \* every own write has been delivered, so the clock is at or past its stamp
  <1>9. ASSUME NEW i \in 1 .. n
        PROVE  HlcLt(written[p][i].stamp.hlc, f.stamp.hlc)
    <2>1. HlcLeq(written[p][i].stamp.hlc, clock[p])
      BY <1>3 DEF ClockInv, Has
    <2>2. written[p][i].stamp.hlc \in Hlc /\ clock[p] \in Hlc
      BY TypeFacts, FrameFields, ZenonT(60)
    <2> QED
      BY <1>1, <2>1, <2>2, HlcOrder
  <1>10. WrittenInv'
    <2>1. ASSUME NEW o \in Peer, NEW i \in 1 .. Len(written'[o])
          PROVE  IsFrameOf(written'[o][i], o, i)
      <3>1. CASE o = p /\ i = n + 1
        BY <1>1, <1>3, <1>4, <3>1, Zenon DEF IsFrameOf
      <3>2. CASE ~(o = p /\ i = n + 1)
        <4>1. i \in 1 .. Len(written[o]) /\ written'[o][i] = written[o][i]
          BY <1>3, <1>4, <3>2, SMTT(60)
        <4> QED
          BY <4>1, Zenon DEF WrittenInv
      <3> QED
        BY <3>1, <3>2, Zenon
    <2>2. ASSUME NEW o \in Peer, NEW i \in 1 .. Len(written'[o]), NEW j \in 1 .. Len(written'[o]),
                 i < j
          PROVE  HlcLt(written'[o][i].stamp.hlc, written'[o][j].stamp.hlc)
      <3>1. CASE o = p /\ j = n + 1
        <4>1. i \in 1 .. n
          BY <1>3, <2>2, <3>1, SMTT(60)
        <4> QED
          BY <1>4, <1>9, <3>1, <4>1
      <3>2. CASE ~(o = p /\ j = n + 1)
        <4>1. i \in 1 .. Len(written[o]) /\ j \in 1 .. Len(written[o])
          BY <1>3, <1>4, <2>2, <3>2
        <4>2. written'[o][i] = written[o][i] /\ written'[o][j] = written[o][j]
          BY <1>5, <4>1 DEF WrittenGrows
        <4> QED
          BY <2>2, <4>1, <4>2, Zenon DEF WrittenInv, StampsIncrease
      <3> QED
        BY <3>1, <3>2, Zenon
    <2> QED
      BY <2>1, <2>2 DEF WrittenInv, StampsIncrease
  <1>11. OthersKeep(p)
    <2>1. \A q \in Peer : q # p => /\ log'[q] = log[q] /\ phase'[q] = phase[q]
                                   /\ cells'[q] = cells[q] /\ mirror'[q] = mirror[q]
      BY <1>2 DEF TypeOK
    <2>2. \A q \in Peer : q # p => disk'[q] = disk[q]
      BY <1>2, Zenon DEF TypeOK
    <2> QED
      BY <1>4, <2>1, <2>2, Zenon DEF OthersKeep
  <1>12. OwnInv'
    BY <1>4, <1>8, <1>11, OwnStep, Zenon
  <1>13. MirrorFaithful'
    <2>1. MergeOutcome(cells[p][k], f) = "Applied"
      BY <1>1, NewerIsApplied, Zenon
    <2>2. cells[p][k] \in Cell
      BY TypeFacts
    <2>3. ASSUME NEW j \in Key PROVE mirror'[p][j] = Visible(cells'[p][j])
      <3>1. CASE j = k
        <4>1. mirror'[p][j] = IF IsDelete(f) THEN None ELSE f
          BY <1>1, <1>2, <3>1, Zenon DEF TypeOK
        <4>2. cells'[p][j] = Merge(cells[p][k], f)
          BY <1>2, <3>1 DEF TypeOK
        <4>3. Merge(cells[p][k], f).current = f
          BY <2>1, <2>2 DEF Merge, Cell
        <4>4. f # None
          BY <1>1, FrameFields, Zenon
        <4> QED
          BY <4>1, <4>2, <4>3, <4>4, Zenon DEF Visible
      <3>2. CASE j # k
        <4>1. mirror'[p][j] = mirror[p][j] /\ cells'[p][j] = cells[p][j]
          BY <1>1, <1>2, <3>2, Zenon DEF TypeOK
        <4> QED
          BY <1>0, <4>1, Zenon DEF MirrorFaithful
      <3> QED
        BY <3>1, <3>2
    <2> QED
      BY <1>11, <2>3, MirrorStep, Zenon
  <1>14. DiskInv'
    <2>1. ASSUME p \in Durable
          PROVE  OwnDiskOK(p)' /\ \A o \in Peer : DiskOK(p, o)'
      <3>1. /\ \A o \in Peer : o # p => disk'[p][o] = disk[p][o]
            /\ Len(disk'[p][p]) = n + 1 /\ disk'[p][p][n + 1] = f
            /\ \A i \in 1 .. n + 1 : i # n + 1 =>
                 i \in 1 .. Len(disk[p][p]) /\ disk'[p][p][i] = disk[p][p][i]
        <4>1. disk' = [disk EXCEPT ![p] = Stored(disk[p], f)] /\ f.seq = Seen(p)[f.stamp.peer] + 1
          BY <1>1, <1>2, <2>1
        <4>2. DiskGains(p, f)
          BY <1>0, <1>1, <2>1, <4>1, PersistFacts, ZenonT(60)
        <4> QED
          BY <1>1, <1>3, <4>2, Zenon DEF DiskGains
      <3>2. OwnDiskOK(p) /\ \A o \in Peer : DiskOK(p, o)
        BY <2>1 DEF DiskInv
      <3>3. ASSUME NEW i \in 1 .. n PROVE disk'[p][p][i] = written'[p][i]
        <4>1. i \in 1 .. Len(disk[p][p]) /\ disk'[p][p][i] = disk[p][p][i]
          BY <1>3, <3>1, SMTT(60)
        <4>2. disk[p][p][i] = written[p][i]
          BY <1>3, <3>2, <4>1 DEF DiskOK
        <4> QED
          BY <1>4, <4>1, <4>2, ZenonT(60)
      <3>4. \A i \in 1 .. n + 1 : disk'[p][p][i] = written'[p][i]
        BY <1>3, <1>4, <3>1, <3>3, SMTT(60)
      <3>5. OwnDiskOK(p)'
        <4>1. ASSUME NEW j \in 1 .. n + 1 PROVE IsFrameOf(disk'[p][p][j], p, j)
          BY <1>4, <1>10, <3>4, Zenon DEF WrittenInv
        <4>2. ASSUME NEW j \in 1 .. n + 1, NEW i \in 1 .. n + 1, i < j
              PROVE  HlcLt(disk'[p][p][i].stamp.hlc, disk'[p][p][j].stamp.hlc)
          BY <1>4, <1>10, <3>4, <4>2, Zenon DEF WrittenInv, StampsIncrease
        <4> QED
          BY <1>3, <1>4, <3>1, <4>1, <4>2, SMTT(60) DEF OwnDiskOK
      <3>6. ASSUME NEW o \in Peer PROVE DiskOK(p, o)'
        <4>1. CASE o = p
          BY <1>3, <1>4, <1>8, <3>1, <3>4, <4>1, SMTT(60) DEF DiskOK
        <4>2. CASE o # p
          BY <1>0, <1>2, <1>4, <1>8, <3>1, <3>2, <4>2, SMTT(60) DEF DiskOK
        <4> QED
          BY <4>1, <4>2, ZenonT(60)
      <3> QED
        BY <3>5, <3>6, Zenon
    <2> QED
      BY <1>t, <1>0, <1>2, <1>5, <1>11, <2>1, DiskStep, Zenon
  <1>g. \A o \in Peer : Seen(p)[o] <= Seen(p)'[o]
    BY <1>3, <1>8, TypeFacts, SMTT(60)
  <1>15. ReclaimInv'
    <2>2. log'[p].base = log[p].base
      BY <1>1, <1>6, AbsorbBase, Zenon
    <2> QED
      BY <1>t, <1>0, <1>2, <1>11, <1>g, <2>2, UpReclaim, Zenon
  <1>v. IInv'
    BY <1>t, <1>7, <1>10, <1>12, <1>13, <1>14, <1>15, Zenon
  <1>h. Progress(p)
    <2>1. Len(written'[p]) <= Len(written[p]) + 1
      BY <1>3, <1>4, SMTT(60)
    <2> QED
      BY <1>0, <1>2, <1>5, <1>11, <1>g, <2>1, ZenonT(60) DEF Progress, StaysUp
  <1> QED
    BY <1>v, <1>h, Zenon

\* A refused write moves the clock and may stay on disk.
LEMMA LocalWriteRefusedInv ==
  ASSUME IInv, NEW p \in Peer, NEW k \in Key, NEW op \in Op, NEW wall \in Wall,
         LocalWriteRefused(p, k, op, wall)
  PROVE  IInv' /\ Progress(p)
  <1> DEFINE f == NewFrame(p, k, op, wall)
             n == Len(written[p])
  <1> USE DEF IInv
  <1>0. CanWrite(p) /\ phase[p] = "up"
    BY ZenonT(60) DEF LocalWriteRefused, CanWrite
  <1>1. /\ f \in Frame /\ f.stamp.peer = p
        /\ f.seq = Seen(p)[p] + 1
        /\ f.stamp.hlc = Tick(clock[p], wall)
        /\ Tick(clock[p], wall) \in Hlc /\ HlcLt(clock[p], Tick(clock[p], wall))
    BY <1>0, NewFrameFacts
  <1>2. /\ clock' = [clock EXCEPT ![p] = Tick(clock[p], wall)]
        /\ p \in Durable
        /\ disk' = disk \/ disk' = [disk EXCEPT ![p] = Stored(disk[p], f)]
        /\ log' = log /\ cells' = cells /\ mirror' = mirror /\ written' = written
        /\ phase' = phase /\ peerCursors' = peerCursors
    BY Zenon DEF LocalWriteRefused, PersistFails
  <1> HIDE DEF f
  <1>3. n \in Nat /\ Seen(p)[p] = n /\ f.seq = n + 1
    BY <1>0, <1>1, TypeFacts, Zenon DEF OwnInv
  <1>4. \/ disk' = disk
        \/ /\ disk' \in [Peer -> [Peer -> Seq(Frame)]]
           /\ \A q \in Peer : q # p => disk'[q] = disk[q]
           /\ \A o \in Peer : o # p => disk'[p][o] = disk[p][o]
           /\ Len(disk'[p][p]) = n + 1
           /\ disk'[p][p][n + 1] = f
           /\ \A i \in 1 .. n + 1 : i # n + 1 =>
                i \in 1 .. Len(disk[p][p]) /\ disk'[p][p][i] = disk[p][p][i]
    <2>1. CASE disk' = [disk EXCEPT ![p] = Stored(disk[p], f)]
      <3>1. f.seq = Seen(p)[f.stamp.peer] + 1
        BY <1>1
      <3>2. DiskGains(p, f)
        BY <1>0, <1>1, <1>2, <2>1, <3>1, PersistFacts, ZenonT(60)
      <3> QED
        BY <1>1, <1>3, <3>2, Zenon DEF DiskGains
    <2> QED
      BY <1>2, <2>1, Zenon
  <1>t. TypeOK'
    <2>1. clock' \in [Peer -> Hlc] /\ disk' \in [Peer -> [Peer -> Seq(Frame)]]
      BY <1>1, <1>2, <1>4 DEF TypeOK
    <2> QED
      BY <1>2, <2>1, ZenonT(60) DEF TypeOK
  <1>5. \A q, o \in Peer : Seen(q)'[o] = Seen(q)[o]
    BY <1>2, ZenonT(60) DEF Seen
  <1>6. \A q \in Peer : HlcLeq(clock[q], clock'[q])
    <2> SUFFICES ASSUME NEW q \in Peer PROVE HlcLeq(clock[q], clock'[q])
      BY Zenon
    <2>1. clock[q] \in Hlc /\ clock[p] \in Hlc
      BY TypeFacts
    <2>2. clock'[q] = IF q = p THEN Tick(clock[p], wall) ELSE clock[q]
      BY <1>2, Zenon DEF TypeOK
    <2> QED
      BY <1>1, <2>1, <2>2, HlcOrder, SMTT(60)
  <1>7. WrittenInv' /\ ClockInv' /\ CellInv' /\ WrittenGrows
    BY <1>t, <1>2, <1>5, <1>6, QuietStep, ZenonT(60)
  <1>8. PrefixConsistent' /\ OwnInv' /\ MirrorFaithful'
    BY <1>2, ZenonT(60) DEF PrefixConsistent, OwnInv, MirrorFaithful, Seen
  <1>9. OthersKeep(p)
    BY <1>2, <1>4, ZenonT(60) DEF OthersKeep
  <1>10. DiskInv'
    <2>1. OwnDiskOK(p) /\ \A o \in Peer : DiskOK(p, o)
      BY <1>2 DEF DiskInv
    <2>2. CASE disk' = disk
      <3>1. OwnDiskOK(p)' /\ \A o \in Peer : DiskOK(p, o)'
        BY <1>2, <2>1, <2>2, Zenon DEF OwnDiskOK, DiskOK, Seen
      <3> QED
        BY <1>t, <1>0, <1>2, <1>7, <1>9, <3>1, DiskStep, Zenon
    <2>3. CASE /\ \A o \in Peer : o # p => disk'[p][o] = disk[p][o]
               /\ Len(disk'[p][p]) = n + 1
               /\ disk'[p][p][n + 1] = f
               /\ \A i \in 1 .. n + 1 : i # n + 1 =>
                    i \in 1 .. Len(disk[p][p]) /\ disk'[p][p][i] = disk[p][p][i]
      <3>1. ASSUME NEW i \in 1 .. n PROVE disk'[p][p][i] = written[p][i]
        <4>1. i \in 1 .. Len(disk[p][p]) /\ disk'[p][p][i] = disk[p][p][i]
          BY <1>3, <2>3, SMTT(60)
        <4> QED
          BY <1>3, <2>1, <4>1, SMTT(60) DEF DiskOK
      <3>2. ASSUME NEW i \in 1 .. n PROVE HlcLt(written[p][i].stamp.hlc, f.stamp.hlc)
        <4>1. HlcLeq(written[p][i].stamp.hlc, clock[p])
          BY <1>3, Zenon DEF ClockInv, Has
        <4>2. written[p][i].stamp.hlc \in Hlc /\ clock[p] \in Hlc
          BY TypeFacts, FrameFields, Zenon
        <4> QED
          BY <1>1, <4>1, <4>2, HlcOrder, SMTT(60)
      <3>3. ASSUME NEW j \in 1 .. n + 1 PROVE IsFrameOf(disk'[p][p][j], p, j)
        <4>1. CASE j = n + 1
          BY <1>1, <1>3, <2>3, <4>1, Zenon DEF IsFrameOf
        <4>2. CASE j \in 1 .. n
          BY <3>1, <4>2, ZenonT(60) DEF WrittenInv
        <4> QED
          BY <1>3, <4>1, <4>2, SMTT(60)
      <3>4. ASSUME NEW j \in 1 .. n + 1, NEW i \in 1 .. n + 1, i < j
            PROVE  HlcLt(disk'[p][p][i].stamp.hlc, disk'[p][p][j].stamp.hlc)
        <4>1. i \in 1 .. n
          BY <1>3, <3>4, SMTT(60)
        <4>2. CASE j = n + 1
          BY <2>3, <3>1, <3>2, <4>1, <4>2, ZenonT(60)
        <4>3. CASE j \in 1 .. n
          BY <3>1, <3>4, <4>1, <4>3, ZenonT(60) DEF WrittenInv, StampsIncrease
        <4> QED
          BY <1>3, <4>2, <4>3, SMTT(60)
      <3>5. OwnDiskOK(p)'
        <4>1. n <= n + 1 /\ n + 1 <= n + 1
          BY <1>3
        <4>2. Len(written'[p]) = n
          BY <1>2, Zenon
        <4> HIDE DEF n
        <4> QED
          BY <2>3, <3>3, <3>4, <4>1, <4>2, ZenonT(60) DEF OwnDiskOK
      <3>6. ASSUME NEW o \in Peer PROVE DiskOK(p, o)'
        <4>1. CASE o = p
          BY <1>2, <1>3, <1>5, <2>3, <3>1, <4>1, SMTT(60) DEF DiskOK
        <4>2. CASE o # p
          BY <1>2, <1>5, <2>1, <2>3, <4>2, SMTT(60) DEF DiskOK
        <4> QED
          BY <4>1, <4>2, SMTT(60)
      <3> QED
        BY <1>t, <1>0, <1>2, <1>7, <1>9, <3>5, <3>6, DiskStep, ZenonT(60)
    <2> QED
      BY <1>4, <2>2, <2>3, Zenon
  <1>g. \A o \in Peer : Seen(p)[o] <= Seen(p)'[o]
    BY <1>5, TypeFacts
  <1>11. ReclaimInv'
    BY <1>t, <1>0, <1>2, <1>9, <1>g, UpReclaim, Zenon
  <1>v. IInv'
    BY <1>t, <1>7, <1>8, <1>10, <1>11, Zenon
  <1>h. Progress(p)
    <2>1. Len(written'[p]) <= Len(written[p]) + 1
      BY <1>2, TypeFacts, SMTT(60)
    <2> QED
      BY <1>0, <1>2, <1>7, <1>9, <1>g, <2>1, ZenonT(60) DEF Progress, StaysUp
  <1> QED
    BY <1>v, <1>h, Zenon

------------------------------------------------------------------------------
(* What a step does to what the peers have written and know. *)

\* The history of p is appended to, and p forgets nothing.
HistGrows(p) ==
    /\ Len(Hist'[p]) \in {Len(Hist[p]), Len(Hist[p]) + 1}
    /\ \A i \in 1 .. Len(Hist[p]) : Hist'[p][i] = Hist[p][i]
    /\ \A o \in Peer : Know[p][o] <= Know'[p][o]

------------------------------------------------------------------------------

\* Up or down, a peer is in one of the two cases of the mapping.
LEMMA MapCases ==
  ASSUME NEW p \in Peer
  PROVE  /\ phase[p] = "up" => Hist[p] = written[p] /\ Know[p] = Seen(p)
         /\ phase[p] # "up" => Hist[p] = disk[p][p] /\ \A o \in Peer : Know[p][o] = Len(disk[p][o])
  BY ZenonT(60) DEF Hist, Know, Up

\* The history of a peer extends what it has written, and is well formed.
LEMMA HistFacts ==
  ASSUME IInv, NEW o \in Peer
  PROVE  /\ Hist[o] \in Seq(Frame) /\ Len(Hist[o]) \in Nat
         /\ Len(written[o]) \in Nat /\ Len(written[o]) <= Len(Hist[o])
         /\ \A i \in 1 .. Len(written[o]) : Hist[o][i] = written[o][i]
         /\ \A j \in 1 .. Len(Hist[o]) :
              /\ IsFrameOf(Hist[o][j], o, j)
              /\ \A i \in 1 .. Len(Hist[o]) : i < j => HlcLt(Hist[o][i].stamp.hlc, Hist[o][j].stamp.hlc)
  <1> USE DEF IInv
  <1>1. /\ written[o] \in Seq(Frame) /\ Len(written[o]) \in Nat
        /\ disk[o][o] \in Seq(Frame) /\ Len(disk[o][o]) \in Nat
    BY TypeFacts, Zenon
  <1>2. CASE phase[o] = "up"
    <2>1. Hist[o] = written[o]
      BY <1>2, MapCases, Zenon
    <2> QED
      BY <1>1, <2>1 DEF WrittenInv, StampsIncrease
  <1>3. CASE phase[o] # "up"
    <2>1. Hist[o] = disk[o][o]
      BY <1>3, MapCases
    <2>2. o \in Durable
      BY <1>3 DEF DiskInv
    <2>3. OwnDiskOK(o) /\ DiskOK(o, o)
      BY <2>2, Zenon DEF DiskInv
    <2>4. Len(written[o]) <= Len(disk[o][o])
      BY <2>3 DEF OwnDiskOK
    <2>5. \A i \in 1 .. Len(written[o]) : disk[o][o][i] = written[o][i]
      BY <1>1, <2>3, <2>4, SMTT(60) DEF DiskOK
    <2> QED
      BY <1>1, <2>1, <2>3, <2>4, <2>5, Zenon DEF OwnDiskOK
  <1> QED
    BY <1>2, <1>3, SMTT(60)

\* What a peer knows was written, and it knows all its own writes.
LEMMA KnowFacts ==
  ASSUME IInv, NEW p \in Peer
  PROVE  /\ \A o \in Peer : Know[p][o] \in Nat /\ Know[p][o] <= Len(Hist[o])
         /\ Know[p][p] = Len(Hist[p])
  <1> USE DEF IInv
  <1>1. \A o \in Peer : /\ Seen(p)[o] \in Nat /\ Len(disk[p][o]) \in Nat /\ Len(written[o]) \in Nat
                        /\ Len(Hist[o]) \in Nat /\ Len(written[o]) <= Len(Hist[o])
    BY TypeFacts, HistFacts, Zenon
  <1>2. CASE phase[p] = "up"
    <2>1. Hist[p] = written[p] /\ Know[p] = Seen(p)
      BY <1>2, MapCases, Zenon
    <2>2. Seen(p)[p] = Len(written[p]) /\ \A o \in Peer : Seen(p)[o] <= Len(written[o])
      BY <1>2 DEF OwnInv, PrefixConsistent
    <2> QED
      BY <1>1, <2>1, <2>2, SMTT(60)
  <1>3. CASE phase[p] # "up"
    <2>1. Hist[p] = disk[p][p] /\ \A o \in Peer : Know[p][o] = Len(disk[p][o])
      BY <1>3, MapCases, Zenon
    <2>2. p \in Durable
      BY <1>3 DEF DiskInv
    <2>3. \A o \in Peer : o # p => Len(disk[p][o]) <= Len(written[o])
      BY <2>2 DEF DiskInv, DiskOK
    <2> QED
      BY <1>1, <2>1, <2>3, SMTT(60)
  <1> QED
    BY <1>2, <1>3, Zenon

\* The facts above in one formula, for the states before and after a step.
MapOK(p) ==
    /\ phase[p] = "up" => Hist[p] = written[p] /\ Know[p] = Seen(p)
    /\ phase[p] # "up" => Hist[p] = disk[p][p] /\ \A o \in Peer : Know[p][o] = Len(disk[p][o])
    /\ \A j \in 1 .. Len(Hist[p]) :
         /\ IsFrameOf(Hist[p][j], p, j)
         /\ \A i \in 1 .. Len(Hist[p]) : i < j => HlcLt(Hist[p][i].stamp.hlc, Hist[p][j].stamp.hlc)
    /\ \A o \in Peer : Know[p][o] <= Len(Hist[o])
    /\ Know[p][p] = Len(Hist[p])

\* They hold before a step.
LEMMA MapsNow == IInv => \A p \in Peer : MapOK(p)
  <1> SUFFICES ASSUME IInv, NEW p \in Peer PROVE MapOK(p)
    BY Zenon
  <1> QED
    BY MapCases, HistFacts, KnowFacts, Zenon DEF MapOK

\* And after it.
LEMMA MapsNext == IInv' => (\A p \in Peer : MapOK(p))'
  BY MapsNow, PTL

\* A step of p extends the history of p by one write at most: a crash may
\* bring in the refused write that reached the disk, and opening finds on disk
\* what p had while it was down, no more, no less.
LEMMA ProgressGrows ==
  ASSUME IInv, IInv', NEW p \in Peer, Progress(p)
  PROVE  HistGrows(p)
  <1>a. /\ phase[p] = "up" => Hist[p] = written[p] /\ Know[p] = Seen(p)
        /\ phase[p] # "up" => Hist[p] = disk[p][p] /\ \A o \in Peer : Know[p][o] = Len(disk[p][o])
    BY MapCases, Zenon
  <1>b. /\ phase'[p] = "up" => Hist'[p] = written'[p] /\ Know'[p] = Seen(p)'
        /\ phase'[p] # "up" => Hist'[p] = disk'[p][p] /\ \A o \in Peer : Know'[p][o] = Len(disk'[p][o])
        /\ Know'[p][p] = Len(Hist'[p])
    BY MapsNext, Zenon DEF MapOK
  <1>2. /\ Len(written[p]) \in Nat
        /\ \A o \in Peer : Len(disk[p][o]) \in Nat /\ Seen(p)[o] \in Nat
    BY TypeFacts, Zenon DEF IInv
  <1>3. CASE StaysUp(p)
    <2>1. /\ Hist[p] = written[p] /\ Know[p] = Seen(p)
          /\ Hist'[p] = written'[p] /\ Know'[p] = Seen(p)'
      BY <1>a, <1>b, <1>3, Zenon DEF StaysUp
    <2>2. Len(written'[p]) \in Nat
      <3>1. written' \in [Peer -> Seq(Frame)]
        BY Zenon DEF IInv, TypeOK
      <3> QED
        BY <3>1, SMTT(60)
    <2>3. /\ Len(written'[p]) \in {Len(written[p]), Len(written[p]) + 1}
          /\ \A i \in 1 .. Len(written[p]) : written'[p][i] = written[p][i]
      BY <1>2, <1>3, <2>2, SMTT(60) DEF StaysUp, WrittenGrows
    <2>4. \A o \in Peer : Seen(p)[o] <= Seen(p)'[o]
      BY <1>3, Zenon DEF StaysUp
    <2> QED
      BY <2>1, <2>3, <2>4, Zenon DEF HistGrows
  <1>4. CASE EndsDown(p)
    <2>1. Hist'[p] = disk[p][p] /\ \A o \in Peer : Know'[p][o] = Len(disk[p][o])
      BY <1>b, <1>4, Zenon DEF EndsDown
    <2>2. CASE phase[p] = "up"
      <3>0. p \in Durable
        <4>1. phase'[p] # "up"
          BY <1>4, Zenon DEF EndsDown
        <4> QED
          BY <4>1, Zenon DEF IInv, DiskInv
      <3>1. OwnDiskOK(p) /\ \A o \in Peer : DiskOK(p, o)
        BY <3>0, Zenon DEF IInv, DiskInv
      <3>2. Hist[p] = written[p] /\ Know[p] = Seen(p)
        BY <1>a, <2>2, ZenonT(60)
      <3>3. Len(disk[p][p]) \in {Len(written[p]), Len(written[p]) + 1}
        BY <1>2, <3>1, SMTT(60) DEF OwnDiskOK
      <3>4. \A i \in 1 .. Len(written[p]) : disk[p][p][i] = written[p][i]
        BY <1>2, <3>1, SMTT(60) DEF OwnDiskOK, DiskOK
      <3>5. \A o \in Peer : Seen(p)[o] <= Len(disk[p][o])
        BY <3>1, Zenon DEF DiskOK
      <3> QED
        BY <2>1, <3>2, <3>3, <3>4, <3>5, Zenon DEF HistGrows
    <2>3. CASE phase[p] # "up"
      <3>1. Hist[p] = disk[p][p] /\ \A o \in Peer : Know[p][o] = Len(disk[p][o])
        BY <1>a, <2>3, Zenon
      <3> QED
        BY <1>2, <2>1, <3>1, SMTT(60) DEF HistGrows
    <2> QED
      BY <2>2, <2>3, Zenon
  <1>5. CASE Opens(p)
    <2>1. /\ Hist[p] = disk[p][p] /\ \A o \in Peer : Know[p][o] = Len(disk[p][o])
          /\ Hist'[p] = written[p] /\ Know'[p] = Seen(p)'
      BY <1>a, <1>b, <1>5, Zenon DEF Opens
    <2>2. \A o \in Peer : Seen(p)'[o] = Len(disk[p][o])
      BY <1>5, Zenon DEF Opens
    <2>3. Len(written[p]) = Len(disk[p][p])
      <3>1. Know'[p][p] = Len(Hist'[p])
        BY <1>b, Zenon
      <3> QED
        BY <2>1, <2>2, <3>1, Zenon
    <2>4. \A i \in 1 .. Len(disk[p][p]) : written[p][i] = disk[p][p][i]
      <3>1. p \in Durable
        <4>1. phase[p] # "up"
          BY <1>5, Zenon DEF Opens
        <4> QED
          BY <4>1, Zenon DEF IInv, DiskInv
      <3>2. DiskOK(p, p)
        BY <3>1, Zenon DEF IInv, DiskInv
      <3> QED
        BY <1>2, <2>3, <3>2, SMTT(60) DEF DiskOK
    <2> QED
      BY <1>2, <2>1, <2>2, <2>3, <2>4, SMTT(60) DEF HistGrows
  <1> QED
    BY <1>3, <1>4, <1>5, Zenon DEF Progress
==============================================================================
