------------------------- MODULE ReplicationRestart --------------------------
(***************************************************************************)
(* Crashing, replaying and opening preserve the inductive invariant of     *)
(* Replication.                                                            *)
(***************************************************************************)
EXTENDS ReplicationLemmas

\* A crash leaves what is on disk, which is all the peer acknowledged.
LEMMA CrashInvariant ==
  ASSUME IInv, NEW p \in Peer, Crash(p)
  PROVE  IInv' /\ Progress(p)
  <1> USE DEF IInv
  <1>1. /\ p \in Durable
        /\ clock' = [clock EXCEPT ![p] = ZeroHlc] /\ log' = [log EXCEPT ![p] = EmptyLog]
        /\ cells' = [cells EXCEPT ![p] = [k \in Key |-> EmptyCell]]
        /\ phase' = [phase EXCEPT ![p] = "replaying"]
        /\ peerCursors' = [peerCursors EXCEPT ![p] = [q \in Peer |-> [o \in Peer |-> 0]]]
        /\ disk' = disk /\ written' = written /\ mirror' = mirror
    BY DEF Crash
  <1>2. ZeroHlc \in Hlc /\ EmptyLog \in Log /\ EmptyCell \in Cell
    <2>1. ZeroHlc \in Hlc
      BY LogicalModAssumption DEF ZeroHlc, Hlc
    <2>2. EmptyLog \in Log
      BY SMTT(60) DEF EmptyLog, Log
    <2>3. EmptyCell \in Cell
      BY DEF EmptyCell, Cell
    <2> QED
      BY <2>1, <2>2, <2>3
  <1>t. TypeOK'
    <2>1. clock' \in [Peer -> Hlc] /\ log' \in [Peer -> Log]
      BY <1>1, <1>2 DEF TypeOK
    <2>2. cells' \in [Peer -> [Key -> Cell]]
      BY <1>1, <1>2 DEF TypeOK
    <2>3. phase' \in [Peer -> {"up", "replaying"}]
      BY <1>1 DEF TypeOK
    <2>4. peerCursors' \in [Peer -> [Peer -> [Peer -> Nat]]]
      BY <1>1 DEF TypeOK
    <2> QED
      BY <1>1, <2>1, <2>2, <2>3, <2>4, Zenon DEF TypeOK
  <1>3. /\ log'[p] = EmptyLog /\ phase'[p] = "replaying"
        /\ \A k \in Key : cells'[p][k] = EmptyCell
        /\ \A q \in Peer : q # p => /\ log'[q] = log[q] /\ phase'[q] = phase[q]
                                    /\ cells'[q] = cells[q] /\ clock'[q] = clock[q]
    BY <1>1 DEF TypeOK
  <1>4. \A q, o \in Peer : Seen(q)'[o] = IF q = p THEN 0 ELSE Seen(q)[o]
    <2> TAKE q \in Peer, o \in Peer
    <2>1. Cursors(EmptyLog)[o] = 0
      BY DEF Cursors, CursorFor, EmptyLog
    <2> QED
      BY <1>3, <2>1 DEF Seen
  <1>5. \A q, o \in Peer : \A i : Has(q, o, i)' => q # p /\ Has(q, o, i)
    BY <1>4 DEF Has
  <1>6. WrittenInv' /\ WrittenGrows
    BY <1>1, WrittenQuiet, Zenon
  <1>7. ClockInv'
    BY <1>1, <1>3, <1>5 DEF ClockInv
  <1>8. CellInv'
    <2> SUFFICES ASSUME NEW q \in Peer, NEW k \in Key PROVE CellOK(q, k, cells[q][k])'
      BY Zenon DEF CellInv
    <2>1. CASE q = p
      <3>1. cells'[q][k].current = None /\ cells'[q][k].gcFloor = None
        BY <1>3, <2>1 DEF EmptyCell
      <3>2. \A o \in Peer : \A i : ~ Has(q, o, i)'
        BY <1>5, <2>1, Zenon
      <3> QED
        BY <3>1, <3>2 DEF CellOK
    <2>2. CASE q # p
      <3>1. cells'[q][k] = cells[q][k] /\ CellOK(q, k, cells[q][k])
        BY <1>3, <2>2 DEF CellInv
      <3>2. \A o \in Peer : \A i : Has(q, o, i)' <=> Has(q, o, i)
        BY <1>4, <2>2, Zenon DEF Has
      <3> QED
        BY <1>1, <3>1, <3>2, ZenonT(60) DEF CellOK
    <2> QED
      BY <2>1, <2>2
  <1>9. PrefixConsistent'
    <2> SUFFICES ASSUME NEW q \in Peer, NEW o \in Peer
                 PROVE  /\ Seen(q)'[o] <= Len(written'[o])
                        /\ \A i \in 1 .. Len(log'[q].observed[o]) :
                             log'[q].observed[o][i] = written'[o][log'[q].base[o] + i]
      BY Zenon DEF PrefixConsistent
    <2>1. CASE q = p
      <3>1. Len(log'[q].observed[o]) = 0
        BY <1>3, <2>1, SMTT(60) DEF EmptyLog
      <3> QED
        BY <1>1, <1>4, <2>1, <3>1, TypeFacts, SMTT(60)
    <2>2. CASE q # p
      BY <1>1, <1>3, <1>4, <2>2, SMTT(60) DEF PrefixConsistent
    <2> QED
      BY <2>1, <2>2, Zenon
  <1>10. OthersKeep(p)
    BY <1>1, <1>3, Zenon DEF OthersKeep
  <1>11. OwnInv' /\ MirrorFaithful'
    BY <1>3, <1>10, OwnStep, MirrorStep
  <1>12. DiskInv'
    <2>1. OwnDiskOK(p) /\ \A o \in Peer : DiskOK(p, o)
      BY <1>1, Zenon DEF DiskInv
    <2>2. OwnDiskOK(p)'
      BY <1>1, <2>1, Zenon DEF OwnDiskOK
    <2>3. ASSUME NEW o \in Peer PROVE DiskOK(p, o)'
      <3>1. Seen(p)'[o] = 0 /\ phase'[p] # "up"
        BY <1>3, <1>4
      <3>2. disk' = disk /\ written' = written
        BY <1>1, Zenon
      <3>3. Len(disk[p][o]) \in Nat
        BY TypeFacts
      <3>4. DiskOK(p, o)
        BY <2>1, Zenon
      <3> QED
        BY <3>1, <3>2, <3>3, <3>4, SMTT(60) DEF DiskOK
    <2> QED
      BY <1>t, <1>1, <1>6, <1>10, <2>2, <2>3, DiskStep, Zenon
  <1>13. ReclaimInv'
    <2>1. ASSUME NEW q \in Peer, NEW o \in Peer PROVE Held(q, o) <= Held(q, o)'
      <3>1. Len(disk[q][o]) \in Nat /\ Seen(q)[o] \in Nat
        BY TypeFacts, Zenon
      <3>2. CASE q = p
        <4>1. Seen(q)[o] <= Len(disk[q][o])
          BY <1>1, <3>2, Zenon DEF DiskInv, DiskOK
        <4> QED
          BY <1>1, <1>3, <3>1, <3>2, <4>1, SMTT(60) DEF Held
      <3>3. CASE q # p
        BY <1>1, <1>3, <1>4, <3>1, <3>3, SMTT(60) DEF Held
      <3> QED
        BY <3>2, <3>3, Zenon
    <2>2. ASSUME NEW a \in Peer, NEW q \in Peer, NEW o \in Peer
          PROVE  peerCursors'[a][q][o] <= peerCursors[a][q][o]
      <3>1. peerCursors[a][q][o] \in Nat
        BY DEF TypeOK
      <3>2. peerCursors'[a][q][o] = IF a = p THEN 0 ELSE peerCursors[a][q][o]
        BY <1>1, Zenon DEF TypeOK
      <3> QED
        BY <3>1, <3>2
    <2>3. ASSUME NEW q \in Peer, NEW o \in Peer PROVE log'[q].base[o] <= log[q].base[o]
      <3>1. log[q].base[o] \in Nat
        BY TypeFacts, CursorType, ZenonT(60)
      <3>2. EmptyLog.base[o] = 0
        BY DEF EmptyLog
      <3> QED
        BY <1>3, <3>1, <3>2, SMTT(60)
    <2> QED
      BY <1>t, <2>1, <2>2, <2>3, ReclaimStep, Zenon
  <1>v. IInv'
    BY <1>t, <1>6, <1>7, <1>8, <1>9, <1>11, <1>12, <1>13, Zenon
  <1>h. Progress(p)
    BY <1>1, <1>3, <1>10 DEF Progress, EndsDown
  <1> QED
    BY <1>v, <1>h, Zenon

\* A peer that opens has replayed all its own writes.
LEMMA OpenInvariant ==
  ASSUME IInv, NEW p \in Peer, Open(p)
  PROVE  IInv' /\ Progress(p)
  <1> USE DEF IInv
  <1>1. /\ phase[p] = "replaying" /\ \A o \in Peer : Replayed(p, o)
        /\ phase' = [phase EXCEPT ![p] = "up"]
        /\ mirror' = [mirror EXCEPT ![p] = [k \in Key |-> Visible(cells[p][k])]]
        /\ clock' = clock /\ log' = log /\ cells' = cells /\ disk' = disk
        /\ peerCursors' = peerCursors /\ written' = written
    BY DEF Open
  <1>2. /\ phase'[p] = "up" /\ \A q \in Peer : q # p => phase'[q] = phase[q]
        /\ \A k \in Key : mirror'[p][k] = Visible(cells[p][k])
        /\ \A q \in Peer : q # p => mirror'[q] = mirror[q]
    BY <1>1 DEF TypeOK
  <1>3. p \in Durable
    BY <1>1, Zenon DEF DiskInv
  <1>4. \A o \in Peer : Seen(p)[o] = Len(disk[p][o])
    BY <1>1, TypeFacts, CursorType, Zenon DEF Replayed, Seen
  <1>t. TypeOK'
    <2>1. phase' \in [Peer -> {"up", "replaying"}]
      BY <1>1, Zenon DEF TypeOK
    <2>2. \A k \in Key : Visible(cells[p][k]) \in Frame \cup {None}
      BY TypeFacts DEF Visible, Cell
    <2>3. mirror' \in [Peer -> [Key -> Frame \cup {None}]]
      BY <1>1, <2>2, Zenon DEF TypeOK
    <2> QED
      BY <1>1, <2>1, <2>3, Zenon DEF TypeOK
  <1>5. \A q, o \in Peer : Seen(q)'[o] = Seen(q)[o]
    BY <1>1, Zenon DEF Seen
  <1>6. WrittenInv' /\ ClockInv' /\ CellInv' /\ WrittenGrows
    <2>1. \A q \in Peer : HlcLeq(clock[q], clock'[q])
      BY <1>1, TypeFacts, HlcOrder, Zenon
    <2> QED
      BY <1>t, <1>1, <1>5, <2>1, QuietStep, Zenon
  <1>7. PrefixConsistent'
    BY <1>1, Zenon DEF PrefixConsistent, Seen
  <1>8. OthersKeep(p)
    BY <1>1, <1>2 DEF OthersKeep
  <1>9. OwnInv'
    <2>1. Seen(p)[p] <= Len(written[p]) /\ Len(written[p]) <= Len(disk[p][p])
      BY <1>3, Zenon DEF PrefixConsistent, DiskInv, OwnDiskOK
    <2>2. Seen(p)'[p] = Len(written'[p])
      <3>1. Seen(p)'[p] = Seen(p)[p] /\ Seen(p)[p] = Len(disk[p][p])
        BY <1>4, <1>5, Zenon
      <3>2. Len(written[p]) \in Nat /\ Len(disk[p][p]) \in Nat
        BY TypeFacts
      <3>3. written' = written
        BY <1>1
      <3> QED
        BY <2>1, <3>1, <3>2, <3>3, SMTT(60)
    <2> QED
      BY <1>8, <2>2, OwnStep, Zenon
  <1>10. MirrorFaithful'
    BY <1>1, <1>2, <1>8, MirrorStep, Zenon
  <1>11. DiskInv'
    <2>1. OwnDiskOK(p) /\ \A o \in Peer : DiskOK(p, o)
      BY <1>3, Zenon DEF DiskInv
    <2>2. OwnDiskOK(p)'
      BY <1>1, <2>1, Zenon DEF OwnDiskOK
    <2>3. ASSUME NEW o \in Peer PROVE DiskOK(p, o)'
      BY <1>1, <1>2, <1>4, <1>5, <2>1, TypeFacts, SMTT(60) DEF DiskOK
    <2> QED
      BY <1>t, <1>2, <1>6, <1>8, <2>2, <2>3, DiskStep, Zenon
  <1>12. ReclaimInv'
    <2>1. \A q, o \in Peer : Held(q, o)' = Held(q, o)
      BY <1>1, <1>2, <1>4, <1>5, SMTT(60) DEF Held
    <2> QED
      BY <1>1, <2>1, MembersAssumption, SMTT(60) DEF ReclaimInv
  <1>v. IInv'
    BY <1>t, <1>6, <1>7, <1>9, <1>10, <1>11, <1>12, Zenon
  <1>h. Progress(p)
    BY <1>1, <1>2, <1>4, <1>5, <1>8, ZenonT(60) DEF Progress, Opens
  <1> QED
    BY <1>v, <1>h, Zenon

\* The frame of o that p replays next, and its number.
ReplayedSeq(p, o) == Seen(p)[o] + 1
ReplayedFrame(p, o) == disk[p][o][ReplayedSeq(p, o)]

\* The frame replayed next is the next one of its origin's history, which it
\* joins now if it is a write that was refused.
LEMMA ReplayFacts ==
  ASSUME IInv, NEW p \in Peer, NEW o \in Peer, Replay(p, o)
  PROVE  LET n == ReplayedSeq(p, o)
             f == ReplayedFrame(p, o)
         IN  /\ p \in Durable /\ phase[p] = "replaying"
             /\ n \in 1 .. Len(disk[p][o])
             /\ f \in Frame /\ f.stamp.peer = o /\ f.seq = n
             /\ Classify(log[p], f) = "Appended"
             /\ NextSeq(log[p], o) = n
             /\ n <= Len(written[o]) => f = written[o][n]
             /\ n > Len(written[o]) => o = p /\ n = Len(written[p]) + 1
  <1> USE DEF IInv
  <1> DEFINE n == Seen(p)[o] + 1
             f == disk[p][o][n]
  <1>1. phase[p] = "replaying" /\ ~Replayed(p, o)
    BY Zenon DEF Replay
  <1>2. p \in Durable
    BY <1>1 DEF DiskInv
  <1>3. OwnDiskOK(p) /\ DiskOK(p, o)
    BY <1>2 DEF DiskInv
  <1>4. /\ Seen(p)[o] \in Nat /\ Len(disk[p][o]) \in Nat /\ Len(written[o]) \in Nat
        /\ log[p] \in Log
    BY TypeFacts
  <1>5. CursorFor(log[p], o) = Seen(p)[o]
    BY <1>4, CursorType, Zenon DEF Seen
  <1>6. Seen(p)[o] # Len(disk[p][o]) /\ Seen(p)[o] <= Len(disk[p][o])
    BY <1>1, <1>3, <1>5 DEF Replayed, DiskOK
  <1>7. n \in 1 .. Len(disk[p][o]) /\ NextSeq(log[p], o) = n
    BY <1>4, <1>5, <1>6, SMTT(60) DEF NextSeq
  <1>8. f \in Frame
    BY <1>7, TypeFacts, Zenon
  <1>9. n <= Len(written[o]) => f = written[o][n]
    BY <1>3, <1>7, Zenon DEF DiskOK
  <1>10. n > Len(written[o]) => o = p /\ n = Len(written[p]) + 1
    <2>1. o # p => Len(disk[p][o]) <= Len(written[o])
      BY <1>3, Zenon DEF DiskOK
    <2>2. Len(disk[p][p]) <= Len(written[p]) + 1
      BY <1>3 DEF OwnDiskOK
    <2>3. n \in Nat /\ n <= Len(disk[p][o])
      BY <1>4, <1>7, SMTT(60)
    <2> HIDE DEF n
    <2> QED
      BY <1>4, <2>1, <2>2, <2>3, SMTT(60)
  <1>11. IsFrameOf(f, o, n)
    <2>1. CASE n <= Len(written[o])
      <3>1. n \in 1 .. Len(written[o])
        BY <1>4, <2>1, SMTT(60)
      <3> HIDE DEF n
      <3> QED
        BY <1>9, <2>1, <3>1 DEF WrittenInv
    <2>2. CASE n > Len(written[o])
      BY <1>3, <1>7, <1>10, <2>2, Zenon DEF OwnDiskOK
    <2> QED
      BY <1>4, <2>1, <2>2, SMTT(60)
  <1>14. ReplayedSeq(p, o) = n /\ ReplayedFrame(p, o) = f
    BY Zenon DEF ReplayedSeq, ReplayedFrame
  <1> HIDE DEF f
  <1>12. f.stamp.peer = o /\ f.seq = n
    BY <1>11, Zenon DEF IsFrameOf
  <1>13. Classify(log[p], f) = "Appended"
    BY <1>4, <1>5, <1>12 DEF Classify
  <1> QED
    BY <1>1, <1>2, <1>7, <1>8, <1>9, <1>10, <1>12, <1>13, <1>14, Zenon

\* What replaying frame f does.
TakesBack(p, o, f) ==
    /\ HasHeadroom(clock[p]) /\ HasHeadroom(f.stamp.hlc)
    /\ clock' = [clock EXCEPT ![p] = Observe(clock[p], f.stamp.hlc, f.stamp.hlc.physical)]
    /\ log' = [log EXCEPT ![p] = Record(log[p], f)]
    /\ cells' = [cells EXCEPT ![p][f.key] = Merge(cells[p][f.key], f)]
    /\ written' = IF o = p /\ f.seq > Len(written[p])
                    THEN [written EXCEPT ![p] = Append(written[p], f)] ELSE written
    /\ disk' = disk /\ phase' = phase /\ peerCursors' = peerCursors /\ mirror' = mirror

\* A frame of the durable log that is next in order is taken back.
LEMMA ReplayEffects ==
  ASSUME NEW p, NEW o, NEW f, f = disk[p][o][NextSeq(log[p], o)],
         Classify(log[p], f) = "Appended", Replay(p, o)
  PROVE  TakesBack(p, o, f)
  BY Zenon DEF Replay, TakesBack

\* Replaying one frame is taking it in, without persisting or announcing it.
LEMMA ReplayInvariant ==
  ASSUME IInv, NEW p \in Peer, NEW o \in Peer, Replay(p, o)
  PROVE  IInv' /\ Progress(p)
  <1> USE DEF IInv
  <1> DEFINE n == ReplayedSeq(p, o)
             f == ReplayedFrame(p, o)
             N == Len(written[p])
             h == Observe(clock[p], f.stamp.hlc, f.stamp.hlc.physical)
  <1>1. /\ p \in Durable /\ phase[p] = "replaying"
        /\ n \in 1 .. Len(disk[p][o])
        /\ f \in Frame /\ f.stamp.peer = o /\ f.seq = n
        /\ Classify(log[p], f) = "Appended"
        /\ NextSeq(log[p], o) = n
        /\ n <= Len(written[o]) => f = written[o][n]
        /\ n > Len(written[o]) => o = p /\ n = Len(written[p]) + 1
    BY ReplayFacts, ZenonT(60)
  <1>2. /\ HasHeadroom(clock[p]) /\ HasHeadroom(f.stamp.hlc)
        /\ clock' = [clock EXCEPT ![p] = h]
        /\ log' = [log EXCEPT ![p] = Record(log[p], f)]
        /\ cells' = [cells EXCEPT ![p][f.key] = Merge(cells[p][f.key], f)]
        /\ written' = IF o = p /\ n > N THEN [written EXCEPT ![p] = Append(written[p], f)]
                                        ELSE written
        /\ disk' = disk /\ phase' = phase /\ peerCursors' = peerCursors /\ mirror' = mirror
    <2>1. NextSeq(log[p], o) = n
      BY <1>1, Zenon
    <2>2. f = disk[p][o][NextSeq(log[p], o)]
      BY <2>1, Zenon DEF ReplayedFrame
    <2>3. Classify(log[p], f) = "Appended" /\ f.seq = n
      BY <1>1, ZenonT(60)
    <2> HIDE DEF f, n
    <2>4. TakesBack(p, o, f)
      BY <2>2, <2>3, ReplayEffects, Zenon
    <2> QED
      BY <2>3, <2>4, ZenonT(60) DEF TakesBack
  <1>3. /\ n \in Nat /\ Seen(p)[o] \in Nat /\ N \in Nat /\ written[p] \in Seq(Frame)
        /\ n <= Len(disk[p][o])
    BY <1>1, TypeFacts, SMTT(60)
  <1> HIDE DEF f
  <1>4. /\ h \in Hlc /\ HlcLt(clock[p], h) /\ HlcLt(f.stamp.hlc, h)
    <2>1. f.stamp.hlc \in Hlc /\ clock[p] \in Hlc
      BY <1>1, FrameFields, TypeFacts, Zenon
    <2>2. f.stamp.hlc.physical \in Nat
      BY <2>1, Zenon DEF Hlc
    <2> QED
      BY <1>2, <2>1, <2>2, ObserveForward, Zenon
  <1> HIDE DEF h
  <1>5. cells[p][f.key] \in Cell /\ CellOK(p, f.key, cells[p][f.key]) /\ f.key \in Key
    BY <1>1, FrameFields, TypeFacts, Zenon DEF CellInv
  <1>6. /\ \A q \in Peer : q # p => written'[q] = written[q]
        /\ \/ written' = written /\ n <= Len(written[o])
           \/ /\ o = p /\ n = N + 1 /\ Len(written'[p]) = N + 1 /\ written'[p][N + 1] = f
              /\ \A i \in 1 .. N : written'[p][i] = written[p][i]
              /\ written' \in [Peer -> Seq(Frame)]
    <2>1. CASE o = p /\ n > N
      <3>1. written' = [written EXCEPT ![p] = Append(written[p], f)]
        BY <1>2, <2>1, Zenon
      <3>2. /\ written'[p] = Append(written[p], f)
            /\ \A q \in Peer : q # p => written'[q] = written[q]
        BY <3>1, Zenon DEF TypeOK
      <3>3. Append(written[p], f) \in Seq(Frame)
        BY <1>1, <1>3, SMTT(60)
      <3>4. written' \in [Peer -> Seq(Frame)]
        BY <3>1, <3>3, Zenon DEF TypeOK
      <3>5. n = N + 1
        BY <1>1, <2>1, Zenon
      <3>6. /\ Len(written'[p]) = N + 1 /\ written'[p][N + 1] = f
            /\ \A i \in 1 .. N : written'[p][i] = written[p][i]
        BY <1>1, <1>3, <3>2, SMTT(60)
      <3> QED
        BY <2>1, <3>2, <3>4, <3>5, <3>6, Zenon
    <2>2. CASE ~(o = p /\ n > N)
      <3>1. written' = written
        BY <1>2, <2>2, Zenon
      <3>2. n <= Len(written[o])
        <4>1. Len(written[o]) \in Nat
          BY TypeFacts, Zenon
        <4>2. ~(n > Len(written[o]))
          BY <1>1, <2>2, Zenon
        <4> QED
          BY <1>3, <4>1, <4>2, SMTT(60)
      <3> QED
        BY <3>1, <3>2
    <2> QED
      BY <2>1, <2>2, Zenon
  <1>t. TypeOK'
    <2>1. clock' \in [Peer -> Hlc]
      BY <1>2, <1>4, ZenonT(60) DEF TypeOK
    <2>2. Record(log[p], f) \in Log
      BY <1>1, TypeFacts, RecordAppends, Zenon
    <2>3. log' \in [Peer -> Log]
      BY <1>2, <2>2, Zenon DEF TypeOK
    <2>4. Merge(cells[p][f.key], f) \in Cell
      BY <1>1, <1>5, MergeCovers, Zenon DEF CellOK
    <2>5. cells' \in [Peer -> [Key -> Cell]]
      BY <1>2, <1>5, <2>4, Zenon DEF TypeOK
    <2>6. written' \in [Peer -> Seq(Frame)]
      BY <1>6, Zenon DEF TypeOK
    <2> QED
      BY <1>2, <2>1, <2>3, <2>5, <2>6, Zenon DEF TypeOK
  <1>7. WrittenGrows
    <2> SUFFICES ASSUME NEW q \in Peer
                 PROVE  /\ Len(written[q]) <= Len(written'[q])
                        /\ \A i \in 1 .. Len(written[q]) : written'[q][i] = written[q][i]
      BY DEF WrittenGrows
    <2>1. Len(written[q]) \in Nat
      BY TypeFacts, Zenon
    <2> QED
      BY <1>3, <1>6, <2>1, SMTT(60)
  <1>8. n <= Len(written'[o]) /\ written'[o][n] = f
    <2>1. Len(written[o]) \in Nat
      BY TypeFacts
    <2>2. CASE written' = written /\ n <= Len(written[o])
      BY <1>1, <2>2
    <2>3. CASE o = p /\ n = N + 1 /\ Len(written'[p]) = N + 1 /\ written'[p][N + 1] = f
      BY <1>3, <2>3, SMTT(60)
    <2> QED
      BY <1>6, <2>2, <2>3, Zenon
  <1>9. Absorbs(p, f)
    <2>1. f.seq <= Len(written'[f.stamp.peer]) /\ written'[f.stamp.peer][f.seq] = f
      BY <1>1, <1>8, Zenon
    <2>2. clock'[p] = h /\ clock[p] \in Hlc /\ \A q \in Peer : q # p => clock'[q] = clock[q]
      BY <1>2, Zenon DEF TypeOK
    <2>3. HlcLeq(clock[p], h) /\ HlcLeq(f.stamp.hlc, h)
      BY <1>1, <1>4, <2>2, FrameFields, HlcOrder, ZenonT(60)
    <2>4. /\ Classify(log[p], f) = "Appended"
          /\ log' = [log EXCEPT ![p] = Record(log[p], f)]
          /\ cells' = [cells EXCEPT ![p][f.key] = Merge(cells[p][f.key], f)]
      BY <1>1, <1>2, Zenon
    <2> QED
      BY <2>1, <2>2, <2>3, <2>4, Zenon DEF Absorbs
  <1>10. PrefixConsistent' /\ ClockInv' /\ CellInv'
    BY <1>t, <1>1, <1>7, <1>9, AbsorbPrefix, AbsorbClock, AbsorbCells, ZenonT(60)
  <1>11. \A q, r \in Peer : Seen(q)'[r] = IF q = p /\ r = o THEN n ELSE Seen(q)[r]
    BY <1>1, <1>9, AbsorbSeen, SMTT(60)
  <1>12. OwnDiskOK(p) /\ \A r \in Peer : DiskOK(p, r)
    BY <1>1, Zenon DEF DiskInv
  <1>13. WrittenInv'
    <2>1. CASE written' = written
      BY <2>1, Zenon DEF WrittenInv, StampsIncrease
    <2>2. CASE /\ o = p /\ n = N + 1 /\ Len(written'[p]) = N + 1 /\ written'[p][N + 1] = f
               /\ \A i \in 1 .. N : written'[p][i] = written[p][i]
      \* the whole of p's history is what p has on disk
      <3>1. ASSUME NEW i \in 1 .. N + 1
            PROVE  i \in 1 .. Len(disk[p][p]) /\ written'[p][i] = disk[p][p][i]
        <4>1. N + 1 <= Len(disk[p][p]) /\ Len(disk[p][p]) \in Nat
          BY <1>3, <2>2, TypeFacts, Zenon
        <4>2. CASE i = N + 1
          BY <2>2, <4>1, <4>2, SMTT(60) DEF f, ReplayedFrame
        <4>3. CASE i \in 1 .. N
          <5>1. i \in 1 .. Len(disk[p][p]) /\ i <= Len(written[p])
            BY <1>3, <4>1, <4>3, SMTT(60)
          <5>2. disk[p][p][i] = written[p][i]
            BY <1>12, <5>1, Zenon DEF DiskOK
          <5> QED
            BY <2>2, <4>3, <5>1, <5>2, Zenon
        <4> QED
          BY <1>3, <4>2, <4>3, SMTT(60)
      <3>2. ASSUME NEW q \in Peer, NEW i \in 1 .. Len(written'[q])
            PROVE  IsFrameOf(written'[q][i], q, i)
        <4>1. CASE q = p
          BY <1>12, <2>2, <3>1, <4>1, Zenon DEF OwnDiskOK
        <4>2. CASE q # p
          BY <1>6, <4>2, Zenon DEF WrittenInv
        <4> QED
          BY <4>1, <4>2, Zenon
      <3>3. ASSUME NEW q \in Peer, NEW i \in 1 .. Len(written'[q]),
                   NEW j \in 1 .. Len(written'[q]), i < j
            PROVE  HlcLt(written'[q][i].stamp.hlc, written'[q][j].stamp.hlc)
        <4>1. CASE q = p
          <5>1. i \in 1 .. N + 1 /\ j \in 1 .. N + 1
            BY <2>2, <4>1, Zenon
          <5>2. /\ i \in 1 .. Len(disk[p][p]) /\ written'[p][i] = disk[p][p][i]
                /\ j \in 1 .. Len(disk[p][p]) /\ written'[p][j] = disk[p][p][j]
            BY <3>1, <5>1, Zenon
          <5> QED
            BY <1>12, <3>3, <4>1, <5>2, Zenon DEF OwnDiskOK
        <4>2. CASE q # p
          BY <1>6, <3>3, <4>2, Zenon DEF WrittenInv, StampsIncrease
        <4> QED
          BY <4>1, <4>2, Zenon
      <3> QED
        BY <3>2, <3>3, ZenonT(60) DEF WrittenInv, StampsIncrease
    <2> QED
      BY <1>6, <2>1, <2>2, Zenon
  <1>14. OthersKeep(p)
    <2>1. \A q \in Peer : q # p => /\ log'[q] = log[q] /\ cells'[q] = cells[q]
      BY <1>2, Zenon DEF TypeOK
    <2> QED
      BY <1>2, <1>6, <2>1, Zenon DEF OthersKeep
  <1>15. OwnInv' /\ MirrorFaithful'
    BY <1>1, <1>2, <1>14, OwnStep, MirrorStep, Zenon
  <1>16. DiskInv'
    <2>1. OwnDiskOK(p)'
      <3>1. Len(written'[p]) <= Len(disk[p][p]) /\ Len(disk[p][p]) <= Len(written'[p]) + 1
        <4>1. Len(written[p]) <= Len(disk[p][p]) /\ Len(disk[p][p]) <= Len(written[p]) + 1
          BY <1>12, Zenon DEF OwnDiskOK
        <4>2. Len(disk[p][p]) \in Nat
          BY TypeFacts, Zenon
        <4> QED
          BY <1>3, <1>6, <4>1, <4>2, SMTT(60)
      <3> QED
        BY <1>2, <1>12, <3>1, Zenon DEF OwnDiskOK
    <2>2. ASSUME NEW r \in Peer PROVE DiskOK(p, r)'
      <3>0. /\ Len(disk[p][r]) \in Nat /\ Len(written[r]) \in Nat /\ Len(written'[r]) \in Nat
            /\ Len(written[r]) <= Len(written'[r])
        <4>1. Len(disk[p][r]) \in Nat /\ Len(written[r]) \in Nat
          BY TypeFacts, Zenon
        <4>2. written' \in [Peer -> Seq(Frame)]
          BY <1>t DEF TypeOK
        <4>3. Len(written'[r]) \in Nat
          BY <4>2, SMTT(60)
        <4> QED
          BY <1>7, <4>1, <4>3, Zenon DEF WrittenGrows
      <3>1. Seen(p)'[r] <= Len(disk[p][r])
        BY <1>3, <1>11, <1>12, Zenon DEF DiskOK
      <3>2. r # p => Len(disk[p][r]) <= Len(written'[r])
        BY <1>12, <3>0, SMTT(60) DEF DiskOK
      <3>3. ASSUME NEW i \in 1 .. Len(disk[p][r]), i <= Len(written'[r])
            PROVE  disk[p][r][i] = written'[r][i]
        <4>1. CASE i <= Len(written[r])
          <5>1. i \in 1 .. Len(written[r])
            BY <3>0, <4>1, SMTT(60)
          <5> QED
            BY <1>7, <1>12, <4>1, <5>1, ZenonT(60) DEF DiskOK, WrittenGrows
        <4>2. CASE i > Len(written[r])
          <5>1. r = o /\ i = n
            BY <1>3, <1>6, <3>0, <3>3, <4>2, SMTT(60)
          <5> QED
            BY <1>8, <5>1, Zenon DEF f, ReplayedFrame
        <4> QED
          BY <3>0, <4>1, <4>2, SMTT(60)
      <3> QED
        BY <1>1, <1>2, <3>1, <3>2, <3>3, Zenon DEF DiskOK
    <2> QED
      BY <1>t, <1>1, <1>7, <1>14, <2>1, <2>2, DiskStep, Zenon
  <1>17. ReclaimInv'
    <2>1. ASSUME NEW q \in Peer, NEW r \in Peer PROVE Held(q, r) <= Held(q, r)'
      <3>1. Held(q, r)' = Held(q, r)
        BY <1>1, <1>2, <1>11, Zenon DEF Held
      <3>2. Held(q, r) \in Nat
        BY TypeFacts, Zenon DEF Held
      <3> QED
        BY <3>1, <3>2, SMTT(60)
    <2>2. ASSUME NEW a \in Peer, NEW q \in Peer, NEW r \in Peer
          PROVE  peerCursors'[a][q][r] <= peerCursors[a][q][r]
      <3>1. peerCursors[a][q][r] \in Nat
        BY SMTT(60) DEF TypeOK
      <3> QED
        BY <1>2, <3>1, SMTT(60)
    <2>3. ASSUME NEW q \in Peer, NEW r \in Peer PROVE log'[q].base[r] <= log[q].base[r]
      <3>1. log[q].base[r] \in Nat /\ log[q] \in Log
        BY TypeFacts, CursorType, Zenon
      <3>2. Record(log[p], f).base = log[p].base
        BY <1>1, TypeFacts, RecordAppends, ZenonT(60)
      <3>3. log'[q] = IF q = p THEN Record(log[p], f) ELSE log[q]
        BY <1>2, ZenonT(60) DEF TypeOK
      <3>4. log'[q].base = log[q].base
        BY <3>2, <3>3
      <3> QED
        BY <3>1, <3>4, SMTT(60)
    <2> QED
      BY <1>t, <2>1, <2>2, <2>3, ReclaimStep, Zenon
  <1>v. IInv'
    BY <1>t, <1>10, <1>13, <1>15, <1>16, <1>17, Zenon
  <1>h. Progress(p)
    BY <1>1, <1>2, <1>14 DEF Progress, EndsDown
  <1> QED
    BY <1>v, <1>h, Zenon

==============================================================================
