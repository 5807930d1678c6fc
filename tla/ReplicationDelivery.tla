----------------------- MODULE ReplicationDelivery ---------------------------
(***************************************************************************)
(* Receiving frames, noting cursors, reclaiming and collecting preserve    *)
(* the inductive invariant of Replication.                                 *)
(***************************************************************************)
EXTENDS ReplicationLemmas, WellFoundedInduction

(* Frames from other peers. *)

\* A received frame is another peer's, and joins the log, the applier and disk.
LEMMA ReceiveInv ==
  ASSUME IInv, NEW p \in Peer, NEW o \in Peer, NEW wall \in Wall,
         NEW i \in 1 .. Len(written[o]), Receive(p, written[o][i], wall)
  PROVE  IInv' /\ Progress(p)
  <1> DEFINE f == written[o][i]
  <1> USE DEF IInv
  <1>1. /\ Hear(p, f, wall) /\ Classify(log[p], f) = "Appended"
        /\ disk' = IF p \in Durable THEN [disk EXCEPT ![p] = Stored(disk[p], f)] ELSE disk
        /\ log' = [log EXCEPT ![p] = Record(log[p], f)]
        /\ cells' = [cells EXCEPT ![p][f.key] = Merge(cells[p][f.key], f)]
        /\ mirror' = IF MergeOutcome(cells[p][f.key], f) = "Applied"
                       THEN [mirror EXCEPT ![p][f.key] = IF IsDelete(f) THEN None ELSE f]
                       ELSE mirror
        /\ phase' = phase /\ peerCursors' = peerCursors /\ written' = written
    BY DEF Receive, Persist, Announce
  <1>2. f \in Frame /\ f.key \in Key
    BY TypeFacts, FrameFields
  <1>3. /\ phase[p] = "up" /\ clock' \in [Peer -> Hlc]
        /\ HlcLeq(clock[p], clock'[p]) /\ HlcLeq(f.stamp.hlc, clock'[p])
        /\ \A q \in Peer : q # p => clock'[q] = clock[q]
    <2> HIDE DEF f
    <2> QED
      BY <1>1, <1>2, HearFacts, Zenon
  <1>4. o # p /\ f.stamp.peer = o /\ f.seq = i /\ i = Seen(p)[o] + 1
    BY <1>1, <1>3, NextIsForeign
  <1>5. p \in Durable => DiskGains(p, f)
    <2> HIDE DEF f
    <2>1. f.seq = Seen(p)[f.stamp.peer] + 1
      BY <1>4
    <2> QED
      BY <1>1, <1>2, <1>3, <2>1, PersistFacts, ZenonT(60)
  <1>6. cells[p][f.key] \in Cell /\ CellOK(p, f.key, cells[p][f.key])
    BY <1>2, TypeFacts, Zenon DEF CellInv
  <1>t. TypeOK'
    <2> HIDE DEF f
    <2>1. Record(log[p], f) \in Log
      BY <1>1, <1>2, TypeFacts, RecordAppends
    <2>2. log' \in [Peer -> Log]
      BY <1>1, <2>1 DEF TypeOK
    <2>3. Merge(cells[p][f.key], f) \in Cell
      BY <1>2, <1>6, MergeCovers, Zenon DEF CellOK
    <2>4. cells' \in [Peer -> [Key -> Cell]]
      BY <1>1, <1>2, <2>3, Zenon DEF TypeOK
    <2>5. disk' \in [Peer -> [Peer -> Seq(Frame)]]
      BY <1>1, <1>5, Zenon DEF TypeOK, DiskGains
    <2>6. mirror' \in [Peer -> [Key -> Frame \cup {None}]]
      BY <1>1, <1>2, ZenonT(60) DEF TypeOK
    <2> QED
      BY <1>1, <1>3, <2>2, <2>4, <2>5, <2>6, ZenonT(60) DEF TypeOK
  <1>7. WrittenGrows /\ WrittenInv'
    <2>1. \A q \in Peer : Len(written[q]) \in Nat
      BY TypeFacts, ZenonT(60)
    <2> QED
      BY <1>1, <2>1, SMTT(60) DEF WrittenGrows, WrittenInv, StampsIncrease
  <1>8. Absorbs(p, f)
    <2>1. i <= Len(written[o])
      BY TypeFacts, SMTT(60)
    <2>2. written' = written
      BY <1>1
    <2>3. f.seq <= Len(written'[f.stamp.peer]) /\ written'[f.stamp.peer][f.seq] = f
      <3>1. written[o][i] = f
        OBVIOUS
      <3> HIDE DEF f
      <3> QED
        BY <1>4, <2>1, <2>2, <3>1, Zenon
    <2> QED
      BY <1>1, <1>3, <2>3, ZenonT(60) DEF Absorbs
  <1> HIDE DEF f
  <1>9. PrefixConsistent' /\ ClockInv' /\ CellInv'
    BY <1>t, <1>2, <1>7, <1>8, AbsorbPrefix, AbsorbClock, AbsorbCells, ZenonT(60)
  <1>10. \A q, r \in Peer : Seen(q)'[r] = IF q = p /\ r = o THEN i ELSE Seen(q)[r]
    BY <1>2, <1>4, <1>8, AbsorbSeen, SMTT(60)
  <1>11. OthersKeep(p)
    <2>1. \A q \in Peer : q # p => /\ log'[q] = log[q] /\ phase'[q] = phase[q]
                                   /\ cells'[q] = cells[q] /\ mirror'[q] = mirror[q]
      BY <1>1, Zenon DEF TypeOK
    <2>2. \A q \in Peer : q # p => disk'[q] = disk[q]
      BY <1>1, <1>5, Zenon DEF DiskGains
    <2> QED
      BY <1>1, <2>1, <2>2, Zenon DEF OthersKeep
  <1>12. OwnInv'
    BY <1>1, <1>3, <1>4, <1>10, <1>11, OwnStep, SMTT(60) DEF OwnInv
  <1>13. MirrorFaithful'
    <2>1. ASSUME NEW k \in Key PROVE mirror'[p][k] = Visible(cells'[p][k])
      <3>0. mirror[p][k] = Visible(cells[p][k])
        BY <1>3 DEF MirrorFaithful
      <3>1. CASE k = f.key /\ MergeOutcome(cells[p][k], f) = "Applied"
        <4>1. mirror'[p][k] = IF IsDelete(f) THEN None ELSE f
          BY <1>1, <1>2, <3>1, Zenon DEF TypeOK
        <4>2. cells'[p][k] = Merge(cells[p][k], f)
          BY <1>1, <1>2, <3>1, Zenon DEF TypeOK
        <4>3. Merge(cells[p][k], f).current = f
          BY <1>6, <3>1 DEF Merge, Cell
        <4>4. f # None
          BY <1>2, FrameFields
        <4> QED
          BY <4>1, <4>2, <4>3, <4>4, Zenon DEF Visible
      <3>2. CASE k = f.key /\ MergeOutcome(cells[p][k], f) # "Applied"
        <4>1. mirror' = mirror /\ cells'[p][k] = Merge(cells[p][k], f)
          BY <1>1, <1>2, <3>2, Zenon DEF TypeOK
        <4>2. Merge(cells[p][k], f) = cells[p][k]
          BY <3>2 DEF Merge
        <4> QED
          BY <3>0, <4>1, <4>2, Zenon
      <3>3. CASE k # f.key
        <4>1. mirror'[p][k] = mirror[p][k] /\ cells'[p][k] = cells[p][k]
          BY <1>1, <1>2, <3>3, Zenon DEF TypeOK
        <4> QED
          BY <3>0, <4>1
      <3> QED
        BY <3>1, <3>2, <3>3
    <2> QED
      BY <1>11, <2>1, MirrorStep, Zenon
  <1>14. DiskInv'
    <2>1. p \in Durable => OwnDiskOK(p)' /\ \A q \in Peer : DiskOK(p, q)'
      BY <1>1, <1>3, <1>4, <1>5, <1>10, ForeignDisk, ZenonT(60) DEF f
    <2> QED
      BY <1>t, <1>1, <1>3, <1>7, <1>11, <2>1, DiskStep, Zenon
  <1>g. \A r \in Peer : Seen(p)[r] <= Seen(p)'[r]
    BY <1>4, <1>10, TypeFacts, SMTT(60)
  <1>15. ReclaimInv'
    <2>2. log'[p].base = log[p].base
      BY <1>2, <1>8, AbsorbBase
    <2> QED
      BY <1>t, <1>1, <1>3, <1>11, <1>g, <2>2, UpReclaim, Zenon
  <1>v. IInv'
    BY <1>t, <1>7, <1>9, <1>12, <1>13, <1>14, <1>15, Zenon
  <1>h. Progress(p)
    <2>1. Len(written'[p]) <= Len(written[p]) + 1
      BY <1>1, TypeFacts, SMTT(60)
    <2> QED
      BY <1>1, <1>3, <1>7, <1>11, <1>g, <2>1, ZenonT(60) DEF Progress, StaysUp
  <1> QED
    BY <1>v, <1>h, Zenon

\* A frame that is heard and not recorded changes the clock, and possibly disk.
LEMMA HeardOnlyInv ==
  ASSUME IInv, NEW p \in Peer, NEW o \in Peer, NEW wall \in Wall,
         NEW i \in 1 .. Len(written[o]),
         ReceiveIgnored(p, written[o][i], wall) \/ ReceiveUnpersisted(p, written[o][i], wall)
  PROVE  IInv' /\ Progress(p)
  <1> DEFINE f == written[o][i]
  <1> USE DEF IInv
  <1>1. /\ Hear(p, f, wall)
        /\ disk' = disk \/ /\ Classify(log[p], f) = "Appended" /\ p \in Durable
                           /\ disk' = [disk EXCEPT ![p] = Stored(disk[p], f)]
        /\ log' = log /\ cells' = cells /\ mirror' = mirror
        /\ phase' = phase /\ peerCursors' = peerCursors /\ written' = written
    BY ZenonT(60) DEF ReceiveIgnored, ReceiveUnpersisted, PersistFails
  <1>2. f \in Frame
    BY TypeFacts, Zenon
  <1>3. /\ phase[p] = "up" /\ clock' \in [Peer -> Hlc]
        /\ \A q \in Peer : HlcLeq(clock[q], clock'[q])
    <2> HIDE DEF f
    <2> QED
      BY <1>1, <1>2, HearFacts
  <1>4. disk' = disk \/ /\ p \in Durable /\ o # p /\ f.stamp.peer = o /\ f.seq = i
                        /\ i = Seen(p)[o] + 1 /\ DiskGains(p, f)
    <2>1. CASE /\ Classify(log[p], f) = "Appended" /\ p \in Durable
               /\ disk' = [disk EXCEPT ![p] = Stored(disk[p], f)]
      <3>1. o # p /\ f.stamp.peer = o /\ f.seq = i /\ i = Seen(p)[o] + 1
        BY <1>3, <2>1, NextIsForeign, ZenonT(60)
      <3>2. f.seq = Seen(p)[f.stamp.peer] + 1
        BY <3>1
      <3>3. DiskGains(p, f)
        <4> HIDE DEF f
        <4> QED
          BY <1>2, <1>3, <2>1, <3>2, PersistFacts, Zenon
      <3> QED
        BY <2>1, <3>1, <3>3, ZenonT(60)
    <2> QED
      BY <1>1, <2>1, ZenonT(60)
  <1>t. TypeOK'
    BY <1>1, <1>3, <1>4, ZenonT(60) DEF TypeOK, DiskGains
  <1>5. \A q, r \in Peer : Seen(q)'[r] = Seen(q)[r]
    BY <1>1, Zenon DEF Seen
  <1>6. WrittenInv' /\ ClockInv' /\ CellInv' /\ WrittenGrows
    BY <1>t, <1>1, <1>3, <1>5, QuietStep, ZenonT(60)
  <1>7. PrefixConsistent' /\ OwnInv' /\ MirrorFaithful'
    BY <1>1, ZenonT(60) DEF PrefixConsistent, OwnInv, MirrorFaithful, Seen
  <1>8. OthersKeep(p)
    BY <1>1, <1>4, Zenon DEF OthersKeep, DiskGains
  <1>9. DiskInv'
    <2>1. CASE disk' = disk
      BY <1>1, <1>5, <2>1, DiskQuiet, Zenon
    <2>2. CASE /\ p \in Durable /\ o # p /\ f.stamp.peer = o /\ f.seq = i
               /\ i = Seen(p)[o] + 1 /\ DiskGains(p, f)
      <3>1. OwnDiskOK(p)' /\ \A q \in Peer : DiskOK(p, q)'
        BY <1>1, <1>3, <1>5, <2>2, ForeignDisk, ZenonT(60)
      <3> QED
        BY <1>t, <1>1, <1>3, <1>6, <1>8, <2>2, <3>1, DiskStep, ZenonT(60)
    <2> QED
      BY <1>4, <2>1, <2>2, Zenon
  <1>g. \A r \in Peer : Seen(p)[r] <= Seen(p)'[r]
    BY <1>5, TypeFacts, SMTT(60)
  <1>10. ReclaimInv'
    BY <1>t, <1>1, <1>3, <1>8, <1>g, UpReclaim, ZenonT(60)
  <1>v. IInv'
    BY <1>t, <1>6, <1>7, <1>9, <1>10, Zenon
  <1>h. Progress(p)
    <2>1. Len(written'[p]) <= Len(written[p]) + 1
      BY <1>1, TypeFacts, SMTT(60)
    <2> QED
      BY <1>1, <1>3, <1>6, <1>8, <1>g, <2>1, ZenonT(60) DEF Progress, StaysUp
  <1> QED
    BY <1>v, <1>h, Zenon

------------------------------------------------------------------------------
(* Reclaiming and collecting. *)

\* A non-empty set of naturals has a minimum.
LEMMA MinFacts ==
  ASSUME NEW S \in SUBSET Nat, S # {}
  PROVE  Min(S) \in S /\ \A x \in S : Min(S) <= x
  <1> DEFINE R == OpToRel(<, Nat)
  <1>1. IsWellFoundedOn(R, Nat)
    BY NatLessThanWellFounded, Zenon
  <1>2. \E x \in S : \A y \in S : ~ (<<y, x>> \in R)
    <2> HIDE DEF R
    <2> QED
      BY <1>1, WFMin, Zenon
  <1>3. ASSUME NEW x \in S, NEW y \in S, ~ (<<y, x>> \in R) PROVE x <= y
    <2>1. <<y, x>> \in Nat \X Nat /\ <<y, x>>[1] = y /\ <<y, x>>[2] = x
      OBVIOUS
    <2>2. ~ (y < x)
      BY <1>3, <2>1 DEF OpToRel
    <2> QED
      BY <2>2
  <1> HIDE DEF R
  <1>4. \E x \in S : \A y \in S : x <= y
    BY <1>2, <1>3, Zenon
  <1> QED
    BY <1>4, Zenon DEF Min

\* Truncating drops a prefix, keeps the cursors, and moves the base no further
\* than asked.
LEMMA TruncateFacts ==
  ASSUME NEW l \in Log, NEW upTo \in [Peer -> Nat]
  PROVE  LET m == Truncate(l, upTo)
         IN  /\ m \in Log
             /\ \A o \in Peer :
                  /\ Cursors(m)[o] = Cursors(l)[o]
                  /\ m.base[o] = l.base[o] \/ m.base[o] <= upTo[o]
                  /\ \E d \in Nat :
                       /\ m.base[o] = l.base[o] + d
                       /\ d + Len(m.observed[o]) = Len(l.observed[o])
                       /\ \A i \in 1 .. Len(m.observed[o]) :
                            m.observed[o][i] = l.observed[o][d + i]
  <1> DEFINE want(o) == IF upTo[o] <= l.base[o] THEN 0 ELSE upTo[o] - l.base[o]
             drop == [o \in Peer |-> IF want(o) <= Len(l.observed[o]) THEN want(o)
                                     ELSE Len(l.observed[o])]
             obs == [o \in Peer |-> SubSeq(l.observed[o], drop[o] + 1, Len(l.observed[o]))]
             bas == [o \in Peer |-> l.base[o] + drop[o]]
             m == Truncate(l, upTo)
  <1>1. m = [observed |-> obs, base |-> bas]
    BY DEF Truncate
  <1>2. ASSUME NEW o \in Peer
        PROVE  /\ drop[o] \in 0 .. Len(l.observed[o])
               /\ drop[o] = 0 \/ l.base[o] + drop[o] <= upTo[o]
               /\ l.base[o] \in Nat /\ Len(l.observed[o]) \in Nat
               /\ l.observed[o] \in Seq(Frame)
    BY CursorType, SMTT(60)
  <1> HIDE DEF drop, m
  <1>3. ASSUME NEW o \in Peer
        PROVE  /\ m.observed[o] = SubSeq(l.observed[o], drop[o] + 1, Len(l.observed[o]))
               /\ m.base[o] = l.base[o] + drop[o]
    <2>1. /\ obs[o] = SubSeq(l.observed[o], drop[o] + 1, Len(l.observed[o]))
          /\ bas[o] = l.base[o] + drop[o]
      BY ZenonT(60)
    <2> HIDE DEF obs, bas
    <2> QED
      BY <1>1, <2>1, Zenon
  <1>4. ASSUME NEW o \in Peer
        PROVE  /\ m.observed[o] \in Seq(Frame)
               /\ Len(m.observed[o]) = Len(l.observed[o]) - drop[o]
               /\ \A i \in 1 .. Len(m.observed[o]) : m.observed[o][i] = l.observed[o][drop[o] + i]
    <2> DEFINE s == l.observed[o]
               d == drop[o]
               t == SubSeq(s, d + 1, Len(s))
    <2>1. s \in Seq(Frame) /\ Len(s) \in Nat /\ d \in 0 .. Len(s)
      BY <1>2
    <2>2. t \in Seq(Frame) /\ Len(t) = Len(s) - d /\ \A i \in 1 .. Len(s) - d : t[i] = s[d + i]
      <3> HIDE DEF s, d
      <3>1. d + 1 \in 1 .. Len(s) + 1 /\ d + 1 \in Nat
        BY <2>1
      <3> QED
        BY <2>1, <3>1
    <2>3. m.observed[o] = t
      BY <1>3
    <2> HIDE DEF s, d, t
    <2>4. Len(m.observed[o]) = Len(s) - d
      BY <2>2, <2>3
    <2> QED
      BY <2>2, <2>3, <2>4 DEF s, d
  <1>5. m \in Log
    <2>1. obs \in [Peer -> Seq(Frame)]
      <3>1. \A o \in Peer : obs[o] = m.observed[o]
        BY <1>3, Zenon
      <3>2. \A o \in Peer : obs[o] \in Seq(Frame)
        BY <1>4, <3>1, Zenon
      <3>3. obs = [o \in Peer |-> obs[o]]
        BY Zenon
      <3> HIDE DEF obs
      <3> QED
        BY <3>2, <3>3
    <2>2. bas \in [Peer -> Nat]
      <3>1. ASSUME NEW o \in Peer PROVE l.base[o] + drop[o] \in Nat
        <4>1. l.base[o] \in Nat /\ drop[o] \in Nat
          BY <1>2
        <4> QED
          BY <4>1
      <3> QED
        BY <3>1
    <2> HIDE DEF obs, bas
    <2> QED
      BY <1>1, <2>1, <2>2 DEF Log
  <1>6. ASSUME NEW o \in Peer
        PROVE  /\ Cursors(m)[o] = Cursors(l)[o]
               /\ m.base[o] = l.base[o] \/ m.base[o] <= upTo[o]
               /\ drop[o] \in Nat /\ drop[o] + Len(m.observed[o]) = Len(l.observed[o])
    <2> DEFINE d == drop[o]
               n == Len(l.observed[o])
               b == l.base[o]
    <2>1. Cursors(l)[o] = b + n /\ Cursors(m)[o] = m.base[o] + Len(m.observed[o])
      BY <1>5, CursorType
    <2>2. b \in Nat /\ n \in Nat /\ d \in 0 .. n /\ (d = 0 \/ b + d <= upTo[o])
      BY <1>2
    <2>3. m.base[o] = b + d /\ Len(m.observed[o]) = n - d
      BY <1>3, <1>4
    <2> HIDE DEF d, n, b
    <2>4. /\ Cursors(m)[o] = Cursors(l)[o]
          /\ m.base[o] = b \/ m.base[o] <= upTo[o]
          /\ d \in Nat /\ d + Len(m.observed[o]) = n
      BY <2>1, <2>2, <2>3, SMTT(60)
    <2> QED
      BY <2>4 DEF d, n, b
  <1>7. ASSUME NEW o \in Peer
        PROVE  \E d \in Nat :
                 /\ m.base[o] = l.base[o] + d
                 /\ d + Len(m.observed[o]) = Len(l.observed[o])
                 /\ \A i \in 1 .. Len(m.observed[o]) : m.observed[o][i] = l.observed[o][d + i]
    <2>1. /\ drop[o] \in Nat /\ m.base[o] = l.base[o] + drop[o]
          /\ drop[o] + Len(m.observed[o]) = Len(l.observed[o])
          /\ \A i \in 1 .. Len(m.observed[o]) : m.observed[o][i] = l.observed[o][drop[o] + i]
      BY <1>3, <1>4, <1>6
    <2> QED
      BY <2>1, Zenon
  <1> QED
    BY <1>5, <1>6, <1>7, Zenon DEF m

\* A step that leaves what p has written and seen, and the other peers, alone.
LEMMA QuietProgress ==
  ASSUME TypeOK, NEW p \in Peer, phase[p] = "up",
         phase' = phase, disk' = disk, written' = written, mirror' = mirror,
         \A q \in Peer : q # p => log'[q] = log[q] /\ cells'[q] = cells[q],
         \A q, o \in Peer : Seen(q)'[o] = Seen(q)[o]
  PROVE  Progress(p)
  <1>1. OthersKeep(p)
    BY Zenon DEF OthersKeep
  <1>2. \A o \in Peer : Seen(p)[o] <= Seen(p)'[o] /\ Len(written[o]) \in Nat
    BY TypeFacts, SMTT(60)
  <1>3. WrittenGrows /\ Len(written'[p]) <= Len(written[p]) + 1
    BY <1>2, SMTT(60) DEF WrittenGrows
  <1> QED
    BY <1>1, <1>2, <1>3, Zenon DEF Progress, StaysUp

\* The cursors a Hello reports are ones its sender still holds.
LEMMA NoteCursorsInv ==
  ASSUME IInv, NEW p \in Peer, NEW q \in Peer, NEW cs \in [Peer -> Nat], NoteCursors(p, q, cs)
  PROVE  IInv' /\ Progress(p)
  <1> USE DEF IInv
  <1>1. /\ phase[p] = "up" /\ phase[q] = "up" /\ \A o \in Peer : cs[o] <= Seen(q)[o]
        /\ peerCursors' = [peerCursors EXCEPT ![p][q] = cs]
        /\ clock' = clock /\ log' = log /\ cells' = cells /\ disk' = disk
        /\ phase' = phase /\ written' = written /\ mirror' = mirror
    BY DEF NoteCursors
  <1>t. TypeOK'
    <2>1. peerCursors' \in [Peer -> [Peer -> [Peer -> Nat]]]
      BY <1>1, ZenonT(60) DEF TypeOK
    <2> QED
      BY <1>1, <2>1, Zenon DEF TypeOK
  <1>2. /\ WrittenInv' /\ PrefixConsistent' /\ OwnInv' /\ MirrorFaithful'
    BY <1>1 DEF WrittenInv, StampsIncrease, PrefixConsistent, OwnInv, MirrorFaithful, Seen
  <1>s. \A r, o \in Peer : Seen(r)'[o] = Seen(r)[o]
    BY <1>1 DEF Seen
  <1>3. DiskInv' /\ ClockInv' /\ CellInv'
    <2>1. DiskInv'
      BY <1>1, ZenonT(60) DEF DiskInv, OwnDiskOK, DiskOK, Seen
    <2>2. \A r \in Peer : HlcLeq(clock[r], clock'[r])
      BY <1>1, TypeFacts, HlcOrder, Zenon
    <2> QED
      BY <1>t, <1>1, <1>s, <2>1, <2>2, QuietStep, ZenonT(60)
  <1>4. \A r, o \in Peer : Held(r, o)' = Held(r, o)
    BY <1>1, Zenon DEF Held, Seen
  <1>5. ReclaimInv'
    <2>1. ASSUME NEW a \in Peer, NEW r \in Peer, NEW o \in Peer
          PROVE  peerCursors'[a][r][o] <= Held(r, o)
      <3>1. CASE a = p /\ r = q
        <4>1. peerCursors'[a][r] = cs
          BY <1>1, <3>1, Zenon DEF TypeOK
        <4> QED
          BY <1>1, <3>1, <4>1, Zenon DEF Held
      <3>2. CASE ~(a = p /\ r = q)
        <4>1. peerCursors'[a][r] = peerCursors[a][r]
          BY <1>1, <3>2, Zenon DEF TypeOK
        <4> QED
          BY <4>1, Zenon DEF ReclaimInv
      <3> QED
        BY <3>1, <3>2, Zenon
    <2> QED
      BY <1>1, <1>4, <2>1, MembersAssumption, SMTT(60) DEF ReclaimInv
  <1>v. IInv'
    BY <1>t, <1>2, <1>3, <1>5
  <1>h. Progress(p)
    BY <1>1, <1>s, QuietProgress, Zenon
  <1> QED
    BY <1>v, <1>h, Zenon

\* The low-water-mark is a cursor p has and every listed member has reached.
LEMMA LowWaterFacts ==
  ASSUME IInv, NEW p \in Peer, phase[p] = "up", NEW o \in Peer
  PROVE  LowWater(p, o) \in Nat /\ \A q \in Members : LowWater(p, o) <= Held(q, o)
  <1> USE DEF IInv
  <1> DEFINE S == {CursorFor(log[p], o)} \cup {peerCursors[p][m][o] : m \in Members \ {p}}
  <1>1. CursorFor(log[p], o) = Seen(p)[o] /\ Seen(p)[o] \in Nat
    BY TypeFacts, CursorType, Zenon DEF Seen
  <1>2. \A m \in Peer : peerCursors[p][m][o] \in Nat
    BY SMTT(60) DEF TypeOK
  <1>3. S \in SUBSET Nat /\ S # {}
    BY <1>1, <1>2, MembersAssumption, Zenon
  <1>4. LowWater(p, o) \in S /\ \A x \in S : LowWater(p, o) <= x
    <2>1. LowWater(p, o) = Min(S)
      BY DEF LowWater
    <2> HIDE DEF S
    <2> QED
      BY <1>3, <2>1, MinFacts, SMTT(60)
  <1>5. ASSUME NEW q \in Members PROVE LowWater(p, o) <= Held(q, o)
    <2>1. CASE q = p
      BY <1>1, <1>4, <2>1, Zenon DEF Held
    <2>2. CASE q # p
      <3>1. LowWater(p, o) <= peerCursors[p][q][o]
        BY <1>4, <2>2, Zenon
      <3>2. peerCursors[p][q][o] <= Held(q, o) /\ peerCursors[p][q][o] \in Nat
        BY <1>2, MembersAssumption, Zenon DEF ReclaimInv
      <3>3. Held(q, o) \in Nat /\ LowWater(p, o) \in Nat
        BY <1>3, <1>4, TypeFacts, MembersAssumption, Zenon DEF Held
      <3> HIDE DEF S
      <3> QED
        BY <3>1, <3>2, <3>3, SMTT(60)
    <2> QED
      BY <2>1, <2>2, Zenon
  <1> QED
    BY <1>3, <1>4, <1>5, Zenon

\* Reclaiming drops only frames that every listed member holds.
LEMMA ReclaimInvariant ==
  ASSUME IInv, NEW p \in Peer, Reclaim(p)
  PROVE  IInv' /\ Progress(p)
  <1> USE DEF IInv
  <1> DEFINE upTo == [o \in Peer |-> LowWater(p, o)]
             l == log[p]
             m == Truncate(l, upTo)
  <1>1. /\ phase[p] = "up" /\ log' = [log EXCEPT ![p] = m]
        /\ clock' = clock /\ cells' = cells /\ disk' = disk /\ phase' = phase
        /\ peerCursors' = peerCursors /\ written' = written /\ mirror' = mirror
    BY DEF Reclaim
  <1>2. upTo \in [Peer -> Nat] /\ \A o \in Peer : upTo[o] = LowWater(p, o)
    BY <1>1, LowWaterFacts, Zenon
  <1>3. l \in Log
    BY TypeFacts, Zenon
  <1> HIDE DEF upTo
  <1>4. /\ m \in Log
        /\ \A o \in Peer :
             /\ Cursors(m)[o] = Cursors(l)[o]
             /\ m.base[o] = l.base[o] \/ m.base[o] <= upTo[o]
             /\ \E d \in Nat :
                  /\ m.base[o] = l.base[o] + d
                  /\ d + Len(m.observed[o]) = Len(l.observed[o])
                  /\ \A i \in 1 .. Len(m.observed[o]) : m.observed[o][i] = l.observed[o][d + i]
    <2> HIDE DEF l
    <2> QED
      BY <1>2, <1>3, TruncateFacts, ZenonT(60)
  <1> HIDE DEF m
  <1>5. log'[p] = m /\ \A q \in Peer : q # p => log'[q] = log[q]
    BY <1>1 DEF TypeOK
  <1>t. TypeOK'
    <2>1. log' \in [Peer -> Log]
      BY <1>1, <1>4 DEF TypeOK
    <2> QED
      BY <1>1, <2>1, ZenonT(60) DEF TypeOK
  <1>6. \A q, o \in Peer : Seen(q)'[o] = Seen(q)[o]
    BY <1>4, <1>5 DEF Seen
  <1>7. WrittenInv' /\ ClockInv' /\ CellInv' /\ WrittenGrows
    <2>1. \A q \in Peer : HlcLeq(clock[q], clock'[q])
      BY <1>1, TypeFacts, HlcOrder, Zenon
    <2> QED
      BY <1>t, <1>1, <1>6, <2>1, QuietStep, ZenonT(60)
  <1>8. PrefixConsistent'
    <2> SUFFICES ASSUME NEW q \in Peer, NEW o \in Peer
                 PROVE  /\ Seen(q)'[o] <= Len(written'[o])
                        /\ \A i \in 1 .. Len(log'[q].observed[o]) :
                             log'[q].observed[o][i] = written'[o][log'[q].base[o] + i]
      BY Zenon DEF PrefixConsistent
    <2>1. Seen(q)'[o] <= Len(written'[o])
      BY <1>1, <1>6, Zenon DEF PrefixConsistent
    <2>2. \A i \in 1 .. Len(log[q].observed[o]) :
             log[q].observed[o][i] = written[o][log[q].base[o] + i]
      BY Zenon DEF PrefixConsistent
    <2>3. CASE q # p
      BY <1>1, <1>5, <2>1, <2>2, <2>3, ZenonT(60)
    <2>4. CASE q = p
      <3>1. PICK d \in Nat :
                 /\ m.base[o] = l.base[o] + d
                 /\ d + Len(m.observed[o]) = Len(l.observed[o])
                 /\ \A i \in 1 .. Len(m.observed[o]) : m.observed[o][i] = l.observed[o][d + i]
        BY <1>4, Zenon
      <3>2. /\ l.base[o] \in Nat /\ Len(l.observed[o]) \in Nat /\ Len(m.observed[o]) \in Nat
        BY <1>3, <1>4, CursorType, Zenon
      <3>3. ASSUME NEW i \in 1 .. Len(m.observed[o])
            PROVE  m.observed[o][i] = written[o][m.base[o] + i]
        <4>1. d + i \in 1 .. Len(l.observed[o]) /\ l.base[o] + (d + i) = m.base[o] + i
          <5> HIDE DEF l
          <5> QED
            BY <3>1, <3>2
        <4>2. l.observed[o][d + i] = written[o][l.base[o] + (d + i)]
          BY <2>2, <2>4, <4>1
        <4> QED
          BY <3>1, <4>1, <4>2, ZenonT(60)
      <3> QED
        BY <1>1, <1>5, <2>1, <2>4, <3>3, SMTT(60)
    <2> QED
      BY <2>3, <2>4, Zenon
  <1>9. OwnInv' /\ MirrorFaithful'
    BY <1>1, <1>6 DEF OwnInv, MirrorFaithful
  <1>10. DiskInv'
    BY <1>1, <1>6, DiskQuiet, ZenonT(60)
  <1>11. ReclaimInv'
    <2>1. \A q, o \in Peer : Held(q, o)' = Held(q, o)
      BY <1>1, <1>6 DEF Held
    <2>2. ASSUME NEW a \in Peer, NEW o \in Peer, NEW q \in Members
          PROVE  log'[a].base[o] <= Held(q, o)
      <3>1. CASE a = p
        <4>1. l.base[o] <= Held(q, o) /\ upTo[o] <= Held(q, o)
          BY <1>1, <1>2, LowWaterFacts, Zenon DEF ReclaimInv
        <4>2. Held(q, o) \in Nat
          BY TypeFacts, MembersAssumption, Zenon DEF Held
        <4>3. m.base[o] \in Nat /\ upTo[o] \in Nat
          BY <1>2, <1>4, CursorType, ZenonT(60)
        <4>4. m.base[o] = l.base[o] \/ m.base[o] <= upTo[o]
          BY <1>4
        <4>5. m.base[o] <= Held(q, o)
          <5> HIDE DEF l
          <5> QED
            BY <4>1, <4>2, <4>3, <4>4, SMTT(60)
        <4> QED
          BY <1>5, <3>1, <4>5, Zenon
      <3>2. CASE a # p
        BY <1>5, <3>2 DEF ReclaimInv
      <3> QED
        BY <3>1, <3>2
    <2> QED
      BY <1>1, <2>1, <2>2, MembersAssumption, SMTT(60) DEF ReclaimInv
  <1>v. IInv'
    BY <1>t, <1>7, <1>8, <1>9, <1>10, <1>11, ZenonT(60)
  <1>h. Progress(p)
    BY <1>1, <1>5, <1>6, QuietProgress, Zenon
  <1> QED
    BY <1>v, <1>h, Zenon

\* A collected tombstone keeps older writes out through the floor.
LEMMA CollectInvariant ==
  ASSUME IInv, NEW p \in Peer, NEW k \in Key, Collect(p, k)
  PROVE  IInv' /\ Progress(p)
  <1> USE DEF IInv
  <1> DEFINE c == cells[p][k]
             d == CollectTombstone(c)
  <1>1. /\ phase[p] = "up" /\ HoldsTombstone(c) /\ cells' = [cells EXCEPT ![p][k] = d]
        /\ clock' = clock /\ log' = log /\ disk' = disk /\ phase' = phase
        /\ peerCursors' = peerCursors /\ written' = written /\ mirror' = mirror
    BY Zenon DEF Collect
  <1>2. c \in Cell /\ CellOK(p, k, c)
    BY TypeFacts, Zenon DEF CellInv
  <1>3. /\ d \in Cell
        /\ \A s \in Stamp : Covers(c, s) => Covers(d, s)
        /\ d.current = None /\ d.gcFloor = c.current.stamp
    <2> HIDE DEF c
    <2> QED
      BY <1>1, <1>2, CollectCovers, Zenon DEF CellOK
  <1> HIDE DEF d
  <1>4. \A q \in Peer, j \in Key : cells'[q][j] = IF q = p /\ j = k THEN d ELSE cells[q][j]
    BY <1>1, Zenon DEF TypeOK
  <1>t. TypeOK'
    <2>1. cells' \in [Peer -> [Key -> Cell]]
      BY <1>1, <1>3, Zenon DEF TypeOK
    <2> QED
      BY <1>1, <2>1, Zenon DEF TypeOK
  <1>5. /\ WrittenInv' /\ PrefixConsistent' /\ OwnInv'
    BY <1>1, ZenonT(60) DEF WrittenInv, StampsIncrease, PrefixConsistent, OwnInv, Seen
  <1>6. DiskInv' /\ ClockInv'
    BY <1>1, ZenonT(60) DEF DiskInv, OwnDiskOK, DiskOK, ClockInv, Seen, Has
  <1>7. ReclaimInv'
    BY <1>1 DEF ReclaimInv, Held, Seen
  <1>8. MirrorFaithful'
    <2> SUFFICES ASSUME NEW q \in Peer, phase[q] = "up", NEW j \in Key
                 PROVE  mirror[q][j] = Visible(cells'[q][j])
      BY <1>1, Zenon DEF MirrorFaithful
    <2>1. mirror[q][j] = Visible(cells[q][j])
      BY DEF MirrorFaithful
    <2>2. Visible(c) = None /\ Visible(d) = None
      BY <1>1, <1>3 DEF Visible, HoldsTombstone
    <2> QED
      BY <1>4, <2>1, <2>2, Zenon
  <1>9. CellInv'
    <2> SUFFICES ASSUME NEW q \in Peer, NEW j \in Key PROVE CellOK(q, j, cells[q][j])'
      BY DEF CellInv
    <2>0. \A o \in Peer : \A i : Has(q, o, i)' <=> Has(q, o, i)
      BY <1>1, Zenon DEF Has, Seen
    <2>1. CASE ~(q = p /\ j = k)
      <3>1. cells'[q][j] = cells[q][j] /\ CellOK(q, j, cells[q][j])
        BY <1>4, <2>1, Zenon DEF CellInv
      <3> QED
        BY <1>1, <2>0, <3>1, Zenon DEF CellOK
    <2>2. CASE q = p /\ j = k
      <3>1. cells'[q][j] = d
        BY <1>4, <2>2, Zenon
      <3>2. ASSUME NEW o \in Peer, NEW i \in 1 .. Len(written[o]), Has(p, o, i),
                   written[o][i].key = k
            PROVE  Covers(d, written[o][i].stamp)
        <4>1. Covers(c, written[o][i].stamp)
          BY <1>2, <3>2, Zenon DEF CellOK
        <4>2. written[o][i].stamp \in Stamp
          BY TypeFacts, FrameFields, Zenon
        <4> QED
          BY <1>3, <4>1, <4>2, Zenon
      <3>3. \E o \in Peer : \E i \in 1 .. Len(written[o]) :
               /\ Has(p, o, i) /\ d.gcFloor = written[o][i].stamp
               /\ written[o][i].key = k /\ IsDelete(written[o][i])
        <4>1. c.current # None /\ IsDelete(c.current)
          BY <1>1, Zenon DEF HoldsTombstone
        <4>2. PICK o \in Peer : \E i \in 1 .. Len(written[o]) :
                  Has(p, o, i) /\ c.current = written[o][i] /\ written[o][i].key = k
          BY <1>2, <4>1, Zenon DEF CellOK
        <4>3. PICK i \in 1 .. Len(written[o]) :
                  Has(p, o, i) /\ c.current = written[o][i] /\ written[o][i].key = k
          BY <4>2
        <4> HIDE DEF c
        <4> QED
          BY <1>3, <4>1, <4>3, Zenon
      <3> QED
        BY <1>1, <1>3, <2>0, <2>2, <3>1, <3>2, <3>3, ZenonT(60) DEF CellOK
    <2> QED
      BY <2>1, <2>2
  <1>v. IInv'
    BY <1>t, <1>5, <1>6, <1>7, <1>8, <1>9, Zenon
  <1>h. Progress(p)
    <2>1. \A q, o \in Peer : Seen(q)'[o] = Seen(q)[o]
      BY <1>1, Zenon DEF Seen
    <2>2. \A q \in Peer : q # p => log'[q] = log[q] /\ cells'[q] = cells[q]
      BY <1>1, Zenon DEF TypeOK
    <2> QED
      BY <1>1, <2>1, <2>2, QuietProgress, Zenon
  <1> QED
    BY <1>v, <1>h, Zenon
==============================================================================
