-------------------------- MODULE ReplicationLemmas --------------------------
(***************************************************************************)
(* Lemmas about the clocks, the applier, the replication log and the       *)
(* durable log of Replication, and about what its steps have in common.    *)
(***************************************************************************)
EXTENDS Replication, TLAPS

------------------------------------------------------------------------------
(* Clocks and stamps. *)

\* Bump adds one where the u32 counter has room.
LEMMA BumpNoWrap ==
  ASSUME NEW n \in 0 .. LogicalMod - 1, n + 1 < LogicalMod
  PROVE  Bump(n) = n + 1
  BY LogicalModAssumption DEF Bump

\* Hlc::tick moves the clock strictly forward.
LEMMA TickForward ==
  ASSUME NEW h \in Hlc, NEW wall \in Nat, HasHeadroom(h)
  PROVE  Tick(h, wall) \in Hlc /\ HlcLt(h, Tick(h, wall))
  <1>1. Bump(h.logical) = h.logical + 1
    BY BumpNoWrap, Zenon DEF Hlc, HasHeadroom
  <1> QED
    BY <1>1, LogicalModAssumption DEF Tick, Hlc, HlcLt, MaxOf, HasHeadroom

\* Hlc::observe moves the clock strictly past what it was and what it hears.
LEMMA ObserveForward ==
  ASSUME NEW h \in Hlc, NEW r \in Hlc, NEW wall \in Nat, HasHeadroom(h), HasHeadroom(r)
  PROVE  /\ Observe(h, r, wall) \in Hlc
         /\ HlcLt(h, Observe(h, r, wall))
         /\ HlcLt(r, Observe(h, r, wall))
  <1>1. Bump(h.logical) = h.logical + 1 /\ Bump(r.logical) = r.logical + 1
    BY BumpNoWrap DEF Hlc, HasHeadroom
  <1>2. Bump(MaxOf(h.logical, r.logical)) = MaxOf(h.logical, r.logical) + 1
    BY <1>1 DEF MaxOf
  <1> QED
    BY <1>1, <1>2, LogicalModAssumption DEF Observe, Hlc, HlcLt, MaxOf, HasHeadroom

\* Clock values are totally ordered.
LEMMA HlcOrder ==
  ASSUME NEW a \in Hlc, NEW b \in Hlc, NEW c \in Hlc
  PROVE  /\ ~HlcLt(a, a) /\ HlcLeq(a, a)
         /\ HlcLt(a, b) => HlcLeq(a, b) /\ ~HlcLeq(b, a)
         /\ HlcLeq(a, b) /\ HlcLeq(b, c) => HlcLeq(a, c)
         /\ HlcLeq(a, b) /\ HlcLt(b, c) => HlcLt(a, c)
         /\ HlcLt(a, b) /\ HlcLeq(b, c) => HlcLt(a, c)
  BY LogicalModAssumption DEF Hlc, HlcLt, HlcLeq

\* Stamps are totally ordered, and a later clock makes a later stamp.
LEMMA StampOrder ==
  ASSUME NEW a \in Stamp, NEW b \in Stamp, NEW c \in Stamp
  PROVE  /\ ~StampLt(a, a)
         /\ StampLt(a, b) \/ a = b \/ StampLt(b, a)
         /\ StampLeq(a, b) /\ StampLeq(b, a) => a = b
         /\ StampLt(a, b) => ~StampLeq(b, a)
         /\ StampLeq(a, b) /\ StampLeq(b, c) => StampLeq(a, c)
         /\ StampLeq(a, b) /\ StampLt(b, c) => StampLt(a, c)
         /\ HlcLt(a.hlc, b.hlc) => StampLt(a, b)
  <1>1. \A s \in Stamp : s.hlc \in Hlc /\ s.peer \in Nat
    BY PeerAssumption, Zenon DEF Stamp
  <1>2. \A h \in Hlc : h.physical \in Nat /\ h.logical \in Nat
    BY LogicalModAssumption DEF Hlc
  <1>3. \A g, h \in Hlc : g.physical = h.physical /\ g.logical = h.logical => g = h
    BY DEF Hlc
  <1>4. \A s, t \in Stamp : s.hlc = t.hlc /\ s.peer = t.peer => s = t
    BY DEF Stamp
  <1>5. /\ a.hlc.physical = b.hlc.physical /\ a.hlc.logical = b.hlc.logical
        /\ a.peer = b.peer
        => a = b
    BY <1>1, <1>3, <1>4
  <1>6. /\ a.hlc.physical \in Nat /\ a.hlc.logical \in Nat /\ a.peer \in Nat
        /\ b.hlc.physical \in Nat /\ b.hlc.logical \in Nat /\ b.peer \in Nat
        /\ c.hlc.physical \in Nat /\ c.hlc.logical \in Nat /\ c.peer \in Nat
    BY <1>1, <1>2
  <1> QED
    BY <1>5, <1>6 DEF StampLt, StampLeq, HlcLt

------------------------------------------------------------------------------
(* The applier and the log. *)

\* The parts of a frame.
LEMMA FrameFields ==
  ASSUME NEW f \in Frame
  PROVE  /\ f.stamp \in Stamp /\ f.stamp.peer \in Peer /\ f.stamp.hlc \in Hlc
         /\ f.seq \in Nat /\ f.seq > 0 /\ f.op \in Op /\ f.key \in Key
         /\ f # None /\ f.stamp # None
  <1>1. f.stamp \in Stamp /\ f.seq \in Nat /\ f.seq > 0 /\ f.op \in Op /\ f.key \in Key
    BY DEF Frame
  <1>2. f.stamp.peer \in Peer /\ f.stamp.hlc \in Hlc
    BY <1>1 DEF Stamp
  <1> QED
    BY <1>1, <1>2, NoneAssumption

\* Merging keeps everything a cell covered covered, covers the new write, and
\* holds what it held or the new write.
LEMMA MergeCovers ==
  ASSUME NEW c \in Cell, NEW w \in Frame,
         c.gcFloor # None /\ c.current # None => StampLt(c.gcFloor, c.current.stamp)
  PROVE  LET d == Merge(c, w)
         IN  /\ d \in Cell
             /\ \A s \in Stamp : Covers(c, s) => Covers(d, s)
             /\ Covers(d, w.stamp)
             /\ d.gcFloor = c.gcFloor
             /\ d.current = c.current \/ d.current = w
             /\ d.gcFloor # None /\ d.current # None => StampLt(d.gcFloor, d.current.stamp)
  <1>1. /\ c.current # None => c.current \in Frame /\ c.current.stamp \in Stamp
        /\ c.gcFloor # None => c.gcFloor \in Stamp
    BY FrameFields DEF Cell
  <1>2. w.stamp \in Stamp /\ w # None
    BY FrameFields
  <1>3. CASE MergeOutcome(c, w) # "Applied"
    <2>1. Merge(c, w) = c
      BY <1>3 DEF Merge
    <2>2. Covers(c, w.stamp)
      BY <1>3 DEF MergeOutcome, Covers
    <2> QED
      BY <2>1, <2>2
  <1>4. CASE MergeOutcome(c, w) = "Applied"
    <2>1. /\ Merge(c, w) = [current |-> w, gcFloor |-> c.gcFloor]
          /\ Merge(c, w) \in Cell
      BY <1>4 DEF Merge, Cell
    <2>2. /\ c.gcFloor # None => StampLt(c.gcFloor, w.stamp)
          /\ c.current # None => StampLt(c.current.stamp, w.stamp)
      BY <1>1, <1>2, <1>4, StampOrder, ZenonT(60) DEF MergeOutcome, StampLeq
    <2>3. \A s \in Stamp : Covers(c, s) => Covers(Merge(c, w), s)
      <3> SUFFICES ASSUME NEW s \in Stamp, Covers(c, s)
                   PROVE  Covers(Merge(c, w), s)
        OBVIOUS
      <3>1. CASE c.current # None /\ StampLeq(s, c.current.stamp)
        <4>1. StampLeq(s, w.stamp)
          BY <1>1, <1>2, <2>2, <3>1, StampOrder DEF StampLeq
        <4> QED
          BY <1>2, <2>1, <4>1, SMTT(60) DEF Covers
      <3>2. CASE c.gcFloor # None /\ StampLeq(s, c.gcFloor)
        BY <2>1, <3>2 DEF Covers
      <3> QED
        BY <3>1, <3>2 DEF Covers
    <2>4. Covers(Merge(c, w), w.stamp)
      BY <1>2, <2>1 DEF Covers, StampLeq
    <2> QED
      BY <2>1, <2>2, <2>3, <2>4
  <1> QED
    BY <1>3, <1>4

\* Collecting a tombstone turns it into the floor and uncovers nothing.
LEMMA CollectCovers ==
  ASSUME NEW c \in Cell, HoldsTombstone(c),
         c.gcFloor # None /\ c.current # None => StampLt(c.gcFloor, c.current.stamp)
  PROVE  LET d == CollectTombstone(c)
         IN  /\ d \in Cell
             /\ \A s \in Stamp : Covers(c, s) => Covers(d, s)
             /\ d.current = None /\ d.gcFloor = c.current.stamp
  <1>1. /\ c.current # None /\ c.current \in Frame /\ c.current.stamp \in Stamp
        /\ c.current.stamp # None
        /\ c.gcFloor # None => c.gcFloor \in Stamp
    BY FrameFields DEF Cell, HoldsTombstone
  <1>2. CollectTombstone(c) = [current |-> None, gcFloor |-> c.current.stamp]
    BY <1>1, StampOrder DEF CollectTombstone
  <1>3. ASSUME NEW s \in Stamp, Covers(c, s) PROVE StampLeq(s, c.current.stamp)
    BY <1>1, <1>3, StampOrder DEF Covers, StampLeq
  <1> QED
    BY <1>1, <1>2, <1>3 DEF Cell, Covers

\* A cursor counts the reclaimed frames and the stored ones.
LEMMA CursorType ==
  ASSUME NEW l \in Log, NEW o \in Peer
  PROVE  /\ Cursors(l)[o] = l.base[o] + Len(l.observed[o])
         /\ CursorFor(l, o) = l.base[o] + Len(l.observed[o])
         /\ Cursors(l)[o] \in Nat /\ l.base[o] \in Nat /\ Len(l.observed[o]) \in Nat
         /\ l.observed[o] \in Seq(Frame)
  BY SMTT(60) DEF Log, Cursors, CursorFor

\* Recording the next frame of its origin appends it and advances that cursor.
LEMMA RecordAppends ==
  ASSUME NEW l \in Log, NEW f \in Frame, Classify(l, f) = "Appended"
  PROVE  LET o == f.stamp.peer
             m == Record(l, f)
         IN  /\ m \in Log
             /\ m.base = l.base
             /\ f.seq = Cursors(l)[o] + 1
             /\ m.observed[o] = Append(l.observed[o], f)
             /\ \A q \in Peer : q # o => m.observed[q] = l.observed[q]
             /\ \A q \in Peer : Cursors(m)[q] = IF q = o THEN f.seq ELSE Cursors(l)[q]
  <1> DEFINE o == f.stamp.peer
             m == Record(l, f)
  <1>1. o \in Peer /\ f.seq \in Nat
    BY FrameFields
  <1>2. l.observed \in [Peer -> Seq(Frame)] /\ l.base \in [Peer -> Nat]
    BY DEF Log
  <1>3. m = [observed |-> [l.observed EXCEPT ![o] = Append(@, f)], base |-> l.base]
    BY DEF Record
  <1>4. [l.observed EXCEPT ![o] = Append(@, f)] \in [Peer -> Seq(Frame)]
    BY <1>1, <1>2, SMTT(60)
  <1>5. m \in Log
    BY <1>2, <1>3, <1>4 DEF Log
  <1>6. f.seq = Cursors(l)[o] + 1
    BY <1>1, CursorType DEF Classify
  <1>7. Len(Append(l.observed[o], f)) = Len(l.observed[o]) + 1
    BY <1>1, <1>2, SMTT(60)
  <1>8. /\ m.base = l.base /\ m.observed[o] = Append(l.observed[o], f)
        /\ \A q \in Peer : q # o => m.observed[q] = l.observed[q]
    BY <1>1, <1>2, <1>3
  <1>9. \A q \in Peer : Cursors(m)[q] = IF q = o THEN f.seq ELSE Cursors(l)[q]
    <2> HIDE DEF m
    <2> SUFFICES ASSUME NEW q \in Peer
                 PROVE  Cursors(m)[q] = IF q = o THEN f.seq ELSE Cursors(l)[q]
      BY Zenon
    <2>1. /\ Cursors(m)[q] = m.base[q] + Len(m.observed[q])
          /\ Cursors(l)[q] = l.base[q] + Len(l.observed[q])
          /\ l.base[q] \in Nat /\ Len(l.observed[q]) \in Nat
      BY <1>5, CursorType
    <2>2. CASE q = o
      <3>1. Len(m.observed[q]) = Len(l.observed[q]) + 1 /\ m.base[q] = l.base[q]
        BY <1>7, <1>8, <2>2, Zenon
      <3>2. Cursors(m)[q] = Cursors(l)[q] + 1
        BY <2>1, <3>1, SMTT(60)
      <3>3. f.seq = Cursors(l)[q] + 1
        BY <1>6, <2>2
      <3> QED
        BY <2>2, <3>2, <3>3, Zenon
    <2>3. CASE q # o
      <3>1. Len(m.observed[q]) = Len(l.observed[q]) /\ m.base[q] = l.base[q]
        BY <1>8, <2>3
      <3> QED
        BY <2>1, <2>3, <3>1
    <2> QED
      BY <2>2, <2>3
  <1> QED
    BY <1>5, <1>6, <1>8, <1>9

------------------------------------------------------------------------------
(* What the steps that take a frame in have in common. *)

\* Histories are only appended to.
WrittenGrows ==
    \A o \in Peer :
        /\ Len(written[o]) <= Len(written'[o])
        /\ \A i \in 1 .. Len(written[o]) : written'[o][i] = written[o][i]

\* Peer p takes in frame f, the next of its origin: a local write, a received
\* frame, or a replayed one.
Absorbs(p, f) ==
    /\ Classify(log[p], f) = "Appended"
    /\ log' = [log EXCEPT ![p] = Record(@, f)]
    /\ cells' = [cells EXCEPT ![p][f.key] = Merge(@, f)]
    /\ \A q \in Peer : q # p => clock'[q] = clock[q]
    /\ HlcLeq(clock[p], clock'[p]) /\ HlcLeq(f.stamp.hlc, clock'[p])
    /\ f.seq <= Len(written'[f.stamp.peer]) /\ written'[f.stamp.peer][f.seq] = f

\* The type invariant, applied.
LEMMA TypeFacts ==
  ASSUME TypeOK
  PROVE  /\ \A p \in Peer : clock[p] \in Hlc /\ log[p] \in Log
         /\ \A p \in Peer, k \in Key : cells[p][k] \in Cell
         /\ \A o \in Peer : written[o] \in Seq(Frame) /\ Len(written[o]) \in Nat
         /\ \A o \in Peer : \A i \in 1 .. Len(written[o]) : written[o][i] \in Frame
         /\ \A p, o \in Peer : /\ disk[p][o] \in Seq(Frame) /\ Len(disk[p][o]) \in Nat
                              /\ Seen(p)[o] \in Nat
         /\ \A p, o \in Peer : \A i \in 1 .. Len(disk[p][o]) : disk[p][o][i] \in Frame
  <1>1. \A p \in Peer : clock[p] \in Hlc /\ log[p] \in Log
    BY DEF TypeOK
  <1>2. \A p \in Peer, k \in Key : cells[p][k] \in Cell
    BY DEF TypeOK
  <1>3. \A o \in Peer : written[o] \in Seq(Frame) /\ Len(written[o]) \in Nat
    BY DEF TypeOK
  <1>4. \A o \in Peer : \A i \in 1 .. Len(written[o]) : written[o][i] \in Frame
    BY <1>3
  <1>5. \A p, o \in Peer : disk[p][o] \in Seq(Frame) /\ Len(disk[p][o]) \in Nat
    BY DEF TypeOK
  <1>6. \A p, o \in Peer : \A i \in 1 .. Len(disk[p][o]) : disk[p][o][i] \in Frame
    BY <1>5
  <1>7. \A p, o \in Peer : Seen(p)[o] \in Nat
    BY <1>1, CursorType DEF Seen
  <1> QED
    BY <1>1, <1>2, <1>3, <1>4, <1>5, <1>6, <1>7

\* Taking in a frame advances one cursor, to the number of the frame.
LEMMA AbsorbSeen ==
  ASSUME TypeOK, NEW p \in Peer, NEW f \in Frame, Absorbs(p, f)
  PROVE  /\ f.seq = Seen(p)[f.stamp.peer] + 1
         /\ \A q, o \in Peer :
              Seen(q)'[o] = IF q = p /\ o = f.stamp.peer THEN f.seq ELSE Seen(q)[o]
         /\ \A q \in Peer : q # p => log'[q] = log[q]
         /\ log'[p] = Record(log[p], f)
  <1>1. /\ log[p] \in Log /\ log'[p] = Record(log[p], f)
        /\ \A q \in Peer : q # p => log'[q] = log[q]
    BY ZenonT(60) DEF TypeOK, Absorbs
  <1>2. /\ f.seq = Cursors(log[p])[f.stamp.peer] + 1
        /\ \A o \in Peer : Cursors(Record(log[p], f))[o] =
              IF o = f.stamp.peer THEN f.seq ELSE Cursors(log[p])[o]
    BY <1>1, RecordAppends, ZenonT(60) DEF Absorbs
  <1>3. ASSUME NEW q \in Peer, NEW o \in Peer
        PROVE  Seen(q)'[o] = IF q = p /\ o = f.stamp.peer THEN f.seq ELSE Seen(q)[o]
    <2>1. CASE q = p
      BY <1>1, <1>2, <2>1, Zenon DEF Seen
    <2>2. CASE q # p
      BY <1>1, <2>2 DEF Seen
    <2> QED
      BY <2>1, <2>2, Zenon
  <1> QED
    BY <1>1, <1>2, <1>3, Zenon DEF Seen

\* Taking in a frame reclaims nothing.
LEMMA AbsorbBase ==
  ASSUME TypeOK, NEW p \in Peer, NEW f \in Frame, Absorbs(p, f)
  PROVE  log'[p].base = log[p].base
  <1>1. log[p] \in Log /\ log'[p] = Record(log[p], f)
    BY ZenonT(60) DEF TypeOK, Absorbs
  <1>2. Record(log[p], f).base = log[p].base
    BY <1>1, RecordAppends DEF Absorbs
  <1> QED
    BY <1>1, <1>2, Zenon

\* Taking in a frame that is in its origin's history keeps every log a piece of
\* the histories.
LEMMA AbsorbPrefix ==
  ASSUME TypeOK, TypeOK', PrefixConsistent, WrittenGrows,
         NEW p \in Peer, NEW f \in Frame, Absorbs(p, f)
  PROVE  PrefixConsistent'
  <1> SUFFICES ASSUME NEW q \in Peer, NEW o \in Peer
               PROVE  /\ Seen(q)'[o] <= Len(written'[o])
                      /\ \A i \in 1 .. Len(log'[q].observed[o]) :
                           log'[q].observed[o][i] = written'[o][log'[q].base[o] + i]
    BY DEF PrefixConsistent
  <1>1. /\ Seen(q)[o] \in Nat /\ Len(written[o]) \in Nat /\ Len(written'[o]) \in Nat
        /\ log[q] \in Log /\ f.seq \in Nat
    <2>1. Seen(q)[o] \in Nat /\ Len(written[o]) \in Nat /\ log[q] \in Log
      BY TypeFacts
    <2>2. Len(written'[o]) \in Nat
      BY SMTT(60) DEF TypeOK
    <2> QED
      BY <2>1, <2>2, FrameFields
  <1>a. /\ f.seq = Seen(p)[f.stamp.peer] + 1
        /\ Seen(q)'[o] = IF q = p /\ o = f.stamp.peer THEN f.seq ELSE Seen(q)[o]
        /\ q # p => log'[q] = log[q]
        /\ log'[p] = Record(log[p], f)
    BY AbsorbSeen, SMTT(60)
  <1>b. Seen(q)[o] <= Len(written[o]) /\ Len(written[o]) <= Len(written'[o])
    BY Zenon DEF PrefixConsistent, WrittenGrows
  <1>d. \A i \in 1 .. Len(log[q].observed[o]) :
           log[q].observed[o][i] = written[o][log[q].base[o] + i]
    BY Zenon DEF PrefixConsistent
  <1>e. \A i \in 1 .. Len(written[o]) : written'[o][i] = written[o][i]
    BY DEF WrittenGrows
  <1>c. f.seq <= Len(written'[f.stamp.peer]) /\ written'[f.stamp.peer][f.seq] = f
    BY Zenon DEF Absorbs
  <1>2. Seen(q)'[o] <= Len(written'[o])
    BY <1>1, <1>a, <1>b, <1>c, SMTT(60)
  <1>3. /\ Seen(q)[o] = log[q].base[o] + Len(log[q].observed[o])
        /\ log[q].base[o] \in Nat /\ Len(log[q].observed[o]) \in Nat
        /\ log[q].observed[o] \in Seq(Frame)
    BY <1>1, CursorType, Zenon DEF Seen
  <1>4. \A i \in 1 .. Len(log[q].observed[o]) :
           log[q].observed[o][i] = written'[o][log[q].base[o] + i]
    <2> TAKE i \in 1 .. Len(log[q].observed[o])
    <2> DEFINE base == log[q].base[o]
               n == Len(log[q].observed[o])
               w == Len(written[o])
    <2>0. base \in Nat /\ n \in Nat /\ w \in Nat /\ base + n <= w /\ i \in 1 .. n
      BY <1>1, <1>3, <1>b
    <2>1. base + i \in 1 .. w
      <3> HIDE DEF base, n, w
      <3> QED
        BY <2>0, SMTT(60)
    <2> QED
      BY <2>1, <1>d, <1>e, Zenon
  <1>5. CASE q = p /\ o = f.stamp.peer
    <2>1. /\ log'[q].observed[o] = Append(log[q].observed[o], f)
          /\ log'[q].base[o] = log[q].base[o]
      <3>1. Classify(log[q], f) = "Appended" /\ log'[q] = Record(log[q], f)
        BY <1>5, <1>a, Zenon DEF Absorbs
      <3>2. /\ Record(log[q], f).base = log[q].base
            /\ Record(log[q], f).observed[f.stamp.peer] = Append(log[q].observed[f.stamp.peer], f)
        BY <1>1, <3>1, RecordAppends, ZenonT(60)
      <3> QED
        BY <1>5, <3>1, <3>2, Zenon
    <2>2. f = written'[o][log[q].base[o] + (Len(log[q].observed[o]) + 1)]
      <3>1. f.seq = log[q].base[o] + (Len(log[q].observed[o]) + 1)
        <4>1. f.seq = Seen(q)[o] + 1
          BY <1>5, <1>a, Zenon
        <4> QED
          BY <1>3, <4>1, SMTT(60)
      <3> QED
        BY <1>5, <1>c, <3>1, ZenonT(60)
    <2>3. \A i \in 1 .. Len(log'[q].observed[o]) :
             log'[q].observed[o][i] = IF i = Len(log[q].observed[o]) + 1 THEN f
                                      ELSE log[q].observed[o][i]
      BY <1>3, <2>1, SMTT(60)
    <2>4. Len(log'[q].observed[o]) = Len(log[q].observed[o]) + 1
      BY <1>3, <2>1, SMTT(60)
    <2>5. ASSUME NEW i \in 1 .. Len(log'[q].observed[o])
          PROVE  log'[q].observed[o][i] = written'[o][log'[q].base[o] + i]
      <3>1. CASE i = Len(log[q].observed[o]) + 1
        BY <2>1, <2>2, <2>3, <3>1, ZenonT(60)
      <3>2. CASE i # Len(log[q].observed[o]) + 1
        <4>1. i \in 1 .. Len(log[q].observed[o])
          BY <1>3, <2>4, <3>2, SMTT(60)
        <4> QED
          BY <1>4, <2>1, <2>3, <3>2, <4>1, Zenon
      <3> QED
        BY <3>1, <3>2, Zenon
    <2> QED
      BY <1>2, <2>5, Zenon
  <1>6. CASE ~(q = p /\ o = f.stamp.peer)
    <2>1. log'[q].observed[o] = log[q].observed[o] /\ log'[q].base[o] = log[q].base[o]
      <3>1. CASE q = p
        <4>1. Classify(log[q], f) = "Appended" /\ log'[q] = Record(log[q], f)
          BY <3>1, <1>a, Zenon DEF Absorbs
        <4> QED
          BY <1>1, <1>6, <3>1, <4>1, RecordAppends, SMTT(60)
      <3> QED
        BY <1>a, <3>1, Zenon
    <2> QED
      BY <1>2, <1>4, <2>1, Zenon
  <1> QED
    BY <1>5, <1>6

\* The delivered writes afterwards are those before and the new one.
LEMMA AbsorbHas ==
  ASSUME TypeOK, TypeOK', PrefixConsistent, WrittenGrows,
         NEW p \in Peer, NEW f \in Frame, Absorbs(p, f)
  PROVE  /\ \A q, o \in Peer : \A i \in 1 .. Len(written'[o]) :
              Has(q, o, i)' =>
                  \/ /\ i \in 1 .. Len(written[o]) /\ Has(q, o, i)
                     /\ written'[o][i] = written[o][i]
                  \/ q = p /\ written'[o][i] = f
         /\ \A q, o \in Peer : \A i \in 1 .. Len(written[o]) :
              Has(q, o, i) => /\ i \in 1 .. Len(written'[o]) /\ Has(q, o, i)'
                              /\ written'[o][i] = written[o][i]
         /\ f.seq \in 1 .. Len(written'[f.stamp.peer]) /\ Has(p, f.stamp.peer, f.seq)'
  <1>1. /\ f.stamp.peer \in Peer /\ f.seq \in Nat /\ f.seq > 0
        /\ f.seq <= Len(written'[f.stamp.peer]) /\ written'[f.stamp.peer][f.seq] = f
    BY FrameFields DEF Absorbs
  <1>2. /\ f.seq = Seen(p)[f.stamp.peer] + 1
        /\ \A q, o \in Peer :
             Seen(q)'[o] = IF q = p /\ o = f.stamp.peer THEN f.seq ELSE Seen(q)[o]
    BY AbsorbSeen
  <1>3. ASSUME NEW q \in Peer, NEW o \in Peer
        PROVE  /\ Seen(q)[o] \in Nat /\ Len(written[o]) \in Nat
               /\ Len(written'[o]) \in Nat
               /\ Seen(q)[o] <= Len(written[o]) /\ Len(written[o]) <= Len(written'[o])
    <2>1. Seen(q)[o] \in Nat /\ Len(written[o]) \in Nat
      BY TypeFacts
    <2>2. Len(written'[o]) \in Nat
      BY DEF TypeOK
    <2>3. Seen(q)[o] <= Len(written[o]) /\ Len(written[o]) <= Len(written'[o])
      BY DEF PrefixConsistent, WrittenGrows
    <2> QED
      BY <2>1, <2>2, <2>3
  <1>4. ASSUME NEW q \in Peer, NEW o \in Peer, NEW i \in 1 .. Len(written'[o]), Has(q, o, i)'
        PROVE  \/ /\ i \in 1 .. Len(written[o]) /\ Has(q, o, i)
                  /\ written'[o][i] = written[o][i]
               \/ q = p /\ written'[o][i] = f
    <2>1. i \in 1 .. Seen(q)'[o]
      BY <1>4 DEF Has
    <2>2. CASE q = p /\ o = f.stamp.peer /\ i = f.seq
      BY <1>1, <2>2
    <2>3. CASE ~(q = p /\ o = f.stamp.peer /\ i = f.seq)
      <3>3. i \in 1 .. Seen(q)[o]
        <4>1. CASE q = p /\ o = f.stamp.peer
          <5>1. Seen(q)'[o] = Seen(q)[o] + 1 /\ i # Seen(q)[o] + 1
            BY <1>2, <2>3, <4>1
          <5> QED
            BY <1>3, <2>1, <5>1, SMTT(60)
        <4>2. CASE ~(q = p /\ o = f.stamp.peer)
          BY <1>2, <2>1, <4>2
        <4> QED
          BY <4>1, <4>2
      <3>4. i \in 1 .. Len(written[o])
        BY <1>3, <3>3
      <3>5. written'[o][i] = written[o][i]
        BY <3>4 DEF WrittenGrows
      <3> QED
        BY <3>3, <3>4, <3>5 DEF Has
    <2> QED
      BY <2>2, <2>3
  <1>5. ASSUME NEW q \in Peer, NEW o \in Peer, NEW i \in 1 .. Len(written[o]), Has(q, o, i)
        PROVE  /\ i \in 1 .. Len(written'[o]) /\ Has(q, o, i)'
               /\ written'[o][i] = written[o][i]
    <2>1. i \in 1 .. Seen(q)[o]
      BY <1>5, Zenon DEF Has
    <2>2. Seen(q)[o] <= Seen(q)'[o] /\ Seen(q)'[o] \in Nat
      BY <1>1, <1>2, <1>3, SMTT(60)
    <2>3. i \in 1 .. Seen(q)'[o]
      BY <1>3, <2>1, <2>2
    <2>4. i \in 1 .. Len(written'[o])
      BY <1>3
    <2> QED
      BY <2>3, <2>4 DEF Has, WrittenGrows
  <1>6. f.seq \in 1 .. Len(written'[f.stamp.peer])
    BY <1>1, <1>3
  <1>7. Has(p, f.stamp.peer, f.seq)'
    <2>1. Seen(p)'[f.stamp.peer] = f.seq
      BY <1>1, <1>2, Zenon
    <2> QED
      BY <1>1, <2>1, SMTT(60) DEF Has
  <1> QED
    BY <1>4, <1>5, <1>6, <1>7, Zenon

\* The clock stays ahead of every delivered write.
LEMMA AbsorbClock ==
  ASSUME TypeOK, TypeOK', PrefixConsistent, WrittenGrows, ClockInv,
         NEW p \in Peer, NEW f \in Frame, Absorbs(p, f)
  PROVE  ClockInv'
  <1> SUFFICES ASSUME NEW q \in Peer, NEW o \in Peer, NEW i \in 1 .. Len(written'[o]),
                      Has(q, o, i)'
               PROVE  HlcLeq(written'[o][i].stamp.hlc, clock'[q])
    BY DEF ClockInv
  <1>1. CASE q = p /\ written'[o][i] = f
    BY <1>1, Zenon DEF Absorbs
  <1>2. CASE i \in 1 .. Len(written[o]) /\ Has(q, o, i) /\ written'[o][i] = written[o][i]
    <2>1. HlcLeq(written[o][i].stamp.hlc, clock[q])
      BY <1>2, Zenon DEF ClockInv
    <2>2. written[o][i].stamp.hlc \in Hlc /\ clock[q] \in Hlc
      BY <1>2, TypeFacts, FrameFields, Zenon
    <2>3. clock'[q] \in Hlc /\ HlcLeq(clock[q], clock'[q])
      <3>1. clock'[q] \in Hlc
        BY Zenon DEF TypeOK
      <3>2. CASE q = p
        BY <3>1, <3>2, Zenon DEF Absorbs
      <3>3. CASE q # p
        BY <2>2, <3>1, <3>3, HlcOrder, Zenon DEF Absorbs
      <3> QED
        BY <3>2, <3>3
    <2> QED
      BY <1>2, <2>1, <2>2, <2>3, HlcOrder, Zenon
  <1> QED
    BY <1>1, <1>2, AbsorbHas, SMTT(60)

\* The cells keep holding the newest delivered write to their records.
LEMMA AbsorbCells ==
  ASSUME TypeOK, TypeOK', PrefixConsistent, WrittenGrows, CellInv,
         NEW p \in Peer, NEW f \in Frame, Absorbs(p, f)
  PROVE  CellInv'
  <1> SUFFICES ASSUME NEW q \in Peer, NEW k \in Key
               PROVE  CellOK(q, k, cells[q][k])'
    BY Zenon DEF CellInv
  <1> DEFINE c == cells[q][k]
             d == cells'[q][k]
  <1>1. c \in Cell /\ CellOK(q, k, c)
    BY TypeFacts DEF CellInv
  <1>2. d = IF q = p /\ k = f.key THEN Merge(c, f) ELSE c
    <2>1. cells \in [Peer -> [Key -> Cell]]
      BY DEF TypeOK
    <2>2. cells' = [cells EXCEPT ![p][f.key] = Merge(cells[p][f.key], f)]
      BY DEF Absorbs
    <2>3. f.key \in Key
      BY FrameFields
    <2>4. CASE q = p /\ k = f.key
      BY <2>1, <2>2, <2>3, <2>4
    <2>5. CASE q # p \/ k # f.key
      BY <2>1, <2>2, <2>3, <2>5, Zenon
    <2> QED
      BY <2>4, <2>5, Zenon
  <1> HIDE DEF c, d
  <1>3. /\ f.stamp \in Stamp /\ f.stamp.peer \in Peer /\ f # None
        /\ f = written'[f.stamp.peer][f.seq]
    BY FrameFields, Zenon DEF Absorbs
  <1>4. /\ \A s \in Stamp : Covers(c, s) => Covers(d, s)
        /\ q = p /\ k = f.key => Covers(d, f.stamp)
        /\ d.gcFloor = c.gcFloor
        /\ d.current = c.current \/ (d.current = f /\ q = p /\ k = f.key)
        /\ d.gcFloor # None /\ d.current # None => StampLt(d.gcFloor, d.current.stamp)
    <2>1. CASE q = p /\ k = f.key
      BY <1>1, <1>2, <2>1, MergeCovers, Zenon DEF CellOK
    <2>2. CASE ~(q = p /\ k = f.key)
      BY <1>1, <1>2, <2>2, Zenon DEF CellOK
    <2> QED
      BY <2>1, <2>2, Zenon
  <1>5. ASSUME NEW o \in Peer, NEW i \in 1 .. Len(written'[o]),
               Has(q, o, i)', written'[o][i].key = k
        PROVE  Covers(d, written'[o][i].stamp)
    <2>1. CASE i \in 1 .. Len(written[o]) /\ Has(q, o, i) /\ written'[o][i] = written[o][i]
      <3>1. Covers(c, written[o][i].stamp)
        BY <1>1, <1>5, <2>1, Zenon DEF CellOK
      <3>2. written[o][i].stamp \in Stamp
        BY <2>1, TypeFacts, FrameFields, Zenon
      <3> QED
        BY <1>4, <2>1, <3>1, <3>2, Zenon
    <2>2. CASE q = p /\ written'[o][i] = f
      BY <1>4, <1>5, <2>2, Zenon
    <2> QED
      BY <1>5, <2>1, <2>2, AbsorbHas, SMTT(60)
  <1>6. \A o \in Peer : \A i \in 1 .. Len(written[o]) :
          Has(q, o, i) => /\ i \in 1 .. Len(written'[o]) /\ Has(q, o, i)'
                          /\ written'[o][i] = written[o][i]
    BY AbsorbHas, Zenon
  <1>7. ASSUME d.current # None
        PROVE  \E o \in Peer : \E i \in 1 .. Len(written'[o]) :
                  Has(q, o, i)' /\ d.current = written'[o][i] /\ written'[o][i].key = k
    <2>1. CASE d.current = c.current
      <3>1. PICK o \in Peer : \E i \in 1 .. Len(written[o]) :
                  Has(q, o, i) /\ c.current = written[o][i] /\ written[o][i].key = k
        BY <1>1, <1>7, <2>1, Zenon DEF CellOK
      <3>2. PICK i \in 1 .. Len(written[o]) :
                  Has(q, o, i) /\ c.current = written[o][i] /\ written[o][i].key = k
        BY <3>1, Zenon
      <3> QED
        BY <1>6, <2>1, <3>2, Zenon
    <2>2. CASE d.current = f /\ q = p /\ k = f.key
      <3>1. f.seq \in 1 .. Len(written'[f.stamp.peer]) /\ Has(p, f.stamp.peer, f.seq)'
        BY AbsorbHas, Zenon
      <3> QED
        BY <1>3, <2>2, <3>1, Zenon
    <2> QED
      BY <1>4, <2>1, <2>2, Zenon
  <1>8. ASSUME d.gcFloor # None
        PROVE  \E o \in Peer : \E i \in 1 .. Len(written'[o]) :
                  /\ Has(q, o, i)' /\ d.gcFloor = written'[o][i].stamp
                  /\ written'[o][i].key = k /\ IsDelete(written'[o][i])
    <2>1. PICK o \in Peer : \E i \in 1 .. Len(written[o]) :
                  /\ Has(q, o, i) /\ c.gcFloor = written[o][i].stamp
                  /\ written[o][i].key = k /\ IsDelete(written[o][i])
      BY <1>1, <1>4, <1>8, Zenon DEF CellOK
    <2>2. PICK i \in 1 .. Len(written[o]) :
                  /\ Has(q, o, i) /\ c.gcFloor = written[o][i].stamp
                  /\ written[o][i].key = k /\ IsDelete(written[o][i])
      BY <2>1
    <2> QED
      BY <1>4, <1>6, <2>2, Zenon
  <1> QED
    BY <1>4, <1>5, <1>7, <1>8, Zenon DEF CellOK, d

------------------------------------------------------------------------------
(* The durable log. *)

\* Storing a frame at most one past the end of its origin's part puts it there
\* and leaves the rest alone.
LEMMA StoredFrame ==
  ASSUME NEW d \in [Peer -> Seq(Frame)], NEW f \in Frame,
         f.seq <= Len(d[f.stamp.peer]) + 1
  PROVE  LET o == f.stamp.peer
             e == Stored(d, f)
         IN  /\ e \in [Peer -> Seq(Frame)]
             /\ \A q \in Peer : q # o => e[q] = d[q]
             /\ Len(e[o]) = MaxOf(Len(d[o]), f.seq)
             /\ e[o][f.seq] = f
             /\ \A i \in 1 .. Len(e[o]) : e[o][i] = IF i = f.seq THEN f ELSE d[o][i]
  <1> DEFINE o == f.stamp.peer
             n == MaxOf(Len(d[o]), f.seq)
             s == [i \in 1 .. n |-> IF i = f.seq THEN f ELSE d[o][i]]
  <1>1. o \in Peer /\ f.seq \in Nat /\ f.seq > 0
    BY FrameFields
  <1>2. d[o] \in Seq(Frame) /\ Len(d[o]) \in Nat
    BY <1>1
  <1>3. n \in Nat /\ f.seq \in 1 .. n /\ \A i \in 1 .. n : i # f.seq => i \in 1 .. Len(d[o])
    BY <1>1, <1>2 DEF MaxOf
  <1>4. \A i \in 1 .. n : (IF i = f.seq THEN f ELSE d[o][i]) \in Frame
    BY <1>2, <1>3, SMTT(60)
  <1>5. s \in [1 .. n -> Frame]
    BY <1>4, Zenon
  <1>6. s \in Seq(Frame) /\ Len(s) = n
    BY <1>3, <1>5, SMTT(60)
  <1>7. Stored(d, f) = [d EXCEPT ![o] = s]
    BY DEF Stored
  <1>8. /\ [d EXCEPT ![o] = s] \in [Peer -> Seq(Frame)]
        /\ [d EXCEPT ![o] = s][o] = s
        /\ \A q \in Peer : q # o => [d EXCEPT ![o] = s][q] = d[q]
    <2> HIDE DEF s
    <2> QED
      BY <1>1, <1>6, Zenon
  <1>9. s[f.seq] = f /\ \A i \in 1 .. n : s[i] = IF i = f.seq THEN f ELSE d[o][i]
    BY <1>3
  <1>10. Stored(d, f)[o] = s
    BY <1>7, <1>8, Zenon
  <1> HIDE DEF s
  <1>11. /\ Stored(d, f) \in [Peer -> Seq(Frame)]
         /\ \A q \in Peer : q # o => Stored(d, f)[q] = d[q]
    BY <1>7, <1>8, Zenon
  <1>12. /\ Len(Stored(d, f)[o]) = MaxOf(Len(d[o]), f.seq)
         /\ Stored(d, f)[o][f.seq] = f
    BY <1>6, <1>9, <1>10, Zenon
  <1>13. \A i \in 1 .. Len(Stored(d, f)[o]) :
            Stored(d, f)[o][i] = IF i = f.seq THEN f ELSE d[o][i]
    BY <1>6, <1>9, <1>10, Zenon
  <1> QED
    BY <1>11, <1>12, <1>13, ZenonT(60)

------------------------------------------------------------------------------
(* What a step of one peer leaves to prove. *)

\* Only p's own state and history change.
OthersKeep(p) ==
    /\ \A q \in Peer : q # p => /\ log'[q] = log[q] /\ disk'[q] = disk[q]
                               /\ phase'[q] = phase[q] /\ cells'[q] = cells[q]
                               /\ mirror'[q] = mirror[q]
    /\ \A o \in Peer : o # p => written'[o] = written[o]

\* What a step of p does to what p has written and knows: while it stays up
\* it writes at most once and forgets nothing, while it is down its disk stays
\* as it is, and when it opens it knows what its disk holds.
StaysUp(p) ==
    /\ phase[p] = "up" /\ phase'[p] = "up"
    /\ WrittenGrows /\ Len(written'[p]) <= Len(written[p]) + 1
    /\ \A o \in Peer : Seen(p)[o] <= Seen(p)'[o]
EndsDown(p) == phase'[p] # "up" /\ disk'[p] = disk[p]
Opens(p) ==
    /\ phase[p] # "up" /\ phase'[p] = "up"
    /\ disk'[p] = disk[p] /\ written'[p] = written[p]
    /\ \A o \in Peer : Seen(p)'[o] = Len(disk[p][o])
Progress(p) == OthersKeep(p) /\ (StaysUp(p) \/ EndsDown(p) \/ Opens(p))

\* A step of p keeps OwnInv if it does so for p.
LEMMA OwnStep ==
  ASSUME OwnInv, NEW p \in Peer, OthersKeep(p),
         phase'[p] = "up" => Seen(p)'[p] = Len(written'[p])
  PROVE  OwnInv'
  <1> SUFFICES ASSUME NEW q \in Peer, phase'[q] = "up"
               PROVE  Seen(q)'[q] = Len(written'[q])
    BY DEF OwnInv
  <1>1. CASE q # p
    BY <1>1 DEF OwnInv, OthersKeep, Seen
  <1> QED
    BY <1>1

\* A step of p keeps the subscribers of the others up to date.
LEMMA MirrorStep ==
  ASSUME MirrorFaithful, NEW p \in Peer, OthersKeep(p),
         phase'[p] = "up" => \A k \in Key : mirror'[p][k] = Visible(cells'[p][k])
  PROVE  MirrorFaithful'
  <1> SUFFICES ASSUME NEW q \in Peer, phase'[q] = "up", NEW k \in Key
               PROVE  mirror'[q][k] = Visible(cells'[q][k])
    BY DEF MirrorFaithful
  <1>1. CASE q # p
    BY <1>1, SMTT(60) DEF MirrorFaithful, OthersKeep
  <1> QED
    BY <1>1

\* A step of p keeps the durable logs of the others in order.
LEMMA DiskStep ==
  ASSUME TypeOK, TypeOK', DiskInv, NEW p \in Peer, OthersKeep(p), WrittenGrows,
         p \notin Durable => phase'[p] = "up",
         p \in Durable => OwnDiskOK(p)' /\ \A o \in Peer : DiskOK(p, o)'
  PROVE  DiskInv'
  <1>1. ASSUME NEW q \in Peer \ Durable PROVE phase'[q] = "up"
    BY Zenon DEF DiskInv, OthersKeep
  <1>2. ASSUME NEW q \in Durable, q # p PROVE OwnDiskOK(q)'
    <2>1. OwnDiskOK(q) /\ disk'[q] = disk[q] /\ written'[q] = written[q]
      BY <1>2, DurableAssumption DEF DiskInv, OthersKeep
    <2> QED
      BY <2>1, Zenon DEF OwnDiskOK
  <1>3. ASSUME NEW q \in Durable, q # p, NEW o \in Peer PROVE DiskOK(q, o)'
    <2>1. /\ disk'[q] = disk[q] /\ phase'[q] = phase[q] /\ log'[q] = log[q]
          /\ o # p => written'[o] = written[o]
          /\ DiskOK(q, o)
      BY <1>3, DurableAssumption, Zenon DEF DiskInv, OthersKeep
    <2>2. Seen(q)' = Seen(q)
      BY <2>1, Zenon DEF Seen
    <2>3. CASE o # p
      BY <2>1, <2>2, <2>3, Zenon DEF DiskOK
    <2>4. CASE o = p
      <3>1. /\ Len(disk[q][o]) <= Len(written[o])
            /\ \A i \in 1 .. Len(disk[q][o]) : i <= Len(written[o]) => disk[q][o][i] = written[o][i]
        BY <1>3, <2>1, <2>4, ZenonT(60) DEF DiskOK
      <3>2. Len(disk[q][o]) \in Nat /\ Len(written[o]) \in Nat
        BY TypeFacts, DurableAssumption
      <3>3. /\ Len(written[o]) <= Len(written'[o])
            /\ \A i \in 1 .. Len(written[o]) : written'[o][i] = written[o][i]
        BY DEF WrittenGrows
      <3>4. \A i \in 1 .. Len(disk[q][o]) : disk[q][o][i] = written'[o][i]
        BY <3>1, <3>2, <3>3, SMTT(60)
      <3>5. Len(written'[o]) \in Nat
        BY DEF TypeOK
      <3>6. Len(disk[q][o]) <= Len(written'[o])
        BY <3>1, <3>2, <3>3, <3>5, SMTT(60)
      <3> QED
        BY <2>1, <2>2, <3>4, <3>6, Zenon DEF DiskOK
    <2> QED
      BY <2>3, <2>4, Zenon
  <1> QED
    BY <1>1, <1>2, <1>3, Zenon DEF DiskInv

\* No log is reclaimed too far if nothing anyone holds is lost, and neither the
\* noted cursors nor the bases move up.
LEMMA ReclaimStep ==
  ASSUME TypeOK, TypeOK', ReclaimInv,
         \A q, o \in Peer : Held(q, o) <= Held(q, o)',
         \A p, q, o \in Peer : peerCursors'[p][q][o] <= peerCursors[p][q][o],
         \A p, o \in Peer : log'[p].base[o] <= log[p].base[o]
  PROVE  ReclaimInv'
  <1>1. ASSUME NEW q \in Peer, NEW o \in Peer PROVE Held(q, o) \in Nat /\ Held(q, o)' \in Nat
    <2>1. Held(q, o) \in Nat
      BY TypeFacts, ZenonT(60) DEF Held
    <2>2. Len(disk'[q][o]) \in Nat /\ log'[q] \in Log
      BY SMTT(60) DEF TypeOK
    <2>3. Seen(q)'[o] \in Nat
      BY <2>2, CursorType, Zenon DEF Seen
    <2> QED
      BY <2>1, <2>2, <2>3, Zenon DEF Held
  <1>2. ASSUME NEW p \in Peer, NEW q \in Peer, NEW o \in Peer
        PROVE  peerCursors'[p][q][o] <= Held(q, o)'
    <2>1. peerCursors'[p][q][o] \in Nat /\ peerCursors[p][q][o] \in Nat
      BY SMTT(60) DEF TypeOK
    <2>2. peerCursors[p][q][o] <= Held(q, o) /\ peerCursors'[p][q][o] <= peerCursors[p][q][o]
      BY Zenon DEF ReclaimInv
    <2> QED
      BY <1>1, <2>1, <2>2, SMTT(60)
  <1>3. ASSUME NEW p \in Peer, NEW o \in Peer, NEW q \in Members
        PROVE  log'[p].base[o] <= Held(q, o)'
    <2>1. log[p].base[o] \in Nat /\ log'[p].base[o] \in Nat /\ q \in Peer
      BY MembersAssumption, SMTT(60) DEF TypeOK, Log
    <2>2. log[p].base[o] <= Held(q, o) /\ log'[p].base[o] <= log[p].base[o]
      BY DEF ReclaimInv
    <2> QED
      BY <1>1, <2>1, <2>2, SMTT(60)
  <1> QED
    BY <1>2, <1>3, Zenon DEF ReclaimInv

\* Nothing happens to the histories.
LEMMA WrittenQuiet ==
  ASSUME TypeOK, WrittenInv, written' = written
  PROVE  WrittenInv' /\ WrittenGrows
  <1>1. \A o \in Peer : Len(written[o]) \in Nat
    BY TypeFacts, Zenon
  <1>2. WrittenInv'
    BY Zenon DEF WrittenInv, StampsIncrease
  <1> QED
    BY <1>1, <1>2, SMTT(60) DEF WrittenGrows

\* Nothing happens to the disks, and memory keeps up with them.
LEMMA DiskQuiet ==
  ASSUME DiskInv, disk' = disk, phase' = phase, written' = written,
         \A q, o \in Peer : Seen(q)'[o] = Seen(q)[o]
  PROVE  DiskInv'
  <1>1. ASSUME NEW q \in Durable, NEW o \in Peer PROVE OwnDiskOK(q)' /\ DiskOK(q, o)'
    <2>1. q \in Peer /\ OwnDiskOK(q) /\ DiskOK(q, o)
      BY DurableAssumption, Zenon DEF DiskInv
    <2>2. OwnDiskOK(q)'
      BY <2>1, Zenon DEF OwnDiskOK
    <2>3. DiskOK(q, o)'
      BY <2>1, Zenon DEF DiskOK
    <2> QED
      BY <2>2, <2>3, Zenon
  <1>2. \A q \in Durable : q \in Peer
    BY DurableAssumption
  <1> QED
    BY <1>1, <1>2, Zenon DEF DiskInv

\* A step that delivers nothing and merges nothing.
LEMMA QuietStep ==
  ASSUME TypeOK, TypeOK', WrittenInv, ClockInv, CellInv,
         written' = written, cells' = cells,
         \A q, o \in Peer : Seen(q)'[o] = Seen(q)[o],
         \A q \in Peer : HlcLeq(clock[q], clock'[q])
  PROVE  WrittenInv' /\ ClockInv' /\ CellInv' /\ WrittenGrows
  <1>1. WrittenInv' /\ WrittenGrows
    BY WrittenQuiet, Zenon
  <1>2. \A q, o \in Peer : \A i : Has(q, o, i)' <=> Has(q, o, i)
    BY Zenon DEF Has
  <1>3. ClockInv'
    <2> SUFFICES ASSUME NEW q \in Peer, NEW o \in Peer, NEW i \in 1 .. Len(written[o]),
                        Has(q, o, i)
                 PROVE  HlcLeq(written[o][i].stamp.hlc, clock'[q])
      BY <1>2, Zenon DEF ClockInv
    <2>1. HlcLeq(written[o][i].stamp.hlc, clock[q]) /\ HlcLeq(clock[q], clock'[q])
      BY Zenon DEF ClockInv
    <2>2. written[o][i].stamp.hlc \in Hlc /\ clock[q] \in Hlc
      BY TypeFacts, FrameFields, Zenon
    <2>3. clock'[q] \in Hlc
      BY Zenon DEF TypeOK
    <2> QED
      BY <2>1, <2>2, <2>3, HlcOrder, Zenon
  <1>4. CellInv'
    <2> SUFFICES ASSUME NEW q \in Peer, NEW k \in Key PROVE CellOK(q, k, cells[q][k])'
      BY Zenon DEF CellInv
    <2>1. CellOK(q, k, cells[q][k])
      BY ZenonT(60) DEF CellInv
    <2> QED
      BY <1>2, <2>1, ZenonT(60) DEF CellOK
  <1> QED
    BY <1>1, <1>3, <1>4

------------------------------------------------------------------------------
(* Frames that reach the disk or the clock. *)

\* Disk afterwards holds f as the last frame of its origin at p, and is otherwise
\* as it was.
DiskGains(p, f) ==
    /\ disk' \in [Peer -> [Peer -> Seq(Frame)]]
    /\ \A q \in Peer : q # p => disk'[q] = disk[q]
    /\ \A o \in Peer : o # f.stamp.peer => disk'[p][o] = disk[p][o]
    /\ Len(disk'[p][f.stamp.peer]) = f.seq
    /\ disk'[p][f.stamp.peer][f.seq] = f
    /\ \A i \in 1 .. f.seq : i # f.seq =>
         /\ i \in 1 .. Len(disk[p][f.stamp.peer])
         /\ disk'[p][f.stamp.peer][i] = disk[p][f.stamp.peer][i]

\* Persisting the next frame of an origin at a running peer makes it the last
\* one on disk for that origin.
LEMMA PersistFacts ==
  ASSUME TypeOK, DiskInv, NEW p \in Durable, phase[p] = "up", NEW f \in Frame,
         f.seq = Seen(p)[f.stamp.peer] + 1,
         disk' = [disk EXCEPT ![p] = Stored(disk[p], f)]
  PROVE  DiskGains(p, f)
  <1> DEFINE o == f.stamp.peer
             d == disk[p]
             e == Stored(d, f)
             Put(x) == /\ x \in [Peer -> Seq(Frame)]
                       /\ \A q \in Peer : q # o => x[q] = d[q]
                       /\ Len(x[o]) = MaxOf(Len(d[o]), f.seq)
                       /\ x[o][f.seq] = f
                       /\ \A i \in 1 .. Len(x[o]) : x[o][i] = IF i = f.seq THEN f ELSE d[o][i]
  <1>1. p \in Peer /\ o \in Peer /\ f.seq \in Nat /\ f.seq > 0
    BY FrameFields, DurableAssumption, Zenon
  <1>2. d \in [Peer -> Seq(Frame)] /\ Len(d[o]) \in Nat
    <2>1. d \in [Peer -> Seq(Frame)]
      BY <1>1, Zenon DEF TypeOK
    <2> HIDE DEF d
    <2> QED
      BY <1>1, <2>1, SMTT(60)
  <1>3. DiskOK(p, o)
    BY <1>1 DEF DiskInv
  <1>4. f.seq <= Len(d[o]) + 1 /\ Len(d[o]) <= f.seq
    <2>1. Seen(p)[o] <= Len(d[o]) /\ Len(d[o]) <= Seen(p)[o] + 1 /\ f.seq = Seen(p)[o] + 1
      BY <1>3, Zenon DEF DiskOK
    <2>2. Seen(p)[o] \in Nat
      BY <1>1, TypeFacts
    <2> QED
      BY <1>2, <2>1, <2>2, SMTT(60)
  <1>6. MaxOf(Len(d[o]), f.seq) = f.seq
    BY <1>1, <1>2, <1>4 DEF MaxOf
  <1>5. Put(e)
    BY <1>2, <1>4, StoredFrame, ZenonT(60)
  <1>7. \A i \in 1 .. f.seq : i # f.seq => i \in 1 .. Len(d[o]) /\ e[o][i] = d[o][i]
    <2> SUFFICES ASSUME NEW i \in 1 .. f.seq, i # f.seq
                 PROVE  i \in 1 .. Len(d[o]) /\ e[o][i] = d[o][i]
      BY Zenon
    <2>1. e[o][i] = d[o][i]
      BY <1>5, <1>6, Zenon
    <2>2. i \in 1 .. Len(d[o])
      <3> HIDE DEF d
      <3> QED
        BY <1>1, <1>2, <1>4, SMTT(60)
    <2> QED
      BY <2>1, <2>2, Zenon
  <1>8. disk'[p] = e /\ \A q \in Peer : q # p => disk'[q] = disk[q]
    BY <1>1, Zenon DEF TypeOK
  <1>9. disk' \in [Peer -> [Peer -> Seq(Frame)]]
    <2> HIDE DEF e
    <2>1. disk \in [Peer -> [Peer -> Seq(Frame)]] /\ disk' = [disk EXCEPT ![p] = e]
      BY Zenon DEF TypeOK, e
    <2> QED
      BY <1>1, <1>5, <2>1, Zenon
  <1>10. /\ \A q \in Peer : q # o => disk'[p][q] = d[q]
         /\ Len(disk'[p][o]) = f.seq /\ disk'[p][o][f.seq] = f
         /\ \A i \in 1 .. f.seq : i # f.seq => i \in 1 .. Len(d[o]) /\ disk'[p][o][i] = d[o][i]
    <2> HIDE DEF d, e, o
    <2> QED
      BY <1>5, <1>6, <1>7, <1>8, Zenon
  <1> QED
    BY <1>8, <1>9, <1>10, Zenon DEF DiskGains

\* A running peer that loses nothing of what it has keeps the reclaim invariant.
LEMMA UpReclaim ==
  ASSUME TypeOK, TypeOK', ReclaimInv, NEW p \in Peer, OthersKeep(p),
         phase[p] = "up", phase'[p] = "up", peerCursors' = peerCursors,
         \A o \in Peer : Seen(p)[o] <= Seen(p)'[o],
         \A o \in Peer : log'[p].base[o] = log[p].base[o]
  PROVE  ReclaimInv'
  <1>1. ASSUME NEW q \in Peer, NEW o \in Peer PROVE Held(q, o) <= Held(q, o)'
    <2>1. CASE q = p
      BY <2>1, Zenon DEF Held
    <2>2. CASE q # p
      <3>1. Held(q, o)' = Held(q, o)
        BY <2>2, Zenon DEF Held, OthersKeep, Seen
      <3>2. Held(q, o) \in Nat
        BY TypeFacts, Zenon DEF Held
      <3> QED
        BY <3>1, <3>2, SMTT(60)
    <2> QED
      BY <2>1, <2>2, Zenon
  <1>2. ASSUME NEW a \in Peer, NEW q \in Peer, NEW o \in Peer
        PROVE  peerCursors'[a][q][o] <= peerCursors[a][q][o]
    <2>1. peerCursors \in [Peer -> [Peer -> [Peer -> Nat]]]
      BY Zenon DEF TypeOK
    <2>2. peerCursors[a][q][o] \in Nat
      BY <2>1, SMTT(60)
    <2> QED
      BY <2>2, SMTT(60)
  <1>3. ASSUME NEW q \in Peer, NEW o \in Peer PROVE log'[q].base[o] <= log[q].base[o]
    <2>1. log[q].base[o] \in Nat
      BY TypeFacts, CursorType, Zenon
    <2>2. log'[q].base[o] = log[q].base[o]
      BY Zenon DEF OthersKeep
    <2> QED
      BY <2>1, <2>2, SMTT(60)
  <1> QED
    BY <1>1, <1>2, <1>3, ReclaimStep, Zenon

\* A frame of a history that a peer delivers next is another peer's.
LEMMA NextIsForeign ==
  ASSUME IInv, NEW p \in Peer, NEW o \in Peer, NEW i \in 1 .. Len(written[o]),
         phase[p] = "up", Classify(log[p], written[o][i]) = "Appended"
  PROVE  /\ o # p /\ written[o][i] \in Frame /\ written[o][i].stamp.peer = o
         /\ written[o][i].seq = i /\ i = Seen(p)[o] + 1
  <1>1. /\ written[o][i] \in Frame /\ log[p] \in Log /\ Len(written[o]) \in Nat
        /\ Seen(p)[o] \in Nat
    BY TypeFacts, Zenon DEF IInv
  <1>2. written[o][i].stamp.peer = o /\ written[o][i].seq = i
    BY ZenonT(60) DEF IInv, WrittenInv, IsFrameOf
  <1>3. i = Seen(p)[o] + 1
    <2>1. written[o][i].seq = Cursors(log[p])[written[o][i].stamp.peer] + 1
      BY <1>1, RecordAppends, Zenon
    <2> QED
      BY <1>2, <2>1, Zenon DEF Seen
  <1>4. Seen(p)[p] = Len(written[p])
    BY Zenon DEF IInv, OwnInv
  <1> QED
    BY <1>1, <1>2, <1>3, <1>4, SMTT(60)

\* Another peer's next frame, once on disk, leaves the durable log in order,
\* whether the frame is recorded as well or not.
LEMMA ForeignDisk ==
  ASSUME IInv, NEW p \in Durable, NEW o \in Peer, NEW i \in 1 .. Len(written[o]), o # p,
         i = Seen(p)[o] + 1, phase[p] = "up", phase' = phase, written' = written,
         written[o][i].stamp.peer = o, written[o][i].seq = i,
         DiskGains(p, written[o][i]),
         Seen(p)'[o] = Seen(p)[o] \/ Seen(p)'[o] = i,
         \A q \in Peer : q # o => Seen(p)'[q] = Seen(p)[q]
  PROVE  OwnDiskOK(p)' /\ \A q \in Peer : DiskOK(p, q)'
  <1> USE DEF IInv
  <1>0. p \in Peer
    BY DurableAssumption, Zenon
  <1>1. OwnDiskOK(p) /\ \A q \in Peer : DiskOK(p, q)
    BY Zenon DEF DiskInv
  <1>2. /\ \A q \in Peer : q # o => disk'[p][q] = disk[p][q]
        /\ Len(disk'[p][o]) = i /\ disk'[p][o][i] = written[o][i]
        /\ \A j \in 1 .. i : j # i => /\ j \in 1 .. Len(disk[p][o])
                                      /\ disk'[p][o][j] = disk[p][o][j]
    <2> HIDE DEF IInv
    <2> QED
      BY ZenonT(60) DEF DiskGains
  <1>3. OwnDiskOK(p)'
    <2>1. disk'[p][p] = disk[p][p]
      BY <1>0, <1>2, Zenon
    <2> QED
      BY <1>1, <2>1, ZenonT(60) DEF OwnDiskOK
  <1>4. ASSUME NEW q \in Peer PROVE DiskOK(p, q)'
    <2>1. CASE q = o
      <3>1. Seen(p)[o] \in Nat /\ Len(written[o]) \in Nat /\ Len(disk[p][o]) \in Nat
        BY <1>0, TypeFacts, Zenon
      <3>2. \A j \in 1 .. i : disk'[p][o][j] = written[o][j]
        <4> SUFFICES ASSUME NEW j \in 1 .. i, j # i PROVE disk'[p][o][j] = written[o][j]
          BY <1>2, Zenon
        <4>1. j \in 1 .. Len(disk[p][o]) /\ disk'[p][o][j] = disk[p][o][j]
          BY <1>2, Zenon
        <4>2. j <= Len(written[o])
          BY <3>1, SMTT(60)
        <4>3. DiskOK(p, o)
          BY <1>1, ZenonT(60)
        <4> QED
          BY <4>1, <4>2, <4>3, Zenon DEF DiskOK
      <3>3. /\ i <= Len(written[o]) /\ i <= i
            /\ Seen(p)'[o] <= i /\ i <= Seen(p)'[o] + 1
        BY <3>1, SMTT(60)
      <3> QED
        BY <1>2, <2>1, <3>2, <3>3, Zenon DEF DiskOK
    <2>2. CASE q # o
      <3>1. DiskOK(p, q) /\ disk'[p][q] = disk[p][q] /\ Seen(p)'[q] = Seen(p)[q]
        BY <1>1, <1>2, <2>2, Zenon
      <3> QED
        BY <3>1, Zenon DEF DiskOK
    <2> QED
      BY <2>1, <2>2, Zenon
  <1> QED
    BY <1>3, <1>4, Zenon

\* Hearing a frame moves p's clock past it and leaves the other clocks alone.
LEMMA HearFacts ==
  ASSUME TypeOK, NEW p \in Peer, NEW f \in Frame, NEW wall \in Wall, Hear(p, f, wall)
  PROVE  /\ phase[p] = "up" /\ clock' \in [Peer -> Hlc]
         /\ HlcLeq(clock[p], clock'[p]) /\ HlcLeq(f.stamp.hlc, clock'[p])
         /\ \A q \in Peer : q # p => clock'[q] = clock[q]
         /\ \A q \in Peer : HlcLeq(clock[q], clock'[q])
  <1> DEFINE h == Observe(clock[p], f.stamp.hlc, wall)
  <1>1. clock[p] \in Hlc /\ f.stamp.hlc \in Hlc /\ wall \in Nat
    BY TypeFacts, FrameFields, WallAssumption, Zenon
  <1>2. /\ h \in Hlc /\ HlcLt(clock[p], h) /\ HlcLt(f.stamp.hlc, h)
    BY <1>1, ObserveForward, Zenon DEF Hear
  <1>3. phase[p] = "up" /\ clock' = [clock EXCEPT ![p] = h]
    BY Zenon DEF Hear
  <1> HIDE DEF h
  <1>4. /\ clock' \in [Peer -> Hlc] /\ clock'[p] = h
        /\ \A q \in Peer : q # p => clock'[q] = clock[q]
    BY <1>2, <1>3, Zenon DEF TypeOK
  <1>5. HlcLeq(clock[p], h) /\ HlcLeq(f.stamp.hlc, h)
    BY <1>1, <1>2, HlcOrder, Zenon
  <1>6. ASSUME NEW q \in Peer PROVE HlcLeq(clock[q], clock'[q])
    BY <1>4, <1>5, TypeFacts, HlcOrder, Zenon
  <1> QED
    BY <1>3, <1>4, <1>5, <1>6, Zenon
==============================================================================
