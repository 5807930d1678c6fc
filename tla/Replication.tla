----------------------------- MODULE Replication -----------------------------
(***************************************************************************)
(* The sync states of a set of peers (crates/stitch-p2p/src/sync_state.rs, *)
(* with the durable log of persistence.rs and the restart of node.rs).     *)
(*                                                                         *)
(* Each peer holds a clock, a per-origin replication log and an applier.   *)
(* Every operation below runs under the peer's state mutex in the program, *)
(* so each is one action.  How frames travel is left open: any frame some  *)
(* peer originated may reach any peer at any time, any number of times, in *)
(* any order, or never.  Pushes over reconnecting sessions, pulled deltas, *)
(* and frames handed to SyncNode::ingest are all instances of that.        *)
(***************************************************************************)
EXTENDS ReplLog, FiniteSetsExt

CONSTANTS
    Durable,     \* peers opened with a FramePersister; the others live in memory
                 \* and never come back under the same id
    Reclaiming,  \* peers whose application calls reclaim
    Collecting,  \* peers whose application calls collect_tombstone
    Members,     \* the member list the application passes to reclaim
    Wall,        \* readings of the wall clocks, which may jump either way
    MaxWrites    \* bound on the writes each peer originates

ASSUME DurableAssumption == Durable \subseteq Peer
ASSUME MembersAssumption == Members \subseteq Peer /\ Reclaiming \subseteq Peer
ASSUME WallAssumption == Wall \subseteq Nat
ASSUME MaxWritesAssumption == MaxWrites \in Nat

VARIABLES
    clock,        \* clock[p]: p's hybrid logical clock
    log,          \* log[p]: p's replication log
    cells,        \* cells[p][k]: p's applier cell for record k
    disk,         \* disk[p][o]: frames of origin o in p's durable log, by seq
    phase,        \* phase[p]: "up", or "replaying" the durable log at startup
    peerCursors,  \* peerCursors[p][q]: the cursors p last heard from q
    written,      \* history: written[o] is every frame o originated, by seq
    mirror        \* mirror[p][k]: what a subscriber that read p's state when p
                  \* came up, and then followed every event, holds for k

vars == <<clock, log, cells, disk, phase, peerCursors, written, mirror>>

Seen(p) == Cursors(log[p])

TypeOK ==
    /\ clock \in [Peer -> Hlc]
    /\ log \in [Peer -> Log]
    /\ cells \in [Peer -> [Key -> Cell]]
    /\ disk \in [Peer -> [Peer -> Seq(Frame)]]
    /\ phase \in [Peer -> {"up", "replaying"}]
    /\ peerCursors \in [Peer -> [Peer -> [Peer -> Nat]]]
    /\ written \in [Peer -> Seq(Frame)]
    /\ mirror \in [Peer -> [Key -> Frame \cup {None}]]

Init ==
    /\ clock = [p \in Peer |-> ZeroHlc]
    /\ log = [p \in Peer |-> EmptyLog]
    /\ cells = [p \in Peer |-> [k \in Key |-> EmptyCell]]
    /\ disk = [p \in Peer |-> [o \in Peer |-> << >>]]
    /\ phase = [p \in Peer |-> "up"]
    /\ peerCursors = [p \in Peer |-> [q \in Peer |-> [o \in Peer |-> 0]]]
    /\ written = [o \in Peer |-> << >>]
    /\ mirror = [p \in Peer |-> [k \in Key |-> None]]

------------------------------------------------------------------------------
(* The durable log. *)

\* FjallLog keys a frame by origin and sequence number: storing a frame
\* replaces one stored under the same number.
Stored(d, f) ==
    [d EXCEPT ![f.stamp.peer] =
        [i \in 1 .. MaxOf(Len(@), f.seq) |-> IF i = f.seq THEN f ELSE @[i]]]

\* Faulty Persist: the frame never reaches the disk.
PersistNothing(p, f) == disk' = disk

\* A peer without a persister keeps nothing.
Persist(p, f) ==
    disk' = IF p \in Durable THEN [disk EXCEPT ![p] = Stored(@, f)] ELSE disk

\* A failed append: fjall's insert failed and nothing is stored, or the insert
\* went through and only the sync after it failed, so a restart may find f.
PersistFails(p, f) ==
    /\ p \in Durable
    /\ disk' \in {disk, [disk EXCEPT ![p] = Stored(@, f)]}

------------------------------------------------------------------------------
(* Local writes. *)

\* The event of a write as a subscriber applies it.
Announce(p, f) ==
    mirror' = [mirror EXCEPT ![p][f.key] = IF IsDelete(f) THEN None ELSE f]

\* The frame a local write builds: the clock has ticked, the number is next.
NewFrame(p, k, op, wall) ==
    [stamp |-> [hlc |-> Tick(clock[p], wall), peer |-> p],
     seq   |-> NextSeq(log[p], p),
     op    |-> op,
     key   |-> k]

CanWrite(p) ==
    /\ phase[p] = "up"
    /\ HasHeadroom(clock[p])
    /\ Len(written[p]) < MaxWrites

LocalWrite(p, k, op, wall) ==
    LET f == NewFrame(p, k, op, wall)
    IN  /\ CanWrite(p)
        /\ clock' = [clock EXCEPT ![p] = Tick(@, wall)]
        /\ Persist(p, f)
        /\ log' = [log EXCEPT ![p] = Record(@, f)]
        /\ cells' = [cells EXCEPT ![p][k] = Merge(@, f)]
        /\ Announce(p, f)
        /\ written' = [written EXCEPT ![p] = Append(@, f)]
        /\ UNCHANGED <<phase, peerCursors>>

\* The persister fails.  The clock has ticked already.
LocalWriteRefused(p, k, op, wall) ==
    /\ CanWrite(p)
    /\ clock' = [clock EXCEPT ![p] = Tick(@, wall)]
    /\ PersistFails(p, NewFrame(p, k, op, wall))
    /\ UNCHANGED <<log, cells, phase, peerCursors, written, mirror>>

------------------------------------------------------------------------------
(* Frames from other peers. *)

\* The clock observes every frame, one that is not recorded included.
Hear(p, f, wall) ==
    /\ phase[p] = "up"
    /\ HasHeadroom(clock[p]) /\ HasHeadroom(f.stamp.hlc)
    /\ clock' = [clock EXCEPT ![p] = Observe(@, f.stamp.hlc, wall)]

\* The next frame of its origin: persisted, recorded and merged, and announced
\* if it won.
Receive(p, f, wall) ==
    /\ Hear(p, f, wall)
    /\ Classify(log[p], f) = "Appended"
    /\ Persist(p, f)
    /\ log' = [log EXCEPT ![p] = Record(@, f)]
    /\ cells' = [cells EXCEPT ![p][f.key] = Merge(@, f)]
    /\ IF MergeOutcome(cells[p][f.key], f) = "Applied"
         THEN Announce(p, f)
         ELSE UNCHANGED mirror
    /\ UNCHANGED <<phase, peerCursors, written>>

\* A duplicate, or a frame ahead of the log.
ReceiveIgnored(p, f, wall) ==
    /\ Hear(p, f, wall)
    /\ Classify(log[p], f) # "Appended"
    /\ UNCHANGED <<log, cells, disk, phase, peerCursors, written, mirror>>

\* The persister fails: the frame is not recorded and will be offered again.
ReceiveUnpersisted(p, f, wall) ==
    /\ Hear(p, f, wall)
    /\ Classify(log[p], f) = "Appended"
    /\ PersistFails(p, f)
    /\ UNCHANGED <<log, cells, phase, peerCursors, written, mirror>>

------------------------------------------------------------------------------
(* Crash and restart of a durable peer. *)

\* All that is in memory is gone.
Crash(p) ==
    /\ p \in Durable
    /\ clock' = [clock EXCEPT ![p] = ZeroHlc]
    /\ log' = [log EXCEPT ![p] = EmptyLog]
    /\ cells' = [cells EXCEPT ![p] = [k \in Key |-> EmptyCell]]
    /\ phase' = [phase EXCEPT ![p] = "replaying"]
    /\ peerCursors' = [peerCursors EXCEPT ![p] = [q \in Peer |-> [o \in Peer |-> 0]]]
    /\ UNCHANGED <<disk, written, mirror>>

Replayed(p, o) == CursorFor(log[p], o) = Len(disk[p][o])

\* The durable log is replayed in key order, that is origin by origin and each
\* origin by sequence number, without persisting or announcing anything.  A
\* frame of p itself whose write was refused but is on disk is p's from now on.
Replay(p, o) ==
    LET f == disk[p][o][NextSeq(log[p], o)]
    IN  /\ phase[p] = "replaying"
        /\ ~Replayed(p, o)
        /\ \A q \in Peer : q < o => Replayed(p, q)
        /\ HasHeadroom(clock[p]) /\ HasHeadroom(f.stamp.hlc)
        /\ clock' = [clock EXCEPT ![p] = Observe(@, f.stamp.hlc, f.stamp.hlc.physical)]
        /\ log' = [log EXCEPT ![p] = Record(@, f)]
        /\ cells' = IF Classify(log[p], f) = "Appended"
                      THEN [cells EXCEPT ![p][f.key] = Merge(@, f)] ELSE cells
        /\ written' = IF o = p /\ f.seq > Len(written[p])
                        THEN [written EXCEPT ![p] = Append(@, f)] ELSE written
        /\ UNCHANGED <<disk, phase, peerCursors, mirror>>

\* Everything is replayed: the node opens, and a subscriber reads its state.
Open(p) ==
    /\ phase[p] = "replaying"
    /\ \A o \in Peer : Replayed(p, o)
    /\ phase' = [phase EXCEPT ![p] = "up"]
    /\ mirror' = [mirror EXCEPT ![p] = [k \in Key |-> Visible(cells[p][k])]]
    /\ UNCHANGED <<clock, log, cells, disk, peerCursors, written>>

------------------------------------------------------------------------------
(* Reclaiming the in-memory log, and collecting tombstones. *)

\* A Hello of q arrives: the cursors q had when it sent it, which may be older
\* than its present ones and than those p has noted already.
NoteCursors(p, q, cs) ==
    /\ p \in Reclaiming /\ phase[p] = "up" /\ phase[q] = "up"
    /\ \A o \in Peer : cs[o] <= Seen(q)[o]
    /\ peerCursors' = [peerCursors EXCEPT ![p][q] = cs]
    /\ UNCHANGED <<clock, log, cells, disk, phase, written, mirror>>

\* Faulty LowWater: the other members are not asked.
LowWaterOwn(p, o) == CursorFor(log[p], o)

\* The cursor low-water-mark of origin o: what p and every listed member have.
LowWater(p, o) ==
    Min({CursorFor(log[p], o)} \cup {peerCursors[p][m][o] : m \in Members \ {p}})

Reclaim(p) ==
    /\ p \in Reclaiming /\ phase[p] = "up"
    /\ log' = [log EXCEPT ![p] = Truncate(@, [o \in Peer |-> LowWater(p, o)])]
    /\ UNCHANGED <<clock, cells, disk, phase, peerCursors, written, mirror>>

Collect(p, k) ==
    /\ p \in Collecting /\ phase[p] = "up"
    /\ HoldsTombstone(cells[p][k])
    /\ cells' = [cells EXCEPT ![p][k] = CollectTombstone(@)]
    /\ UNCHANGED <<clock, log, disk, phase, peerCursors, written, mirror>>

------------------------------------------------------------------------------

Write(p) ==
    \E k \in Key, op \in Op, wall \in Wall :
        LocalWrite(p, k, op, wall) \/ LocalWriteRefused(p, k, op, wall)

Deliver(p) ==
    \E o \in Peer, wall \in Wall : \E i \in 1 .. Len(written[o]) :
        \/ Receive(p, written[o][i], wall)
        \/ ReceiveIgnored(p, written[o][i], wall)
        \/ ReceiveUnpersisted(p, written[o][i], wall)

Restart(p) == Crash(p) \/ Open(p) \/ \E o \in Peer : Replay(p, o)

Maintain(p) ==
    \/ Reclaim(p)
    \/ \E k \in Key : Collect(p, k)
    \/ \E q \in Members \ {p} : \E cs \in [Peer -> 0 .. MaxWrites] : NoteCursors(p, q, cs)

Next == \E p \in Peer : Write(p) \/ Deliver(p) \/ Restart(p) \/ Maintain(p)

Spec == Init /\ [][Next]_vars

------------------------------------------------------------------------------
(* Properties. *)

\* The writes p has delivered: those its cursors cover, reclaimed or not.
Delivered(p) == UNION {{written[o][i] : i \in 1 .. Seen(p)[o]} : o \in Peer}

\* Every log is a contiguous piece of what its origin really wrote: no peer
\* holds a hole, a frame out of place, or a frame under a number its origin
\* used for another one, whatever was refused, lost, replayed or reclaimed.
PrefixConsistent ==
    \A p, o \in Peer :
        /\ Seen(p)[o] <= Len(written[o])
        /\ \A i \in 1 .. Len(log[p].observed[o]) :
              log[p].observed[o][i] = written[o][log[p].base[o] + i]

\* The stamps of an origin's writes increase with their sequence numbers, over
\* restarts, refused writes and wall clocks that jump back.
StampsIncrease ==
    \A o \in Peer : \A i, j \in 1 .. Len(written[o]) :
        i < j => HlcLt(written[o][i].stamp.hlc, written[o][j].stamp.hlc)

\* What a reader sees of a record is the newest delivered write to it, or
\* nothing if that is a delete.  A collected tombstone never lets an older
\* write back in, and the order of delivery does not matter.
NewestWins ==
    \A p \in Peer, k \in Key :
        LET writes == {f \in Delivered(p) : f.key = k}
            newest == {f \in writes : \A g \in writes : StampLeq(g.stamp, f.stamp)}
        IN  {f \in newest : ~IsDelete(f)} = {Visible(cells[p][k])} \ {None}

\* Two peers that have delivered the same writes show the same records.
Converged ==
    \A p, q \in Peer :
        Seen(p) = Seen(q) => \A k \in Key : Visible(cells[p][k]) = Visible(cells[q][k])

\* The clock is ahead of every write delivered.  This is why local_write need
\* not look at the outcome of its merge.
ClockDominates ==
    \A p \in Peer : \A f \in Delivered(p) : HlcLeq(f.stamp.hlc, clock[p])

\* A subscriber that follows the events holds what a reader of the state sees:
\* local_write announces its write without looking whether the merge took it.
MirrorFaithful ==
    \A p \in Peer : phase[p] = "up" =>
        \A k \in Key : mirror[p][k] = Visible(cells[p][k])

\* A listed member that is up can be served from any other peer's in-memory
\* log: the part of the delta that stems from an origin either is empty,
\* because the member has it all, or starts at the frame the member needs next.
PullAdvances ==
    \A p \in Peer, q \in Members, o \in Peer :
        (phase[q] = "up" /\ Seen(q)[o] < Seen(p)[o]) =>
            LET delta == DeltaSince(log[p], Seen(q), o)
            IN  delta # << >> /\ delta[1].seq = Seen(q)[o] + 1

\* What a durable peer has acknowledged, its own writes and those it has told
\* others it has, is on disk, so a crash at any point loses none of it.
AckedIsDurable ==
    \A p \in Durable, o \in Peer :
        LET acked == IF o = p THEN Len(written[p]) ELSE Seen(p)[o]
        IN  /\ acked <= Len(disk[p][o])
            /\ \A i \in 1 .. acked : disk[p][o][i] = written[o][i]

------------------------------------------------------------------------------
(* What the peers have written and know, and what they show.  While a peer   *)
(* is down, that is what it will find on disk.                               *)

Up == {p \in Peer : phase[p] = "up"}
Hist == [p \in Peer |-> IF p \in Up THEN written[p] ELSE disk[p][p]]
Know == [p \in Peer |-> IF p \in Up THEN Seen(p) ELSE [o \in Peer |-> Len(disk[p][o])]]
View == [p \in Peer |-> [k \in Key |-> Visible(cells[p][k])]]

------------------------------------------------------------------------------
(* The inductive invariant behind the properties above. *)

\* A frame as the i-th of origin o.
IsFrameOf(f, o, i) == f.stamp.peer = o /\ f.seq = i

WrittenInv ==
    /\ \A o \in Peer : \A i \in 1 .. Len(written[o]) : IsFrameOf(written[o][i], o, i)
    /\ StampsIncrease

\* A running peer has all its own writes.
OwnInv == \A p \in Peer : phase[p] = "up" => Seen(p)[p] = Len(written[p])

\* Disk agrees with the origins' histories and is at most one frame per origin
\* ahead of a running peer's memory.
DiskOK(p, o) ==
    /\ Seen(p)[o] <= Len(disk[p][o])
    /\ phase[p] = "up" => Len(disk[p][o]) <= Seen(p)[o] + 1
    /\ o # p => Len(disk[p][o]) <= Len(written[o])
    /\ \A i \in 1 .. Len(disk[p][o]) : i <= Len(written[o]) => disk[p][o][i] = written[o][i]

\* The one frame disk may hold beyond the peer's own history, a refused write,
\* could be the next one of it.
OwnDiskOK(p) ==
    /\ Len(written[p]) <= Len(disk[p][p])
    /\ Len(disk[p][p]) <= Len(written[p]) + 1
    /\ \A j \in 1 .. Len(disk[p][p]) :
         /\ IsFrameOf(disk[p][p][j], p, j)
         /\ \A i \in 1 .. Len(disk[p][p]) :
              i < j => HlcLt(disk[p][p][i].stamp.hlc, disk[p][p][j].stamp.hlc)

DiskInv ==
    /\ \A p \in Peer \ Durable : phase[p] = "up"
    /\ \A p \in Durable : OwnDiskOK(p) /\ \A o \in Peer : DiskOK(p, o)

\* p has delivered frame i of origin o.
Has(p, o, i) == i \in 1 .. Seen(p)[o]

ClockInv ==
    \A p, o \in Peer : \A i \in 1 .. Len(written[o]) :
        Has(p, o, i) => HlcLeq(written[o][i].stamp.hlc, clock[p])

\* Cell c outranks a write stamped s.
Covers(c, s) ==
    \/ c.current # None /\ StampLeq(s, c.current.stamp)
    \/ c.gcFloor # None /\ StampLeq(s, c.gcFloor)

\* A cell covers every delivered write to its record; what it holds was
\* delivered, and so was the tombstone its floor stands for.
CellOK(p, k, c) ==
    /\ \A o \in Peer : \A i \in 1 .. Len(written[o]) :
         Has(p, o, i) /\ written[o][i].key = k => Covers(c, written[o][i].stamp)
    /\ c.current # None =>
         \E o \in Peer : \E i \in 1 .. Len(written[o]) :
             Has(p, o, i) /\ c.current = written[o][i] /\ written[o][i].key = k
    /\ c.gcFloor # None =>
         \E o \in Peer : \E i \in 1 .. Len(written[o]) :
             /\ Has(p, o, i) /\ c.gcFloor = written[o][i].stamp
             /\ written[o][i].key = k /\ IsDelete(written[o][i])
    /\ c.gcFloor # None /\ c.current # None => StampLt(c.gcFloor, c.current.stamp)

CellInv == \A p \in Peer, k \in Key : CellOK(p, k, cells[p][k])

\* What peer q holds of origin o and cannot lose any more.
Held(q, o) == IF phase[q] = "up" THEN Seen(q)[o] ELSE Len(disk[q][o])

ReclaimInv ==
    /\ \A p, q, o \in Peer : peerCursors[p][q][o] <= Held(q, o)
    /\ \A p, o \in Peer, q \in Members : log[p].base[o] <= Held(q, o)

\* The inductive invariant.
IInv ==
    /\ TypeOK
    /\ WrittenInv
    /\ PrefixConsistent
    /\ OwnInv
    /\ DiskInv
    /\ ClockInv
    /\ CellInv
    /\ MirrorFaithful
    /\ ReclaimInv
==============================================================================
