------------------------------- MODULE ReplLog -------------------------------
(***************************************************************************)
(* A peer's replication log (crates/stitch-p2p/src/replog.rs): for every   *)
(* origin the frames with sequence numbers base + 1 .. base + Len(observed)*)
(* in order.  The program's hash maps lack the origins it has not heard    *)
(* of; every lookup defaults to an empty log and to zero, which is what    *)
(* the total functions below hold for them.                                *)
(***************************************************************************)
EXTENDS Lww, Sequences

Log == [observed : [Peer -> Seq(Frame)], base : [Peer -> Nat]]

EmptyLog == [observed |-> [o \in Peer |-> << >>], base |-> [o \in Peer |-> 0]]

\* Highest sequence number applied for origin o, reclaimed frames included.
CursorFor(l, o) == l.base[o] + Len(l.observed[o])

Cursors(l) == [o \in Peer |-> CursorFor(l, o)]

NextSeq(l, o) == CursorFor(l, o) + 1

Classify(l, f) ==
    LET have == CursorFor(l, f.stamp.peer)
    IN  IF f.seq <= have THEN "Duplicate"
        ELSE IF f.seq = have + 1 THEN "Appended"
        ELSE "Gap"

Record(l, f) ==
    IF Classify(l, f) = "Appended"
      THEN [observed |-> [l.observed EXCEPT ![f.stamp.peer] = Append(@, f)], base |-> l.base]
      ELSE l

\* Faulty DeltaSince: the frame right after the cursor is left out.
DeltaSinceSkipsOne(l, their, o) ==
    SubSeq(l.observed[o], their[o] - l.base[o] + 2, Len(l.observed[o]))

\* The part of delta_since that stems from origin o: the stored frames above
\* the cursor the requester reported (saturating at the reclaimed base).
DeltaSince(l, their, o) ==
    LET skip  == IF their[o] >= l.base[o] THEN their[o] - l.base[o] ELSE 0
        start == IF skip <= Len(l.observed[o]) THEN skip ELSE Len(l.observed[o])
    IN  SubSeq(l.observed[o], start + 1, Len(l.observed[o]))

\* Drop the stored frames of every origin o with sequence numbers up to upTo[o].
Truncate(l, upTo) ==
    LET drop == [o \in Peer |->
                   LET want == IF upTo[o] <= l.base[o] THEN 0 ELSE upTo[o] - l.base[o]
                   IN  IF want <= Len(l.observed[o]) THEN want ELSE Len(l.observed[o])]
    IN  [observed |-> [o \in Peer |->
                         SubSeq(l.observed[o], drop[o] + 1, Len(l.observed[o]))],
         base     |-> [o \in Peer |-> l.base[o] + drop[o]]]
==============================================================================
