--------------------------------- MODULE Lww ---------------------------------
(***************************************************************************)
(* The last-writer-wins applier (crates/stitch-p2p/src/lww.rs): one cell   *)
(* per record, holding the winning write and the stamp at or below which   *)
(* writes are ignored because a tombstone was collected there.             *)
(*                                                                         *)
(* A write is the frame that carries it.  Its data is not modelled: the    *)
(* applier never looks inside, and a frame's stamp identifies it.          *)
(***************************************************************************)
EXTENDS Hlc

CONSTANTS
    Key,   \* the records: pairs of an entity and an id
    Op,    \* the operations an application issues
    None   \* Option::None

ASSUME OpAssumption == Op \subseteq {"Insert", "Update", "Delete"}

Frame == [stamp : Stamp, seq : Nat \ {0}, op : Op, key : Key]

ASSUME NoneAssumption == None \notin Frame /\ None \notin Stamp

Cell == [current : Frame \cup {None}, gcFloor : Stamp \cup {None}]

EmptyCell == [current |-> None, gcFloor |-> None]

IsDelete(w) == w.op = "Delete"

\* Faulty MergeOutcome: ties between clocks are not broken by the peer id.
MergeOutcomeNoTiebreak(c, w) ==
    IF c.current # None /\ HlcLeq(w.stamp.hlc, c.current.stamp.hlc)
      THEN "StaleDropped" ELSE "Applied"

\* Faulty MergeOutcome: the floor a collected tombstone left is ignored.
MergeOutcomeNoFloor(c, w) ==
    IF c.current # None /\ StampLeq(w.stamp, c.current.stamp) THEN "StaleDropped" ELSE "Applied"

\* What merging write w into cell c does with it.
MergeOutcome(c, w) ==
    IF c.gcFloor # None /\ StampLeq(w.stamp, c.gcFloor) THEN "BelowGcFloor"
    ELSE IF c.current # None /\ StampLeq(w.stamp, c.current.stamp) THEN "StaleDropped"
    ELSE "Applied"

Merge(c, w) == IF MergeOutcome(c, w) = "Applied" THEN [c EXCEPT !.current = w] ELSE c

\* collect_tombstone has something to collect.
HoldsTombstone(c) == c.current # None /\ IsDelete(c.current)

\* Forget the tombstone, remembering its stamp as the floor.
CollectTombstone(c) ==
    LET stamp == c.current.stamp
    IN  [current |-> None,
         gcFloor |-> IF c.gcFloor # None /\ StampLeq(stamp, c.gcFloor)
                       THEN c.gcFloor ELSE stamp]

\* The write a reader of the record sees, if any.
Visible(c) == IF c.current # None /\ ~IsDelete(c.current) THEN c.current ELSE None
==============================================================================
