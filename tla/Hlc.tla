--------------------------------- MODULE Hlc ---------------------------------
(***************************************************************************)
(* Hybrid logical clocks and write stamps (crates/stitch-p2p/src/hlc.rs).  *)
(*                                                                         *)
(* A clock is a pair of a physical part, in milliseconds, and a logical    *)
(* counter.  The counter is a u32: LogicalMod is 2^32 in the program, and  *)
(* the release build wraps there, so every increment is taken modulo it.   *)
(***************************************************************************)
EXTENDS Integers

CONSTANT
    Peer,       \* peer ids: 32-byte arrays compared lexicographically, so any
                \* totally ordered set will do; here numbers
    LogicalMod  \* number of values of the logical counter

ASSUME PeerAssumption == Peer \subseteq Nat /\ Peer # {}
ASSUME LogicalModAssumption == LogicalMod \in Nat \ {0}

Hlc == [physical : Nat, logical : 0 .. LogicalMod - 1]

Stamp == [hlc : Hlc, peer : Peer]

\* Hlc::default().
ZeroHlc == [physical |-> 0, logical |-> 0]

MaxOf(a, b) == IF a >= b THEN a ELSE b

Bump(n) == (n + 1) % LogicalMod

\* A clock whose counter an increment does not wrap.
HasHeadroom(h) == h.logical + 1 < LogicalMod

\* The derived (lexicographic) order of Hlc.
HlcLt(a, b) ==
    \/ a.physical < b.physical
    \/ a.physical = b.physical /\ a.logical < b.logical

HlcLeq(a, b) == HlcLt(a, b) \/ (a.physical = b.physical /\ a.logical = b.logical)

\* Stamp::cmp: by clock, then by peer id.
StampLt(a, b) ==
    \/ HlcLt(a.hlc, b.hlc)
    \/ a.hlc.physical = b.hlc.physical /\ a.hlc.logical = b.hlc.logical /\ a.peer < b.peer

StampLeq(a, b) == StampLt(a, b) \/ a = b

\* A local event at wall time wall.  A wall clock that stands still or runs
\* backwards leaves the physical part alone and moves the counter.
Tick(h, wall) ==
    LET physical == MaxOf(h.physical, wall)
    IN  [physical |-> physical,
         logical  |-> IF physical = h.physical THEN Bump(h.logical) ELSE 0]

\* The receipt of a remote clock r at wall time wall.
Observe(h, r, wall) ==
    LET physical == MaxOf(MaxOf(h.physical, r.physical), wall)
    IN  [physical |-> physical,
         logical  |->
            IF physical = h.physical /\ physical = r.physical
              THEN Bump(MaxOf(h.logical, r.logical))
            ELSE IF physical = h.physical THEN Bump(h.logical)
            ELSE IF physical = r.physical THEN Bump(r.logical)
            ELSE 0]
==============================================================================
