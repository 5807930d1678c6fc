------------------------------- MODULE Acceptor -------------------------------
(***************************************************************************)
(* Routing inbound connections to the tasks that wait for them             *)
(* (crates/mqp2p/src/quic.rs): AcceptState holds, for each certificate     *)
(* fingerprint, the waiters in the order they came and the connections     *)
(* that arrived before anyone waited.  The operators are what deliver,     *)
(* accept_with_fingerprint, WaiterGuard, the sweep loop and the end of the *)
(* accept loop make of that state; a step holds its mutex throughout.      *)
(*                                                                         *)
(* A connection is named by the session it was made in; the buffer is one  *)
(* sequence in order of arrival, which is the order eviction looks for.    *)
(***************************************************************************)
EXTENDS Naturals, Sequences, SequencesExt, FiniteSets

CONSTANT MaxBuffered   \* MAX_BUFFERED_CONNECTIONS

\* waiters: [fp, id]; arrived: [fp, conn], the oldest first.
AcceptState == [waiters |-> << >>, arrived |-> << >>, closed |-> FALSE]

ConnsIn(bs) == {bs[i].conn : i \in DOMAIN bs}

\* Connections that leave the buffer of a for that of b.
Dropped(a, b) == ConnsIn(a.arrived) \ ConnsIn(b.arrived)

remove_waiter(a, id) == [a EXCEPT !.waiters = SelectSeq(@, LAMBDA w : w.id # id)]

\* The oldest are closed until there is room for one.
evict_overflow(a) ==
    LET over == Len(a.arrived) + 1 - MaxBuffered
    IN  IF over > 0 THEN [a EXCEPT !.arrived = SubSeq(@, over + 1, Len(@))] ELSE a

\* The sweep closes the connections that have waited for their time to live,
\* which are the oldest n.
expire_buffered(a, n) == [a EXCEPT !.arrived = SubSeq(@, n + 1, Len(@))]

\* The waiter that deliver hands the connection to: the first that still listens.
Receiver(a, fp, listens) == SelectInSeq(a.waiters, LAMBDA w : w.fp = fp /\ w.id \in listens)

\* Faulty deliver: the connection is buffered without a look at the waiters.
deliver_buffers(a, fp, conn, listens) ==
    IF a.closed THEN a ELSE [evict_overflow(a) EXCEPT !.arrived = Append(@, [fp |-> fp, conn |-> conn])]

\* deliver: the waiters before the receiver are gone and are dropped; with no
\* receiver the connection is buffered.
deliver(a, fp, conn, listens) ==
    LET i == Receiver(a, fp, listens)
        others == SelectSeq(a.waiters, LAMBDA w : w.fp # fp)
        e == evict_overflow([a EXCEPT !.waiters = others])
    IN  IF a.closed THEN a
        ELSE IF i # 0
        THEN [a EXCEPT !.waiters = SelectSeq(SubSeq(@, 1, i - 1), LAMBDA w : w.fp # fp) \o SubSeq(@, i + 1, Len(@))]
        ELSE [e EXCEPT !.arrived = Append(@, [fp |-> fp, conn |-> conn])]

\* Faulty TakenFrom: a connection is taken whatever its fingerprint.
TakenFromAny(a, fp, dead) == SelectInSeq(a.arrived, LAMBDA b : b.conn \notin dead)

\* accept_with_fingerprint, its locked part: the oldest connection of the
\* fingerprint that is not closed, and the ones before it are let go.
TakenFrom(a, fp, dead) == SelectInSeq(a.arrived, LAMBDA b : b.fp = fp /\ b.conn \notin dead)

accept_with_fingerprint(a, fp, id, dead) ==
    LET i == TakenFrom(a, fp, dead)
        rest == SelectSeq(a.arrived, LAMBDA b : b.fp # fp)
    IN  IF i = 0
        THEN [a EXCEPT !.arrived = rest, !.waiters = Append(@, [fp |-> fp, id |-> id])]
        ELSE [a EXCEPT !.arrived = SelectSeq(SubSeq(@, 1, i - 1), LAMBDA b : b.fp # fp) \o SubSeq(@, i + 1, Len(@))]

\* The end of the accept loop, and Drop.
close(a) == [waiters |-> << >>, arrived |-> << >>, closed |-> TRUE]

\* The call id, which waits for a connection of fp, will get the next one: its waiter
\* is there, and none is in the buffer already.
Served(a, fp, id) ==
    /\ \E i \in DOMAIN a.waiters : a.waiters[i] = [fp |-> fp, id |-> id]
    /\ \A i \in DOMAIN a.arrived : a.arrived[i].fp # fp

=============================================================================
