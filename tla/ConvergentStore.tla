--------------------------- MODULE ConvergentStore ---------------------------
(***************************************************************************)
(* What a set of stitch-p2p peers promises its users, with no clocks, logs *)
(* or disks in sight: every peer has a history of writes that only grows,  *)
(* every peer comes to know more and more of these histories, each from    *)
(* its beginning and without gaps, and while it is open it shows, for      *)
(* every record, the newest write it knows.  Closing and reopening a peer  *)
(* makes it forget nothing.                                                *)
(***************************************************************************)
EXTENDS Lww, Sequences

VARIABLES
    history,  \* history[o]: the writes o has made
    known,    \* known[p][o]: how many of o's writes p knows
    open,     \* the peers that are open
    view      \* view[p][k]: what p shows of record k while it is open

storeVars == <<history, known, open, view>>

\* The writes to k among those p knows.
KnownWrites(h, n, p, k) ==
    {f \in UNION {{h[o][i] : i \in 1 .. n[p][o]} : o \in Peer} : f.key = k}

\* The newest of a set of writes as a reader sees it.
Shown(writes) ==
    LET newest == {f \in writes : ~IsDelete(f) /\ \A g \in writes : StampLeq(g.stamp, f.stamp)}
    IN  IF newest = {} THEN None ELSE CHOOSE f \in newest : TRUE

StoreInit ==
    /\ history = [o \in Peer |-> << >>]
    /\ known = [p \in Peer |-> [o \in Peer |-> 0]]
    /\ open = Peer
    /\ view = [p \in Peer |-> [k \in Key |-> None]]

\* p writes at most once, with a later stamp than before.
Publishes(p) ==
    LET n == Len(history[p])
        m == Len(history'[p])
    IN  /\ m \in {n, n + 1}
        /\ \A i \in 1 .. n : history'[p][i] = history[p][i]
        /\ m = n + 1 =>
             LET f == history'[p][m]
             IN  /\ f.stamp.peer = p /\ f.seq = m
                 /\ \A i \in 1 .. n : HlcLt(history[p][i].stamp.hlc, f.stamp.hlc)

\* p learns writes that exist, and always knows its own.
Learns(p) ==
    /\ \A o \in Peer : known[p][o] <= known'[p][o] /\ known'[p][o] <= Len(history'[o])
    /\ known'[p][p] = Len(history'[p])

\* A step of p: it may write, learn, close, reopen.
StoreStep(p) ==
    /\ Publishes(p)
    /\ Learns(p)
    /\ p \in open' =>
         \A k \in Key : view'[p][k] = Shown(KnownWrites(history', known', p, k))
    /\ \A q \in Peer \ {p} :
         /\ history'[q] = history[q] /\ known'[q] = known[q]
         /\ q \in open' <=> q \in open
         /\ view'[q] = view[q]

StoreNext == \E p \in Peer : StoreStep(p)

StoreSpec == StoreInit /\ [][StoreNext]_storeVars
==============================================================================
