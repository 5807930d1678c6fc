------------------------- MODULE ReplicationPromise -------------------------
(* The peers of Replication implement ConvergentStore. *)
EXTENDS Replication

Promise == INSTANCE ConvergentStore WITH
    history <- Hist, known <- Know, open <- Up, view <- View

\* Every behaviour of the peers is one of ConvergentStore: over crashes, failed
\* appends, reclaiming and collected tombstones a peer forgets nothing it knew,
\* rewrites no history, and shows the newest write it knows to each record.
ImplementsStore == Promise!StoreSpec
==============================================================================
