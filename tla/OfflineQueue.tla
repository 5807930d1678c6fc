----------------------------- MODULE OfflineQueue -----------------------------
(***************************************************************************)
(* The offline queue of the server-authoritative store                     *)
(* (crates/stitch/src/offline_queue.rs, queue.rs, error.rs): what a queued *)
(* mutation is, how a flush folds the queued mutations of one row into one *)
(* mutation, and what it does with the broker's answer to it.              *)
(*                                                                         *)
(* A row of data maps Fields to values; a mutation carries a row or a part *)
(* of one.  Queue order stands for created_at: two mutations queued in the *)
(* same millisecond are not told apart from two queued one after another.  *)
(***************************************************************************)
EXTENDS Naturals, Sequences, SequencesExt, FiniteSets, TLC

CONSTANTS
    Root,      \* the row of the root entity: its id is the scope
    Children,  \* rows of a child entity, in the scope of Root
    Fields     \* the columns of a row

ASSUME OfflineQueueAssumption == Root \notin Children

Ids == {Root} \cup Children
NoData == << >>
NoRow == NoData  \* a row that is not there has no fields

Op == {"insert", "update", "delete"}

\* What MutationSender's calls return: "ok" or the class of the error.
Answer == {"ok", "transient", "conflict", "ownership", "notFound", "terminal", "rejected", "stale"}

\* Merging data into a row: accessor.update.
Merge(row, data) == data @@ row

-----------------------------------------------------------------------------
(* consolidate *)

OfRow(rows, id) == SelectSeq(rows, LAMBDA r : r.id = id)

HasOp(rows, op) == \E i \in DOMAIN rows : rows[i].op = op

\* The data of the given rows, a later one over an earlier one.
MergedData(rows) == FoldLeft(LAMBDA acc, r : r.data @@ acc, NoData, rows)

InsertDataWins(rows) ==
    LET inserts == SelectSeq(rows, LAMBDA r : r.op = "insert")
    IN  Head(inserts).data @@ MergedData(SelectSeq(rows, LAMBDA r : r.op # "insert"))

\* The first insert's data under the data of everything that is not an insert.
InsertData(rows) ==
    LET inserts == SelectSeq(rows, LAMBDA r : r.op = "insert")
    IN  MergedData(SelectSeq(rows, LAMBDA r : r.op # "insert")) @@ Head(inserts).data

\* One mutation for the queued mutations of one row.
FoldRows(rows) ==
    LET op == IF HasOp(rows, "insert") /\ HasOp(rows, "delete") THEN "delete"
              ELSE IF HasOp(rows, "insert") THEN "insert"
              ELSE IF HasOp(rows, "delete") THEN "delete" ELSE "update"
    IN  [op |-> op, id |-> rows[1].id,
         data |-> CASE op = "insert" -> InsertData(rows)
                    [] op = "update" -> MergedData(rows)
                    [] op = "delete" -> NoData,
         recs |-> {rows[i].rec : i \in DOMAIN rows}]

\* The mutations a flush sends, in the order of each row's first entry.
consolidate(rows) ==
    LET first(i) == \A j \in 1 .. (i - 1) : rows[j].id # rows[i].id
        heads == SelectSeq([i \in DOMAIN rows |-> i], first)
    IN  [k \in DOMAIN heads |-> FoldRows(OfRow(rows, rows[heads[k]].id))]

-----------------------------------------------------------------------------
(* flush_consolidated: what becomes of a mutation, given the answer.  "next" *)
(* is a further call: to read the row, or to remove the root at the server. *)

FlushOutcome(m, answer) ==
    CASE answer = "ok" -> "drop"
      [] answer = "transient" -> "keep"
      [] answer = "conflict" /\ m.op = "insert" -> "read"
      [] answer = "ownership" -> IF m.op = "insert" THEN "dropRejected" ELSE "drop"
      [] answer = "notFound" /\ m.op = "delete" -> "drop"
      [] answer = "notFound" /\ m.op = "update" -> IF m.id = Root THEN "deleteRoot" ELSE "read"
      [] answer = "notFound" /\ m.op = "insert" -> "keep"
      [] answer = "terminal" -> IF m.op = "insert" THEN "dropRejected" ELSE "drop"
      [] OTHER -> "drop"

\* replay_or_reject_insert after read_entity: an insert the broker has already
\* applied is sent again as an update, any other was rejected.
ReadOutcome(m, answer) ==
    CASE answer = "ok" -> IF m.op = "insert" THEN "update" ELSE "create"
      [] answer = "transient" -> "keep"
      [] m.op = "insert" -> "dropRejected"
      [] OTHER -> "drop"

\* The outcome of the call that followed a read.
ReplayOutcome(answer) == IF answer = "transient" THEN "keep" ELSE "drop"

-----------------------------------------------------------------------------
(* What a queue promises: sending its entries one by one, in order. *)

\* The effect of one mutation on the server's row, through a flush that meets
\* no failure: an insert of a row that is there is sent as an update.
Effect(row, m) ==
    CASE m.op = "delete" -> NoRow
      [] m.op = "insert" -> IF row = NoRow THEN m.data ELSE Merge(row, m.data)
      [] m.op = "update" -> IF row = NoRow THEN NoRow ELSE Merge(row, m.data)

InOrder(rows, row) == FoldLeft(Effect, row, rows)

InsertsFirst(rows) == \A i \in DOMAIN rows : rows[i].op = "insert" => i = 1

\* Folding the entries of a row changes nothing: the mutation that a flush sends
\* leaves the server's row as sending the entries in order would.  It holds for
\* the rows whose entries have no insert after another entry; for those with an
\* insert after a delete, consolidate (offline_queue.rs:92) sends a delete.
FoldIsReplay(rows, serverRows) ==
    \A id \in Ids :
        LET mine == OfRow(rows, id) IN
        (mine # << >> /\ InsertsFirst(mine)) =>
            \A row \in serverRows : Effect(row, FoldRows(mine)) = InOrder(mine, row)
==============================================================================
