--------------------------------- MODULE Store ---------------------------------
(***************************************************************************)
(* Writes, offline queue and reconnects of the server-authoritative store  *)
(* (crates/stitch/src/store.rs with sync_engine.rs, remote_sync.rs,        *)
(* memory_store.rs, persistence.rs and mqtt_client/native.rs).  A write    *)
(* goes to memory, to persistence and to the queue, and, while connected,  *)
(* to the broker; three tasks run beside the callers: the status loop, the *)
(* flush loop and the mutation loop.                                       *)
(*                                                                         *)
(* Here no scope is open: the broker's events about children do not reach  *)
(* this client (ScopeSync models an open scope), and other clients delete  *)
(* children only.  A handler runs in one step up to each request it awaits;*)
(* the local databases do not fail, and create overwrites (store.rs:307).  *)
(* The broker is external: it answers requests in order, at most MaxFaults *)
(* times with an error of its own, late, or not at all.                    *)
(***************************************************************************)
EXTENDS OfflineQueue

CONSTANTS
    Durable,     \* whether persistence is configured: {TRUE}, {FALSE} or both
    Callers,     \* concurrent callers of the store's write operations
    Edited,      \* the fields an update may set
    MaxWrites,   \* bound on writes
    MaxFaults,   \* bound on faults: refusals, lost messages, link failures...
    MaxTotal     \* bound on writes and faults together

ASSUME StoreAssumption == {MaxWrites, MaxFaults, MaxTotal} \subseteq Nat /\ Edited \subseteq Fields

VARIABLES
    durable,  \* persistence is configured: PersistentOfflineQueue, else in memory
    user,     \* an authenticated user is set
    mem,      \* the in-memory cache
    disk,     \* the persistence layer (empty unless durable)
    queue,    \* the offline queue, oldest first
    call,     \* each caller's operation that awaits the broker
    flush,    \* the flush that holds FlushGuard
    loop,     \* flush_loop: waiting, running or backing off
    permit,   \* flush_notify holds a permit
    sync,     \* status loop and mutation loop: what each is doing
    status,   \* last_connection_status
    events,   \* connection events not yet handled by the status loop
    link,     \* the MQTT client is connected
    wire,     \* requests that the broker has not served, oldest first
    reply,    \* pending_requests: each agent's request, waiting or answered
    server,   \* the broker's rows
    writes,   \* number of writes so far
    faults,   \* number of faults so far
    fate,     \* history: what became of each write's queue entry
    served    \* history: the values the broker has stored

client == <<durable, user, mem, disk, queue, call, flush, loop, permit, sync, status, events>>
vars == <<client, link, wire, reply, server, writes, faults, fate, served>>

Syncers == {"status", "mutation"}
Agents == Callers \cup Syncers \cup {"loop"}

NoCall == [op |-> "none"]
NoFlush == [by |-> "none"]
Idle == [is |-> "idle"]
Waiting == [is |-> "waiting"]
Answered(a) == [is |-> a]

-----------------------------------------------------------------------------
(* The local rows *)

Set(rows, id, row) == [rows EXCEPT ![id] = row]

\* db.update: the row must be there.
Patch(rows, id, data) == IF rows[id] = NoRow THEN rows ELSE Set(rows, id, Merge(rows[id], data))

\* InnerLocalAccessor: what remote changes are written to.
Accessed == IF durable THEN disk ELSE mem

Access(rows) ==
    /\ disk' = IF durable THEN rows ELSE disk
    /\ mem' = IF durable THEN mem ELSE rows

\* Writing one row to the cache and, if configured, to persistence.
Persist(rows) == disk' = IF durable THEN rows ELSE disk

\* MemoryStore and PersistenceLayer: one row each.
memory_create(id, row) == mem' = Set(mem, id, row)
memory_update(id, data) == mem' = Patch(mem, id, data)
memory_delete(id) == mem' = Set(mem, id, NoRow)
persistence_create(id, row) == Persist(Set(disk, id, row))
persistence_update(id, data) == Persist(Patch(disk, id, data))
persistence_delete(id) == Persist(Set(disk, id, NoRow))

rollback_local_row(id) == memory_delete(id) /\ persistence_delete(id)

restore_local_row(id, pre) == memory_create(id, pre) /\ persistence_create(id, pre)

\* The row an operation starts from: memory, else persistence.
ExistingRow(id) == IF mem[id] # NoRow THEN mem[id] ELSE disk[id]

-----------------------------------------------------------------------------
(* The queue *)

\* queue: a persistent queue drops the mutation when no user is set.  Two
\* mutations may be queued in the same millisecond.
Queueing == ~durable \/ user

Stamp(sameMs, w) == IF sameMs /\ queue # << >> THEN Last(queue).at ELSE w

in_memory_queue(row) == Append(queue, row)

persistent_queue(row) == IF user THEN Append(queue, row) ELSE queue

Queued(w, op, id, data, sameMs) ==
    LET row == [rec |-> w, op |-> op, id |-> id, data |-> data, at |-> Stamp(sameMs, w)]
    IN  IF durable THEN persistent_queue(row) ELSE in_memory_queue(row)

RemovedAll(id, op) == SelectSeq(queue, LAMBDA r : r.id # id)

\* remove: every entry of the row with that operation.
Removed(id, op) == SelectSeq(queue, LAMBDA r : ~(r.id = id /\ r.op = op))

\* The entries of a mutation that a flush has settled.
Settled(recs) == SelectSeq(queue, LAMBDA r : r.rec \notin recs)

has_pending_insert(id) == \E i \in DOMAIN queue : queue[i].id = id /\ queue[i].op = "insert"

Pending(id) == {queue[i].op : i \in {j \in DOMAIN queue : queue[j].id = id}}

-----------------------------------------------------------------------------
(* Requests: SyncEngine::request and the MQTT client under it *)

\* A publish on a closed connection fails at once with a transient error.
Send(agent, op, id, data) ==
    IF link
    THEN /\ wire' = Append(wire, [who |-> agent, op |-> op, id |-> id, data |-> data])
         /\ reply' = [reply EXCEPT ![agent] = Waiting]
    ELSE /\ reply' = [reply EXCEPT ![agent] = Answered("transient")]
         /\ UNCHANGED wire

\* The requests of SyncEngine; the broker's side of each is in Serves.
sync_create(agent, id, data) == Send(agent, "insert", id, data)
sync_update(agent, id, data) == Send(agent, "update", id, data)
sync_delete(agent, id) == Send(agent, "delete", id, NoData)
sync_update_checked(agent, id, data) == Send(agent, "updateIf", id, data)
sync_delete_checked(agent, id) == Send(agent, "deleteIf", id, NoData)
fetch_one(agent, id) == Send(agent, "read", id, NoData)
fetch_list(agent, what) == Send(agent, what, Root, NoData)

\* MutationSender for RemoteSyncLayer: the request for a folded mutation.
Sends(agent, m) ==
    CASE m.op = "insert" -> sync_create(agent, m.id, m.data)
      [] m.op = "update" -> sync_update(agent, m.id, m.data)
      [] m.op = "delete" -> sync_delete(agent, m.id)

Faulty == faults < MaxFaults /\ writes + faults < MaxTotal
Awaits(agent) == reply[agent] = Waiting
Got(agent) == reply[agent].is \in Answer \cup {"absent"}
Taken(agent) == reply' = [reply EXCEPT ![agent] = Idle]
OnWire(agent) == \E i \in DOMAIN wire : wire[i].who = agent

-----------------------------------------------------------------------------
(* Operations.  Each has two parts: up to the request, and what follows the  *)
(* answer.  fate records what became of a write's queue entry.               *)

Write == writes + 1

\* The call of a caller that has asked the broker; otherwise it has returned.
Asks(c, m, pre) ==
    IF status = "connected"
    THEN /\ call' = [call EXCEPT ![c] = [op |-> m.op, id |-> m.id, data |-> m.data, pre |-> pre, w |-> Write]]
         /\ Sends(c, m)
    ELSE UNCHANGED <<call, wire, reply>>

Begins(c) == call[c] = NoCall /\ writes < MaxWrites /\ writes + faults < MaxTotal

\* What every write leaves behind when it reaches the broker or returns.
Enters(c, op, id, data, pre) ==
    /\ \E sameMs \in BOOLEAN : queue' = Queued(Write, op, id, data, sameMs)
    /\ Asks(c, [op |-> op, id |-> id, data |-> data], pre)
    /\ writes' = Write
    /\ fate' = [fate EXCEPT ![Write] = IF Queueing THEN "open" ELSE "unqueued"]
    /\ UNCHANGED <<durable, user, flush, loop, permit, sync, status, events, link, server, served, faults>>

create(c, id) ==
    LET data == [f \in Fields |-> Write] IN
    /\ Begins(c)
    /\ mem[id] = NoRow
    /\ memory_create(id, data) /\ persistence_create(id, data)
    /\ Enters(c, "insert", id, data, NoRow)

update(c, id, field) ==
    LET data == field :> Write IN
    /\ Begins(c)
    /\ ExistingRow(id) # NoRow
    /\ memory_update(id, data) /\ persistence_update(id, data)
    /\ Enters(c, "update", id, data, ExistingRow(id))

delete(c, id) ==
    /\ Begins(c)
    /\ ExistingRow(id) # NoRow
    /\ memory_delete(id) /\ persistence_delete(id)
    /\ Enters(c, "delete", id, NoData, ExistingRow(id))

\* update_if and delete_if: to the broker first, never queued.
Checked(c, op, id, data, sends) ==
    /\ Begins(c)
    /\ status = "connected"
    /\ ExistingRow(id) # NoRow
    /\ call' = [call EXCEPT ![c] = [op |-> op, id |-> id, data |-> data, pre |-> NoRow, w |-> Write]]
    /\ sends
    /\ writes' = Write
    /\ fate' = [fate EXCEPT ![Write] = "checked"]
    /\ UNCHANGED <<durable, user, mem, disk, queue, flush, loop, permit, sync, status, events, link, server, served, faults>>

update_if(c, id, field) == Checked(c, "updateIf", id, field :> Write, sync_update_checked(c, id, field :> Write))

delete_if(c, id) == Checked(c, "deleteIf", id, NoData, sync_delete_checked(c, id))

\* A caller whose answer has come, and what the rest of its call leaves alone.
Returns(c, op) ==
    /\ call[c].op = op
    /\ Got(c)
    /\ call' = [call EXCEPT ![c] = NoCall]
    /\ Taken(c)
    /\ UNCHANGED <<durable, user, flush, loop, sync, status, events, link, wire, server, served, writes, faults>>

\* flush_notify.notify_one: the entry stays queued, for the flush loop.
Parks == permit' = TRUE /\ UNCHANGED <<mem, disk, queue, fate>>

\* The error is only logged: the entry stays queued and nobody is notified.
Warns == UNCHANGED <<mem, disk, queue, permit, fate>>

\* queue.remove, after the broker's last word on an operation.
Removes(c, op, id, why) ==
    LET gone == {r.rec : r \in {x \in ToSet(queue) : x.id = id /\ x.op = op}}
    IN  /\ queue' = Removed(id, op)
        /\ fate' = [w \in DOMAIN fate |->
                       IF w = call[c].w THEN IF why = "applied" /\ op = "delete" THEN "deleted" ELSE why
                       ELSE IF w \in gone /\ fate[w] = "open" THEN "overtaken" ELSE fate[w]]

createAnswered(c) ==
    LET id == call[c].id
        answer == reply[c].is
    IN  /\ Returns(c, "insert")
        /\ \/ answer = "ok" /\ Removes(c, "insert", id, "applied") /\ UNCHANGED <<mem, disk, permit>>
           \/ answer = "transient" /\ Parks
           \/ /\ answer \in {"conflict", "ownership", "terminal"}
              /\ rollback_local_row(id)
              /\ Removes(c, "insert", id, "refused")
              /\ UNCHANGED permit
           \/ answer \in {"notFound", "rejected", "stale"} /\ Warns

\* update and delete: the same answers, with the entries of their own operation.
Answers(c, op) ==
    LET id == call[c].id
        answer == reply[c].is
    IN  /\ Returns(c, op)
        /\ \/ answer = "ok" /\ Removes(c, op, id, "applied") /\ UNCHANGED <<mem, disk, permit>>
           \/ /\ answer \in {"ownership", "terminal"}
              /\ Removes(c, op, id, "refused")
              /\ restore_local_row(id, call[c].pre)
              /\ UNCHANGED permit
           \/ answer = "notFound" /\ has_pending_insert(id) /\ Parks
           \/ /\ answer = "notFound" /\ ~has_pending_insert(id)
              /\ rollback_local_row(id)
              /\ Removes(c, op, id, "refused")
              /\ UNCHANGED permit
           \/ answer = "transient" /\ Parks
           \/ answer \in {"conflict", "rejected", "stale"} /\ Warns

updateAnswered(c) == Answers(c, "update")

deleteAnswered(c) == Answers(c, "delete")

CheckedAnswersAlways(c, op, applied) ==
    Returns(c, op) /\ applied /\ UNCHANGED <<queue, permit, fate>>

\* Applied locally only after the broker has accepted it.
CheckedAnswers(c, op, applied) ==
    LET id == call[c].id IN
    /\ Returns(c, op)
    /\ \/ reply[c].is = "ok" /\ applied
       \/ reply[c].is = "notFound" /\ ~has_pending_insert(id) /\ rollback_local_row(id)
       \/ reply[c].is = "notFound" /\ has_pending_insert(id) /\ UNCHANGED <<mem, disk>>
       \/ reply[c].is \notin {"ok", "notFound"} /\ UNCHANGED <<mem, disk>>
    /\ UNCHANGED <<queue, permit, fate>>

updateIfAnswered(c) ==
    LET m == call[c] IN
    /\ m.op = "updateIf"
    /\ CheckedAnswers(c, "updateIf", memory_update(m.id, m.data) /\ persistence_update(m.id, m.data))

deleteIfAnswered(c) ==
    LET m == call[c] IN
    /\ m.op = "deleteIf"
    /\ CheckedAnswers(c, "deleteIf", memory_delete(m.id) /\ persistence_delete(m.id))

-----------------------------------------------------------------------------
(* The flush: PersistentOfflineQueue::flush and InMemoryOfflineQueue::flush *)

Priority(op) == CASE op = "insert" -> 0 [] op = "update" -> 1 [] op = "delete" -> 2

\* The orders in which the folded mutations may be sent: by time of the first
\* entry, then by operation; what ties in both comes in any order.
Orders(rows) ==
    LET folded == ToSet(consolidate(rows))
        at(m) == Min({r.at : r \in {x \in ToSet(rows) : x.rec \in m.recs}})
        before(m, n) == at(m) < at(n) \/ (at(m) = at(n) /\ Priority(m.op) <= Priority(n.op))
    IN  {o \in [1 .. Cardinality(folded) -> folded] :
            \A i, j \in DOMAIN o : i < j => o[i] # o[j] /\ before(o[i], o[j])}

rollback_rejected_inserts(rejected) ==
    /\ mem' = [id \in Ids |-> IF id \in rejected THEN NoRow ELSE mem[id]]
    /\ Persist([id \in Ids |-> IF id \in rejected THEN NoRow ELSE disk[id]])

\* flush_loop sleeps if something was retained.
flush_loop_goes_on(retained, notified) ==
    /\ loop' = IF retained > 0 THEN "backoff" ELSE "waiting"
    /\ permit' = notified
    /\ Taken("loop")
    /\ UNCHANGED <<sync, wire>>

\* on_connected leaves what was retained to the flush loop and lists the roots.
on_connected(by, retained, notified) ==
    /\ permit' = (notified \/ retained > 0)
    /\ sync' = [sync EXCEPT ![by] = "roots"]
    /\ fetch_list(by, "roots")
    /\ UNCHANGED loop

\* Faulty Summarised: what was retained is not tried again.
SummarisedNoRetry(by, retained, rejected, notified) ==
    /\ UNCHANGED <<mem, disk>>
    /\ IF by = "loop" THEN flush_loop_goes_on(0, notified) ELSE on_connected(by, 0, notified)

\* The rest of the caller of flush.
Summarised(by, retained, rejected, notified) ==
    /\ rollback_rejected_inserts(rejected)
    /\ IF by = "loop" THEN flush_loop_goes_on(retained, notified) ELSE on_connected(by, retained, notified)

\* InMemoryOfflineQueue::flush removes the entries of all that was settled at its end.
in_memory_flushed(entries, gone) == SelectSeq(entries, LAMBDA r : r.rec \notin gone)

\* The flush goes on with state f: the first call for the next mutation, or the end.
FlushGoes(f, entries, notified) ==
    IF f.todo # << >>
    THEN /\ flush' = [f EXCEPT !.step = "first"]
         /\ queue' = entries
         /\ Sends(f.by, Head(f.todo))
         /\ loop' = IF f.by = "loop" THEN "running" ELSE loop
         /\ sync' = IF f.by = "loop" THEN sync ELSE [sync EXCEPT ![f.by] = "flush"]
         /\ permit' = notified
         /\ UNCHANGED <<mem, disk>>
    ELSE /\ flush' = NoFlush
         /\ queue' = in_memory_flushed(entries, f.gone)
         /\ Summarised(f.by, f.retained, f.rejected, notified)

\* Nothing to do if no user is set or nothing is queued.
do_flush(by, notified) ==
    IF ~Queueing \/ queue = << >>
    THEN Summarised(by, 0, {}, notified) /\ UNCHANGED <<flush, queue>>
    ELSE \E order \in Orders(queue) :
            FlushGoes([by |-> by, todo |-> order, step |-> "first", retained |-> 0, rejected |-> {}, gone |-> {}],
                      queue, notified)

\* FlushGuard: nothing to do if another flush runs.
flush_start(by, notified) ==
    IF flush # NoFlush THEN Summarised(by, 0, {}, notified) /\ UNCHANGED <<flush, queue>>
    ELSE do_flush(by, notified)

\* What the answer to the current step means for the mutation.
Outcome ==
    LET m == Head(flush.todo)
        answer == reply[flush.by].is
    IN  CASE flush.step = "first" -> FlushOutcome(m, answer)
          [] flush.step = "read" -> ReadOutcome(m, answer)
          [] flush.step = "replay" -> ReplayOutcome(answer)
          [] flush.step = "root" -> "drop"

\* A further call about the same mutation.
flush_again(step, sends) ==
    /\ flush' = [flush EXCEPT !.step = step]
    /\ sends
    /\ UNCHANGED <<mem, disk, queue, loop, permit, sync, fate>>

\* The mutation is settled: a persistent queue removes its entries now.
flush_settle(rejected) ==
    LET m == Head(flush.todo)
        applied == reply[flush.by].is = "ok" /\ flush.step # "root"
    IN  /\ FlushGoes([flush EXCEPT !.todo = Tail(@), !.rejected = @ \cup rejected,
                                   !.gone = IF durable THEN @ ELSE @ \cup m.recs],
                     IF durable THEN Settled(m.recs) ELSE queue, permit)
        /\ fate' = [w \in DOMAIN fate |->
                      CASE w \notin m.recs \/ fate[w] # "open" -> fate[w]
                        [] ~applied -> "refused"
                        [] \E r \in ToSet(queue) : r.rec = w /\ r.op # "delete" /\ m.op = "delete" -> "folded"
                        [] OTHER -> IF m.op = "delete" THEN "deleted" ELSE "applied"]

flush_keep == FlushGoes([flush EXCEPT !.todo = Tail(@), !.retained = @ + 1], queue, permit) /\ UNCHANGED fate

flush_answer ==
    /\ flush # NoFlush
    /\ Got(flush.by)
    /\ LET m == Head(flush.todo) IN
       \/ Outcome = "drop" /\ flush_settle({})
       \/ Outcome = "dropRejected" /\ flush_settle({m.id})
       \/ Outcome = "keep" /\ flush_keep
       \/ Outcome = "read" /\ flush_again("read", fetch_one(flush.by, m.id))
       \/ Outcome = "deleteRoot" /\ flush_again("root", sync_delete(flush.by, m.id))
       \/ Outcome = "update" /\ flush_again("replay", sync_update(flush.by, m.id, m.data))
       \/ Outcome = "create" /\ flush_again("replay", sync_create(flush.by, m.id, reply[flush.by].row))
    /\ UNCHANGED <<durable, user, call, status, events, link, server, served, writes, faults>>

\* flush_loop: a permit wakes it, and while something is retained it tries again.
flush_loop ==
    /\ loop = "backoff" \/ (loop = "waiting" /\ permit)
    /\ LET notified == IF loop = "waiting" THEN FALSE ELSE permit IN
       IF status = "connected"
       THEN flush_start("loop", notified)
       ELSE /\ loop' = "waiting" /\ permit' = notified
            /\ UNCHANGED <<mem, disk, queue, flush, sync, wire, reply>>
    /\ UNCHANGED <<durable, user, call, status, events, link, server, served, writes, faults, fate>>

-----------------------------------------------------------------------------
(* status_loop and on_connected, resync_after_lag: sync_root_entity_list *)

\* A loss of the connection does not end a deliberate logout.  on_connected runs
\* in the loop, up to its first request here: later events wait for it.
status_loop ==
    /\ sync["status"] = "idle" /\ events # << >>
    /\ events' = Tail(events)
    /\ status' = IF status = "offline" /\ Head(events) = "disconnected" THEN status ELSE Head(events)
    /\ IF Head(events) = "connected" THEN flush_start("status", permit)
       ELSE UNCHANGED <<mem, disk, queue, flush, loop, permit, sync, wire, reply>>
    /\ UNCHANGED <<durable, user, call, link, server, served, writes, faults, fate>>

\* The mutation receiver has lagged: the roots are listed again.
resync_after_lag ==
    /\ sync["mutation"] = "idle" /\ status = "connected" /\ Faulty
    /\ sync' = [sync EXCEPT !["mutation"] = "roots"]
    /\ fetch_list("mutation", "roots")
    /\ faults' = faults + 1
    /\ UNCHANGED <<durable, user, mem, disk, queue, call, flush, loop, permit, status, events, link, server, served, writes, fate>>

SyncUnchanged == UNCHANGED <<durable, user, queue, call, flush, loop, permit, status, events, link, server, served, writes, faults, fate>>

\* sync_root_entity_list once the roots are known: a local root the server does
\* not have goes, unless its insert is pending or no user is set; a root of the
\* server's is written over the local one, unless its delete is pending.
sync_roots(s) ==
    LET there == reply[s].row
        gone == user /\ there = NoRow /\ ~has_pending_insert(Root)
        taken == there # NoRow /\ "delete" \notin Pending(Root)
    IN  /\ sync[s] = "roots" /\ Got(s)
        /\ \/ /\ reply[s].is = "ok" /\ taken
              /\ Access(Set(Accessed, Root, there))
              /\ sync' = [sync EXCEPT ![s] = "children"]
              /\ fetch_list(s, "children")
           \/ /\ reply[s].is = "ok" /\ ~taken
              /\ Access(IF gone THEN Set(Accessed, Root, NoRow) ELSE Accessed)
              /\ sync' = [sync EXCEPT ![s] = "idle"]
              /\ Taken(s) /\ UNCHANGED wire
           \/ /\ reply[s].is # "ok"
              /\ sync' = [sync EXCEPT ![s] = "idle"]
              /\ Taken(s) /\ UNCHANGED <<mem, disk, wire>>
        /\ SyncUnchanged

\* reconcile_children: the server's row, unless an update or a delete of it is
\* pending; a pending insert or update that neither side has is put back; a local
\* row the server does not have goes, unless something is pending for it.
Reconciled(id, there, here) ==
    LET mine == OfRow(queue, id)
    IN  CASE there # NoRow /\ Pending(id) \cap {"update", "delete"} = {} -> there
          [] there = NoRow /\ here # NoRow /\ Pending(id) = {} -> NoRow
          [] there = NoRow /\ here = NoRow /\ Pending(id) \ {"delete"} # {} ->
                LET put == SelectSeq(mine, LAMBDA r : r.op # "delete")
                IN  Last(put).data
          [] OTHER -> here

reconcile_children(s) ==
    /\ sync[s] = "children" /\ Got(s)
    /\ Taken(s)
    /\ sync' = [sync EXCEPT ![s] = "idle"]
    /\ IF reply[s].is = "ok"
       THEN Access([id \in Ids |-> IF id = Root THEN Accessed[id]
                                   ELSE Reconciled(id, reply[s].rows[id], Accessed[id])])
       ELSE UNCHANGED <<mem, disk>>
    /\ SyncUnchanged
    /\ UNCHANGED wire

-----------------------------------------------------------------------------
(* The broker, external.  A child's write is followed by bump_scope_version, a   *)
(* write to the root; both are served in one step.                             *)

Req == Head(wire)
Orphan(id) == id # Root /\ server[Root] = NoRow

\* The broker's rows, and every value they have held.
Stores(rows) ==
    /\ server' = rows
    /\ served' = served \cup UNION {Range(rows[id]) : id \in Ids}

\* The broker's rows and its answer; a listing or a read carries what it found.
Answering(answer, rows) ==
    /\ Stores(rows)
    /\ reply' = IF Req.who \notin Agents THEN reply
                ELSE [reply EXCEPT ![Req.who] =
                        CASE Req.op \in {"read", "roots"} -> [is |-> answer, row |-> server[Req.id]]
                          [] Req.op = "children" -> [is |-> answer, rows |-> server]
                          [] OTHER -> Answered(answer)]

Serves ==
    LET id == Req.id
        row == server[id]
        bumped == IF Orphan(id) THEN "notFound" ELSE "ok"
    IN  \/ /\ Req.op = "insert"
           /\ \/ row # NoRow /\ Answering("conflict", server)
              \/ row = NoRow /\ Answering(bumped, Set(server, id, Req.data))
              \/ row = NoRow /\ Orphan(id) /\ Answering("notFound", server)
        \/ /\ Req.op \in {"update", "updateIf"}
           /\ IF row = NoRow THEN Answering("notFound", server)
              ELSE Answering(bumped, Set(server, id, Merge(row, Req.data)))
        \/ /\ Req.op \in {"delete", "deleteIf"}
           /\ IF row = NoRow THEN Answering("notFound", server)
              ELSE Answering(bumped, Set(server, id, NoRow))
        \/ /\ Req.op \in {"updateIf", "deleteIf"} /\ row # NoRow
           /\ Answering("stale", server)
        \/ /\ Req.op = "read"
           /\ Answering(IF row = NoRow THEN "absent" ELSE "ok", server)
        \/ /\ Req.op \in {"roots", "children"}
           /\ Answering("ok", server)

BrokerServes ==
    /\ wire # << >>
    /\ wire' = Tail(wire)
    /\ Serves
    /\ UNCHANGED <<client, link, writes, faults, fate>>

\* An error of the broker's: a refusal, or a failure that may come after the
\* write has been applied and only its bump is missing.
Refusals == {"transient", "ownership", "terminal", "rejected"}

BrokerRefuses ==
    /\ wire # << >> /\ Faulty
    /\ faults' = faults + 1
    /\ wire' = Tail(wire)
    /\ Req.who \in Agents
    /\ \/ \E r \in Refusals \cup (IF Req.op = "insert" THEN {"conflict"} ELSE {}) : Answering(r, server)
       \/ /\ Req.op \in {"update", "insert", "delete"}
          /\ reply' = [reply EXCEPT ![Req.who] = Answered("transient")]
          /\ Stores(IF Req.op = "delete" THEN Set(server, Req.id, NoRow)
                    ELSE IF Req.op = "insert" /\ server[Req.id] = NoRow THEN Set(server, Req.id, Req.data)
                    ELSE IF Req.op = "update" THEN Patch(server, Req.id, Req.data) ELSE server)
    /\ UNCHANGED <<client, link, writes, fate>>

\* Another client deletes a child.
OtherDeletes(id) ==
    /\ server[id] # NoRow /\ id # Root /\ Faulty
    /\ faults' = faults + 1
    /\ Stores(Set(server, id, NoRow))
    /\ UNCHANGED <<client, link, wire, reply, writes, fate>>

-----------------------------------------------------------------------------
(* The connection *)

Nobody == [i \in DOMAIN wire |-> [wire[i] EXCEPT !.who = "nobody"]]

request_timeout_online(a) ==
    /\ Awaits(a) /\ link /\ OnWire(a)
    /\ Faulty /\ faults' = faults + 1
    /\ reply' = [reply EXCEPT ![a] = Answered("transient")]
    /\ wire' = [i \in DOMAIN wire |-> IF wire[i].who = a THEN Nobody[i] ELSE wire[i]]
    /\ UNCHANGED <<client, link, server, served, writes, fate>>

\* request: the answer has not come in time.  The request may still be served.
request_timeout(a) ==
    /\ Awaits(a)
    /\ IF link /\ OnWire(a) THEN Faulty /\ faults' = faults + 1 ELSE UNCHANGED faults
    /\ reply' = [reply EXCEPT ![a] = Answered("transient")]
    /\ wire' = [i \in DOMAIN wire |-> IF wire[i].who = a THEN Nobody[i] ELSE wire[i]]
    /\ UNCHANGED <<client, link, server, served, writes, fate>>

LinkUp ==
    /\ ~link
    /\ link' = TRUE
    /\ events' = Append(events, "connected")
    /\ UNCHANGED <<durable, user, mem, disk, queue, call, flush, loop, permit, sync, status, wire, reply, server, served, writes, faults, fate>>

\* The link fails: what was on the way is lost, or is served later.
LinkDown ==
    /\ link /\ Faulty
    /\ faults' = faults + 1
    /\ link' = FALSE
    /\ events' = Append(events, "disconnected")
    /\ wire' \in {wire, << >>}
    /\ UNCHANGED <<durable, user, mem, disk, queue, call, flush, loop, permit, sync, status, reply, server, served, writes, fate>>

\* SyncEngine::disconnect with cleanup_on_disconnect: every pending request ends.
Disconnects ==
    /\ link' = FALSE
    /\ events' = IF link THEN Append(events, "disconnected") ELSE events
    /\ wire' \in {Nobody, << >>}
    /\ reply' = [a \in Agents |-> IF Awaits(a) THEN Answered("transient") ELSE reply[a]]

disconnect ==
    /\ link /\ Faulty
    /\ faults' = faults + 1
    /\ Disconnects
    /\ UNCHANGED <<durable, user, mem, disk, queue, call, flush, loop, permit, sync, status, server, served, writes, fate>>

set_authenticated_user ==
    /\ ~user
    /\ user' = TRUE
    /\ UNCHANGED <<durable, mem, disk, queue, call, flush, loop, permit, sync, status, events, link, wire, reply, server, served, writes, faults, fate>>

reset_for_logout ==
    /\ user /\ Faulty
    /\ faults' = faults + 1
    /\ user' = FALSE
    /\ status' = "offline"
    /\ Disconnects
    /\ UNCHANGED <<durable, mem, disk, queue, call, flush, loop, permit, sync, server, served, writes, fate>>

-----------------------------------------------------------------------------
Blank == [id \in Ids |-> NoRow]

\* StoreInner::open, then a log-in; the server and the client may hold the
\* scope's rows from an earlier run.
Init ==
    /\ durable \in Durable
    /\ user = TRUE
    /\ server \in {Blank, [Blank EXCEPT ![Root] = [f \in Fields |-> 0]]}
    /\ mem = Blank
    /\ disk = IF durable THEN server ELSE Blank
    /\ queue = << >>
    /\ call = [c \in Callers |-> NoCall]
    /\ flush = NoFlush
    /\ loop = "waiting" /\ permit = FALSE
    /\ sync = [s \in Syncers |-> "idle"]
    /\ status = "offline" /\ events = << >> /\ link = FALSE
    /\ wire = << >>
    /\ reply = [a \in Agents |-> Idle]
    /\ writes = 0 /\ faults = 0
    /\ fate = [w \in 1 .. MaxWrites |-> "unused"]
    /\ served = {0}

Operation(c) ==
    \/ \E id \in Ids : create(c, id) \/ delete(c, id) \/ delete_if(c, id)
    \/ \E id \in Ids, field \in Edited : update(c, id, field) \/ update_if(c, id, field)

OperationReturns(c) ==
    createAnswered(c) \/ updateAnswered(c) \/ deleteAnswered(c) \/ updateIfAnswered(c) \/ deleteIfAnswered(c)

Syncing(s) == sync_roots(s) \/ reconcile_children(s)

Fault ==
    \/ BrokerRefuses \/ LinkDown \/ disconnect \/ reset_for_logout \/ resync_after_lag
    \/ \E id \in Ids : OtherDeletes(id)

Next ==
    \/ \E c \in Callers : Operation(c) \/ OperationReturns(c)
    \/ flush_answer \/ flush_loop
    \/ status_loop
    \/ \E s \in Syncers : Syncing(s)
    \/ BrokerServes
    \/ \E a \in Agents : request_timeout(a)
    \/ LinkUp \/ set_authenticated_user
    \/ Fault

Spec == Init /\ [][Next]_vars

\* A task's next step, its request's time-out included.
Proceeds(a) ==
    \/ request_timeout(a)
    \/ flush.by = a /\ flush_answer
    \/ a \in Callers /\ OperationReturns(a)
    \/ a \in Syncers /\ Syncing(a)
    \/ a = "loop" /\ flush_loop
    \/ a = "status" /\ status_loop

\* The runtime runs every task that can go on, and the broker serves.
Fairness == WF_vars(BrokerServes) /\ \A a \in Agents : WF_vars(Proceeds(a))

FairSpec == Spec /\ Fairness

-----------------------------------------------------------------------------

(* Properties *)

Row == UNION {[F -> 0 .. MaxWrites] : F \in SUBSET Fields}
IsEntry(r) == r.rec \in 1 .. writes /\ r.op \in Op /\ r.id \in Ids /\ r.data \in Row

\* Types, and how the tasks' states fit together: a write is queued at most once,
\* and whoever is inside a call, a flush or a listing has a request that is
\* waiting or answered, so that nobody waits for an answer to nothing.
TypeOK ==
    /\ {mem, disk, server} \subseteq [Ids -> Row]
    /\ \A i \in DOMAIN queue : IsEntry(queue[i]) /\ \A j \in 1 .. (i - 1) : queue[j].rec < queue[i].rec
    /\ \A c \in Callers : (call[c] = NoCall) <=> (reply[c] = Idle)
    /\ \A s \in Syncers : (sync[s] = "idle") <=> (reply[s] = Idle)
    /\ (loop = "running") <=> (reply["loop"] # Idle)
    /\ (flush.by = "loop") <=> (loop = "running")
    /\ (flush.by = "status") <=> (sync["status"] = "flush")
    /\ flush # NoFlush => flush.todo # << >> /\ flush.retained \in Nat /\ flush.rejected \subseteq Ids

\* However the queue came about, the mutation that a flush makes of a row's
\* entries does to the server's row what the entries would, sent in order
\* (consolidate, with the insert that the broker already has sent as an update).
FoldFaithful == FoldIsReplay(queue, {NoRow, [f \in Fields |-> 0]})

\* No write vanishes between the caller and the broker: as long as neither the
\* broker has answered it nor a call of the same kind on the same row has been
\* acknowledged, its entry is queued; and when it counts as applied, the broker
\* has stored it or a later one (create, update, delete, remove, the flushes).
NothingLost ==
    \A w \in 1 .. writes :
        /\ fate[w] = "open" => \E r \in ToSet(queue) : r.rec = w
        /\ fate[w] = "applied" => \E v \in served : v >= w

\* Every value in the cache or in persistence is one the broker has stored, or
\* belongs to a write of this client that was queued or could not be; a
\* conditional write (update_if) the broker has not accepted never shows.
LocalIsAccounted ==
    \A id \in Ids : \A v \in Range(mem[id]) \cup Range(disk[id]) :
        v \in served \/ fate[v] \in {"open", "unqueued", "refused", "overtaken", "folded"}

\* LocalIsAccounted, in well-typed states.
StoreSound == TypeOK /\ LocalIsAccounted

\* A flush ends whatever the link does, so FlushGuard does not keep later flushes
\* out for ever: each request it awaits is answered or times out.
FlushEnds == flush # NoFlush ~> flush = NoFlush

\* What a flush has taken up leaves the queue, through the retries of the flush
\* loop if need be, unless the link or the user goes or the scope has no root at
\* the server (a child's insert is then retried until it has one).
Drains ==
    \A w \in 1 .. MaxWrites :
        (flush # NoFlush /\ \E m \in ToSet(flush.todo) : w \in m.recs) ~>
            (~link \/ ~user \/ server[Root] = NoRow \/ \A r \in ToSet(queue) : r.rec # w)
================================================================================
