------------------------------- MODULE ScopeSync -------------------------------
(***************************************************************************)
(* Opening a scope and following it (crates/stitch/src/store.rs,           *)
(* sync_engine.rs, remote_sync.rs, memory_store.rs): replace_scope         *)
(* subscribes to the scope, fetches its rows while live messages are       *)
(* buffered, reconciles persistence, replays the buffer and swaps the      *)
(* in-memory cache; the mutation loop applies live messages; this client   *)
(* and others write meanwhile.                                             *)
(*                                                                         *)
(* Every scope has a root row and one child row.  A row's value is the     *)
(* number of the write it comes from, which is also its version; None is   *)
(* a row that is not there.  Steps between two awaits of the network are   *)
(* separate where another task's step between them makes a difference.     *)
(* Queue and write retries are in Store; here a write of this client is    *)
(* pending from its local application until the broker acknowledges it.    *)
(***************************************************************************)
EXTENDS Naturals, Sequences, SequencesExt, Functions, FiniteSets

CONSTANTS
    Scopes,      \* scope ids
    Busy,        \* the scopes whose rows are written
    MaxWrites,   \* bound on writes of this and of other clients
    MaxOpens,    \* bound on calls of replace_scope and close_scope
    MaxFaults    \* bound on failed requests and disconnects

ASSUME ScopeSyncAssumption == Busy \subseteq Scopes /\ {MaxWrites, MaxOpens, MaxFaults} \subseteq Nat

VARIABLES
    server,      \* the broker's rows
    disk,        \* persistence
    mem,         \* the in-memory cache
    current,     \* current_scope
    synced,      \* current_scope_server_synced
    connected,   \* last_connection_status is Connected
    subscribed,  \* subscribed_scopes
    topics,      \* the scopes whose messages the broker sends to this client
    awaiting,    \* awaiting_state
    buffered,    \* buffered: the mutations kept for a scope that is being opened
    inbox,       \* messages on their way to this client
    bus,         \* mutation_bus
    applying,    \* the mutation the mutation loop has written to persistence
    opening,     \* the holder of replace_scope_lock and how far it is
    backfill,    \* on_connected has still to back-fill the current scope
    own,         \* this client's write that the broker has not acknowledged
    writes, opens, faults,
    born,        \* history: the child rows that have been created
    held         \* history: since the open's last answer, the values on the server or to be applied

vars == <<server, disk, mem, current, synced, connected, subscribed, topics, awaiting, buffered,
          inbox, bus, applying, opening, backfill, own, writes, opens, faults, born, held>>

None == 0
Nowhere == "none"
Rows == Scopes \X {"root", "child"}
RootOf(s) == <<s, "root">>
RowsOf(s) == {<<s, "root">>, <<s, "child">>}
ScopeOf(row) == row[1]

NoOpen == [by |-> "none"]
Asking == opening # NoOpen /\ opening.step \in {"subscribing", "fetch", "lost"}
NoWrite == [op |-> "none", row |-> <<Nowhere, "child">>]
NoMutation == [op |-> "none"]

\* The map of buffers without, and with an empty one for, a scope.
Unbuffered(s) == Restrict(buffered, DOMAIN buffered \ {s})
Buffering(bs, s) == [x \in DOMAIN bs \cup {s} |-> IF x = s THEN << >> ELSE bs[x]]

Pending(row) == own.op # "none" /\ own.row = row

\* The value a mutation or a write gives to a row, if it is one of that row.
ValueOf(m, row) == IF m.op = "none" \/ m.row # row THEN {} ELSE {IF m.op = "delete" THEN None ELSE m.val}
Values == 0 .. (MaxWrites + 1)

-----------------------------------------------------------------------------
(* apply_mutation_to_db *)

\* An insert overwrites if the root is there; an update needs the row, and one
\* that is not older; a delete always counts (the accessor swallows its errors).
Applies(rows, m) ==
    CASE m.op = "insert" -> m.row = RootOf(ScopeOf(m.row)) \/ rows[RootOf(ScopeOf(m.row))] # None
      [] m.op = "update" -> rows[m.row] # None /\ m.val >= rows[m.row]
      [] m.op = "delete" -> TRUE

Written(rows, m) == [rows EXCEPT ![m.row] = IF m.op = "delete" THEN None ELSE m.val]

apply_mutation_to_db(rows, m) == IF Applies(rows, m) THEN Written(rows, m) ELSE rows

\* Faulty Replayed: what was buffered is dropped.
ReplayedNothing(rows, ms) == rows

\* Replaying what was buffered, in order.
Replayed(rows, ms) == FoldLeft(apply_mutation_to_db, rows, ms)

\* reconcile_children for the child of a scope: the server's row unless an update
\* or a delete of it is pending; a local row the server does not have goes unless
\* a write of it is pending, which also brings back a row that is missing.
reconcile_children(rows, s, there) ==
    LET row == <<s, "child">>
        child == CASE Pending(row) /\ own.op \in {"update", "delete"} /\ there # None -> rows[row]
                   [] Pending(row) /\ own.op # "delete" /\ there = None /\ rows[row] = None -> own.val
                   [] Pending(row) /\ there = None -> rows[row]
                   [] OTHER -> there
    IN  [rows EXCEPT ![row] = child]

\* The root as open_scope_with_server writes it: only one that was found.
root_written(rows, s, there) ==
    IF there = None THEN rows ELSE [rows EXCEPT ![RootOf(s)] = there]

-----------------------------------------------------------------------------
(* replace_scope and backfill_current_scope, under replace_scope_lock *)

\* The UNSUBSCRIBE of SyncEngine::close_scope: nothing of the scope arrives any more.
UnsubscribedFrom(s) ==
    /\ topics' = IF connected THEN topics \ {s} ELSE topics
    /\ inbox' = IF connected THEN SelectSeq(inbox, LAMBDA e : e.via # "scope" \/ ScopeOf(e.row) # s) ELSE inbox

NothingClosed == UNCHANGED <<subscribed, topics, awaiting, buffered, inbox>>

\* Other variables of a step of the client's local side.
LocalOnly == UNCHANGED <<server, connected, bus, applying, own, writes, faults, born>>

\* SyncEngine::open_scope up to the SUBSCRIBE: messages are buffered first.
open_scope(by, s, waiting, bs) ==
    /\ opening' = [by |-> by, scope |-> s, step |-> "subscribing", got |-> {}, root |-> None,
                   child |-> None, replay |-> << >>, bundle |-> << >>]
    /\ awaiting' = waiting \cup {s}
    /\ buffered' = Buffering(bs, s)
    /\ UNCHANGED held

\* replace_scope up to its first request: the scope that was current is closed.
\* The scope that is current already is taken for loaded.
replace_scope(s) ==
    /\ opens < MaxOpens /\ opening = NoOpen /\ current # s
    /\ opens' = opens + 1
    /\ current' = s
    /\ subscribed' = subscribed \ {current}
    /\ UnsubscribedFrom(current)
    /\ IF connected
       THEN open_scope("caller", s, awaiting \ {current}, Unbuffered(current)) /\ UNCHANGED <<mem, synced>>
       ELSE /\ mem' = [row \in Rows |-> IF row \in RowsOf(s) THEN disk[row] ELSE None]
            /\ synced' = FALSE
            /\ awaiting' = awaiting \ {current} /\ buffered' = Unbuffered(current)
            /\ UNCHANGED <<opening, held>>
    /\ LocalOnly /\ UNCHANGED <<disk, backfill>>

\* Store::close_scope, which does not take the lock.
close_scope(s) ==
    /\ opens < MaxOpens /\ (current = s \/ s \in subscribed)
    /\ opens' = opens + 1
    /\ subscribed' = subscribed \ {s} /\ awaiting' = awaiting \ {s} /\ buffered' = Unbuffered(s)
    /\ UnsubscribedFrom(s)
    /\ current' = IF current = s THEN Nowhere ELSE current
    /\ LocalOnly /\ UNCHANGED <<disk, mem, synced, opening, backfill, held>>

backfill_current_scope ==
    /\ backfill /\ opening = NoOpen
    /\ backfill' = FALSE
    /\ IF synced \/ current = Nowhere
       THEN UNCHANGED <<opening, awaiting, buffered, held>>
       ELSE open_scope("status", current, awaiting, buffered)
    /\ LocalOnly /\ UNCHANGED <<disk, mem, current, synced, subscribed, topics, inbox, opens>>

open_subscribed ==
    /\ opening # NoOpen /\ opening.step = "subscribing" /\ connected
    /\ subscribed' = subscribed \cup {opening.scope}
    /\ topics' = topics \cup {opening.scope}
    /\ opening' = [opening EXCEPT !.step = "fetch"]
    /\ LocalOnly /\ UNCHANGED <<disk, mem, current, synced, awaiting, buffered, inbox, backfill, opens, held>>

\* fetch_one for the root and fetch_list for the children, joined; after the second
\* do_open_scope takes the buffer and buffering ends.  The broker sends in order: an
\* answer comes after the messages of the writes it reflects.
open_fetches(kind) ==
    /\ opening # NoOpen /\ opening.step = "fetch" /\ connected
    /\ kind \notin opening.got /\ inbox = << >>
    /\ LET s == opening.scope
           fetched == [opening EXCEPT !.got = @ \cup {kind}, ![kind] = server[<<s, kind>>]]
           taken == IF s \in DOMAIN buffered THEN buffered[s] ELSE << >>
       IN  IF fetched.got = {"root", "child"}
           THEN /\ opening' = [fetched EXCEPT !.step = "reconcile", !.replay = taken]
                /\ awaiting' = awaiting \ {s} /\ buffered' = Unbuffered(s)
                /\ held' = [row \in RowsOf(s) |->
                              {server[row]} \cup UNION {ValueOf(m, row) : m \in ToSet(bus) \cup {own, applying}}]
           ELSE opening' = fetched /\ UNCHANGED <<awaiting, buffered, held>>
    /\ LocalOnly /\ UNCHANGED <<disk, mem, current, synced, subscribed, topics, inbox, backfill, opens>>

open_reconciles ==
    /\ opening # NoOpen /\ opening.step = "reconcile"
    /\ disk' = reconcile_children(root_written(disk, opening.scope, opening.root), opening.scope, opening.child)
    /\ opening' = [opening EXCEPT !.step = "replay"]
    /\ NothingClosed
    /\ LocalOnly /\ UNCHANGED <<mem, current, synced, backfill, opens, held>>

open_replays ==
    /\ opening # NoOpen /\ opening.step = "replay"
    /\ disk' = Replayed(disk, opening.replay)
    /\ opening' = [opening EXCEPT !.step = "load", !.replay = << >>]
    /\ NothingClosed
    /\ LocalOnly /\ UNCHANGED <<mem, current, synced, backfill, opens, held>>

\* load_bundle_from_persistence
open_loads ==
    /\ opening # NoOpen /\ opening.step = "load"
    /\ opening' = [opening EXCEPT !.step = "swap", !.bundle = [row \in RowsOf(opening.scope) |-> disk[row]]]
    /\ NothingClosed
    /\ LocalOnly /\ UNCHANGED <<disk, mem, current, synced, backfill, opens, held>>

\* MemoryStore::load_scope replaces the cache; the caller records the success.
open_swaps ==
    /\ opening # NoOpen /\ opening.step = "swap"
    /\ mem' = [row \in Rows |-> IF row \in DOMAIN opening.bundle THEN opening.bundle[row] ELSE None]
    /\ synced' = TRUE
    /\ opening' = NoOpen /\ held' = << >>
    /\ NothingClosed
    /\ LocalOnly /\ UNCHANGED <<disk, current, backfill, opens>>

\* Faulty open_fails: a failed open leaves its buffer behind.
open_fails_buffering ==
    /\ Asking
    /\ IF connected /\ opening.step # "lost" THEN faults < MaxFaults /\ faults' = faults + 1 ELSE UNCHANGED faults
    /\ UNCHANGED <<awaiting, buffered>>
    /\ subscribed' = subscribed \ {opening.scope}
    /\ synced' = IF opening.by = "caller" THEN FALSE ELSE synced
    /\ opening' = NoOpen /\ held' = << >>
    /\ UNCHANGED <<server, disk, mem, current, connected, topics, inbox, bus, applying, backfill, own, writes,
                   opens, born>>

\* The subscription or a fetch fails, or times out: open_scope cleans up.  It
\* does not unsubscribe.
open_fails ==
    /\ Asking
    /\ IF connected /\ opening.step # "lost" THEN faults < MaxFaults /\ faults' = faults + 1 ELSE UNCHANGED faults
    /\ awaiting' = awaiting \ {opening.scope}
    /\ buffered' = Unbuffered(opening.scope)
    /\ subscribed' = subscribed \ {opening.scope}
    /\ synced' = IF opening.by = "caller" THEN FALSE ELSE synced
    /\ opening' = NoOpen /\ held' = << >>
    /\ UNCHANGED <<server, disk, mem, current, connected, topics, inbox, bus, applying, backfill, own, writes,
                   opens, born>>

-----------------------------------------------------------------------------
(* Live messages *)

ClientUnchanged == UNCHANGED <<mem, current, synced, connected, subscribed, topics, opening, backfill, opens, faults>>

Mutation(e) == [op |-> e.op, row |-> e.row, val |-> e.val]

\* The scope a message's topic names.
TopicScope(e) == ScopeOf(e.row)

Buffers(s) == s \in awaiting \cap DOMAIN buffered

\* The next message: buffered while its scope is being opened; otherwise one of
\* this client's own is dropped and another goes to the mutation bus.
handle_scope_message ==
    /\ inbox # << >> /\ connected /\ Head(inbox).via = "scope"
    /\ LET e == Head(inbox)
           s == TopicScope(e)
       IN  /\ buffered' = IF Buffers(s) THEN [buffered EXCEPT ![s] = Append(@, Mutation(e))] ELSE buffered
           /\ bus' = IF Buffers(s) \/ e.own THEN bus ELSE Append(bus, Mutation(e))
    /\ inbox' = Tail(inbox)
    /\ ClientUnchanged /\ UNCHANGED <<server, disk, awaiting, applying, own, writes, held, born>>

\* Roots of scopes that are not subscribed are followed through a wildcard.
handle_root_wildcard_message ==
    /\ inbox # << >> /\ connected /\ Head(inbox).via = "wildcard"
    /\ LET e == Head(inbox)
       IN  bus' = IF e.own \/ ScopeOf(e.row) \in subscribed THEN bus ELSE Append(bus, Mutation(e))
    /\ inbox' = Tail(inbox)
    /\ ClientUnchanged /\ UNCHANGED <<server, disk, awaiting, buffered, applying, own, writes, held, born>>

\* The first part of handle_remote_mutation: the write to persistence; a mutation that
\* does not apply ends here.
handle_remote_mutation(m) ==
    /\ disk' = apply_mutation_to_db(disk, m)
    /\ applying' = IF Applies(disk, m) THEN m ELSE NoMutation

mutation_loop ==
    /\ bus # << >> /\ applying = NoMutation
    /\ handle_remote_mutation(Head(bus))
    /\ bus' = Tail(bus)
    /\ ClientUnchanged /\ UNCHANGED <<server, awaiting, buffered, inbox, own, writes, held, born>>

\* Rows of the current scope are mirrored, and deletes of rows the cache has.
should_apply_to_memory(m) == ScopeOf(m.row) = current /\ (m.op = "delete" => mem[m.row] # None)

\* An update of a row the cache lacks inserts it.
mirror_remote_to_memory ==
    /\ applying # NoMutation
    /\ mem' = IF should_apply_to_memory(applying) THEN Written(mem, applying) ELSE mem
    /\ applying' = NoMutation
    /\ UNCHANGED <<server, disk, current, synced, connected, subscribed, topics, awaiting, buffered, inbox,
                   bus, opening, backfill, own, writes, opens, faults, held, born>>

-----------------------------------------------------------------------------
(* Writes *)

\* What the broker publishes for a change of a row.
Published(op, row, val, mine) ==
    LET e(via) == [op |-> op, row |-> row, val |-> val, own |-> mine, via |-> via]
    IN  (IF ScopeOf(row) \in topics THEN <<e("scope")>> ELSE << >>)
        \o (IF row = RootOf(ScopeOf(row)) THEN <<e("wildcard")>> ELSE << >>)

\* The broker applies a write and publishes it.  A row that is gone is not
\* written: ids are not used again.
Serves(op, row, val, mine) ==
    /\ server' = Written(server, [op |-> op, row |-> row, val |-> val])
    /\ held' = IF row \in DOMAIN held THEN [held EXCEPT ![row] = @ \cup {server'[row]}] ELSE held
    /\ inbox' = inbox \o Published(op, row, val, mine)

\* An insert of a child that was never written, under a root; an update or a delete
\* of a row.
Fits(op, row, rows) ==
    LET root == RootOf(ScopeOf(row))
    IN  IF op = "insert" THEN row # root /\ row \notin born /\ rows[root] # None ELSE rows[row] # None

Born(op, row) == born' = IF op = "insert" THEN born \cup {row} ELSE born

\* Another client writes.
OtherWrites(op, row) ==
    /\ writes < MaxWrites /\ writes' = writes + 1
    /\ Fits(op, row, server) /\ Born(op, row)
    /\ Serves(op, row, writes + 2, FALSE)
    /\ ClientUnchanged /\ UNCHANGED <<disk, awaiting, buffered, bus, applying, own>>

\* This client writes a row of the scope it has open: the cache, persistence and
\* the queue.
OwnWrites(op, row) ==
    /\ writes < MaxWrites /\ writes' = writes + 1
    /\ own = NoWrite /\ ScopeOf(row) = current
    /\ Fits(op, row, mem) /\ Born(op, row)
    /\ LET m == [op |-> op, row |-> row, val |-> writes + 2]
       IN  /\ mem' = Written(mem, m)
           /\ disk' = IF op # "insert" /\ disk[row] = None THEN disk ELSE Written(disk, m)
           /\ own' = [op |-> op, row |-> row, val |-> m.val, sent |-> "queued"]
    /\ held' = [x \in DOMAIN held |-> held[x] \cup ValueOf(own', x)]
    /\ UNCHANGED <<server, current, synced, connected, subscribed, topics, awaiting, buffered, inbox,
                   bus, applying, opening, backfill, opens, faults>>

\* The broker serves it; one whose row, or whose root, is gone meanwhile is refused.
OwnServed ==
    /\ own # NoWrite /\ own.sent = "queued" /\ connected
    /\ IF server[IF own.op = "insert" THEN RootOf(ScopeOf(own.row)) ELSE own.row] # None
       THEN Serves(own.op, own.row, own.val, TRUE)
       ELSE UNCHANGED <<server, held, inbox>>
    /\ own' = [own EXCEPT !.sent = "served"]
    /\ ClientUnchanged /\ UNCHANGED <<disk, awaiting, buffered, bus, applying, writes, born>>

\* The answer removes the pending entry.
OwnAcked ==
    /\ own # NoWrite /\ own.sent = "served" /\ connected
    /\ own' = NoWrite
    /\ ClientUnchanged /\ UNCHANGED <<server, disk, awaiting, buffered, inbox, bus, applying, writes, held, born>>

-----------------------------------------------------------------------------
(* The connection *)

\* An open whose requests will not be answered any more.
Unanswered == IF Asking THEN [opening EXCEPT !.step = "lost"] ELSE opening

\* SyncEngine::connect and on_connected: without the broker's session, what is
\* subscribed is subscribed again and what the session held is lost, an answer an
\* open waits for included; the root
\* list is synchronised into persistence; the current scope is back-filled.
on_connected(session_present) ==
    /\ ~ connected /\ connected' = TRUE
    /\ topics' = IF session_present THEN topics ELSE subscribed
    /\ inbox' = IF session_present THEN inbox ELSE << >>
    /\ disk' = [row \in Rows |->
                  IF row = RootOf(ScopeOf(row)) THEN (IF Pending(row) THEN disk[row] ELSE server[row])
                  ELSE reconcile_children(disk, ScopeOf(row), server[row])[row]]
    /\ opening' = IF session_present THEN opening ELSE Unanswered
    /\ backfill' = TRUE
    /\ UNCHANGED <<server, mem, current, synced, subscribed, awaiting, buffered, bus, applying, own,
                    writes, opens, faults, held, born>>

ConnectionLost ==
    /\ connected /\ faults < MaxFaults /\ faults' = faults + 1
    /\ connected' = FALSE
    /\ UNCHANGED <<server, disk, mem, current, synced, subscribed, topics, awaiting, buffered, inbox, bus,
                   applying, opening, backfill, own, writes, opens, held, born>>

\* SyncEngine::disconnect forgets what was subscribed and buffered and fails what is
\* being asked.
disconnect ==
    /\ connected /\ faults < MaxFaults /\ faults' = faults + 1
    /\ connected' = FALSE
    /\ subscribed' = {} /\ awaiting' = {} /\ buffered' = << >>
    /\ opening' = Unanswered
    /\ UNCHANGED <<server, disk, mem, current, synced, topics, inbox, bus, applying, backfill,
                   own, writes, opens, held, born>>

-----------------------------------------------------------------------------
\* A client that knows the roots, connected or not, with no scope open.
Init ==
    /\ server = [row \in Rows |-> IF row = RootOf(ScopeOf(row)) THEN 1 ELSE None]
    /\ disk = server /\ mem = [row \in Rows |-> None]
    /\ current = Nowhere /\ synced = FALSE
    /\ connected \in BOOLEAN
    /\ subscribed = {} /\ topics = {} /\ awaiting = {} /\ buffered = << >>
    /\ inbox = << >> /\ bus = << >> /\ applying = NoMutation
    /\ opening = NoOpen /\ backfill = FALSE /\ own = NoWrite
    /\ writes = 0 /\ opens = 0 /\ faults = 0
    /\ held = << >> /\ born = {}

Open ==
    \/ open_subscribed \/ open_reconciles \/ open_replays
    \/ open_loads \/ open_swaps \/ open_fails \/ backfill_current_scope
    \/ \E kind \in {"root", "child"} : open_fetches(kind)

Live ==
    \/ handle_scope_message \/ handle_root_wildcard_message \/ mutation_loop \/ mirror_remote_to_memory
    \/ OwnServed \/ OwnAcked

Next ==
    \/ Open \/ Live \/ ConnectionLost \/ disconnect
    \/ \E s \in Scopes : replace_scope(s) \/ close_scope(s)
    \/ \E op \in {"insert", "update", "delete"}, row \in Busy \X {"root", "child"} : OtherWrites(op, row) \/ OwnWrites(op, row)
    \/ \E present \in BOOLEAN : on_connected(present)

Spec == Init /\ [][Next]_vars

-----------------------------------------------------------------------------
TypeOK ==
    /\ {server, disk, mem} \subseteq [Rows -> Values]
    /\ current \in Scopes \cup {Nowhere} /\ {synced, connected, backfill} \subseteq BOOLEAN
    /\ subscribed \subseteq Scopes /\ topics \subseteq Scopes /\ awaiting \subseteq Scopes
    /\ DOMAIN buffered \subseteq Scopes
    /\ \A s \in DOMAIN buffered : \A i \in DOMAIN buffered[s] : ScopeOf(buffered[s][i].row) = s
    /\ writes \in 0 .. MaxWrites /\ opens \in 0 .. MaxOpens /\ faults \in 0 .. MaxFaults

\* open_scope's clean-up on every path: messages are buffered for a scope only
\* while an open of it still has to take the buffer, so none is held back for ever.
BuffersAreTaken ==
    \A s \in awaiting \cup DOMAIN buffered :
        Asking /\ opening.scope = s

\* BuffersAreTaken, in well-typed states.
ScopeSound == TypeOK /\ BuffersAreTaken

\* A row is still to be corrected by a message that is under way.
UnderWay(row) ==
    \/ \E i \in DOMAIN inbox : inbox[i].row = row
    \/ \E i \in DOMAIN bus : bus[i].row = row
    \/ applying # NoMutation /\ applying.row = row

\* What open_scope_with_server swaps into the cache, for a scope that is still current and
\* has its root, is no older than the last answer of the open: each row is at least as new
\* as one the server has held since or that was then to be applied here, or a message
\* about it is under way.
LoadsFresh ==
    [][open_swaps /\ current = opening.scope /\ None \notin held[RootOf(current)] =>
          \A row \in RowsOf(current) :
              \/ \E v \in held[row] : IF v = None THEN mem'[row] = None ELSE v <= mem'[row]
              \/ UnderWay(row)]_vars

=============================================================================
