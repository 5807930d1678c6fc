-------------------------------- MODULE Stream -------------------------------
(***************************************************************************)
(* How the messages of a session travel (write_message and read_message of *)
(* crates/stitch-p2p/src/protocol.rs, called from the select! loop of      *)
(* session.rs).  Session takes a message as a whole; here it is a type     *)
(* byte, a length and a payload, cut into the pieces the transport happens *)
(* to deliver, on a stream with a bounded window.                          *)
(*                                                                         *)
(* An endpoint is one task: while it writes it does not read.  The select! *)
(* drops the future of read_message when another branch is ready, and with *)
(* it the pieces that future had already taken off the stream.             *)
(***************************************************************************)
EXTENDS Integers, Sequences

CONSTANTS
    Window,      \* pieces in flight on a stream before the writer must wait
    DeltaPieces, \* pieces of the Delta that answers a first Hello
    MaxEvents,   \* bound on the ticks and pushes of each end
    Interrupts   \* whether ticks and pushes fall into the middle of a read

ASSUME StreamAssumption ==
    /\ {Window, DeltaPieces, MaxEvents} \subseteq Nat /\ Interrupts \in BOOLEAN
    /\ DeltaPieces >= 3

VARIABLES
    pipe,     \* pipe[e]: pieces e has written and the other end has not read
    writing,  \* writing[e]: pieces e has yet to write before it reads again
    taken,    \* taken[e]: pieces read_message has taken of the current message
    served,   \* served[e]: e has sent its catch-up Delta
    caughtUp, \* caughtUp[e]: e has read the other's catch-up Delta
    events,   \* events[e]: ticks and pushes so far
    failed    \* failed[e]: e's read_message returned an error that is no EOF

stream_vars == <<pipe, writing, taken, served, caughtUp, events, failed>>

End == {1, 2}
Other(e) == 3 - e

\* A message is its type, its length, and at least one piece of payload.
Pieces(type) == [i \in 1 .. (IF type = "Delta" THEN DeltaPieces ELSE 3) |->
                   [type |-> type, pos |-> i]]

Piece == [type : {"Hello", "Delta", "Push"}, pos : 1 .. DeltaPieces]

StreamTypeOK ==
    /\ pipe \in [End -> Seq(Piece)] /\ writing \in [End -> Seq(Piece)]
    /\ taken \in [End -> 0 .. DeltaPieces - 1]
    /\ served \in [End -> BOOLEAN] /\ caughtUp \in [End -> BOOLEAN]
    /\ events \in [End -> 0 .. MaxEvents]
    /\ failed \in [End -> BOOLEAN]

\* Both ends start with a Hello.
StreamInit ==
    /\ pipe = [e \in End |-> << >>]
    /\ writing = [e \in End |-> Pieces("Hello")]
    /\ taken = [e \in End |-> 0]
    /\ served = [e \in End |-> FALSE]
    /\ caughtUp = [e \in End |-> FALSE]
    /\ events = [e \in End |-> 0]
    /\ failed = [e \in End |-> FALSE]

HasRoom(e) == Len(pipe[e]) < Window

\* write_all makes progress.
WritePiece(e) ==
    /\ writing[e] # << >> /\ HasRoom(e)
    /\ pipe' = [pipe EXCEPT ![e] = Append(@, Head(writing[e]))]
    /\ writing' = [writing EXCEPT ![e] = Tail(@)]
    /\ UNCHANGED <<taken, served, caughtUp, events, failed>>

Selecting(e) == writing[e] = << >> /\ ~failed[e]

\* Faulty LocalEvent: the message is started while another is under way.
LocalEventBarges(e, type) ==
    /\ ~failed[e] /\ events[e] < MaxEvents
    /\ Interrupts \/ taken[e] = 0
    /\ events' = [events EXCEPT ![e] = @ + 1]
    /\ writing' = [writing EXCEPT ![e] = Pieces(type) \o @]
    /\ taken' = [taken EXCEPT ![e] = 0]
    /\ UNCHANGED <<pipe, served, caughtUp, failed>>

\* The ticker or the outbound queue wins the select!: its message is written,
\* and a read that was under way is started afresh afterwards.
LocalEvent(e, type) ==
    /\ Selecting(e) /\ events[e] < MaxEvents
    /\ Interrupts \/ taken[e] = 0
    /\ events' = [events EXCEPT ![e] = @ + 1]
    /\ writing' = [writing EXCEPT ![e] = Pieces(type)]
    /\ taken' = [taken EXCEPT ![e] = 0]
    /\ UNCHANGED <<pipe, served, caughtUp, failed>>

\* Faulty Reply: the end that does not tick answers with its cursors alone.
ReplyCursorsOnly(e) ==
    IF e = 2 THEN Pieces("Hello") ELSE IF served[e] THEN << >> ELSE Pieces("Delta")

\* What the handler writes for a complete Hello: the frames the other end
\* lacks, if any, and from the end that does not tick a Hello.
Reply(e) == (IF served[e] THEN << >> ELSE Pieces("Delta"))
            \o (IF e = 2 THEN Pieces("Hello") ELSE << >>)

\* read_exact takes a piece.  At a place where it does not belong it is taken
\* for another part of a message, and the read ends in an error.
ReadPiece(e) ==
    LET in == pipe[Other(e)]
        piece == Head(in)
        inPlace == piece.pos = taken[e] + 1
        complete == inPlace /\ piece.pos = Len(Pieces(piece.type))
    IN  /\ Selecting(e) /\ in # << >>
        /\ pipe' = [pipe EXCEPT ![Other(e)] = Tail(@)]
        /\ taken' = [taken EXCEPT ![e] = IF inPlace /\ ~complete THEN @ + 1 ELSE 0]
        /\ failed' = [failed EXCEPT ![e] = ~inPlace]
        /\ IF complete /\ piece.type = "Hello"
             THEN /\ writing' = [writing EXCEPT ![e] = Reply(e)]
                  /\ served' = [served EXCEPT ![e] = TRUE]
             ELSE UNCHANGED <<writing, served>>
        /\ caughtUp' = [caughtUp EXCEPT ![e] = @ \/ (complete /\ piece.type = "Delta")]
        /\ UNCHANGED events

StreamNext ==
    \E e \in End :
        \/ WritePiece(e) \/ ReadPiece(e)
        \/ \E type \in {"Hello", "Push"} : LocalEvent(e, type)

\* Tasks are scheduled; the transport delivers.
StreamFairness == \A e \in End : WF_stream_vars(WritePiece(e)) /\ WF_stream_vars(ReadPiece(e))

StreamSpec == StreamInit /\ [][StreamNext]_stream_vars

------------------------------------------------------------------------------
(* Properties. *)

\* A session goes on until the other end leaves: no read fails on a stream
\* that delivers what was written.  "Drive the sync protocol over one
\* connection until the peer disconnects or the outbound channel closes."
NeverDerails == \A e \in End : ~failed[e]

\* The two ends never wait for each other, both writing and neither reading.
NeverBothBlocked == ~ \A e \in End : writing[e] # << >> /\ ~HasRoom(e)

\* Ends that are not interrupted in a read neither derail nor block each other.
StreamSound == StreamTypeOK /\ NeverDerails /\ NeverBothBlocked

\* The catch-up Deltas arrive on both sides.
CatchesUp == <>(\A e \in End : caughtUp[e])
==============================================================================
