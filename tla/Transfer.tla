------------------------------ MODULE Transfer ------------------------------
(***************************************************************************)
(* Sending a file over a connection (crates/mqp2p/src/transfer.rs and      *)
(* P2pConnection in peer.rs): send_file and receive_file at the two ends   *)
(* of a bidirectional stream, one transfer after the other under one name. *)
(* Another program may rewrite the sender's file at any time.  Either call *)
(* may fail or be dropped between two steps; its streams go with it.       *)
(*                                                                         *)
(* A file is a sequence of chunks, its digest is that sequence, a frame is *)
(* whole or is not there.  Both sides run this code, so no frame is of an  *)
(* unexpected type or too short.  One transfer at a time writes a name:    *)
(* two at once would share the temporary file.                             *)
(***************************************************************************)
EXTENDS Naturals, Sequences

CONSTANTS
    Chunks,
    MaxChunks,      \* bound on the length of a file
    MaxTransfers,   \* bound on calls of send_file
    MaxRewrites     \* bound on changes of the sender's file

VARIABLES
    file,       \* the sender's file
    tx, rx,     \* send_file and receive_file: the step each is at and its locals
    forth, back,   \* the frames on the stream, each way
    dir,        \* the receiver's output directory: the temporary and the final file
    offered,    \* history: the digests of the offers
    transfers, rewrites

tvars == <<file, tx, rx, forth, back, dir, offered, transfers, rewrites>>

Files == UNION {[1 .. n -> Chunks] : n \in 0 .. MaxChunks}
Done == {"idle", "ok", "err"}
Over(call) == call.step \in Done
Frame(type, v) == [type |-> type, v |-> v]

\* FileOffer: the size from the metadata, and the digest.
FileOffer(size, digest) == Frame("OFFER", [size |-> size, sha256 |-> digest])

\* A frame is written to a stream; the other end may be gone.
write_frame(stream, f, reader) == IF Over(reader) THEN stream ELSE Append(stream, f)

-----------------------------------------------------------------------------
(* send_file *)

\* The metadata is read, and the file opened to be hashed, on a new stream.
send_file ==
    /\ Over(tx) /\ Over(rx) /\ transfers < MaxTransfers
    /\ transfers' = transfers + 1
    /\ tx' = [step |-> "hash", size |-> Len(file), digest |-> << >>, offset |-> 0]
    /\ rx' = [step |-> "offer", got |-> << >>]
    /\ forth' = << >> /\ back' = << >>
    /\ UNCHANGED <<file, dir, offered, rewrites>>

\* The next chunk as the file is now; at its end the offer.
hash_chunk ==
    /\ tx.step = "hash"
    /\ IF Len(tx.digest) < Len(file)
       THEN /\ tx' = [tx EXCEPT !.digest = Append(@, file[Len(@) + 1])]
            /\ UNCHANGED <<forth, offered>>
       ELSE /\ tx' = [tx EXCEPT !.step = "offered"]
            /\ forth' = write_frame(forth, FileOffer(tx.size, tx.digest), rx)
            /\ offered' = offered \cup {tx.digest}
    /\ UNCHANGED <<file, rx, back, dir, transfers, rewrites>>

offer_answered ==
    /\ tx.step = "offered" /\ back # << >>
    /\ tx' = [tx EXCEPT !.step = IF Head(back).type = "ACCEPT" THEN "send" ELSE "err"]
    /\ back' = Tail(back)
    /\ UNCHANGED <<file, rx, forth, dir, offered, transfers, rewrites>>

\* The file is read a second time; the digest sent at its end is the offer's.
send_chunk ==
    /\ tx.step = "send"
    /\ IF tx.offset < Len(file)
       THEN /\ forth' = write_frame(forth, Frame("CHUNK", file[tx.offset + 1]), rx)
            /\ tx' = [tx EXCEPT !.offset = @ + 1]
       ELSE /\ forth' = write_frame(forth, Frame("COMPLETE", tx.digest), rx)
            /\ tx' = [tx EXCEPT !.step = "completed"]
    /\ UNCHANGED <<file, rx, back, dir, offered, transfers, rewrites>>

acknowledged ==
    /\ tx.step = "completed" /\ back # << >>
    /\ tx' = [tx EXCEPT !.step = "ok"]
    /\ back' = Tail(back)
    /\ UNCHANGED <<file, rx, forth, dir, offered, transfers, rewrites>>

-----------------------------------------------------------------------------
(* receive_file *)

\* accept decides; the temporary file is created empty, which may fail.
offer_received ==
    /\ rx.step = "offer" /\ forth # << >>
    /\ \/ /\ back' = write_frame(back, Frame("REJECT", 0), tx)
          /\ rx' = [rx EXCEPT !.step = "err"] /\ UNCHANGED dir
       \/ /\ back' = write_frame(back, Frame("ACCEPT", 0), tx)
          /\ \/ rx' = [rx EXCEPT !.step = "receive"] /\ dir' = [dir EXCEPT !.temp = << << >> >>]
             \/ rx' = [rx EXCEPT !.step = "err"] /\ UNCHANGED dir
    /\ forth' = Tail(forth)
    /\ UNCHANGED <<file, tx, offered, transfers, rewrites>>

\* Chunks are written and hashed in the order they come.
chunk_received ==
    /\ rx.step = "receive" /\ forth # << >> /\ Head(forth).type = "CHUNK"
    /\ rx' = [rx EXCEPT !.got = Append(@, Head(forth).v)]
    /\ dir' = [dir EXCEPT !.temp = <<Append(@[1], Head(forth).v)>>]
    /\ forth' = Tail(forth)
    /\ UNCHANGED <<file, tx, back, offered, transfers, rewrites>>

\* Faulty complete_received: the digest is not compared.
complete_unchecked ==
    /\ rx.step = "receive" /\ forth # << >> /\ Head(forth).type = "COMPLETE"
    /\ rx' = [rx EXCEPT !.step = "verified"] /\ UNCHANGED dir
    /\ forth' = Tail(forth)
    /\ UNCHANGED <<file, tx, back, offered, transfers, rewrites>>

complete_received ==
    /\ rx.step = "receive" /\ forth # << >> /\ Head(forth).type = "COMPLETE"
    /\ IF Head(forth).v = rx.got
       THEN rx' = [rx EXCEPT !.step = "verified"] /\ UNCHANGED dir
       ELSE rx' = [rx EXCEPT !.step = "err"] /\ dir' = [dir EXCEPT !.temp = << >>]
    /\ forth' = Tail(forth)
    /\ UNCHANGED <<file, tx, back, offered, transfers, rewrites>>

\* Faulty renamed: the file is acknowledged and left under its temporary name.
renamed_never ==
    /\ rx.step = "verified"
    /\ rx' = [rx EXCEPT !.step = "renamed"]
    /\ UNCHANGED <<file, tx, forth, back, dir, offered, transfers, rewrites>>

\* The temporary file takes the final name.
renamed ==
    /\ rx.step = "verified"
    /\ dir' = [temp |-> << >>, final |-> dir.temp]
    /\ rx' = [rx EXCEPT !.step = "renamed"]
    /\ UNCHANGED <<file, tx, forth, back, offered, transfers, rewrites>>

acknowledge ==
    /\ rx.step = "renamed"
    /\ back' = write_frame(back, Frame("ACK", Len(rx.got)), tx)
    /\ rx' = [rx EXCEPT !.step = "ok"]
    /\ UNCHANGED <<file, tx, forth, dir, offered, transfers, rewrites>>

-----------------------------------------------------------------------------
(* Failures *)

\* An I/O error, a lost connection, a dropped call or a crash.
send_fails ==
    /\ ~ Over(tx) /\ tx' = [tx EXCEPT !.step = "err"]
    /\ \E n \in 0 .. Len(forth) : forth' = SubSeq(forth, 1, n)
    /\ UNCHANGED <<file, rx, back, dir, offered, transfers, rewrites>>

receive_fails ==
    /\ ~ Over(rx) /\ rx' = [rx EXCEPT !.step = "err"]
    /\ \E n \in 0 .. Len(back) : back' = SubSeq(back, 1, n)
    /\ UNCHANGED <<file, tx, forth, dir, offered, transfers, rewrites>>

\* Faulty ends_early: only the end of a send that succeeded reaches the receiver.
ends_early_once(reader, writer, stream) == ~ Over(reader) /\ writer.step = "ok" /\ stream = << >>

\* A read of a frame fails once the other end is gone and has left nothing to read.
ends_early(reader, writer, stream) == ~ Over(reader) /\ Over(writer) /\ stream = << >>

\* send_file fails when it awaits a frame, receive_file too.
read_frame_fails ==
    /\ \/ /\ ends_early(tx, rx, back) /\ tx.step \in {"offered", "completed"}
          /\ tx' = [tx EXCEPT !.step = "err"] /\ UNCHANGED rx
       \/ /\ ends_early(rx, tx, forth) /\ rx.step \in {"offer", "receive"}
          /\ rx' = [rx EXCEPT !.step = "err"] /\ UNCHANGED tx
    /\ UNCHANGED <<file, forth, back, dir, offered, transfers, rewrites>>

\* Another program changes the file the sender reads.
Rewritten ==
    /\ rewrites < MaxRewrites /\ rewrites' = rewrites + 1
    /\ \E f \in Files \ {file} : file' = f
    /\ UNCHANGED <<tx, rx, forth, back, dir, offered, transfers>>

-----------------------------------------------------------------------------
TransferInit ==
    /\ file \in Files
    /\ tx = [step |-> "idle"] /\ rx = [step |-> "idle"] /\ forth = << >> /\ back = << >>
    /\ dir = [temp |-> << >>, final |-> << >>] /\ offered = {} /\ transfers = 0 /\ rewrites = 0

Sending == hash_chunk \/ offer_answered \/ send_chunk \/ acknowledged
Receiving == offer_received \/ chunk_received \/ complete_received \/ renamed \/ acknowledge

TransferNext ==
    send_file \/ Sending \/ Receiving \/ read_frame_fails \/ send_fails \/ receive_fails \/ Rewritten

\* Both tasks run on; a failure is never owed.
TransferFairness == WF_tvars(Sending) /\ WF_tvars(Receiving) /\ WF_tvars(read_frame_fails)

TransferSpec == TransferInit /\ [][TransferNext]_tvars

-----------------------------------------------------------------------------
\* Whatever fails, and however the sender's file changes under its two reads: what the
\* receiver has under the final name is a file whose digest was offered, whole.
FinalIsWhole == \A i \in DOMAIN dir.final : dir.final[i] \in offered

\* send_file returns Ok only when receive_file has put the file it offered in place.
SuccessIsDelivered == tx.step = "ok" => dir.final = <<tx.digest>>

\* Neither call waits for ever for an end that has failed.
BothReturn == [](~ Over(tx) => <> Over(tx)) /\ [](~ Over(rx) => <> Over(rx))

=============================================================================
