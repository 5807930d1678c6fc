------------------------------ MODULE SyncCodec ------------------------------
(***************************************************************************)
(* The bytes of a sync session (crates/stitch-p2p/src/wire.rs and          *)
(* protocol.rs): write frames, the hello and delta messages made of them,  *)
(* and a stream that carries messages in pieces and may end after any      *)
(* byte.                                                                   *)
(*                                                                         *)
(* A result is << >> for an error and <<value>> otherwise.  Names are      *)
(* ASCII: the UTF-8 checks pass.  A message is below MAX_MESSAGE_LEN and   *)
(* its counts and lengths fit a u32.                                       *)
(***************************************************************************)
EXTENDS Bytes, SequencesExt, TLC

CONSTANTS
    Messages,    \* what a session may write
    MaxMessages  \* bound on messages of a session

VARIABLES
    written,  \* the messages written
    stream,   \* their bytes
    arrived,  \* how many bytes the reader's end has
    taken,    \* how many of them it has read
    got,      \* the messages read
    reading   \* "open"; "cut" once no more bytes come; "ended" or "broken" after the reader's error

cvars == <<written, stream, arrived, taken, got, reading>>

WIRE_VERSION == 2
WIRE_HEADER_LEN == 60
SIGNATURE_LEN == 64
PEER_ID_LEN == 32
MSG_HELLO == 0
MSG_DELTA == 1
Ops == <<"Insert", "Update", "Delete">>

op_to_u8(op) == SelectInSeq(Ops, LAMBDA o : o = op) - 1
u8_to_op(byte) == IF byte < 3 THEN <<Ops[byte + 1]>> ELSE << >>

-----------------------------------------------------------------------------
(* Frames: [physical, logical, peer, seq, op, entity, id, data, signature] *)

check_lengths(entity, id) == Len(entity) < 256 /\ Len(id) < 256

\* Faulty signing_bytes: the two length bytes change places.
signing_bytes_swapped(f) ==
    IF ~ check_lengths(f.entity, f.id) THEN << >>
    ELSE <<<<WIRE_VERSION, op_to_u8(f.op)>> \o be64(f.physical) \o be32(f.logical) \o f.peer \o be64(f.seq)
           \o <<Len(f.id), Len(f.entity)>> \o be32(Len(f.data)) \o f.entity \o f.id \o f.data>>

signing_bytes(f) ==
    IF ~ check_lengths(f.entity, f.id) THEN << >>
    ELSE <<<<WIRE_VERSION, op_to_u8(f.op)>> \o be64(f.physical) \o be32(f.logical) \o f.peer \o be64(f.seq)
           \o <<Len(f.entity), Len(f.id)>> \o be32(Len(f.data)) \o f.entity \o f.id \o f.data>>

encode(f) ==
    IF signing_bytes(f) = << >> THEN << >>
    ELSE <<signing_bytes(f)[1] \o (IF f.signature = << >> THEN <<0>> ELSE <<1>> \o f.signature)>>

encoded_len(f) ==
    WIRE_HEADER_LEN + Len(f.entity) + Len(f.id) + Len(f.data) + 1 + (IF f.signature = << >> THEN 0 ELSE SIGNATURE_LEN)

decode(buf) ==
    IF Len(buf) < WIRE_HEADER_LEN THEN << >>
    ELSE LET op == u8_to_op(buf[2])
             entity_end == WIRE_HEADER_LEN + buf[55]
             id_end == entity_end + buf[56]
             data_end == id_end + from_be32(buf, 57)
             flag_end == data_end + 1
             sig_end == flag_end + SIGNATURE_LEN
         IN  IF buf[1] # WIRE_VERSION \/ op = << >> \/ Len(buf) < flag_end THEN << >>
             ELSE IF buf[flag_end] > 1 \/ (buf[flag_end] = 1 /\ Len(buf) < sig_end) THEN << >>
             ELSE <<[physical |-> from_be64(buf, 3), logical |-> from_be32(buf, 11), peer |-> SubSeq(buf, 15, 46),
                     seq |-> from_be64(buf, 47), op |-> op[1],
                     entity |-> SubSeq(buf, WIRE_HEADER_LEN + 1, entity_end), id |-> SubSeq(buf, entity_end + 1, id_end),
                     data |-> SubSeq(buf, id_end + 1, data_end),
                     signature |-> IF buf[flag_end] = 1 THEN SubSeq(buf, flag_end + 1, sig_end) ELSE << >>]>>

-----------------------------------------------------------------------------
(* Messages: [kind, from, cursors] and [kind, frames] *)

\* The cursors in any order.
encode_hello(from, cursors) ==
    from \o be32(Cardinality(DOMAIN cursors))
    \o FlattenSeq([i \in 1 .. Cardinality(DOMAIN cursors) |->
                      LET p == SetToSeq(DOMAIN cursors)[i] IN p \o be64(cursors[p])])

\* A peer named twice keeps its last cursor.
decode_hello(payload) ==
    LET header == PEER_ID_LEN + 4
        entry_len == PEER_ID_LEN + 8
    IN  IF Len(payload) < header THEN << >>
        ELSE LET count == from_be32(payload, PEER_ID_LEN + 1)
                 peer(i) == SubSeq(payload, header + (i - 1) * entry_len + 1, header + (i - 1) * entry_len + PEER_ID_LEN)
                 cursor(i) == from_be64(payload, header + i * entry_len - 7)
             IN  IF Len(payload) < header + count * entry_len THEN << >>
                 ELSE <<[kind |-> "Hello", from |-> SubSeq(payload, 1, PEER_ID_LEN),
                         cursors |-> FoldLeftDomain(LAMBDA c, i : (peer(i) :> cursor(i)) @@ c, << >>, Zeros(count))]>>

\* One frame that does not encode fails the message.
encode_delta(frames) ==
    IF \E i \in DOMAIN frames : encode(frames[i]) = << >> THEN << >>
    ELSE <<be32(Len(frames)) \o FlattenSeq([i \in DOMAIN frames |-> be32(Len(encode(frames[i])[1])) \o encode(frames[i])[1]])>>

\* The next count frames of payload from offset off on.
RECURSIVE Frames(_, _, _)
Frames(payload, off, count) ==
    IF count = 0 THEN << << >> >>
    ELSE IF Len(payload) < off + 4 THEN << >>
    ELSE LET len == from_be32(payload, off + 1)
         IN  IF Len(payload) < off + 4 + len THEN << >>
             ELSE LET f == decode(SubSeq(payload, off + 5, off + 4 + len))
                      rest == Frames(payload, off + 4 + len, count - 1)
                  IN  IF f = << >> \/ rest = << >> THEN << >> ELSE <<f \o rest[1]>>

decode_delta(payload) ==
    LET frames == IF Len(payload) < 4 THEN << >> ELSE Frames(payload, 4, from_be32(payload, 1))
    IN  IF frames = << >> THEN << >> ELSE <<[kind |-> "Delta", frames |-> frames[1]]>>

Encoded(m) ==
    LET payload == IF m.kind = "Hello" THEN <<encode_hello(m.from, m.cursors)>> ELSE encode_delta(m.frames)
    IN  IF payload = << >> THEN << >>
        ELSE <<<<IF m.kind = "Hello" THEN MSG_HELLO ELSE MSG_DELTA>> \o be32(Len(payload[1])) \o payload[1]>>

-----------------------------------------------------------------------------
\* A message that does not encode is not written at all.
write_message(m) ==
    /\ Len(written) < MaxMessages /\ reading = "open" /\ Encoded(m) # << >>
    /\ written' = Append(written, m) /\ stream' = stream \o Encoded(m)[1]
    /\ UNCHANGED <<arrived, taken, got, reading>>

\* The length the next message declares, with its header; 5 before that has arrived.
Wanted == IF arrived < taken + 5 THEN 5 ELSE 5 + from_be32(stream, taken + 2)

read_message ==
    /\ reading \in {"open", "cut"} /\ arrived >= taken + 5 /\ arrived >= taken + Wanted
    /\ LET payload == SubSeq(stream, taken + 6, taken + Wanted)
           m == CASE stream[taken + 1] = MSG_HELLO -> decode_hello(payload)
                  [] stream[taken + 1] = MSG_DELTA -> decode_delta(payload)
                  [] OTHER -> << >>
       IN  /\ got' = got \o m
           /\ reading' = IF m = << >> THEN "broken" ELSE reading
    /\ taken' = taken + Wanted
    /\ UNCHANGED <<written, stream, arrived>>

\* read_exact meets the end of the stream.
read_message_fails ==
    /\ reading = "cut" /\ arrived < taken + Wanted
    /\ reading' = "ended" /\ UNCHANGED <<written, stream, arrived, taken, got>>

Arrives ==
    /\ reading = "open" /\ arrived < Len(stream) /\ arrived' = arrived + 1
    /\ UNCHANGED <<written, stream, taken, got, reading>>

Cut == reading = "open" /\ reading' = "cut" /\ UNCHANGED <<written, stream, arrived, taken, got>>

CodecInit == written = << >> /\ stream = << >> /\ arrived = 0 /\ taken = 0 /\ got = << >> /\ reading = "open"
CodecNext == read_message \/ read_message_fails \/ Arrives \/ Cut \/ \E m \in Messages : write_message(m)

-----------------------------------------------------------------------------
\* However the bytes are cut into pieces, and wherever the stream ends, the reader gets the
\* messages that arrived whole, field for field and in order, and no other: it never takes
\* a piece for a message or fails on one that is whole.  And a frame is as long as
\* encoded_len, by which the sender sizes its deltas, says.
ReadsWhole ==
    LET bytes(n) == Len(FlattenSeq([i \in 1 .. n |-> Encoded(written[i])[1]]))
    IN  /\ IsPrefix(got, written) /\ reading # "broken"
        /\ reading = "ended" => Len(got) = Cardinality({n \in 1 .. Len(written) : bytes(n) <= arrived})
        /\ \A i \in DOMAIN got : got[i].kind = "Delta" =>
               \A j \in DOMAIN got[i].frames : Len(encode(got[i].frames[j])[1]) = encoded_len(got[i].frames[j])

=============================================================================
