------------------------- MODULE PeerServiceTheorems -------------------------
(***************************************************************************)
(* What file transfer, the directory and pairing keep, for any files,      *)
(* addresses, clocks, codes and devices.                                   *)
(*                                                                         *)
(* Transfer: send_file and receive_file are at most one step of the        *)
(* protocol apart, and what is in the directory is what was offered.       *)
(*                                                                         *)
(* Directory: a request of the peer is about its record and as old as its  *)
(* stamp, and a lease runs from the stamp it was given.                    *)
(*                                                                         *)
(* Pairing: every tag under way and every party that waits for one comes   *)
(* from one exchange of SPAKE2 messages, so a tag that verifies binds both *)
(* parties to the same one.                                                *)
(***************************************************************************)
EXTENDS Transfer, Directory, Pairing, SequenceTheorems, TLAPS

------------------------------------------------------------------------------
(* Transfer. *)

TxSteps == {"hash", "offered", "send", "completed", "ok", "err"}
RxSteps == {"offer", "receive", "verified", "renamed", "ok", "err"}

\* Steps of send_file after its last frame.
Sent == {"completed", "ok", "err"}

\* The frames that may be on the stream: a digest is the one offered, an
\* acknowledgement comes from a receive_file that is done.
Forward ==
    [type : {"OFFER"}, v : [size : Nat, sha256 : Seq(Chunks)]] \cup [type : {"CHUNK"}, v : Chunks]
    \cup {f \in [type : {"COMPLETE"}, v : offered] : tx.step \in Sent /\ f.v = tx.digest}
Backward == {f \in [type : {"ACCEPT", "REJECT", "ACK"}, v : Nat] : f.type = "ACK" => rx.step = "ok"}

TxCall == [step : TxSteps, size : Nat, digest : Seq(Chunks), offset : Nat]
RxCall == [step : RxSteps, got : Seq(Chunks)]

TransferTypeOK ==
    /\ tx = [step |-> "idle"] \/ tx \in TxCall
    /\ rx = [step |-> "idle"] \/ rx \in RxCall
    /\ file \in Seq(Chunks) /\ offered \subseteq Seq(Chunks)
    /\ dir \in [temp : Seq(Seq(Chunks)), final : Seq(Seq(Chunks))]
    /\ forth \in Seq(Forward) /\ back \in Seq(Backward)

\* How far the two ends may be from each other.
InStep ==
    /\ tx.step = "idle" <=> rx.step = "idle"
    /\ tx.step = "hash" => rx.step \in {"offer", "err"} /\ forth = << >> /\ back = << >>
    /\ tx.step = "offered" => /\ rx.step \in {"offer", "receive", "err"} /\ Len(back) <= 1
                              /\ rx.step = "offer" => back = << >>
    /\ tx.step = "send" => rx.step \in {"receive", "err"} /\ back = << >>
    /\ tx.step = "completed" => rx.step # "offer" /\ (back # << >> => rx.step = "ok")
    /\ tx.step = "ok" => rx.step = "ok"
    /\ tx.step \in {"offered", "send", "completed", "ok"} => tx.digest \in offered

\* Where the received file is, and that it is the one offered.
InPlace ==
    /\ rx.step = "offer" => rx.got = << >>
    /\ rx.step \in {"receive", "verified"} => dir.temp = <<rx.got>>
    /\ rx.step \in {"verified", "renamed", "ok"} =>
           tx.step \in Sent /\ rx.got = tx.digest /\ rx.got \in offered
    /\ rx.step \in {"renamed", "ok"} => dir.final = <<rx.got>>
    /\ FinalIsWhole

TransferInv == TransferTypeOK /\ InStep /\ InPlace

------------------------------------------------------------------------------

\* The steps of the two calls as TransferTypeOK has them.
LEMMA StepNames ==
  ASSUME TransferTypeOK
  PROVE  /\ tx.step \in TxSteps \cup {"idle"} /\ (tx.step # "idle" => tx \in TxCall)
         /\ rx.step \in RxSteps \cup {"idle"} /\ (rx.step # "idle" => rx \in RxCall)
  BY DEF TransferTypeOK, TxSteps, RxSteps, TxCall, RxCall

\* A call moves on to another step.
LEMMA TxMoves ==
  ASSUME NEW t \in TxCall, NEW s \in TxSteps, NEW u, u = [t EXCEPT !.step = s]
  PROVE  u \in TxCall /\ u.step = s /\ u.digest = t.digest
  BY DEF TxCall

LEMMA RxMoves ==
  ASSUME NEW t \in RxCall, NEW s \in RxSteps, NEW u, u = [t EXCEPT !.step = s]
  PROVE  u \in RxCall /\ u.step = s /\ u.got = t.got
  BY DEF RxCall

\* What was allowed on the stream stays so.
LEMMA ForwardGrows ==
  ASSUME tx.step \in Sent => tx'.step \in Sent /\ tx'.digest = tx.digest, offered \subseteq offered'
  PROVE  Forward \subseteq Forward'
  BY DEF Forward

LEMMA BackwardGrows ==
  ASSUME rx.step = "ok" => rx'.step = "ok"
  PROVE  Backward \subseteq Backward'
  BY DEF Backward

\* A frame is added or dropped.
LEMMA Written ==
  ASSUME NEW S, NEW stream \in Seq(S), NEW f \in S, NEW reader
  PROVE  write_frame(stream, f, reader) \in Seq(S)
  BY DEF write_frame

LEMMA Cut ==
  ASSUME NEW S, NEW stream \in Seq(S), NEW n \in 0 .. Len(stream)
  PROVE  SubSeq(stream, 1, n) \in Seq(S)
  <1>1. Len(stream) \in Nat
    BY LenProperties
  <1>2. \A i \in 1 .. n : stream[i] \in S
    BY <1>1, ElementOfSeq
  <1> QED
    BY <1>1, <1>2, SubSeqProperties

LEMMA TransferStart == TransferInit => TransferInv
  <1> SUFFICES ASSUME TransferInit PROVE TransferInv
    OBVIOUS
  <1>1. file \in Seq(Chunks)
    <2>1. PICK m \in 0 .. MaxChunks : file \in [1 .. m -> Chunks]
      BY DEF TransferInit, Files
    <2> QED
      BY <2>1, SeqDef
  <1>2. TransferTypeOK
    BY <1>1, EmptySeq DEF TransferInit, TransferTypeOK
  <1> QED
    BY <1>2 DEF TransferInit, TransferInv, InStep, InPlace, FinalIsWhole, Sent

\* A step of send_file or a failure of it: the other side and its files stay as they are.
LEMMA SenderStep ==
  ASSUME TransferInv, tx.step # "idle", tx' \in TxCall, forth' \in Seq(Forward'), back' \in Seq(Backward),
         UNCHANGED <<file, rx, dir>>, offered \subseteq offered', offered' \subseteq Seq(Chunks), InStep',
         tx.step \in Sent => tx'.step \in Sent /\ tx'.digest = tx.digest
  PROVE  TransferInv'
  <1>1. TransferTypeOK /\ InPlace
    BY DEF TransferInv
  <1>2. Backward' = Backward
    BY DEF Backward
  <1>3. TransferTypeOK'
    BY <1>1, <1>2 DEF TransferTypeOK
  <1>4. InPlace'
    BY <1>1 DEF InPlace, FinalIsWhole
  <1> QED
    BY <1>3, <1>4 DEF TransferInv

LEMMA HashChunk == TransferInv /\ hash_chunk => TransferInv'
  <1> SUFFICES ASSUME TransferInv, hash_chunk PROVE TransferInv'
    OBVIOUS
  <1>1. /\ TransferTypeOK /\ InStep /\ tx \in TxCall /\ tx.step = "hash" /\ forth = << >> /\ back = << >>
        /\ rx.step \in {"offer", "err"} /\ file \in Seq(Chunks) /\ UNCHANGED <<file, rx, back, dir>>
    BY StepNames DEF TransferInv, InStep, hash_chunk, TransferTypeOK
  <1>2. back' \in Seq(Backward)
    BY <1>1 DEF TransferTypeOK
  <1>3. CASE Len(tx.digest) < Len(file)
    <2>1. tx' = [tx EXCEPT !.digest = Append(@, file[Len(@) + 1])] /\ UNCHANGED <<forth, offered>>
      BY <1>3 DEF hash_chunk
    <2>2. tx.digest \in Seq(Chunks) /\ file[Len(tx.digest) + 1] \in Chunks
      <3>1. tx.digest \in Seq(Chunks)
        BY <1>1 DEF TxCall
      <3>2. Len(tx.digest) \in Nat /\ Len(file) \in Nat
        BY <1>1, <3>1, LenProperties
      <3> QED
        BY <1>1, <1>3, <3>1, <3>2, ElementOfSeq
    <2>3. Append(tx.digest, file[Len(tx.digest) + 1]) \in Seq(Chunks)
      BY <2>2, AppendProperties
    <2>4. tx' \in TxCall /\ tx'.step = "hash"
      BY <1>1, <2>1, <2>3, Zenon DEF TxCall
    <2>5. forth' \in Seq(Forward')
      BY <1>1, <2>1
    <2>6. InStep'
      BY <1>1, <2>1, <2>4 DEF InStep
    <2> QED
      BY <1>1, <1>2, <2>1, <2>4, <2>5, <2>6, SenderStep DEF TransferTypeOK, Sent
  <1>4. CASE ~ (Len(tx.digest) < Len(file))
    <2>1. /\ tx' = [tx EXCEPT !.step = "offered"] /\ offered' = offered \cup {tx.digest}
          /\ forth' = write_frame(forth, FileOffer(tx.size, tx.digest), rx)
      BY <1>4 DEF hash_chunk
    <2>2. tx' \in TxCall /\ tx'.step = "offered" /\ tx'.digest = tx.digest
      BY <1>1, <2>1, TxMoves DEF TxSteps
    <2>3. FileOffer(tx.size, tx.digest) \in Forward' /\ tx.digest \in Seq(Chunks)
      BY <1>1 DEF TxCall, FileOffer, Frame, Forward
    <2>4. forth' \in Seq(Forward')
      <3>1. forth \in Seq(Forward')
        BY <1>1
      <3> QED
        BY <2>1, <2>3, <3>1, Written
    <2>5. InStep'
      BY <1>1, <2>1, <2>2, EmptySeq, LenProperties DEF InStep
    <2> QED
      BY <1>1, <1>2, <2>1, <2>2, <2>3, <2>4, <2>5, SenderStep DEF TransferTypeOK, Sent
  <1> QED
    BY <1>3, <1>4

\* Only an answer is in the stream while the offer is out, an acknowledgement later on.
LEMMA SenderReads == TransferInv /\ (offer_answered \/ acknowledged) => TransferInv'
  <1> SUFFICES ASSUME TransferInv, offer_answered \/ acknowledged PROVE TransferInv'
    OBVIOUS
  <1>1. /\ TransferTypeOK /\ InStep /\ tx.step \in {"offered", "completed"} /\ back # << >> /\ back' = Tail(back)
        /\ forth \in Seq(Forward) /\ back \in Seq(Backward)
        /\ UNCHANGED <<file, rx, forth, dir, offered>>
    BY DEF TransferInv, TransferTypeOK, offer_answered, acknowledged
  <1>2. tx \in TxCall
    BY <1>1, StepNames
  <1>3. back' \in Seq(Backward) /\ Len(back') = Len(back) - 1 /\ Len(back) \in Nat
    BY <1>1, HeadTailProperties, LenProperties
  <1>4. PICK s \in TxSteps : tx' = [tx EXCEPT !.step = s] /\ s \in (IF tx.step = "offered" THEN {"send", "err"} ELSE {"ok"})
    BY DEF offer_answered, acknowledged, TxSteps
  <1>5. tx' \in TxCall /\ tx'.step = s /\ tx'.digest = tx.digest
    BY <1>2, <1>4, TxMoves
  <1>6. forth' \in Seq(Forward')
    <2>1. Forward \subseteq Forward'
      BY <1>1, <1>4, <1>5, ForwardGrows DEF Sent
    <2> QED
      BY <1>1, <2>1, SeqMonotonic
  <1>7. InStep'
    <2>1. CASE tx.step = "offered"
      <3>1. Len(back') = 0
        BY <1>1, <1>3, <2>1, EmptySeq DEF InStep
      <3>2. back' = << >>
        BY <1>3, <3>1, EmptySeq
      <3>3. rx.step # "offer"
        BY <1>1, <2>1 DEF InStep
      <3> QED
        BY <1>1, <1>4, <1>5, <2>1, <3>2, <3>3 DEF InStep
    <2>2. CASE tx.step = "completed"
      BY <1>1, <1>4, <1>5, <2>2 DEF InStep
    <2> QED
      BY <1>1, <2>1, <2>2
  <1> QED
    BY <1>1, <1>3, <1>4, <1>5, <1>6, <1>7, SenderStep DEF TransferTypeOK, Sent

LEMMA SendChunk == TransferInv /\ send_chunk => TransferInv'
  <1> SUFFICES ASSUME TransferInv, send_chunk PROVE TransferInv'
    OBVIOUS
  <1>1. /\ TransferTypeOK /\ InStep /\ tx.step = "send" /\ UNCHANGED <<file, rx, back, dir, offered>>
        /\ file \in Seq(Chunks) /\ forth \in Seq(Forward) /\ back \in Seq(Backward) /\ offered \subseteq Seq(Chunks)
    BY DEF TransferInv, TransferTypeOK, send_chunk
  <1>2. tx \in TxCall /\ tx.offset \in Nat /\ tx.digest \in Seq(Chunks) /\ tx.digest \in offered
    BY <1>1, StepNames DEF TxCall, InStep
  <1>3. /\ tx' \in TxCall /\ tx'.step \in {"send", "completed"} /\ tx'.digest = tx.digest
        /\ \E f \in Forward' : forth' = write_frame(forth, f, rx)
    <2>1. CASE tx.offset < Len(file)
      <3>1. tx' = [tx EXCEPT !.offset = @ + 1] /\ forth' = write_frame(forth, Frame("CHUNK", file[tx.offset + 1]), rx)
        BY <2>1 DEF send_chunk
      <3>2. file[tx.offset + 1] \in Chunks
        BY <1>1, <1>2, <2>1, ElementOfSeq, LenProperties
      <3>3. Frame("CHUNK", file[tx.offset + 1]) \in Forward'
        BY <3>2 DEF Forward, Frame
      <3>4. tx' \in TxCall /\ tx'.step = tx.step /\ tx'.digest = tx.digest
        BY <1>2, <3>1 DEF TxCall
      <3> QED
        BY <1>1, <3>1, <3>3, <3>4
    <2>2. CASE ~ (tx.offset < Len(file))
      <3>1. tx' = [tx EXCEPT !.step = "completed"] /\ forth' = write_frame(forth, Frame("COMPLETE", tx.digest), rx)
        BY <2>2 DEF send_chunk
      <3>2. tx' \in TxCall /\ tx'.step = "completed" /\ tx'.digest = tx.digest
        BY <1>2, <3>1, TxMoves DEF TxSteps
      <3>3. Frame("COMPLETE", tx.digest) \in Forward'
        BY <1>1, <1>2, <3>2 DEF Forward, Frame, Sent
      <3> QED
        BY <3>1, <3>2, <3>3
    <2> QED
      BY <2>1, <2>2
  <1>4. forth' \in Seq(Forward')
    <2>1. Forward \subseteq Forward'
      BY <1>1, <1>3, ForwardGrows DEF Sent
    <2>2. forth \in Seq(Forward')
      BY <1>1, <2>1, SeqMonotonic
    <2> QED
      BY <1>3, <2>2, Written
  <1>5. InStep'
    BY <1>1, <1>2, <1>3 DEF InStep
  <1> QED
    BY <1>1, <1>2, <1>3, <1>4, <1>5, SenderStep DEF Sent

\* send_file gives up, with what the stream has lost.
LEMMA SenderFails ==
  ASSUME TransferInv, tx.step \notin Done, tx' = [tx EXCEPT !.step = "err"],
         NEW n \in 0 .. Len(forth), forth' = SubSeq(forth, 1, n), UNCHANGED <<file, rx, back, dir, offered>>
  PROVE  TransferInv'
  <1>1. /\ TransferTypeOK /\ InStep /\ tx.step # "idle" /\ offered \subseteq Seq(Chunks)
        /\ forth \in Seq(Forward) /\ back \in Seq(Backward)
    BY DEF TransferInv, TransferTypeOK, Done
  <1>2. tx' \in TxCall /\ tx'.step = "err" /\ tx'.digest = tx.digest
    BY <1>1, StepNames, TxMoves DEF TxSteps
  <1>3. forth' \in Seq(Forward')
    <2>1. Forward \subseteq Forward'
      BY <1>2, ForwardGrows DEF Sent
    <2>2. forth' \in Seq(Forward)
      BY <1>1, Cut
    <2> QED
      BY <2>1, <2>2, SeqMonotonic
  <1>4. InStep'
    BY <1>1, <1>2 DEF InStep
  <1> QED
    BY <1>1, <1>2, <1>3, <1>4, SenderStep DEF Sent

\* A step of receive_file or a failure of it: the other side stays as it is.
LEMMA ReceiverStep ==
  ASSUME TransferInv, rx' \in RxCall, forth' \in Seq(Forward), back' \in Seq(Backward'),
         dir' \in [temp : Seq(Seq(Chunks)), final : Seq(Seq(Chunks))],
         UNCHANGED <<file, tx, offered>>, InStep', InPlace'
  PROVE  TransferInv'
  <1>1. TransferTypeOK
    BY DEF TransferInv
  <1>2. Forward' = Forward
    BY DEF Forward
  <1>3. TransferTypeOK'
    BY <1>1, <1>2 DEF TransferTypeOK
  <1> QED
    BY <1>3 DEF TransferInv

\* What holds before a step of receive_file.
LEMMA ReceiverBefore ==
  ASSUME TransferInv, rx.step \notin Done
  PROVE  /\ TransferTypeOK /\ InStep /\ InPlace /\ rx \in RxCall /\ rx.got \in Seq(Chunks) /\ tx \in TxCall
         /\ forth \in Seq(Forward) /\ back \in Seq(Backward)
         /\ dir \in [temp : Seq(Seq(Chunks)), final : Seq(Seq(Chunks))]
         /\ \A f \in Forward : f.type = "CHUNK" => f.v \in Chunks
         /\ \A f \in Forward : f.type = "COMPLETE" => f.v \in offered /\ f.v = tx.digest /\ tx.step \in Sent
         /\ forth # << >> => Head(forth) \in Forward /\ Tail(forth) \in Seq(Forward) /\ tx.step # "hash"
  <1>1. TransferTypeOK /\ InStep /\ InPlace
    BY DEF TransferInv
  <1>2. rx \in RxCall /\ tx \in TxCall
    BY <1>1, StepNames DEF Done, InStep
  <1>3. forth \in Seq(Forward) /\ back \in Seq(Backward) /\ dir \in [temp : Seq(Seq(Chunks)), final : Seq(Seq(Chunks))]
    BY <1>1 DEF TransferTypeOK
  <1>4. forth # << >> => Head(forth) \in Forward /\ Tail(forth) \in Seq(Forward)
    BY <1>3, HeadTailProperties
  <1>5. forth # << >> => tx.step # "hash"
    BY <1>1 DEF InStep
  <1>6. rx.got \in Seq(Chunks)
    BY <1>2 DEF RxCall
  <1>7. /\ \A f \in Forward : f.type = "CHUNK" => f.v \in Chunks
        /\ \A f \in Forward : f.type = "COMPLETE" => f.v \in offered /\ f.v = tx.digest /\ tx.step \in Sent
    BY DEF Forward
  <1> QED
    BY <1>1, <1>2, <1>3, <1>4, <1>5, <1>6, <1>7

LEMMA OfferReceived == TransferInv /\ offer_received => TransferInv'
  <1> SUFFICES ASSUME TransferInv, offer_received PROVE TransferInv'
    OBVIOUS
  <1>1. rx.step = "offer" /\ forth # << >> /\ forth' = Tail(forth) /\ UNCHANGED <<file, tx, offered>>
    BY DEF offer_received
  <1>2. rx.step \notin Done
    BY <1>1 DEF Done
  <1>3. PICK s \in {"receive", "err"}, a \in {"ACCEPT", "REJECT"} :
          /\ rx' = [rx EXCEPT !.step = s] /\ back' = write_frame(back, Frame(a, 0), tx)
          /\ dir' = IF s = "receive" THEN [dir EXCEPT !.temp = << << >> >>] ELSE dir
    BY DEF offer_received
  <1>4. rx' \in RxCall /\ rx'.step = s /\ rx'.got = rx.got
    BY <1>2, <1>3, ReceiverBefore, RxMoves DEF RxSteps
  <1>5. back' \in Seq(Backward')
    <2>1. Frame(a, 0) \in Backward'
      BY DEF Frame, Backward
    <2>2. back \in Seq(Backward')
      BY <1>1, <1>2, ReceiverBefore, BackwardGrows, SeqMonotonic, Zenon
    <2> QED
      BY <1>3, <2>1, <2>2, Written
  <1>6. tx.step \in {"offered", "err"} /\ (tx.step = "offered" => back = << >>)
    <2>1. tx.step \in TxSteps
      BY <1>2, ReceiverBefore DEF TxCall
    <2> QED
      BY <1>1, <1>2, <2>1, ReceiverBefore DEF InStep, TxSteps
  <1>7. back = << >> => Len(back') <= 1
    BY <1>3 DEF write_frame
  <1>8. InStep'
    BY <1>1, <1>2, <1>4, <1>6, <1>7, ReceiverBefore DEF InStep
  <1>9. dir' \in [temp : Seq(Seq(Chunks)), final : Seq(Seq(Chunks))]
        /\ dir'.final = dir.final /\ (s = "receive" => dir'.temp = << << >> >>)
    <2>1. << << >> >> \in Seq(Seq(Chunks))
      OBVIOUS
    <2> QED
      BY <1>2, <1>3, <2>1, ReceiverBefore, Zenon
  <1>10. InPlace'
    BY <1>1, <1>2, <1>4, <1>9, ReceiverBefore DEF InPlace, FinalIsWhole
  <1>11. forth' \in Seq(Forward)
    BY <1>1, <1>2, ReceiverBefore
  <1> QED
    BY <1>1, <1>4, <1>5, <1>8, <1>9, <1>10, <1>11, ReceiverStep

LEMMA ChunkReceived == TransferInv /\ chunk_received => TransferInv'
  <1> SUFFICES ASSUME TransferInv, chunk_received PROVE TransferInv'
    OBVIOUS
  <1> DEFINE v == Head(forth).v
  <1>1. /\ rx.step = "receive" /\ forth # << >> /\ forth' = Tail(forth) /\ Head(forth).type = "CHUNK"
        /\ rx' = [rx EXCEPT !.got = Append(@, v)] /\ dir' = [dir EXCEPT !.temp = <<Append(@[1], v)>>]
        /\ UNCHANGED <<file, tx, back, offered>>
    BY DEF chunk_received
  <1>2. rx.step \notin Done
    BY <1>1 DEF Done
  <1>3. v \in Chunks /\ forth' \in Seq(Forward)
    BY <1>1, <1>2, ReceiverBefore
  <1> HIDE DEF v
  <1>4. Append(rx.got, v) \in Seq(Chunks)
    BY <1>2, <1>3, ReceiverBefore
  <1>5. rx' \in RxCall /\ rx'.step = "receive" /\ rx'.got = Append(rx.got, v)
    BY <1>1, <1>2, <1>4, ReceiverBefore, Zenon DEF RxCall
  <1>6. dir.temp = <<rx.got>>
    BY <1>1, <1>2, ReceiverBefore DEF InPlace
  <1>7. dir'.temp = <<Append(rx.got, v)>> /\ dir'.final = dir.final
        /\ dir' \in [temp : Seq(Seq(Chunks)), final : Seq(Seq(Chunks))]
    <2>1. dir.temp[1] = rx.got
      BY <1>6
    <2>2. dir' = [dir EXCEPT !.temp = <<Append(rx.got, v)>>]
      BY <1>1, <2>1
    <2>3. <<Append(rx.got, v)>> \in Seq(Seq(Chunks))
      BY <1>4
    <2> QED
      BY <1>2, <2>2, <2>3, ReceiverBefore, Zenon
  <1>8. back' \in Seq(Backward')
    BY <1>1, <1>2, ReceiverBefore, BackwardGrows, SeqMonotonic
  <1>9. InStep'
    BY <1>1, <1>2, <1>5, ReceiverBefore, Zenon DEF InStep
  <1>10. InPlace'
    BY <1>1, <1>2, <1>5, <1>7, ReceiverBefore, Zenon DEF InPlace, FinalIsWhole
  <1> QED
    BY <1>1, <1>3, <1>5, <1>7, <1>8, <1>9, <1>10, ReceiverStep

LEMMA CompleteReceived == TransferInv /\ complete_received => TransferInv'
  <1> SUFFICES ASSUME TransferInv, complete_received PROVE TransferInv'
    OBVIOUS
  <1> DEFINE v == Head(forth).v
  <1>1. /\ rx.step = "receive" /\ forth # << >> /\ forth' = Tail(forth) /\ Head(forth).type = "COMPLETE"
        /\ UNCHANGED <<file, tx, back, offered>>
    BY DEF complete_received
  <1>2. rx.step \notin Done
    BY <1>1 DEF Done
  <1>3. v \in offered /\ v = tx.digest /\ tx.step \in Sent /\ forth' \in Seq(Forward)
    BY <1>1, <1>2, ReceiverBefore
  <1>4. PICK s \in {"verified", "err"} :
          /\ rx' = [rx EXCEPT !.step = s] /\ (s = "verified" => v = rx.got)
          /\ dir' = IF s = "verified" THEN dir ELSE [dir EXCEPT !.temp = << >>]
    BY DEF complete_received
  <1> HIDE DEF v
  <1>5. rx' \in RxCall /\ rx'.step = s /\ rx'.got = rx.got
    BY <1>2, <1>4, ReceiverBefore, RxMoves DEF RxSteps
  <1>6. back' \in Seq(Backward')
    BY <1>1, <1>2, ReceiverBefore, BackwardGrows, SeqMonotonic
  <1>7. dir'.final = dir.final /\ dir' \in [temp : Seq(Seq(Chunks)), final : Seq(Seq(Chunks))]
        /\ (s = "verified" => dir'.temp = dir.temp)
    BY <1>2, <1>4, ReceiverBefore, EmptySeq, Zenon
  <1>8. InStep'
    BY <1>1, <1>2, <1>3, <1>5, ReceiverBefore DEF InStep, Sent
  <1>9. InPlace'
    BY <1>1, <1>2, <1>3, <1>4, <1>5, <1>7, ReceiverBefore, SMTT(60) DEF InPlace, FinalIsWhole
  <1> QED
    BY <1>1, <1>3, <1>5, <1>6, <1>7, <1>8, <1>9, ReceiverStep

LEMMA Renamed == TransferInv /\ renamed => TransferInv'
  <1> SUFFICES ASSUME TransferInv, renamed PROVE TransferInv'
    OBVIOUS
  <1>1. /\ rx.step = "verified" /\ dir' = [temp |-> << >>, final |-> dir.temp]
        /\ rx' = [rx EXCEPT !.step = "renamed"] /\ UNCHANGED <<file, tx, forth, back, offered>>
    BY DEF renamed
  <1>2. rx.step \notin Done
    BY <1>1 DEF Done
  <1>3. rx' \in RxCall /\ rx'.step = "renamed" /\ rx'.got = rx.got
    BY <1>1, <1>2, ReceiverBefore, RxMoves DEF RxSteps
  <1>4. back' \in Seq(Backward')
    BY <1>1, <1>2, ReceiverBefore, BackwardGrows, SeqMonotonic
  <1>5. dir.temp = <<rx.got>> /\ rx.got \in offered
    BY <1>1, <1>2, ReceiverBefore DEF InPlace
  <1>6. dir'.final = <<rx.got>> /\ dir' \in [temp : Seq(Seq(Chunks)), final : Seq(Seq(Chunks))]
    BY <1>1, <1>2, <1>5, ReceiverBefore, EmptySeq
  <1>7. InStep'
    BY <1>1, <1>2, <1>3, ReceiverBefore DEF InStep
  <1>8. InPlace'
    BY <1>1, <1>2, <1>3, <1>5, <1>6, ReceiverBefore DEF InPlace, FinalIsWhole
  <1> QED
    BY <1>1, <1>2, <1>3, <1>4, <1>6, <1>7, <1>8, ReceiverStep, ReceiverBefore

LEMMA Acknowledge == TransferInv /\ acknowledge => TransferInv'
  <1> SUFFICES ASSUME TransferInv, acknowledge PROVE TransferInv'
    OBVIOUS
  <1>1. /\ rx.step = "renamed" /\ back' = write_frame(back, Frame("ACK", Len(rx.got)), tx)
        /\ rx' = [rx EXCEPT !.step = "ok"] /\ UNCHANGED <<file, tx, forth, dir, offered>>
    BY DEF acknowledge
  <1>2. rx.step \notin Done
    BY <1>1 DEF Done
  <1>3. rx' \in RxCall /\ rx'.step = "ok" /\ rx'.got = rx.got
    BY <1>1, <1>2, ReceiverBefore, RxMoves DEF RxSteps
  <1>4. back' \in Seq(Backward')
    <2>1. Len(rx.got) \in Nat
      BY <1>2, ReceiverBefore, LenProperties
    <2>2. Frame("ACK", Len(rx.got)) \in Backward'
      BY <1>3, <2>1 DEF Frame, Backward
    <2>3. back \in Seq(Backward')
      BY <1>1, <1>2, ReceiverBefore, BackwardGrows, SeqMonotonic
    <2> QED
      BY <1>1, <2>2, <2>3, Written
  <1>5. InStep'
    BY <1>1, <1>2, <1>3, ReceiverBefore DEF InStep, InPlace, Sent
  <1>6. InPlace'
    BY <1>1, <1>2, <1>3, ReceiverBefore DEF InPlace, FinalIsWhole
  <1> QED
    BY <1>1, <1>2, <1>3, <1>4, <1>5, <1>6, ReceiverStep, ReceiverBefore

\* receive_file gives up, with what the stream has lost.
LEMMA ReceiverFails ==
  ASSUME TransferInv, rx.step \notin Done, rx' = [rx EXCEPT !.step = "err"],
         NEW n \in 0 .. Len(back), back' = SubSeq(back, 1, n), UNCHANGED <<file, tx, forth, dir, offered>>
  PROVE  TransferInv'
  <1>1. rx' \in RxCall /\ rx'.step = "err" /\ rx'.got = rx.got
    BY ReceiverBefore, RxMoves DEF RxSteps
  <1>2. back' \in Seq(Backward')
    <2>1. back' \in Seq(Backward)
      BY ReceiverBefore, Cut
    <2> QED
      BY <2>1, BackwardGrows, SeqMonotonic DEF Done
  <1>3. Len(back') = n /\ Len(back) \in Nat /\ (back = << >> => back' = << >>)
    BY ReceiverBefore, SubSeqProperties, LenProperties
  <1>4. InStep'
    BY <1>1, <1>3, ReceiverBefore DEF InStep, Done
  <1>5. InPlace'
    BY <1>1, ReceiverBefore DEF InPlace, FinalIsWhole
  <1> QED
    BY <1>1, <1>2, <1>4, <1>5, ReceiverStep, ReceiverBefore

\* The invariant is inductive.
LEMMA TransferStep == TransferInv /\ [TransferNext]_tvars => TransferInv'
  <1> SUFFICES ASSUME TransferInv, [TransferNext]_tvars PROVE TransferInv'
    BY Zenon
  <1>1. CASE send_file
    <2>1. /\ tx' \in TxCall /\ tx'.step = "hash" /\ rx' \in RxCall /\ rx'.step = "offer" /\ rx'.got = << >>
      <3>1. Len(file) \in Nat
        BY LenProperties DEF TransferInv, TransferTypeOK
      <3> QED
        BY <1>1, <3>1, EmptySeq DEF send_file, TxCall, RxCall, TxSteps, RxSteps
    <2>2. forth' = << >> /\ back' = << >> /\ UNCHANGED <<file, dir, offered>>
      BY <1>1 DEF send_file
    <2>3. TransferTypeOK'
      BY <2>1, <2>2, EmptySeq DEF TransferInv, TransferTypeOK
    <2> QED
      BY <2>1, <2>2, <2>3, Zenon DEF TransferInv, InStep, InPlace, FinalIsWhole
  <1>2. CASE Sending
    BY <1>2, HashChunk, SenderReads, SendChunk, Zenon DEF Sending
  <1>3. CASE Receiving
    BY <1>3, OfferReceived, ChunkReceived, CompleteReceived, Renamed, Acknowledge, Zenon DEF Receiving
  <1>4. CASE read_frame_fails
    <2>0. forth \in Seq(Forward) /\ back \in Seq(Backward)
      BY DEF TransferInv, TransferTypeOK
    <2>1. /\ Len(forth) \in 0 .. Len(forth) /\ forth = SubSeq(forth, 1, Len(forth))
          /\ Len(back) \in 0 .. Len(back) /\ back = SubSeq(back, 1, Len(back))
      BY <2>0, LenProperties, SubSeqProperties, SeqEqual
    <2>2. CASE UNCHANGED rx /\ ~ Over(tx) /\ tx' = [tx EXCEPT !.step = "err"]
      BY <1>4, <2>1, <2>2, SenderFails DEF read_frame_fails, Over
    <2>3. CASE UNCHANGED tx /\ ~ Over(rx) /\ rx' = [rx EXCEPT !.step = "err"]
      BY <1>4, <2>1, <2>3, ReceiverFails DEF read_frame_fails, Over
    <2> QED
      BY <1>4, <2>2, <2>3 DEF read_frame_fails, ends_early
  <1>5. CASE send_fails
    BY <1>5, SenderFails DEF send_fails, Over
  <1>6. CASE receive_fails
    BY <1>6, ReceiverFails, ZenonT(60) DEF receive_fails, Over
  <1>7. CASE Rewritten
    <2>1. file' \in Seq(Chunks)
      <3>1. PICK m \in 0 .. MaxChunks : file' \in [1 .. m -> Chunks]
        BY <1>7 DEF Rewritten, Files
      <3> QED
        BY <3>1, SeqDef
    <2>2. UNCHANGED <<tx, rx, forth, back, dir, offered>>
      BY <1>7 DEF Rewritten
    <2>3. Forward' = Forward /\ Backward' = Backward
      BY <2>2 DEF Forward, Backward
    <2>4. TransferTypeOK'
      BY <2>1, <2>2, <2>3, ZenonT(60) DEF TransferInv, TransferTypeOK
    <2> QED
      BY <2>2, <2>4 DEF TransferInv, InStep, InPlace, FinalIsWhole
  <1>8. CASE UNCHANGED tvars
    <2>1. UNCHANGED <<file, tx, rx, forth, back, dir, offered>>
      BY <1>8 DEF tvars
    <2>2. Forward' = Forward /\ Backward' = Backward
      BY <2>1, Zenon DEF Forward, Backward
    <2>3. TransferTypeOK'
      BY <2>1, <2>2 DEF TransferInv, TransferTypeOK
    <2> QED
      BY <2>1, <2>3 DEF TransferInv, InStep, InPlace, FinalIsWhole
  <1> QED
    BY <1>1, <1>2, <1>3, <1>4, <1>5, <1>6, <1>7, <1>8, Zenon DEF TransferNext

\* Whatever fails, and however the sender's file changes under its two reads: what
\* receive_file leaves under the final name is a file whose digest was offered.
THEOREM FilesAreWhole == TransferSpec => []FinalIsWhole
  <1>1. TransferInv => FinalIsWhole
    BY Zenon DEF TransferInv, InPlace
  <1> QED
    BY <1>1, TransferStart, TransferStep, PTL DEF TransferSpec

\* Whatever fails: send_file returns Ok only when the file it offered is in place.
THEOREM SuccessMeansDelivered == TransferSpec => []SuccessIsDelivered
  <1>1. TransferInv => SuccessIsDelivered
    BY ZenonT(60) DEF TransferInv, InStep, InPlace, SuccessIsDelivered
  <1> QED
    BY <1>1, TransferStart, TransferStep, PTL DEF TransferSpec

------------------------------------------------------------------------------
(* Directory. *)

\* The expiry time of a lease stamped at the given time.
Stamped(at) == (at + offset) \div 2 + LeaseSecs

Rec == [addr : discovered, expires_at : Nat, at : Nat]
Req == [op : {"create", "renew", "addr", "delete"}, id : Nat, addr : discovered, at : Nat, expires_at : Nat]
Up == [step : {"new", "registered", "leaving"}, id : Nat, addr : discovered, due : Nat, ask : {<< >>} \cup {<<q>> : q \in Req}]

DirectoryTypeOK ==
    /\ now \in Nat /\ offset \in Nat /\ misled \in BOOLEAN
    /\ peer \in [step : {"down"}, id : Nat] \cup Up
    /\ recs \in [DOMAIN recs -> Rec]
    /\ leases \in [DOMAIN leases -> [expires_at : Nat, seen_at : Nat]]

\* A request of the peer is about its record, creates it with the address that the peer
\* has, and is as old as its stamp.
AskOK == peer.step # "down" /\ Waits =>
    LET q == peer.ask[1]
    IN  /\ q.id = peer.id /\ q.at <= now /\ q.expires_at = Stamped(q.at)
        /\ q.op = "create" => q.addr = peer.addr
        /\ peer.step = "new" => q.op = "create"

\* Leases are as they were stamped; a sighting is no older than the stamp it is of.
StampsOK ==
    /\ \A i \in DOMAIN recs : recs[i].at <= now /\ recs[i].expires_at = Stamped(recs[i].at)
    /\ \A i \in DOMAIN leases : leases[i].seen_at <= now /\ leases[i].expires_at <= Stamped(leases[i].seen_at)

DirectoryInv == DirectoryTypeOK /\ AskOK /\ StampsOK /\ AddrInSync

------------------------------------------------------------------------------

\* What the database does with a request.
LEMMA ServedFacts ==
  ASSUME DirectoryTypeOK, StampsOK, NEW q \in Req, q.at <= now, q.expires_at = Stamped(q.at), NEW r, r = Served(q)
  PROVE  /\ r \in [DOMAIN r -> Rec]
         /\ \A i \in DOMAIN r : r[i].at <= now /\ r[i].expires_at = Stamped(r[i].at)
         /\ \A i \in DOMAIN r : i # q.id => i \in DOMAIN recs /\ r[i] = recs[i]
         /\ check_response(q) /\ q.op \in {"create", "addr"} /\ q.id \in DOMAIN r => r[q.id].addr = q.addr
         /\ check_response(q) /\ q.op = "renew" /\ q.id \in DOMAIN r => q.id \in DOMAIN recs /\ r[q.id].addr = recs[q.id].addr
         /\ ~ check_response(q) => r = recs
         /\ q.op = "delete" /\ check_response(q) => q.id \notin DOMAIN r
  <1>1. CASE ~ check_response(q)
    BY <1>1, Zenon DEF Served, DirectoryTypeOK, StampsOK
  <1>2. CASE check_response(q) /\ q.op = "delete"
    <2>1. r = Restrict(recs, DOMAIN recs \ {q.id})
      BY <1>2, ZenonT(60) DEF Served
    <2>2. DOMAIN r = DOMAIN recs \ {q.id} /\ \A i \in DOMAIN r : r[i] = recs[i]
      BY <2>1 DEF Restrict
    <2>3. r \in [DOMAIN r -> Rec]
      BY <2>1, <2>2, Zenon DEF Restrict, DirectoryTypeOK
    <2> QED
      BY <1>2, <2>2, <2>3 DEF StampsOK
  <1>3. CASE check_response(q) /\ q.op = "create"
    <2> DEFINE new_rec == [addr |-> q.addr, expires_at |-> q.expires_at, at |-> q.at]
    <2>1. r = [i \in DOMAIN recs \cup {q.id} |-> IF i = q.id THEN new_rec ELSE recs[i]]
      BY <1>3 DEF Served
    <2>2. new_rec \in Rec /\ new_rec.addr = q.addr /\ new_rec.at = q.at /\ new_rec.expires_at = q.expires_at
      BY Zenon DEF Rec, Req
    <2> HIDE DEF new_rec
    <2>3. DOMAIN r = DOMAIN recs \cup {q.id} /\ \A i \in DOMAIN r : r[i] = IF i = q.id THEN new_rec ELSE recs[i]
      BY <2>1
    <2>4. r \in [DOMAIN r -> Rec]
      BY <2>1, <2>2, <2>3, Zenon DEF DirectoryTypeOK
    <2> QED
      BY <1>3, <2>2, <2>3, <2>4 DEF StampsOK
  <1>4. CASE check_response(q) /\ q.op \in {"renew", "addr"}
    <2>1. q.id \in DOMAIN recs
      BY <1>4 DEF check_response
    <2>2. recs[q.id] \in Rec
      BY <2>1, Zenon DEF DirectoryTypeOK
    <2> DEFINE changed == IF q.op = "renew" THEN [addr |-> recs[q.id].addr, expires_at |-> q.expires_at, at |-> q.at]
                          ELSE [addr |-> q.addr, expires_at |-> recs[q.id].expires_at, at |-> recs[q.id].at]
    <2>3. r = [recs EXCEPT ![q.id] = changed]
      <3>1. CASE q.op = "renew"
        <4>1. r = [recs EXCEPT ![q.id].expires_at = q.expires_at, ![q.id].at = q.at]
          BY <1>4, <3>1 DEF Served
        <4> QED
          BY <2>1, <2>2, <3>1, <4>1, Zenon DEF Rec, DirectoryTypeOK
      <3>2. CASE q.op = "addr"
        <4>1. r = [recs EXCEPT ![q.id].addr = q.addr]
          BY <1>4, <3>2, ZenonT(60) DEF Served
        <4> QED
          BY <2>1, <2>2, <3>2, <4>1, Zenon DEF Rec, DirectoryTypeOK
      <3> QED
        BY <1>4, <3>1, <3>2
    <2>4. /\ changed \in Rec /\ changed.at <= now /\ changed.expires_at = Stamped(changed.at)
          /\ changed.addr = IF q.op = "renew" THEN recs[q.id].addr ELSE q.addr
      BY <2>1, <2>2 DEF Rec, Req, StampsOK
    <2> HIDE DEF changed
    <2>5. DOMAIN r = DOMAIN recs /\ \A i \in DOMAIN r : r[i] = IF i = q.id THEN changed ELSE recs[i]
      BY <2>3 DEF DirectoryTypeOK
    <2>6. r \in [DOMAIN r -> Rec]
      BY <2>3, <2>4, <2>5, Zenon DEF DirectoryTypeOK
    <2> QED
      BY <1>4, <2>1, <2>4, <2>5, <2>6, Zenon DEF StampsOK
  <1> QED
    BY <1>1, <1>2, <1>3, <1>4 DEF Req

\* What the peer waits for.
LEMMA AskFacts ==
  ASSUME DirectoryInv, peer.step # "down"
  PROVE  /\ peer \in Up
         /\ Waits => /\ peer.ask[1] \in Req /\ peer.ask[1].id = peer.id /\ peer.ask[1].at <= now
                     /\ peer.ask[1].expires_at = Stamped(peer.ask[1].at)
                     /\ peer.ask[1].op = "create" => peer.ask[1].addr = peer.addr
                     /\ peer.step = "new" => peer.ask[1].op = "create"
  <1>1. peer \in Up
    BY DEF DirectoryInv, DirectoryTypeOK
  <1>2. Waits => peer.ask[1] \in Req
    BY <1>1, SMTT(60) DEF Waits, Up
  <1> QED
    BY <1>1, <1>2 DEF DirectoryInv, AskOK

\* The end of a request, whatever the peer learns of it.
LEMMA Published ==
  ASSUME DirectoryTypeOK, StampsOK, NEW q \in Req, q.at <= now, q.expires_at = Stamped(q.at),
         NEW ok \in BOOLEAN, publish_and_wait(q, ok)
  PROVE  /\ recs' \in [DOMAIN recs' -> Rec] /\ misled' \in BOOLEAN /\ (misled => misled')
         /\ \A i \in DOMAIN recs' : recs'[i].at <= now /\ recs'[i].expires_at = Stamped(recs'[i].at)
         /\ ok /\ q.op \in {"create", "addr"} /\ q.id \in DOMAIN recs' => recs'[q.id].addr = q.addr
         /\ q.id \in DOMAIN recs' /\ ~ misled' /\ (~ ok \/ q.op = "renew") =>
                \/ q.id \in DOMAIN recs /\ recs'[q.id].addr = recs[q.id].addr
                \/ q.op = "create" /\ recs'[q.id].addr = q.addr
  <1> DEFINE r == Served(q)
  <1>1. /\ r \in [DOMAIN r -> Rec]
        /\ \A i \in DOMAIN r : r[i].at <= now /\ r[i].expires_at = Stamped(r[i].at)
        /\ check_response(q) /\ q.op \in {"create", "addr"} /\ q.id \in DOMAIN r => r[q.id].addr = q.addr
        /\ check_response(q) /\ q.op = "renew" /\ q.id \in DOMAIN r => q.id \in DOMAIN recs /\ r[q.id].addr = recs[q.id].addr
        /\ ~ check_response(q) => r = recs
        /\ q.op = "delete" /\ check_response(q) => q.id \notin DOMAIN r
    BY ServedFacts, ZenonT(60)
  <1>2. q.op \in {"create", "renew", "addr", "delete"} /\ misled \in BOOLEAN
    BY DEF Req, DirectoryTypeOK
  <1>3. \/ ok = check_response(q) /\ recs' = r /\ misled' = misled
        \/ ~ ok /\ check_response(q) /\ recs' = r /\ misled' = (misled \/ q.op = "addr")
        \/ ~ ok /\ recs' = recs /\ misled' = misled
    BY DEF publish_and_wait
  <1> HIDE DEF r
  <1>4. CASE ok = check_response(q) /\ recs' = r /\ misled' = misled
    BY <1>1, <1>2, <1>4
  <1>5. CASE ~ ok /\ check_response(q) /\ recs' = r /\ misled' = (misled \/ q.op = "addr")
    BY <1>1, <1>2, <1>5, ZenonT(60)
  <1>6. CASE ~ ok /\ recs' = recs /\ misled' = misled
    BY <1>2, <1>6 DEF DirectoryTypeOK, StampsOK
  <1> QED
    BY <1>3, <1>4, <1>5, <1>6

\* A step of the peer; the lister and the clocks stay as they are.
LEMMA PeerStep ==
  ASSUME DirectoryInv, peer' \in [step : {"down"}, id : Nat] \cup Up, recs' \in [DOMAIN recs' -> Rec],
         \A i \in DOMAIN recs' : recs'[i].at <= now /\ recs'[i].expires_at = Stamped(recs'[i].at),
         misled' \in BOOLEAN, UNCHANGED <<now, offset, leases>>, AskOK', AddrInSync'
  PROVE  DirectoryInv'
  <1>1. DirectoryTypeOK'
    BY DEF DirectoryInv, DirectoryTypeOK
  <1>2. StampsOK'
    BY DEF DirectoryInv, StampsOK, Stamped
  <1> QED
    BY <1>1, <1>2 DEF DirectoryInv

\* Stamps made now.
LEMMA RequestFacts ==
  ASSUME DirectoryTypeOK, NEW op \in {"create", "renew", "addr", "delete"}, NEW id \in Nat, NEW addr \in discovered,
         NEW q, q = Request(op, id, addr)
  PROVE  q \in Req /\ q.op = op /\ q.id = id /\ q.addr = addr /\ q.at <= now /\ q.expires_at = Stamped(q.at)
  <1>1. now \in Nat /\ Stamped(now) \in Nat /\ Expires = Stamped(now) /\ now <= now
    BY DirectoryAssumption, SMTT(60) DEF DirectoryTypeOK, Stamped, Expires, unix_now_secs
  <1> QED
    BY <1>1 DEF Request, Req

\* The peer asks, and nothing else changes.
LEMMA PeerAsks ==
  ASSUME DirectoryInv, peer \in Up, peer' \in Up, NEW q \in Req, peer'.ask = <<q>>, peer'.id = peer.id,
         peer'.step = peer.step, peer'.addr = peer.addr, q.id = peer.id, q.at <= now, q.expires_at = Stamped(q.at),
         q.op = "create" => q.addr = peer.addr, peer.step = "new" => q.op = "create",
         UNCHANGED <<now, offset, recs, leases, misled>>
  PROVE  DirectoryInv'
  <1>1. peer'.ask[1] = q
    BY SMTT(60)
  <1>2. AskOK'
    BY <1>1, Zenon DEF AskOK, Stamped
  <1>3. AddrInSync'
    BY ZenonT(60) DEF DirectoryInv, AddrInSync
  <1>4. /\ recs' \in [DOMAIN recs' -> Rec] /\ misled' \in BOOLEAN
        /\ \A i \in DOMAIN recs' : recs'[i].at <= now /\ recs'[i].expires_at = Stamped(recs'[i].at)
    BY ZenonT(60) DEF DirectoryInv, DirectoryTypeOK, StampsOK
  <1> QED
    BY <1>2, <1>3, <1>4, PeerStep, Zenon

LEMMA NewStep == DirectoryInv /\ new => DirectoryInv'
  <1> SUFFICES ASSUME DirectoryInv, new PROVE DirectoryInv'
    OBVIOUS
  <1>1. peer.id \in Nat /\ UNCHANGED <<now, offset, recs, leases, misled>>
    BY ZenonT(60) DEF DirectoryInv, DirectoryTypeOK, Up, new, lister
  <1>2. peer' \in Up /\ peer'.step = "new" /\ peer'.ask = << >>
    BY <1>1, SMTT(60) DEF new, Up
  <1>3. AskOK' /\ AddrInSync'
    BY <1>2 DEF AskOK, Waits, AddrInSync
  <1> QED
    <2>1. /\ recs' \in [DOMAIN recs' -> Rec] /\ misled' \in BOOLEAN
          /\ \A i \in DOMAIN recs' : recs'[i].at <= now /\ recs'[i].expires_at = Stamped(recs'[i].at)
      BY <1>1, ZenonT(60) DEF DirectoryInv, DirectoryTypeOK, StampsOK
    <2> QED
      BY <1>1, <1>2, <1>3, <2>1, PeerStep, Zenon

LEMMA RegisterStep == DirectoryInv /\ register => DirectoryInv'
  <1> SUFFICES ASSUME DirectoryInv, register PROVE DirectoryInv'
    OBVIOUS
  <1> DEFINE q == register_peer(peer.id, peer.addr)
  <1>1. peer.step = "new" /\ peer' = [peer EXCEPT !.ask = <<q>>] /\ UNCHANGED <<now, offset, recs, leases, misled>>
    BY DEF register, Asks, lister
  <1>2. peer \in Up /\ peer.id \in Nat /\ peer.addr \in discovered /\ DirectoryTypeOK
    BY <1>1, AskFacts DEF Up, DirectoryInv
  <1>3. q \in Req /\ q.op = "create" /\ q.id = peer.id /\ q.addr = peer.addr /\ q.at <= now /\ q.expires_at = Stamped(q.at)
    BY <1>2, RequestFacts DEF register_peer
  <1> HIDE DEF q
  <1>4. /\ peer' \in Up /\ peer'.ask = <<q>> /\ peer'.id = peer.id /\ peer'.step = peer.step /\ peer'.addr = peer.addr
    BY <1>1, <1>2, <1>3 DEF Up
  <1> QED
    BY <1>1, <1>2, <1>3, <1>4, PeerAsks

LEMMA HeartbeatStep == DirectoryInv /\ heartbeat => DirectoryInv'
  <1> SUFFICES ASSUME DirectoryInv, heartbeat PROVE DirectoryInv'
    OBVIOUS
  <1>1. peer.step = "registered" /\ UNCHANGED <<now, offset, recs, leases, misled>>
    BY DEF heartbeat, lister
  <1>2. peer \in Up /\ peer.id \in Nat /\ peer.due \in Nat /\ DirectoryTypeOK
    BY <1>1, AskFacts, Zenon DEF Up, DirectoryInv
  <1>3. PICK found \in discovered :
          LET q == IF found \in {<< >>, peer.addr} THEN renew_lease(peer.id) ELSE update_peer_addr(peer.id, found)
          IN  peer' = [peer EXCEPT !.due = @ + 2 * heartbeat_interval_secs(LeaseSecs), !.ask = <<q>>]
    BY Zenon DEF heartbeat
  <1> DEFINE q == IF found \in {<< >>, peer.addr} THEN renew_lease(peer.id) ELSE update_peer_addr(peer.id, found)
  <1>4. << >> \in discovered
    BY SMTT(60) DEF discovered
  <1>5. q \in Req /\ q.op \in {"renew", "addr"} /\ q.id = peer.id /\ q.at <= now /\ q.expires_at = Stamped(q.at)
    BY <1>2, <1>4, RequestFacts DEF renew_lease, update_peer_addr
  <1>6. peer' = [peer EXCEPT !.due = @ + 2 * heartbeat_interval_secs(LeaseSecs), !.ask = <<q>>]
    BY <1>3
  <1> HIDE DEF q
  <1>7. peer.due + 2 * heartbeat_interval_secs(LeaseSecs) \in Nat
    BY <1>2, DirectoryAssumption DEF heartbeat_interval_secs
  <1>8. peer' \in Up /\ peer'.ask = <<q>> /\ peer'.id = peer.id /\ peer'.step = peer.step /\ peer'.addr = peer.addr
    BY <1>2, <1>5, <1>6, <1>7, Zenon DEF Up
  <1> QED
    BY <1>1, <1>2, <1>5, <1>8, PeerAsks

\* A request ends and the record may have changed.
LEMMA AnswerFacts ==
  ASSUME DirectoryInv, NEW step \in {"new", "registered", "leaving"}, NEW op, NEW ok \in BOOLEAN, Answer(step, op, ok)
  PROVE  /\ DirectoryTypeOK /\ peer \in Up /\ peer.step = step /\ peer.id \in Nat /\ peer.addr \in discovered
         /\ peer.ask[1].op = op /\ peer.ask[1].addr \in discovered
         /\ recs' \in [DOMAIN recs' -> Rec] /\ misled' \in BOOLEAN /\ (misled => misled')
         /\ \A i \in DOMAIN recs' : recs'[i].at <= now /\ recs'[i].expires_at = Stamped(recs'[i].at)
         /\ ok /\ op \in {"create", "addr"} /\ peer.id \in DOMAIN recs' => recs'[peer.id].addr = peer.ask[1].addr
         /\ op = "create" => peer.ask[1].addr = peer.addr
         /\ step = "registered" /\ peer.id \in DOMAIN recs' /\ ~ misled' /\ (~ ok \/ op = "renew") =>
                recs'[peer.id].addr = peer.addr
  <1>1. peer.step = step /\ Waits /\ peer.ask[1].op = op /\ publish_and_wait(peer.ask[1], ok)
    BY DEF Answer, Asked
  <1>2. peer \in Up /\ peer.id \in Nat /\ peer.addr \in discovered /\ peer.step # "down"
    BY <1>1, AskFacts, ZenonT(60) DEF Up
  <1>3. /\ peer.ask[1] \in Req /\ peer.ask[1].id = peer.id /\ peer.ask[1].at <= now
        /\ peer.ask[1].expires_at = Stamped(peer.ask[1].at) /\ (op = "create" => peer.ask[1].addr = peer.addr)
    BY <1>1, <1>2, AskFacts
  <1> DEFINE q == peer.ask[1]
  <1>4. DirectoryTypeOK /\ StampsOK /\ AddrInSync /\ misled \in BOOLEAN
    BY DEF DirectoryInv, DirectoryTypeOK
  <1>5. q.addr \in discovered
    BY <1>3, Zenon DEF Req
  <1>6. /\ recs' \in [DOMAIN recs' -> Rec] /\ misled' \in BOOLEAN /\ (misled => misled')
        /\ \A i \in DOMAIN recs' : recs'[i].at <= now /\ recs'[i].expires_at = Stamped(recs'[i].at)
        /\ ok /\ q.op \in {"create", "addr"} /\ q.id \in DOMAIN recs' => recs'[q.id].addr = q.addr
        /\ q.id \in DOMAIN recs' /\ ~ misled' /\ (~ ok \/ q.op = "renew") =>
               \/ q.id \in DOMAIN recs /\ recs'[q.id].addr = recs[q.id].addr
               \/ q.op = "create" /\ recs'[q.id].addr = q.addr
    BY <1>1, <1>3, <1>4, Published, Zenon
  <1> HIDE DEF q
  <1>7. step = "registered" /\ peer.id \in DOMAIN recs' /\ ~ misled' /\ (~ ok \/ op = "renew") =>
           recs'[peer.id].addr = peer.addr
    BY <1>1, <1>3, <1>4, <1>6, ZenonT(60) DEF AddrInSync, q
  <1> QED
    BY <1>1, <1>2, <1>3, <1>4, <1>5, <1>6, <1>7, ZenonT(60) DEF q

LEMMA RegisteredStep ==
  ASSUME DirectoryInv, NEW ok \in BOOLEAN, registered(ok)
  PROVE  DirectoryInv'
  <1>1. Answer("new", "create", ok) /\ UNCHANGED <<now, offset, leases>>
    BY DEF registered, lister
  <1>2. now + 2 * heartbeat_interval_secs(LeaseSecs) \in Nat
    BY DirectoryAssumption DEF heartbeat_interval_secs, DirectoryInv, DirectoryTypeOK
  <1>3. peer \in Up /\ peer.step = "new"
    BY <1>1, AnswerFacts
  <1>4. /\ peer' \in Up /\ peer'.ask = << >> /\ peer'.id = peer.id /\ peer'.addr = peer.addr
        /\ peer'.step = IF ok THEN "registered" ELSE "new"
    BY <1>2, <1>3, Zenon DEF registered, Up
  <1>5. AskOK'
    BY <1>4 DEF AskOK, Waits
  <1>6. AddrInSync'
    BY <1>1, <1>4, AnswerFacts, SMTT(60) DEF AddrInSync
  <1> QED
    BY <1>1, <1>4, <1>5, <1>6, AnswerFacts, PeerStep

LEMMA AddrUpdatedStep ==
  ASSUME DirectoryInv, NEW ok \in BOOLEAN, addr_updated(ok)
  PROVE  DirectoryInv'
  <1> DEFINE q == renew_lease(peer.id)
  <1>1. Answer("registered", "addr", ok) /\ UNCHANGED <<now, offset, leases>>
    BY DEF addr_updated, lister
  <1>2. << >> \in discovered
    BY Zenon DEF discovered
  <1>3. q \in Req /\ q.op = "renew" /\ q.id = peer.id /\ q.at <= now /\ q.expires_at = Stamped(q.at)
    BY <1>1, <1>2, AnswerFacts, RequestFacts DEF renew_lease
  <1>4. peer' = [peer EXCEPT !.addr = IF ok THEN peer.ask[1].addr ELSE @, !.ask = <<q>>]
    BY DEF addr_updated
  <1> HIDE DEF q
  <1>5. peer \in Up /\ peer.step = "registered" /\ peer.ask[1].addr \in discovered
    BY <1>1, AnswerFacts
  <1>6. /\ peer' \in Up /\ peer'.ask = <<q>> /\ peer'.id = peer.id /\ peer'.step = "registered"
        /\ peer'.addr = IF ok THEN peer.ask[1].addr ELSE peer.addr
    BY <1>3, <1>4, <1>5, ZenonT(60) DEF Up
  <1>7. AskOK'
    <2>1. peer'.ask[1] = q
      BY <1>6
    <2> QED
      BY <1>1, <1>3, <1>6, <2>1 DEF AskOK, Stamped
  <1>8. AddrInSync'
    BY <1>1, <1>6, AnswerFacts DEF AddrInSync
  <1> QED
    BY <1>1, <1>6, <1>7, <1>8, AnswerFacts, PeerStep

LEMMA EnsureRegisteredStep ==
  ASSUME DirectoryInv, NEW ok \in BOOLEAN, ensure_registered(ok)
  PROVE  DirectoryInv'
  <1> DEFINE q == register_peer(peer.id, peer.addr)
  <1>1. PICK op \in {"renew", "create"} :
          /\ Answer("registered", op, ok)
          /\ peer' = [peer EXCEPT !.ask = IF ok \/ op = "create" THEN << >> ELSE <<q>>]
    BY DEF ensure_registered
  <1>2. UNCHANGED <<now, offset, leases>>
    BY DEF ensure_registered, lister
  <1>3. q \in Req /\ q.op = "create" /\ q.id = peer.id /\ q.addr = peer.addr /\ q.at <= now /\ q.expires_at = Stamped(q.at)
    BY <1>1, AnswerFacts, RequestFacts DEF register_peer
  <1> HIDE DEF q
  <1>4. peer \in Up /\ peer.step = "registered"
    BY <1>1, AnswerFacts
  <1>5. /\ peer' \in Up /\ peer'.id = peer.id /\ peer'.step = "registered" /\ peer'.addr = peer.addr
        /\ peer'.ask \in {<< >>, <<q>>}
    BY <1>1, <1>3, <1>4, Zenon DEF Up
  <1>6. AskOK'
    <2>1. peer'.ask # << >> => peer'.ask[1] = q
      BY <1>5
    <2> QED
      BY <1>2, <1>3, <1>5, <2>1 DEF AskOK, Waits, Stamped
  <1>7. AddrInSync'
    BY <1>1, <1>5, AnswerFacts DEF AddrInSync
  <1> QED
    BY <1>1, <1>2, <1>5, <1>6, <1>7, AnswerFacts, PeerStep

\* The peer leaves, whatever becomes of its last request.
LEMMA LeaveStep ==
  ASSUME DirectoryInv, disconnect \/ dropped \/ \E ok \in BOOLEAN : disconnected(ok)
  PROVE  DirectoryInv'
  <1> DEFINE q == deregister_peer(peer.id)
  <1>1. /\ UNCHANGED <<now, offset, leases>> /\ peer.step # "down"
        /\ peer' = Down(peer.id) \/ peer' = [peer EXCEPT !.step = "leaving", !.ask = <<q>>]
    BY Zenon DEF disconnect, dropped, disconnected, Answer, lister
  <1>2. DirectoryTypeOK /\ StampsOK /\ peer \in Up /\ peer.id \in Nat /\ << >> \in discovered
    BY <1>1, AskFacts DEF DirectoryInv, Up, discovered
  <1>3. /\ recs' \in [DOMAIN recs' -> Rec] /\ misled' \in BOOLEAN
        /\ \A i \in DOMAIN recs' : recs'[i].at <= now /\ recs'[i].expires_at = Stamped(recs'[i].at)
    <2>1. CASE \E ok \in BOOLEAN : Waits /\ publish_and_wait(peer.ask[1], ok)
      BY <1>1, <1>2, <2>1, AskFacts, Published, Zenon
    <2>2. CASE UNCHANGED <<recs, misled>>
      BY <1>2, <2>2, ZenonT(60) DEF DirectoryTypeOK, StampsOK
    <2> QED
      BY <2>1, <2>2, Zenon DEF disconnect, dropped, disconnected, Abandoned, Answer, Asked
  <1>4. q \in Req /\ q.op = "delete" /\ q.id = peer.id /\ q.at <= now /\ q.expires_at = Stamped(q.at)
    BY <1>2, RequestFacts DEF deregister_peer
  <1> HIDE DEF q
  <1>5. CASE peer' = Down(peer.id)
    <2>1. peer' \in [step : {"down"}, id : Nat] /\ peer'.step = "down"
      BY <1>2, <1>5, Zenon DEF Down
    <2>2. AskOK' /\ AddrInSync'
      BY <2>1 DEF AskOK, AddrInSync
    <2> QED
      BY <1>1, <1>3, <2>1, <2>2, PeerStep, Zenon
  <1>6. CASE peer' = [peer EXCEPT !.step = "leaving", !.ask = <<q>>]
    <2>1. peer' \in Up /\ peer'.step = "leaving" /\ peer'.ask = <<q>> /\ peer'.id = peer.id
      BY <1>2, <1>4, <1>6, ZenonT(60) DEF Up
    <2>2. peer'.ask[1] = q
      BY <2>1
    <2>3. AskOK' /\ AddrInSync'
      BY <1>1, <1>4, <2>1, <2>2 DEF AskOK, AddrInSync, Stamped
    <2> QED
      BY <1>1, <1>3, <2>1, <2>3, PeerStep
  <1> QED
    BY <1>1, <1>5, <1>6

\* A sighting made now is of a stamp made before.
LEMMA ListStep ==
  ASSUME DirectoryInv, NEW tracked \in SUBSET DOMAIN recs, list_peers(tracked)
  PROVE  DirectoryInv'
  <1>1. /\ leases' = [i \in tracked |-> [expires_at |-> recs[i].expires_at, seen_at |-> seen_at(Kept, i)]]
        /\ UNCHANGED <<now, offset, peer, recs, misled>>
    BY DEF list_peers
  <1>2. now \in Nat /\ offset \in Nat /\ LeaseSecs \in Nat
    BY DirectoryAssumption, Zenon DEF DirectoryInv, DirectoryTypeOK
  <1>3. ASSUME NEW i \in tracked
        PROVE  /\ recs[i].expires_at \in Nat /\ seen_at(Kept, i) \in Nat /\ seen_at(Kept, i) <= now
               /\ recs[i].expires_at <= Stamped(seen_at(Kept, i))
    <2>1. recs[i] \in Rec /\ recs[i].at <= now /\ recs[i].expires_at = Stamped(recs[i].at)
      BY Zenon DEF DirectoryInv, DirectoryTypeOK, StampsOK
    <2>2. CASE seen_at(Kept, i) = now
      BY <1>2, <2>1, <2>2 DEF Stamped, Rec
    <2>3. CASE seen_at(Kept, i) # now
      <3>1. i \in DOMAIN Kept /\ Kept[i].expires_at = recs[i].expires_at /\ seen_at(Kept, i) = Kept[i].seen_at
        BY <2>3, ZenonT(60) DEF seen_at
      <3>2. i \in DOMAIN leases /\ Kept[i] = leases[i]
        BY <3>1 DEF Kept, Restrict
      <3>3. leases[i].seen_at \in Nat /\ leases[i].seen_at <= now /\ leases[i].expires_at <= Stamped(leases[i].seen_at)
        BY <3>2, Zenon DEF DirectoryInv, DirectoryTypeOK, StampsOK
      <3> QED
        BY <2>1, <3>1, <3>2, <3>3, Zenon DEF Rec
    <2> QED
      BY <2>2, <2>3, Zenon
  <1>4. leases' \in [DOMAIN leases' -> [expires_at : Nat, seen_at : Nat]]
    BY <1>1, <1>3, ZenonT(60)
  <1>5. StampsOK'
    BY <1>1, <1>3 DEF DirectoryInv, StampsOK, Stamped
  <1>6. DirectoryTypeOK'
    BY <1>1, <1>4, ZenonT(60) DEF DirectoryInv, DirectoryTypeOK
  <1>7. AskOK' /\ AddrInSync'
    BY <1>1 DEF DirectoryInv, AskOK, AddrInSync, Waits, Stamped
  <1> QED
    BY <1>5, <1>6, <1>7, ZenonT(60) DEF DirectoryInv

\* Time passes: a stamp is only older.
LEMMA TickStep == DirectoryInv /\ Tick => DirectoryInv'
  <1> SUFFICES ASSUME DirectoryInv, Tick PROVE DirectoryInv'
    OBVIOUS
  <1>1. now \in Nat /\ now' = now + 1 /\ UNCHANGED <<offset, peer, recs, leases, misled>>
    BY DEF DirectoryInv, DirectoryTypeOK, Tick, lister
  <1>2. DirectoryTypeOK'
    BY <1>1, SMTT(60) DEF DirectoryInv, DirectoryTypeOK
  <1>3. StampsOK'
    <2>1. /\ \A i \in DOMAIN recs : recs[i].at \in Nat /\ recs[i].at <= now
          /\ \A i \in DOMAIN leases : leases[i].seen_at \in Nat /\ leases[i].seen_at <= now
      BY ZenonT(60) DEF DirectoryInv, DirectoryTypeOK, StampsOK, Rec
    <2> QED
      BY <1>1, <2>1 DEF DirectoryInv, StampsOK, Stamped
  <1>4. AskOK'
    <2>1. peer.step # "down" /\ Waits => peer.ask[1].at \in Nat /\ peer.ask[1].at <= now
      BY AskFacts, Zenon DEF Req
    <2> QED
      BY <1>1, <2>1 DEF DirectoryInv, AskOK, Waits, Stamped
  <1>5. AddrInSync'
    BY <1>1 DEF DirectoryInv, AddrInSync
  <1> QED
    BY <1>2, <1>3, <1>4, <1>5, SMTT(60) DEF DirectoryInv

\* A record goes.
LEMMA ReapStep ==
  ASSUME DirectoryInv, NEW id \in DOMAIN recs, Reaps(id)
  PROVE  DirectoryInv'
  <1>1. recs' = Restrict(recs, DOMAIN recs \ {id}) /\ UNCHANGED <<now, offset, peer, leases, misled>>
    BY DEF Reaps, lister
  <1>2. DOMAIN recs' = DOMAIN recs \ {id} /\ \A i \in DOMAIN recs' : recs'[i] = recs[i]
    BY <1>1 DEF Restrict
  <1>3. recs' \in [DOMAIN recs' -> Rec]
    BY <1>1, <1>2 DEF Restrict, DirectoryInv, DirectoryTypeOK
  <1>4. AskOK' /\ AddrInSync'
    BY <1>1, <1>2, ZenonT(60) DEF DirectoryInv, AskOK, AddrInSync, Waits, Stamped
  <1> QED
    BY <1>1, <1>2, <1>3, <1>4, PeerStep, ZenonT(60) DEF DirectoryInv, DirectoryTypeOK, StampsOK

LEMMA DirectoryStart == DirectoryInit => DirectoryInv
  <1> SUFFICES ASSUME DirectoryInit PROVE DirectoryInv
    OBVIOUS
  <1>1. DOMAIN recs = {} /\ DOMAIN leases = {}
    BY DEF DirectoryInit
  <1>2. recs \in [DOMAIN recs -> Rec] /\ leases \in [DOMAIN leases -> [expires_at : Nat, seen_at : Nat]]
    BY <1>1 DEF DirectoryInit
  <1>3. DirectoryTypeOK
    BY <1>2, DirectoryAssumption, ZenonT(60) DEF DirectoryInit, DirectoryTypeOK, Down
  <1> QED
    BY <1>1, <1>3 DEF DirectoryInit, DirectoryInv, AskOK, StampsOK, AddrInSync, Down

\* The invariant is inductive.
LEMMA DirectoryStep == DirectoryInv /\ [DirectoryNext]_dvars => DirectoryInv'
  <1> SUFFICES ASSUME DirectoryInv, [DirectoryNext]_dvars PROVE DirectoryInv'
    OBVIOUS
  <1>1. CASE Beats
    BY <1>1, RegisteredStep, AddrUpdatedStep, EnsureRegisteredStep, LeaveStep, ZenonT(60) DEF Beats
  <1>2. CASE track_presence \/ UNCHANGED dvars
    <2>1. UNCHANGED <<now, offset, peer, recs, leases, misled>>
      BY <1>2, ZenonT(60) DEF track_presence, dvars
    <2>2. AskOK' /\ AddrInSync'
      BY <2>1 DEF DirectoryInv, AskOK, AddrInSync, Waits, Stamped
    <2> QED
      BY <2>1, <2>2, PeerStep DEF DirectoryInv, DirectoryTypeOK, StampsOK
  <1> QED
    BY <1>1, <1>2, NewStep, RegisterStep, HeartbeatStep, LeaveStep, ListStep, TickStep, ReapStep, ZenonT(60) DEF DirectoryNext

\* Whatever becomes of updates and however often the record is reaped and created again:
\* the address in the record is the one the heartbeat task compares with, unless an
\* update was served that the peer takes for failed.
THEOREM AddressesAgree == DirectorySpec => []AddrInSync
  <1>1. DirectoryInv => AddrInSync
    BY Zenon DEF DirectoryInv
  <1> QED
    BY <1>1, DirectoryStart, DirectoryStep, PTL DEF DirectorySpec

\* Two stamps that show the same expiry time are at most half a second apart.
LEMMA LeaseIsLive ==
  ASSUME DirectoryInv, NEW tracked \in SUBSET DOMAIN recs, NEW id \in DOMAIN recs,
         now - recs[id].at < 2 * (LeaseSecs - 1), id \in tracked \/ offset = Offset
  PROVE  lease_is_live(Kept, tracked, id)
  <1>1. /\ now \in Nat /\ offset \in Nat /\ LeaseSecs \in Nat
        /\ recs[id].at \in Nat /\ recs[id].at <= now /\ recs[id].expires_at = Stamped(recs[id].at)
    BY DirectoryAssumption DEF DirectoryInv, DirectoryTypeOK, StampsOK, Rec
  <1>2. CASE id \in tracked
    <2>1. CASE seen_at(Kept, id) = now
      <3>1. 0 < 2 * LeaseSecs
        BY <1>1, SMTT(60)
      <3> QED
        BY <1>1, <1>2, <2>1, <3>1, SMTT(60) DEF lease_is_live
    <2>2. CASE seen_at(Kept, id) # now
      <3>1. id \in DOMAIN Kept /\ Kept[id].expires_at = recs[id].expires_at /\ seen_at(Kept, id) = Kept[id].seen_at
        BY <2>2, ZenonT(60) DEF seen_at
      <3>2. id \in DOMAIN leases /\ Kept[id] = leases[id]
        BY <3>1 DEF Kept, Restrict
      <3>3. leases[id].seen_at \in Nat /\ leases[id].expires_at <= Stamped(leases[id].seen_at)
        BY <3>2, ZenonT(60) DEF DirectoryInv, DirectoryTypeOK, StampsOK
      <3>4. recs[id].at <= leases[id].seen_at + 1
        BY <1>1, <3>1, <3>2, <3>3, SMTT(60) DEF Stamped
      <3>5. now - leases[id].seen_at < 2 * LeaseSecs
        BY <1>1, <3>3, <3>4, SMTT(60)
      <3> QED
        BY <1>2, <3>1, <3>2, <3>5, Zenon DEF lease_is_live
    <2> QED
      BY <2>1, <2>2, ZenonT(60)
  <1>3. CASE id \notin tracked
    <2>1. Stamped(recs[id].at) > (now + offset) \div 2
      BY <1>1 DEF Stamped
    <2> QED
      BY <1>1, <1>3, <2>1, ZenonT(60) DEF lease_is_live, peer_is_live, unix_now_secs
  <1> QED
    BY <1>2, <1>3, ZenonT(60)

\* However far the peer's clock is off, list_peers returns a peer that it does not
\* believe to have left and whose lease was stamped less than a second short of the
\* lease ago; where the table of sightings is full, if the clocks agree.
THEOREM LeasesAreHonoured == DirectorySpec => LeaseHonoured
  <1> DEFINE Honoured ==
        \A tracked \in SUBSET DOMAIN recs :
           list_peers(tracked) =>
               \A id \in DOMAIN recs :
                   /\ ~ departed /\ now - recs[id].at < 2 * (LeaseSecs - 1)
                   /\ id \in tracked \/ offset = Offset
                   => id \in peers(tracked)
  <1>1. DirectoryInv => Honoured
    BY LeaseIsLive DEF peers
  <1> QED
    BY <1>1, DirectoryStart, DirectoryStep, PTL DEF DirectorySpec, LeaseHonoured

------------------------------------------------------------------------------
(* Pairing. *)

\* SPAKE2 messages, as start makes them.
Start == [side : {"A", "B"}, n : Nat, code : SixDigits, owner : {Owner}, device : Devices]

\* What owner and device learn from an exchange.
OwnerEntry(d, a, b) == [by |-> Owner, peer |-> d, text |-> transcript(Owner, d, a, b)]
DeviceEntry(d, a, b) == [by |-> d, peer |-> Owner, text |-> transcript(Owner, d, a, b)]

\* The tags that confirm it.
DeviceTag(d, a, b) == compute_mac(<<"confirm:device", finish_spake(a, b, "B")>>, transcript(Owner, d, a, b))
OwnerTag(d, a, b, side) == compute_mac(<<"confirm:owner", finish_spake(a, b, side)>>, transcript(Owner, d, a, b))

\* A message is as start, receive or confirm makes it; the owner confirms what it has accepted.
DeviceConfirms(m) == \E d \in Devices, a \in Start, b \in Start : m.body = DeviceTag(d, a, b)
OwnerConfirms(m) ==
    \E d \in Devices, a \in Start, b \in Start : m.body = OwnerTag(d, a, b, "A") /\ OwnerEntry(d, a, b) \in learned
MessageOK(m) ==
    \/ m.kind \in {"hello", "reply"} /\ m.body \in Start
    \/ m.kind = "device_confirm" /\ DeviceConfirms(m)
    \/ m.kind = "owner_confirm" /\ OwnerConfirms(m)

FlightsOK == \A m \in flights : MessageOK(m)

\* OwnerConfirm and DeviceConfirm as accept and receive make them.
OwnerWith(d, a, b) ==
    [step |-> "confirm", keys |-> derive_confirm_keys(finish_spake(a, b, "A")), device |-> d,
     text |-> transcript(Owner, d, a, b)]
DeviceWith(d, a, b) ==
    [step |-> "confirm", key |-> <<"confirm:owner", finish_spake(a, b, "B")>>, text |-> transcript(Owner, d, a, b)]

OwnerOK ==
    \/ owner = IdleParty
    \/ owner.step = "offer" /\ owner.code \in SixDigits
    \/ \E d \in Devices, a \in Start, b \in Start : a.device = d /\ a.n = offers /\ owner = OwnerWith(d, a, b)

DeviceOK(d) ==
    \/ device[d] = IdleParty
    \/ device[d].step = "begun" /\ device[d].b \in Start
    \/ \E a, b \in Start : device[d] = DeviceWith(d, a, b)
DevicesOK == \A d \in Devices : DeviceOK(d)

\* An entry of the owner is of an exchange in which both used one code; that of a
\* device has one of the owner beside it.
LearnedAs(l, d, a, b) ==
    /\ a.code = b.code /\ b.device = d /\ a.n <= offers
    /\ l = OwnerEntry(d, a, b) \/ (l = DeviceEntry(d, a, b) /\ OwnerEntry(d, a, b) \in learned)
LearnedOK == \A l \in learned : \E d \in Devices, a \in Start, b \in Start : LearnedAs(l, d, a, b)

\* The owner has accepted nobody yet for the offer under way, and one at most for others.
OncePerOffer ==
    /\ owner.step \in {"offer", "confirm"} => \A l \in learned : l.by = Owner => l.text[3].n < offers
    /\ \A k, l \in learned : k.by = Owner /\ l.by = Owner /\ k.text[3].n = l.text[3].n => k = l

PairingInv ==
    /\ offers \in Nat /\ tries \in Nat /\ device = [d \in Devices |-> device[d]]
    /\ FlightsOK /\ OwnerOK /\ DevicesOK /\ LearnedOK /\ OncePerOffer

------------------------------------------------------------------------------

\* The fields of a transcript.
LEMMA TranscriptFields ==
  ASSUME NEW o, NEW d, NEW a, NEW b
  PROVE  /\ transcript(o, d, a, b)[2] = d /\ transcript(o, d, a, b)[3] = a /\ transcript(o, d, a, b)[4] = b
  BY DEF transcript

\* What a device that waits for the owner's tag keeps.
LEMMA DeviceFields ==
  ASSUME NEW d, NEW a, NEW b
  PROVE  /\ DeviceWith(d, a, b).text = transcript(Owner, d, a, b)
         /\ DeviceWith(d, a, b).key = <<"confirm:owner", finish_spake(a, b, "B")>>
  BY DEF DeviceWith

\* A transcript and a tag say what they were made of.
LEMMA TranscriptsDiffer ==
  ASSUME NEW d, NEW a, NEW b, NEW e, NEW x, NEW y, transcript(Owner, d, a, b) = transcript(Owner, e, x, y)
  PROVE  d = e /\ a = x /\ b = y
  BY DEF transcript

LEMMA MacsDiffer ==
  ASSUME NEW k, NEW t, NEW l, NEW u, compute_mac(k, t) = compute_mac(l, u)
  PROVE  k = l /\ t = u
  BY DEF compute_mac

\* The two sides have the same secret only if they used the same code and keys.
LEMMA SameSecret ==
  ASSUME NEW a \in Start, NEW b \in Start, finish_spake(a, b, "A") = finish_spake(a, b, "B")
  PROVE  a.code = b.code /\ a.device = b.device
  <1>1. [a EXCEPT !.side = "", !.n = 0] = [b EXCEPT !.side = "", !.n = 0]
    BY DEF finish_spake
  <1>2. /\ [a EXCEPT !.side = "", !.n = 0].code = a.code /\ [a EXCEPT !.side = "", !.n = 0].device = a.device
        /\ [b EXCEPT !.side = "", !.n = 0].code = b.code /\ [b EXCEPT !.side = "", !.n = 0].device = b.device
    BY DEF Start
  <1> QED
    BY <1>1, <1>2, ZenonT(60)

\* A tag of the device is none of the owner's.
LEMMA KeysDiffer ==
  ASSUME NEW s, NEW t
  PROVE  <<"confirm:device", s>> # <<"confirm:owner", t>>
  BY ZenonT(60)

LEMMA PairingStart == PairingInit => PairingInv
  BY DEF PairingInit, PairingInv, FlightsOK, OwnerOK, DevicesOK, DeviceOK, LearnedOK, OncePerOffer, IdleParty

\* Messages stay what they were; one more may be added.
LEMMA FlightsGrow ==
  ASSUME FlightsOK, learned \subseteq learned', NEW f \in flights
  PROVE  MessageOK(f)'
  <1>1. MessageOK(f)
    BY DEF FlightsOK
  <1>2. OwnerConfirms(f) => OwnerConfirms(f)'
    BY DEF OwnerConfirms
  <1>3. DeviceConfirms(f)' = DeviceConfirms(f)
    BY DEF DeviceConfirms
  <1> QED
    BY <1>1, <1>2, <1>3 DEF MessageOK

LEMMA FlightsStep ==
  ASSUME FlightsOK, learned \subseteq learned', NEW m, MessageOK(m)', flights' = flights \/ flights' = flights \cup {m}
  PROVE  FlightsOK'
  BY FlightsGrow, ZenonT(60) DEF FlightsOK

\* A message of a device's attempt.
LEMMA StartFacts ==
  ASSUME NEW side \in {"A", "B"}, NEW n \in Nat, NEW code \in SixDigits, NEW d \in Devices,
         NEW a, a = start(side, n, code, Owner, d)
  PROVE  a \in Start /\ a.n = n /\ a.device = d
  BY DEF Start, start

LEMMA MessageFields ==
  ASSUME NEW kind, NEW from, NEW body, NEW m, m = Message(kind, from, body)
  PROVE  m.kind = kind /\ m.body = body
  BY DEF Message

\* What a step does not touch stays as it was.
LEMMA OwnerKeeps == OwnerOK /\ UNCHANGED <<owner, offers>> => OwnerOK'
  BY Zenon DEF OwnerOK
LEMMA DevicesKeep == DevicesOK /\ UNCHANGED device => DevicesOK'
  BY Zenon DEF DevicesOK, DeviceOK
LEMMA LearnedKeeps == LearnedOK /\ UNCHANGED <<learned, offers>> => LearnedOK'
  BY SMTT(60) DEF LearnedOK, LearnedAs
LEMMA OnceKeeps == OncePerOffer /\ UNCHANGED <<owner, learned, offers>> => OncePerOffer'
  BY DEF OncePerOffer

\* Later entries leave the earlier ones justified.
LEMMA LearnedGrows ==
  ASSUME PairingInv, learned \subseteq learned', offers' \in Nat, offers <= offers', NEW l \in learned
  PROVE  \E d \in Devices, a \in Start, b \in Start : LearnedAs(l, d, a, b)'
  <1>1. PICK d \in Devices, a \in Start, b \in Start : LearnedAs(l, d, a, b)
    BY Zenon DEF PairingInv, LearnedOK
  <1>2. a.n \in Nat /\ offers \in Nat
    BY DEF Start, PairingInv
  <1>3. LearnedAs(l, d, a, b)'
    BY <1>1, <1>2, SMTT(60) DEF LearnedAs
  <1> QED
    BY <1>3

\* The message of an entry's owner.
LEMMA EntryFacts ==
  ASSUME PairingInv, NEW l \in learned
  PROVE  l.text[3].n \in Nat /\ l.text[3].n <= offers
  <1>1. PICK d \in Devices, a \in Start, b \in Start : LearnedAs(l, d, a, b)
    BY ZenonT(60) DEF PairingInv, LearnedOK
  <1>2. l.text = transcript(Owner, d, a, b)
    BY <1>1, SMTT(60) DEF LearnedAs, OwnerEntry, DeviceEntry
  <1>3. l.text[3] = a
    BY <1>2, TranscriptFields
  <1> QED
    BY <1>1, <1>3 DEF LearnedAs, Start

LEMMA OfferStep == PairingInv /\ PairingOffer_new => PairingInv'
  <1> SUFFICES ASSUME PairingInv, PairingOffer_new PROVE PairingInv'
    OBVIOUS
  <1>1. offers \in Nat /\ offers' = offers + 1 /\ UNCHANGED <<device, flights, learned, tries>>
    BY DEF PairingInv, PairingOffer_new
  <1>2. owner'.step = "offer" /\ owner'.code \in SixDigits
    BY DEF PairingOffer_new
  <1>3. FlightsOK'
    BY <1>1 DEF PairingInv, FlightsOK, MessageOK, DeviceConfirms, OwnerConfirms
  <1>4. OwnerOK'
    BY <1>2 DEF OwnerOK
  <1>5. LearnedOK'
    BY <1>1, LearnedGrows, SMTT(60) DEF LearnedOK
  <1>6. OncePerOffer'
    BY <1>1, EntryFacts, SMTT(60) DEF PairingInv, OncePerOffer
  <1> QED
    BY <1>1, <1>3, <1>4, <1>5, <1>6, DevicesKeep, SMTT(60) DEF PairingInv

\* A step of a device, which others do not see before they get its message.
LEMMA DeviceStep ==
  ASSUME PairingInv, NEW d \in Devices, NEW p, device' = [device EXCEPT ![d] = p],
         p = IdleParty \/ (p.step = "begun" /\ p.b \in Start) \/ \E a, b \in Start : p = DeviceWith(d, a, b)
  PROVE  device' = [e \in Devices |-> device'[e]] /\ DevicesOK'
  <1>1. device' = [e \in Devices |-> device'[e]] /\ \A e \in Devices : device'[e] = IF e = d THEN p ELSE device[e]
    BY Zenon DEF PairingInv
  <1>2. ASSUME NEW e \in Devices PROVE DeviceOK(e)'
    <2>1. DeviceOK(e)
      BY DEF PairingInv, DevicesOK
    <2>2. CASE e = d
      BY <1>1, <2>2, Zenon DEF DeviceOK
    <2>3. CASE e # d
      BY <1>1, <2>1, <2>3, ZenonT(60) DEF DeviceOK
    <2> QED
      BY <2>2, <2>3
  <1> QED
    BY <1>1, <1>2 DEF DevicesOK

LEMMA BeginStep ==
  ASSUME PairingInv, NEW d \in Devices, NEW code, begin(d, code)
  PROVE  PairingInv'
  <1> DEFINE b == start("B", tries', code, Owner, d)
             m == Message("hello", d, b)
             p == [step |-> "begun", b |-> b]
  <1>1. /\ tries \in Nat /\ tries' = tries + 1 /\ code \in SixDigits /\ UNCHANGED <<owner, learned, offers>>
        /\ device' = [device EXCEPT ![d] = p] /\ flights' = flights \cup {m}
    BY ZenonT(60) DEF PairingInv, begin, parse
  <1>2. b \in Start
    BY <1>1, StartFacts, SMTT(60)
  <1>3. m.kind = "hello" /\ m.body = b /\ p.step = "begun" /\ p.b = b
    BY MessageFields
  <1> HIDE DEF b, m, p
  <1>4. FlightsOK'
    BY <1>1, <1>2, <1>3, FlightsStep, Zenon DEF PairingInv, MessageOK
  <1>5. device' = [e \in Devices |-> device'[e]] /\ DevicesOK'
    BY <1>1, <1>2, <1>3, DeviceStep, Zenon
  <1>6. OwnerOK' /\ LearnedOK' /\ OncePerOffer'
    BY <1>1, OwnerKeeps, LearnedKeeps, OnceKeeps, Zenon DEF PairingInv
  <1> QED
    BY <1>1, <1>4, <1>5, <1>6, SMTT(60) DEF PairingInv

LEMMA AcceptStep ==
  ASSUME PairingInv, NEW d \in Devices, NEW m \in flights, accept(d, m)
  PROVE  PairingInv'
  <1> DEFINE a == start("A", offers, owner.code, Owner, d)
             r == Message("reply", Owner, a)
  <1>1. /\ owner.step = "offer" /\ m.kind = "hello" /\ UNCHANGED <<device, learned, offers, tries>>
        /\ \/ owner' = IdleParty /\ flights' = flights
           \/ owner' = OwnerWith(d, a, m.body) /\ flights' = flights \cup {r}
    BY Zenon DEF accept, OwnerWith
  <1>2. m.body \in Start
    BY <1>1, ZenonT(60) DEF PairingInv, FlightsOK, MessageOK
  <1>3. offers \in Nat /\ owner.code \in SixDigits
    BY <1>1 DEF PairingInv, OwnerOK, IdleParty, OwnerWith
  <1>4. a \in Start /\ a.device = d /\ a.n = offers
    BY <1>3, StartFacts, SMTT(60)
  <1>5. r.kind = "reply" /\ r.body = a
    BY MessageFields
  <1> HIDE DEF a, r
  <1>6. FlightsOK'
    BY <1>1, <1>4, <1>5, FlightsStep, ZenonT(60) DEF PairingInv, MessageOK
  <1>7. OwnerOK'
    BY <1>1, <1>2, <1>4, Zenon DEF OwnerOK
  <1>8. OncePerOffer'
    BY <1>1, Zenon DEF PairingInv, OncePerOffer, IdleParty
  <1> QED
    BY <1>1, <1>6, <1>7, <1>8, DevicesKeep, LearnedKeeps, ZenonT(60) DEF PairingInv

LEMMA ReceiveStep ==
  ASSUME PairingInv, NEW d \in Devices, NEW m \in flights, receive(d, m)
  PROVE  PairingInv'
  <1> DEFINE b == device[d].b
             r == Message("device_confirm", d, DeviceTag(d, m.body, b))
  <1>1. /\ device[d].step = "begun" /\ m.kind = "reply" /\ UNCHANGED <<owner, learned, offers, tries>>
        /\ device' = [device EXCEPT ![d] = DeviceWith(d, m.body, b)] /\ flights' = flights \cup {r}
    BY ZenonT(60) DEF receive, derive_confirm_keys, DeviceTag, DeviceWith
  <1>2. m.body \in Start
    BY <1>1, ZenonT(60) DEF PairingInv, FlightsOK, MessageOK
  <1>3. b \in Start
    BY <1>1 DEF PairingInv, DevicesOK, DeviceOK, IdleParty, DeviceWith
  <1>4. PICK f : f = r /\ f.kind = "device_confirm" /\ f.body = DeviceTag(d, m.body, b)
    BY MessageFields, SMTT(60)
  <1> HIDE DEF b, r
  <1>5. FlightsOK'
    <2>1. DeviceConfirms(f)
      BY <1>2, <1>3, <1>4, Zenon DEF DeviceConfirms
    <2>2. MessageOK(f)'
      BY <1>4, <2>1, Zenon DEF MessageOK, DeviceConfirms
    <2> QED
      BY <1>1, <1>4, <2>2, FlightsStep, ZenonT(60) DEF PairingInv
  <1>6. device' = [e \in Devices |-> device'[e]] /\ DevicesOK'
    BY <1>1, <1>2, <1>3, DeviceStep, ZenonT(60)
  <1>7. OwnerOK' /\ LearnedOK' /\ OncePerOffer'
    BY <1>1, OwnerKeeps, LearnedKeeps, OnceKeeps, Zenon DEF PairingInv
  <1> QED
    BY <1>1, <1>5, <1>6, <1>7, ZenonT(60) DEF PairingInv

LEMMA ConfirmStep ==
  ASSUME PairingInv, NEW m \in flights, confirm(m)
  PROVE  PairingInv'
  <1>1. owner.step = "confirm" /\ m.kind = "device_confirm" /\ owner' = IdleParty /\ UNCHANGED <<device, offers, tries>>
    BY Zenon DEF confirm
  <1>2. PICK d \in Devices, a \in Start, b \in Start : a.device = d /\ a.n = offers /\ owner = OwnerWith(d, a, b)
    BY <1>1 DEF PairingInv, OwnerOK, IdleParty
  <1>3. PICK e \in Devices, x \in Start, y \in Start : m.body = DeviceTag(e, x, y)
    BY <1>1, Zenon DEF PairingInv, FlightsOK, MessageOK, DeviceConfirms
  <1>4. /\ owner.device = d /\ owner.text = transcript(Owner, d, a, b)
        /\ owner.keys.device = <<"confirm:device", finish_spake(a, b, "A")>>
        /\ owner.keys.owner = <<"confirm:owner", finish_spake(a, b, "A")>>
    BY <1>2, Zenon DEF OwnerWith, derive_confirm_keys
  <1> DEFINE r == Message("owner_confirm", Owner, OwnerTag(d, a, b, "A"))
  <1>5. OwnerOK'
    BY <1>1 DEF OwnerOK
  <1>6. CASE UNCHANGED <<flights, learned>>
    <2>1. FlightsOK'
      BY <1>6, Zenon DEF PairingInv, FlightsOK, MessageOK, DeviceConfirms, OwnerConfirms
    <2>2. OncePerOffer'
      BY <1>1, <1>6, Zenon DEF PairingInv, OncePerOffer, IdleParty
    <2> QED
      BY <1>1, <1>5, <1>6, <2>1, <2>2, DevicesKeep, LearnedKeeps, ZenonT(60) DEF PairingInv
  <1>7. CASE /\ verify_mac(owner.keys.device, owner.text, m.body)
             /\ flights' = flights \cup {Message("owner_confirm", Owner, compute_mac(owner.keys.owner, owner.text))}
             /\ learned' = learned \cup {[by |-> Owner, peer |-> owner.device, text |-> owner.text]}
    <2>1. flights' = flights \cup {r} /\ learned' = learned \cup {OwnerEntry(d, a, b)}
      BY <1>4, <1>7, ZenonT(60) DEF OwnerTag, OwnerEntry
    <2>2. /\ <<"confirm:device", finish_spake(x, y, "B")>> = <<"confirm:device", finish_spake(a, b, "A")>>
          /\ transcript(Owner, e, x, y) = transcript(Owner, d, a, b)
      <3> DEFINE k == <<"confirm:device", finish_spake(x, y, "B")>>
                 l == <<"confirm:device", finish_spake(a, b, "A")>>
                 t == transcript(Owner, e, x, y)
                 u == transcript(Owner, d, a, b)
      <3>1. compute_mac(k, t) = compute_mac(l, u)
        BY <1>3, <1>4, <1>7, ZenonT(60) DEF verify_mac, DeviceTag
      <3> HIDE DEF k, l, t, u
      <3>2. k = l /\ t = u
        BY <3>1, MacsDiffer, SMTT(60)
      <3> QED
        BY <3>2, Zenon DEF k, l, t, u
    <2>3. e = d /\ x = a /\ y = b
      BY <2>2, TranscriptsDiffer
    <2>4. finish_spake(a, b, "A") = finish_spake(a, b, "B")
      BY <2>2, <2>3, Zenon
    <2>5. a.code = b.code /\ b.device = d
      BY <1>2, <2>4, SameSecret, Zenon
    <2>6. r.kind = "owner_confirm" /\ r.body = OwnerTag(d, a, b, "A")
      BY MessageFields
    <2> HIDE DEF r
    <2>7. FlightsOK'
      <3>1. OwnerConfirms(r)'
        BY <2>1, <2>6, Zenon DEF OwnerConfirms
      <3>2. MessageOK(r)'
        BY <2>6, <3>1 DEF MessageOK
      <3> QED
        BY <2>1, <3>2, FlightsStep, Zenon DEF PairingInv
    <2>8. LearnedOK'
      <3>1. LearnedAs(OwnerEntry(d, a, b), d, a, b)'
        BY <1>1, <1>2, <2>5 DEF LearnedAs, PairingInv
      <3>2. offers \in Nat /\ offers' = offers
        BY <1>1, Zenon DEF PairingInv
      <3>3. offers' \in Nat /\ offers <= offers'
        BY <3>2, SMTT(60)
      <3> QED
        BY <2>1, <3>1, <3>3, LearnedGrows, Zenon DEF LearnedOK
    <2>9. OncePerOffer'
      <3>1. OwnerEntry(d, a, b).text[3].n = offers
        <4>1. OwnerEntry(d, a, b).text = transcript(Owner, d, a, b)
          BY Zenon DEF OwnerEntry
        <4> QED
          BY <1>2, <4>1, TranscriptFields, SMTT(60)
      <3>2. \A l \in learned : l.by = Owner => l.text[3].n < offers /\ l.text[3].n \in Nat
        BY <1>1, EntryFacts, Zenon DEF PairingInv, OncePerOffer
      <3>3. offers \in Nat
        BY Zenon DEF PairingInv
      <3> QED
        BY <1>1, <2>1, <3>1, <3>2, <3>3, SMTT(60) DEF PairingInv, OncePerOffer, IdleParty
    <2> QED
      BY <1>1, <1>5, <2>7, <2>8, <2>9, DevicesKeep, ZenonT(60) DEF PairingInv
  <1> QED
    BY <1>6, <1>7, Zenon DEF confirm

LEMMA FinishStep ==
  ASSUME PairingInv, NEW d \in Devices, NEW m \in flights, finish(d, m)
  PROVE  PairingInv'
  <1>1. /\ device[d].step = "confirm" /\ m.kind \in {"owner_confirm", "device_confirm"}
        /\ device' = [device EXCEPT ![d] = IdleParty] /\ UNCHANGED <<owner, flights, offers, tries>>
    BY Zenon DEF finish
  <1>2. PICK a \in Start, b \in Start : device[d] = DeviceWith(d, a, b)
    <2>1. DeviceOK(d)
      BY Zenon DEF PairingInv, DevicesOK
    <2>2. device[d] # IdleParty /\ device[d].step # "begun"
      BY <1>1 DEF IdleParty
    <2> QED
      BY <2>1, <2>2, Zenon DEF DeviceOK
  <1>3. device[d].text = transcript(Owner, d, a, b) /\ device[d].key = <<"confirm:owner", finish_spake(a, b, "B")>>
    BY <1>2, DeviceFields, Zenon
  <1>4. device' = [e \in Devices |-> device'[e]] /\ DevicesOK'
    BY <1>1, DeviceStep, ZenonT(60)
  <1>5. CASE learned' = learned
    <2>1. FlightsOK'
      BY <1>1, <1>5 DEF PairingInv, FlightsOK, MessageOK, DeviceConfirms, OwnerConfirms
    <2> QED
      BY <1>1, <1>4, <1>5, <2>1, OwnerKeeps, LearnedKeeps, OnceKeeps, ZenonT(60) DEF PairingInv
  <1>6. CASE /\ verify_mac(device[d].key, device[d].text, m.body)
             /\ learned' = learned \cup {[by |-> d, peer |-> Owner, text |-> device[d].text]}
    <2>1. learned' = learned \cup {DeviceEntry(d, a, b)}
      BY <1>3, <1>6, ZenonT(60) DEF DeviceEntry
    <2>2. m.body = OwnerTag(d, a, b, "B")
      BY <1>3, <1>6, Zenon DEF verify_mac, OwnerTag
    <2>3. ~ DeviceConfirms(m)
      <3> SUFFICES ASSUME NEW e \in Devices, NEW x \in Start, NEW y \in Start, m.body = DeviceTag(e, x, y)
                   PROVE  FALSE
        BY Zenon DEF DeviceConfirms
      <3>1. <<"confirm:device", finish_spake(x, y, "B")>> = <<"confirm:owner", finish_spake(a, b, "B")>>
        BY <2>2, MacsDiffer DEF DeviceTag, OwnerTag
      <3> QED
        BY <3>1, KeysDiffer, Zenon
    <2>4. PICK e \in Devices, x \in Start, y \in Start : m.body = OwnerTag(e, x, y, "A") /\ OwnerEntry(e, x, y) \in learned
      BY <1>1, <2>3, ZenonT(60) DEF PairingInv, FlightsOK, MessageOK, OwnerConfirms
    <2>5. transcript(Owner, e, x, y) = transcript(Owner, d, a, b)
      BY <2>2, <2>4, MacsDiffer, SMTT(60) DEF OwnerTag
    <2>6. e = d /\ x = a /\ y = b
      BY <2>5, TranscriptsDiffer, SMTT(60)
    <2>7. OwnerEntry(d, a, b) \in learned
      BY <2>4, <2>6, ZenonT(60)
    <2>8. a.code = b.code /\ b.device = d /\ a.n <= offers
      <3>1. PICK g \in Devices, v \in Start, w \in Start : LearnedAs(OwnerEntry(d, a, b), g, v, w)
        BY <2>7, Zenon DEF PairingInv, LearnedOK
      <3>2. v.code = w.code /\ w.device = g /\ v.n <= offers
        BY <3>1, Zenon DEF LearnedAs
      <3>3. transcript(Owner, d, a, b) = transcript(Owner, g, v, w)
        BY <3>1, ZenonT(60) DEF LearnedAs, OwnerEntry, DeviceEntry
      <3> QED
        BY <3>2, <3>3, TranscriptsDiffer, SMTT(60)
    <2>9. LearnedOK'
      <3>1. LearnedAs(DeviceEntry(d, a, b), d, a, b)'
        BY <1>1, <2>1, <2>7, <2>8, ZenonT(60) DEF LearnedAs
      <3>2. offers \in Nat /\ offers' = offers
        BY <1>1, Zenon DEF PairingInv
      <3>3. offers' \in Nat /\ offers <= offers'
        BY <3>2
      <3> QED
        BY <2>1, <3>1, <3>3, LearnedGrows, ZenonT(60) DEF LearnedOK
    <2>10. OncePerOffer'
      <3>1. DeviceEntry(d, a, b).by # Owner
        BY PairingAssumption, Zenon DEF DeviceEntry
      <3> QED
        BY <1>1, <2>1, <3>1, Zenon DEF PairingInv, OncePerOffer
    <2>11. FlightsOK'
      BY <1>1, <2>1, FlightsGrow, Zenon DEF PairingInv, FlightsOK
    <2> QED
      BY <1>1, <1>4, <2>9, <2>10, <2>11, OwnerKeeps, ZenonT(60) DEF PairingInv
  <1> QED
    BY <1>5, <1>6, Zenon DEF finish

\* The invariant is inductive.
LEMMA PairingStep == PairingInv /\ [PairingNext]_pvars => PairingInv'
  <1> SUFFICES ASSUME PairingInv, [PairingNext]_pvars PROVE PairingInv'
    OBVIOUS
  <1>1. CASE TimePasses \/ UNCHANGED pvars
    <2>1. UNCHANGED <<owner, device, flights, learned, offers, tries>>
      BY <1>1 DEF TimePasses, pvars
    <2>2. FlightsOK'
      BY <2>1, ZenonT(60) DEF PairingInv, FlightsOK, MessageOK, DeviceConfirms, OwnerConfirms
    <2> QED
      BY <2>1, <2>2, OwnerKeeps, DevicesKeep, LearnedKeeps, OnceKeeps, ZenonT(60) DEF PairingInv
  <1> QED
    BY <1>1, OfferStep, BeginStep, AcceptStep, ReceiveStep, ConfirmStep, FinishStep, ZenonT(60) DEF PairingNext

\* Although codes are mistyped, attempts repeated and messages of other attempts
\* delivered: a device that pins the owner is one the owner has accepted in the same
\* exchange, an offer brings in one device at most, and only one given its code.
THEOREM PairingIsMutual == PairingSpec => []PairedAlike
  <1>1. PairingInv => PairedAlike
    <2> SUFFICES ASSUME PairingInv PROVE PairedAlike
      BY Zenon
    <2>1. ASSUME NEW l \in learned
          PROVE  /\ l.by # Owner => [by |-> Owner, peer |-> l.by, text |-> l.text] \in learned
                 /\ l.text[3].code = l.text[4].code /\ l.text[4].device = (IF l.by = Owner THEN l.peer ELSE l.by)
      <3>1. PICK d \in Devices, a \in Start, b \in Start : LearnedAs(l, d, a, b)
        BY Zenon DEF PairingInv, LearnedOK
      <3>2. l.text = transcript(Owner, d, a, b) /\ d # Owner
        BY <3>1, PairingAssumption, SMTT(60) DEF LearnedAs, OwnerEntry, DeviceEntry
      <3>3. l.text[3] = a /\ l.text[4] = b
        BY <3>2, TranscriptFields, SMTT(60)
      <3>4. IF l.by = Owner THEN l.peer = d ELSE l.by = d /\ OwnerEntry(d, a, b) \in learned
        BY <3>1, <3>2 DEF LearnedAs, OwnerEntry, DeviceEntry
      <3> QED
        BY <3>1, <3>2, <3>3, <3>4, ZenonT(60) DEF LearnedAs, OwnerEntry
    <2> QED
      BY <2>1, ZenonT(60) DEF PairedAlike, PairingInv, OncePerOffer
  <1> QED
    BY <1>1, PairingStart, PairingStep, PTL DEF PairingSpec

==============================================================================
