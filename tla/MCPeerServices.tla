---------------------------- MODULE MCPeerServices ----------------------------
(***************************************************************************)
(* Five services of a peer that share no state: the transfer of a file,    *)
(* the directory of peers, the pairing of a device, the discovery of its   *)
(* address and the bytes of a sync session.  One run explores each on its  *)
(* own: part says which of them moves, the others rest in an initial       *)
(* state, so that their state spaces add up.                               *)
(***************************************************************************)
EXTENDS Transfer, Directory, Pairing, Stun, SyncCodec

VARIABLE part

vars == <<part, tvars, dvars, pvars, svars, cvars>>

\* An IPv4 and an IPv6 address, and a short QUIC packet.
SeenAddrs == {[ip |-> <<10, 0, 0, 1>>, port |-> 4433], [ip |-> <<32, 1, 13, 184>> \o Zeros(11) \o <<9>>, port |-> 80]}
QuicShort == <<67, 1, 2, 3>>

\* Empty and full messages, with empty names and data, a signature, and a name too long to encode.
PeerBytes(n) == Zeros(PEER_ID_LEN - 1) \o <<n>>
AFrame(n, entity, signature) ==
    [physical |-> 70000 + n, logical |-> n, peer |-> PeerBytes(n), seq |-> 300 * n, op |-> Ops[n], entity |-> entity,
     id |-> <<105, 100, n>>, data |-> IF n = 1 THEN << >> ELSE <<0, n, 255>>, signature |-> signature]
SomeMessages ==
    {[kind |-> "Hello", from |-> PeerBytes(1), cursors |-> << >>],
     [kind |-> "Hello", from |-> PeerBytes(2), cursors |-> (PeerBytes(1) :> 7) @@ (PeerBytes(3) :> 66000)],
     [kind |-> "Delta", frames |-> << >>],
     [kind |-> "Delta", frames |-> <<AFrame(1, <<116>>, << >>), AFrame(3, << >>, Zeros(63) \o <<5>>)>>],
     [kind |-> "Delta", frames |-> <<AFrame(2, Zeros(256), << >>)>>]}

Init ==
    /\ part \in {"transfer", "directory", "pairing", "stun", "codec"}
    /\ TransferInit /\ DirectoryInit /\ PairingInit /\ StunInit /\ CodecInit
    /\ part # "transfer" => file = << >>
    /\ part # "directory" => offset = Offset

Next ==
    /\ UNCHANGED part
    /\ \/ part = "transfer" /\ TransferNext /\ UNCHANGED <<dvars, pvars, svars, cvars>>
       \/ part = "directory" /\ DirectoryNext /\ UNCHANGED <<tvars, pvars, svars, cvars>>
       \/ part = "pairing" /\ PairingNext /\ UNCHANGED <<tvars, dvars, svars, cvars>>
       \/ part = "stun" /\ StunNext /\ UNCHANGED <<tvars, dvars, pvars, cvars>>
       \/ part = "codec" /\ CodecNext /\ UNCHANGED <<tvars, dvars, pvars, svars>>

Spec == Init /\ [][Next]_vars /\ TransferFairness

=============================================================================
