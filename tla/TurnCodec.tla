------------------------------ MODULE TurnCodec ------------------------------
(***************************************************************************)
(* The wire format of TURN messages (crates/mqp2p/src/turn.rs), byte for   *)
(* byte: a message is encoded with its attributes padded to four bytes,    *)
(* its message integrity and its fingerprint, and decoded again; channel   *)
(* data has a format of its own.                                           *)
(*                                                                         *)
(* A string is the sequence of its bytes.  A result is << >> for an error  *)
(* and <<value>> otherwise.  A checksum stands for the keyed hash and the  *)
(* CRC: the code uses them only as functions of the bytes.                 *)
(***************************************************************************)
EXTENDS Bytes, SequencesExt

HEADER_LEN == 20
MAGIC_COOKIE == <<33, 18, 164, 66>>
CHANNEL_MIN == 16384
CHANNEL_MAX == 20479
METHOD_ALLOCATE == 3
METHOD_REFRESH == 4
METHOD_CHANNEL_BIND == 9

\* A checksum of n bytes, with a seed.
Checksum(seed, b, n) ==
    [i \in 1 .. n |-> (b[((i * 7) % Len(b)) + 1] + seed[(i % Len(seed)) + 1] + Len(b)) % 256]

long_term_key(username, realm, password) == Checksum(<<58>>, username \o <<58>> \o realm \o <<58>> \o password, 16)
hmac_sha1(key, msg) == Checksum(key, msg, 20)

-----------------------------------------------------------------------------
(* Message types *)

ClassOf == <<"Request", "Indication", "Success", "Error">>
bits(class) == SelectInSeq(ClassOf, LAMBDA c : c = class) - 1
from_bits(b) == ClassOf[b + 1]

\* Faulty message_type: the high bit of the class lands one place off.
message_type_shifted(method, class) ==
    ((method \div 128) % 32) * 512 + (bits(class) \div 2) * 512 + ((method \div 16) % 8) * 32 +
    (bits(class) % 2) * 16 + (method % 16)

\* Twelve bits of method around two bits of class.
message_type(method, class) ==
    ((method \div 128) % 32) * 512 + (bits(class) \div 2) * 256 + ((method \div 16) % 8) * 32 +
    (bits(class) % 2) * 16 + (method % 16)

decode_type(raw) ==
    [method |-> ((raw \div 512) % 32) * 128 + ((raw \div 32) % 8) * 16 + (raw % 16),
     class |-> from_bits(((raw \div 256) % 2) * 2 + ((raw \div 16) % 2))]

-----------------------------------------------------------------------------
(* Attributes: [is, v] *)

AttrType ==
    [MappedAddress |-> 1, Username |-> 6, MessageIntegrity |-> 8, ErrorCode |-> 9, ChannelNumber |-> 12,
     Lifetime |-> 13, XorPeerAddress |-> 18, Data |-> 19, Realm |-> 20, Nonce |-> 21, XorRelayedAddress |-> 22,
     RequestedTransport |-> 25, DontFragment |-> 26, XorMappedAddress |-> 32, Software |-> 32802, Fingerprint |-> 32808]

Attribute(is, v) == [is |-> is, v |-> v]
XorAddresses == {"XorMappedAddress", "XorPeerAddress", "XorRelayedAddress"}

Family(ip) == IF Len(ip) = 4 THEN 1 ELSE 2
FamilyLen(family) == IF family = 1 THEN 4 ELSE 16

encode_plain_address(addr) == <<0, Family(addr.ip)>> \o be16(addr.port) \o addr.ip

\* Too short, or a family that is neither IPv4 nor IPv6, is an error.
decode_plain_address(value) ==
    IF Len(value) < 8 \/ value[2] \notin {1, 2} THEN << >>
    ELSE IF Len(value) < 4 + FamilyLen(value[2]) THEN << >>
    ELSE <<[ip |-> SubSeq(value, 5, 4 + FamilyLen(value[2])), port |-> from_be16(value, 3)]>>

xor_with_key(octets, txn) == XorBytes(octets, MAGIC_COOKIE \o txn)
XorPort(port) == from_be16(XorBytes(be16(port), MAGIC_COOKIE), 1)
Masked(addr, txn) == [ip |-> xor_with_key(addr.ip, txn), port |-> XorPort(addr.port)]

encode_xor_address(addr, txn) == encode_plain_address(Masked(addr, txn))

decode_xor_address(value, txn) ==
    LET a == decode_plain_address(value) IN IF a = << >> THEN << >> ELSE <<Masked(a[1], txn)>>

encode_attribute(a, txn) ==
    CASE a.is = "MappedAddress" -> encode_plain_address(a.v)
      [] a.is \in XorAddresses -> encode_xor_address(a.v, txn)
      [] a.is = "ErrorCode" -> <<0, 0, a.v.code \div 100, a.v.code % 100>> \o a.v.reason
      [] a.is = "Lifetime" -> be32(a.v)
      [] a.is = "RequestedTransport" -> <<a.v, 0, 0, 0>>
      [] a.is = "ChannelNumber" -> be16(a.v) \o <<0, 0>>
      [] a.is = "DontFragment" -> << >>
      [] OTHER -> a.v   \* strings, data, integrity, fingerprint and unknown attributes

\* The shortest value each kind decodes from; of two kinds the only length.
MinLen(is) == CASE is \in {"ErrorCode", "Lifetime"} -> 4
                [] is = "ChannelNumber" -> 2
                [] is = "RequestedTransport" -> 1
                [] is = "MessageIntegrity" -> 20
                [] is = "Fingerprint" -> 4
                [] OTHER -> 0
Exact == {"MessageIntegrity", "Fingerprint"}

KnownAs(typ) == {is \in DOMAIN AttrType : AttrType[is] = typ}

decode_attribute(typ, value, txn) ==
    IF KnownAs(typ) = {} THEN <<[is |-> "Unknown", typ |-> typ, v |-> value]>>
    ELSE LET is == CHOOSE x \in KnownAs(typ) : TRUE
             Ok(v) == <<Attribute(is, v)>>
             Addr(a) == IF a = << >> THEN << >> ELSE Ok(a[1])
         IN  IF Len(value) < MinLen(is) \/ (is \in Exact /\ Len(value) # MinLen(is)) THEN << >>
             ELSE CASE is = "MappedAddress" -> Addr(decode_plain_address(value))
                    [] is \in XorAddresses -> Addr(decode_xor_address(value, txn))
                    [] is = "ErrorCode" -> Ok([code |-> value[3] * 100 + value[4], reason |-> SubSeq(value, 5, Len(value))])
                    [] is = "Lifetime" -> Ok(from_be32(value, 1))
                    [] is = "RequestedTransport" -> Ok(value[1])
                    [] is = "ChannelNumber" -> Ok(from_be16(value, 1))
                    [] is = "DontFragment" -> Ok(<< >>)
                    [] OTHER -> Ok(value)

TypeOf(a) == IF a.is = "Unknown" THEN a.typ ELSE AttrType[a.is]

push_raw_attribute(buf, typ, value) == buf \o be16(typ) \o be16(Len(value)) \o value \o Zeros(Pad(Len(value)))

-----------------------------------------------------------------------------
(* Messages: [method, class, transaction_id, attributes] *)

set_length(buf, len) == [buf EXCEPT ![3] = be16(len)[1], ![4] = be16(len)[2]]

\* The header, the attributes, and the two that cover what is before them, each
\* computed with the length that includes it.
Message_encode(m, integrity_key, fingerprint) ==
    LET header == be16(message_type(m.method, m.class)) \o <<0, 0>> \o MAGIC_COOKIE \o m.transaction_id
        plain == FoldLeft(LAMBDA b, a : push_raw_attribute(b, TypeOf(a), encode_attribute(a, m.transaction_id)),
                          header, m.attributes)
        covered(b, n) == set_length(b, Len(b) - HEADER_LEN + n)
        signed == IF integrity_key = << >> THEN plain
                  ELSE LET b == covered(plain, 24)
                       IN  push_raw_attribute(b, AttrType.MessageIntegrity, hmac_sha1(integrity_key, b))
        whole == IF ~ fingerprint THEN signed
                 ELSE LET b == covered(signed, 8)
                      IN  push_raw_attribute(b, AttrType.Fingerprint, Checksum(<<83>>, b, 4))
    IN  set_length(whole, Len(whole) - HEADER_LEN)

\* The attributes of body from offset on; << >> if one runs over or does not decode,
\* or if the last does not end the body.
RECURSIVE Attributes(_, _, _)
Attributes(body, offset, txn) ==
    IF offset + 4 > Len(body) THEN IF offset = Len(body) THEN << << >> >> ELSE << >>
    ELSE LET alen == from_be16(body, offset + 3)
             end == offset + 4 + alen
         IN  IF end > Len(body) THEN << >>
             ELSE LET a == decode_attribute(from_be16(body, offset + 1), SubSeq(body, offset + 5, end), txn)
                      rest == Attributes(body, end + Pad(alen), txn)
                  IN  IF a = << >> \/ rest = << >> THEN << >> ELSE << a \o rest[1] >>

\* The body that the header of buf declares; << >> if the header is not that of a message.
Body(buf) ==
    IF Len(buf) < HEADER_LEN THEN << >>
    ELSE IF HEADER_LEN + from_be16(buf, 3) > Len(buf) THEN << >>
    ELSE <<SubSeq(buf, HEADER_LEN + 1, HEADER_LEN + from_be16(buf, 3))>>

Message_decode(buf) ==
    IF Body(buf) = << >> \/ buf[1] >= 64 \/ SubSeq(buf, 5, 8) # MAGIC_COOKIE THEN << >>
    ELSE LET txn == SubSeq(buf, 9, HEADER_LEN)
             as == Attributes(Body(buf)[1], 0, txn)
             t == decode_type(from_be16(buf, 1))
         IN  IF as = << >> THEN << >>
             ELSE <<[method |-> t.method, class |-> t.class, transaction_id |-> txn, attributes |-> as[1]]>>

\* find_map over the attributes: the first of the kind, as a result.
Find(m, is) ==
    LET i == SelectInSeq(m.attributes, LAMBDA a : a.is = is) IN IF i = 0 THEN << >> ELSE <<m.attributes[i].v>>

\* The offset of the first message integrity in the body; past its end if there is none.
RECURSIVE IntegrityAt(_, _)
IntegrityAt(body, offset) ==
    IF offset + 4 > Len(body) THEN Len(body) + 1
    ELSE LET alen == from_be16(body, offset + 3)
         IN  IF offset + 4 + alen > Len(body) THEN Len(body) + 1
             ELSE IF from_be16(body, offset + 1) = AttrType.MessageIntegrity
             THEN IF alen = 20 THEN offset ELSE Len(body) + 1
             ELSE IntegrityAt(body, offset + 4 + alen + Pad(alen))

\* The hash of what precedes the integrity, under a length that ends with it.
verify_integrity(buf, key) ==
    /\ Body(buf) # << >>
    /\ LET body == Body(buf)[1]
           at == IntegrityAt(body, 0)
       IN  /\ at <= Len(body)
           /\ SubSeq(body, at + 5, at + 24) = hmac_sha1(key, set_length(SubSeq(buf, 1, HEADER_LEN + at), at + 24))

-----------------------------------------------------------------------------
(* Channel data: [channel, data] *)

InChannelRange(n) == CHANNEL_MIN <= n /\ n <= CHANNEL_MAX

is_channel_data(buf) == Len(buf) >= 2 /\ InChannelRange(from_be16(buf, 1))

ChannelData_encode(c) == be16(c.channel) \o be16(Len(c.data)) \o c.data

ChannelData_decode(buf) ==
    IF Len(buf) < 4 THEN << >>
    ELSE IF ~ InChannelRange(from_be16(buf, 1)) \/ 4 + from_be16(buf, 3) > Len(buf) THEN << >>
    ELSE <<[channel |-> from_be16(buf, 1), data |-> SubSeq(buf, 5, 4 + from_be16(buf, 3))]>>

=============================================================================
