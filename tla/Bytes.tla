-------------------------------- MODULE Bytes --------------------------------
(***************************************************************************)
(* Bytes, as the wire formats use them: big-endian numbers, padding to     *)
(* four bytes, exclusive or.  A number is below 2^31.                      *)
(***************************************************************************)
EXTENDS Naturals, Sequences, Bitwise

be16(n) == <<(n \div 256) % 256, n % 256>>
be32(n) == be16(n \div 65536) \o be16(n % 65536)
be64(n) == <<0, 0, 0, 0>> \o be32(n)
from_be16(b, i) == b[i] * 256 + b[i + 1]
from_be32(b, i) == from_be16(b, i) * 65536 + from_be16(b, i + 2)
from_be64(b, i) == from_be32(b, i + 4)
Zeros(n) == [i \in 1 .. n |-> 0]
Pad(n) == (4 - (n % 4)) % 4
XorBytes(a, b) == [i \in DOMAIN a |-> a[i] ^^ b[i]]

=============================================================================
