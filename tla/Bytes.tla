------------------------------- MODULE Bytes -------------------------------
(***************************************************************************)
(* Sequences of bytes, as the codecs of librepods-core index and slice     *)
(* them: positions are the source's, from 0.  Bytes are written in         *)
(* decimal, where they stand for something with the source's hexadecimal   *)
(* beside them.                                                            *)
(***************************************************************************)
EXTENDS Naturals, SequencesExt

Byte == 0..255

At(p, i) == p[i + 1]                         \* packet[i]
Slice(p, i, j) == SubSeq(p, i + 1, j)        \* packet[i..j]
StartsWith(p, prefix) == IsPrefix(prefix, p) \* packet.starts_with(prefix)
Zeros(n) == [i \in 1..n |-> 0]               \* [0; n]
Bit(b, k) == (b \div 2^k) % 2 = 1            \* b & (1 << k) != 0

None == {}                                   \* an Option is the set of
Some(x) == {x}                               \* what it holds
=============================================================================
