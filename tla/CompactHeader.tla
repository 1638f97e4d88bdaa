--------------------------- MODULE CompactHeader ---------------------------
(***************************************************************************)
(* The compact block header of quic.py: one datagram that announces a      *)
(* block before its body arrives on a stream.  The byte is scaled to Base  *)
(* values and hashes and signatures to a few bytes; the layout, the widths *)
(* of the integers and what does not fit are the code's.                   *)
(***************************************************************************)
EXTENDS Integers, Sequences, SequencesExt

CONSTANTS
    Base,       \* values of a byte
    HashLen, SigLen

ASSUME HeaderAssumption == Base \in Nat \ {0, 1} /\ HashLen \in Nat \ {0} /\ SigLen \in Nat \ {0}

Bytes(n) == [1 .. n -> 0 .. Base - 1]

\* n without its last k bytes
Shifted(n, k) ==
    LET left[i \in 0 .. k] == IF i = 0 THEN n ELSE left[i - 1] \div Base
    IN  left[k]

\* struct.pack and struct.unpack, "!": big-endian, unsigned
Pack(n, width) == [i \in 1 .. width |-> Shifted(n, width - i) % Base]
Unpack(s) ==
    LET value[i \in 0 .. Len(s)] == IF i = 0 THEN 0 ELSE value[i - 1] * Base + s[i]
    IN  value[Len(s)]
Fits(n, width) == n \in Nat /\ Shifted(n, width) = 0

TypeLen == 1
VersionLen == 1
HeightLen == 8
CountLen == 1       \* of parents
TxsLen == 2
TimeLen == 8
BLOCK_HEADER == 1   \* DATAGRAM_TYPE_BLOCK_HEADER
VERSION == 1        \* COMPACT_HEADER_VERSION

\* A block's header, and how many transactions its body has
HeaderType ==
    [height : Nat, hash : Bytes(HashLen), stateRoot : Bytes(HashLen), txRoot : Bytes(HashLen),
     producer : Bytes(HashLen), sig : Bytes(SigLen), parents : Seq(Bytes(HashLen)),
     txs : Nat, time : Nat]

\* 213 bytes with the code's lengths
Shortest == TypeLen + VersionLen + HeightLen + 4 * HashLen + SigLen + CountLen + TxsLen + TimeLen

\* What encode_compact_block_header raises on: the block has a body only
Encodable(h) ==
    /\ Fits(h.height, HeightLen) /\ Fits(Len(h.parents), CountLen)
    /\ Fits(h.txs, TxsLen) /\ Fits(h.time, TimeLen)

Encode(h) ==
    Pack(BLOCK_HEADER, TypeLen) \o Pack(VERSION, VersionLen) \o Pack(h.height, HeightLen)
      \o h.hash \o h.stateRoot \o h.txRoot \o h.producer \o h.sig
      \o Pack(Len(h.parents), CountLen) \o FlattenSeq(h.parents)
      \o Pack(h.txs, TxsLen) \o Pack(h.time, TimeLen)

Refused == [refused |-> TRUE]
Field(s, from, len) == SubSeq(s, from, from + len - 1)

\* Deviation: the count of transactions is looked for before the parents
DecodeAsIfParentless(s) ==
    LET hash == TypeLen + VersionLen + HeightLen + 1
        sig == hash + 4 * HashLen
        count == sig + SigLen
        txs == count + CountLen
    IN  IF Len(s) < Shortest THEN Refused
        ELSE [height |-> Unpack(Field(s, TypeLen + VersionLen + 1, HeightLen)),
              hash |-> Field(s, hash, HashLen), stateRoot |-> Field(s, hash + HashLen, HashLen),
              txRoot |-> Field(s, hash + 2 * HashLen, HashLen),
              producer |-> Field(s, hash + 3 * HashLen, HashLen),
              sig |-> Field(s, sig, SigLen),
              parents |-> [i \in 1 .. s[count] |-> Field(s, txs + (i - 1) * HashLen, HashLen)],
              txs |-> Unpack(Field(s, txs, TxsLen)),
              time |-> Unpack(Field(s, txs + TxsLen, TimeLen))]

\* Slices past the end are short, not errors; the last two integers are what
\* fails on a datagram that was cut.  What follows the header is not looked at.
Decode(s) ==
    LET hash == TypeLen + VersionLen + HeightLen + 1
        sig == hash + 4 * HashLen
        count == sig + SigLen
        txs == count + CountLen + s[count] * HashLen
    IN  IF \/ Len(s) < Shortest \/ s[1] # BLOCK_HEADER \/ s[2] # VERSION
           \/ Len(s) < txs + TxsLen + TimeLen - 1
        THEN Refused
        ELSE [height |-> Unpack(Field(s, TypeLen + VersionLen + 1, HeightLen)),
              hash |-> Field(s, hash, HashLen), stateRoot |-> Field(s, hash + HashLen, HashLen),
              txRoot |-> Field(s, hash + 2 * HashLen, HashLen),
              producer |-> Field(s, hash + 3 * HashLen, HashLen),
              sig |-> Field(s, sig, SigLen),
              parents |-> [i \in 1 .. s[count] |->
                             Field(s, count + CountLen + (i - 1) * HashLen, HashLen)],
              txs |-> Unpack(Field(s, txs, TxsLen)),
              time |-> Unpack(Field(s, txs + TxsLen, TimeLen))]

=============================================================================
