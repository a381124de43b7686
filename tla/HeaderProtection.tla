-------------------------- MODULE HeaderProtection --------------------------
(***************************************************************************)
(* The QUIC header protection of the firmware's crypto provider: what the  *)
(* two ends do to the first byte of a packet and to the four bytes that    *)
(* hold its packet number and, when that is shorter, the start of the      *)
(* payload.  How many bytes are masked is written in the first byte, which *)
(* the receiver only has in its masked form.                               *)
(*                                                                         *)
(* The mask is AES over a sample of the payload.  The sample is sent as it *)
(* is, so both ends compute the same mask; any mask may come out.          *)
(***************************************************************************)
EXTENDS Naturals

Bit   == 0 .. 7
Byte  == [Bit -> {0, 1}]
Slice == 1 .. 4
Packet == [first : Byte, rest : [Slice -> Byte]]
Mask   == [0 .. 4 -> Byte]

CONSTANTS
  Packets,                 \* the packets that may be sent
  Masks                    \* the masks that may come out

ASSUME PacketAssumption ==
  /\ Packets \subseteq Packet
  /\ Masks \subseteq Mask

VARIABLES
  pc,                      \* where the packet is
  packet,                  \* as it was built
  mask,                    \* AES of its sample
  wire,                    \* as it was sent
  opened                   \* as the receiver has it

vars == <<pc, packet, mask, wire, opened>>

\* a ^= m & bits
XorOn(bits, a, m) ==
  [k \in Bit |-> IF k \in bits THEN IF a[k] = m[k] THEN 0 ELSE 1 ELSE a[k]]

\* Mutant: the bits of a short header, whatever the header.
MaskedBitsShort(first) == 0 .. 4

\* A long header has its lower four bits masked, a short one five.
MaskedBits(first) == IF first[7] = 1 THEN 0 .. 3 ELSE 0 .. 4

\* Mutant: the length is sent less one, and taken as it is sent.
PnLenAsSent(first) == first[0] + 2 * first[1]

PnLen(first) == first[0] + 2 * first[1] + 1

\* Mutant: the length of the packet number is read from the byte as it came.
MaskWithoutLookingBehind(m, p, masked) ==
  [first |-> XorOn(MaskedBits(p.first), p.first, m[0]),
   rest  |-> [k \in Slice |-> IF k <= PnLen(p.first) THEN XorOn(Bit, p.rest[k], m[k])
                              ELSE p.rest[k]]]

\* Mutant: all four bytes are taken for the packet number.
MaskWholeSlice(m, p, masked) ==
  [first |-> XorOn(MaskedBits(p.first), p.first, m[0]),
   rest  |-> [k \in Slice |-> XorOn(Bit, p.rest[k], m[k])]]

\* apply_header_mask: masked says whether the first byte is masked already.
ApplyHeaderMask(m, p, masked) ==
  LET flipped == XorOn(MaskedBits(p.first), p.first, m[0])
      plain   == IF masked THEN flipped ELSE p.first
  IN  [first |-> flipped,
       rest  |-> [k \in Slice |-> IF k <= PnLen(plain) THEN XorOn(Bit, p.rest[k], m[k])
                                  ELSE p.rest[k]]]

-----------------------------------------------------------------------------
Init ==
  /\ pc = "built"
  /\ packet \in Packets
  /\ mask \in Masks
  /\ wire = packet
  /\ opened = packet

EncryptInPlace ==
  /\ pc = "built"
  /\ pc' = "sent"
  /\ wire' = ApplyHeaderMask(mask, packet, FALSE)
  /\ UNCHANGED <<packet, mask, opened>>

DecryptInPlace ==
  /\ pc = "sent"
  /\ pc' = "opened"
  /\ opened' = ApplyHeaderMask(mask, wire, TRUE)
  /\ UNCHANGED <<packet, mask, wire>>

Next == EncryptInPlace \/ DecryptInPlace

Spec == Init /\ [][Next]_vars

-----------------------------------------------------------------------------
TypeOK ==
  /\ pc \in {"built", "sent", "opened"}
  /\ packet \in Packet
  /\ mask \in Mask
  /\ wire \in Packet
  /\ opened \in Packet

\* The receiver unmasks exactly what the sender masked, although it has to
\* read from the packet how much that is.
RoundTrip == pc = "opened" => opened = packet

\* Where the packet number is: its length, less one, is in the lowest two bits.
PacketNumber(first) ==
  {k \in Slice : \/ k = 1
                 \/ k = 2 /\ (first[0] = 1 \/ first[1] = 1)
                 \/ k = 3 /\ first[1] = 1
                 \/ k = 4 /\ first[0] = 1 /\ first[1] = 1}

\* The whole packet number is masked and the payload behind a short one is sent
\* as the AEAD left it.  What tells a long header from a short one, the fixed
\* bit and the type of a long header can be read without the mask.
PacketNumberMasked ==
  pc # "built" =>
    /\ \A k \in Slice :
         wire.rest[k] = IF k \in PacketNumber(packet.first)
                        THEN XorOn(Bit, packet.rest[k], mask[k])
                        ELSE packet.rest[k]
    /\ \A k \in 5 .. 7 : wire.first[k] = packet.first[k]
    /\ packet.first[7] = 1 => wire.first[4] = packet.first[4]
=============================================================================
