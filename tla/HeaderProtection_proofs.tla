----------------------- MODULE HeaderProtection_proofs -----------------------
(***************************************************************************)
(* What HeaderProtection promises, for every packet and every mask: the    *)
(* check goes through the 65536 pairs of a first byte and its mask, the    *)
(* proof through the bytes behind it as well.                              *)
(***************************************************************************)
EXTENDS HeaderProtection, TLAPS

\* Masking a byte gives a byte.
LEMMA XorByte ==
  ASSUME NEW bits, NEW a \in Byte, NEW m \in Byte
  PROVE  XorOn(bits, a, m) \in Byte
  BY DEF XorOn, Byte, Bit

\* Masking the same bits twice gives the byte back.
LEMMA XorTwice ==
  ASSUME NEW bits, NEW a \in Byte, NEW m \in Byte
  PROVE  XorOn(bits, XorOn(bits, a, m), m) = a
<1> DEFINE b == XorOn(bits, a, m)
           c == XorOn(bits, b, m)
<1>1. ASSUME NEW k \in Bit PROVE c[k] = a[k]
  <2>1. a[k] \in {0, 1} /\ m[k] \in {0, 1}
    BY <1>1 DEF Byte
  <2>2. b[k] = IF k \in bits THEN IF a[k] = m[k] THEN 0 ELSE 1 ELSE a[k]
    BY <1>1 DEF XorOn
  <2>3. c[k] = IF k \in bits THEN IF b[k] = m[k] THEN 0 ELSE 1 ELSE b[k]
    BY <1>1 DEF XorOn
  <2>4. QED BY <2>1, <2>2, <2>3
<1>2. c \in Byte /\ a \in Byte
  BY XorByte
<1>3. QED BY <1>1, <1>2 DEF Byte

\* The bit that says how many bits are masked is not masked itself: the
\* receiver masks the same bits as the sender.
LEMMA SameBits ==
  ASSUME NEW first \in Byte, NEW m
  PROVE  MaskedBits(XorOn(MaskedBits(first), first, m)) = MaskedBits(first)
<1>1. 7 \in Bit /\ 7 \notin MaskedBits(first)
  BY DEF Bit, MaskedBits
<1>2. XorOn(MaskedBits(first), first, m)[7] = first[7]
  BY <1>1 DEF XorOn
<1>3. QED BY <1>2 DEF MaskedBits

\* The length that is read from the first byte is that of the packet number.
LEMMA LengthRead ==
  ASSUME NEW first \in Byte, NEW k \in Slice
  PROVE  k <= PnLen(first) <=> k \in PacketNumber(first)
<1>1. first[0] \in {0, 1} /\ first[1] \in {0, 1}
  BY DEF Byte, Bit
<1> QED BY <1>1 DEF PnLen, PacketNumber, Slice

\* The masked packet is a packet.
LEMMA MaskedPacket ==
  ASSUME NEW p \in Packet, NEW m \in Mask, NEW masked \in BOOLEAN
  PROVE  ApplyHeaderMask(m, p, masked) \in Packet
<1>1. p.first \in Byte /\ m[0] \in Byte
  BY DEF Packet, Mask
<1>2. \A k \in Slice : p.rest[k] \in Byte /\ m[k] \in Byte
  BY DEF Packet, Mask, Slice
<1>3. XorOn(MaskedBits(p.first), p.first, m[0]) \in Byte
  BY <1>1, XorByte
<1>4. \A k \in Slice : XorOn(Bit, p.rest[k], m[k]) \in Byte
  BY <1>2, XorByte
<1>5. QED BY <1>2, <1>3, <1>4 DEF ApplyHeaderMask, Packet

\* apply_header_mask for decryption undoes apply_header_mask for encryption.
LEMMA MaskInverse ==
  ASSUME NEW p \in Packet, NEW m \in Mask
  PROVE  ApplyHeaderMask(m, ApplyHeaderMask(m, p, FALSE), TRUE) = p
<1> DEFINE w == ApplyHeaderMask(m, p, FALSE)
           o == ApplyHeaderMask(m, w, TRUE)
<1>1. p.first \in Byte /\ m[0] \in Byte
  BY DEF Packet, Mask
<1>2. /\ w.first = XorOn(MaskedBits(p.first), p.first, m[0])
      /\ \A k \in Slice : w.rest[k] = IF k <= PnLen(p.first)
                                       THEN XorOn(Bit, p.rest[k], m[k]) ELSE p.rest[k]
  BY DEF ApplyHeaderMask
<1>3. LET plain == XorOn(MaskedBits(w.first), w.first, m[0]) IN
      /\ o.first = plain
      /\ \A k \in Slice : o.rest[k] = IF k <= PnLen(plain)
                                       THEN XorOn(Bit, w.rest[k], m[k]) ELSE w.rest[k]
  BY DEF ApplyHeaderMask
<1>4. o \in Packet
  <2>1. w \in Packet
    BY MaskedPacket
  <2>2. QED BY <2>1, MaskedPacket
<1> HIDE DEF w, o
<1>5. XorOn(MaskedBits(w.first), w.first, m[0]) = p.first
  <2>1. MaskedBits(w.first) = MaskedBits(p.first)
    BY <1>1, <1>2, SameBits
  <2>2. XorOn(MaskedBits(p.first), XorOn(MaskedBits(p.first), p.first, m[0]), m[0]) = p.first
    BY <1>1, XorTwice
  <2>3. QED BY <1>2, <2>1, <2>2
<1>6. ASSUME NEW k \in Slice PROVE o.rest[k] = p.rest[k]
  <2>1. p.rest[k] \in Byte /\ m[k] \in Byte
    BY <1>6 DEF Packet, Mask, Slice
  <2>2. XorOn(Bit, XorOn(Bit, p.rest[k], m[k]), m[k]) = p.rest[k]
    BY <2>1, XorTwice
  <2>3. QED BY <1>2, <1>3, <1>5, <1>6, <2>2
<1>7. o.rest = p.rest
  BY <1>4, <1>6 DEF Packet
<1>8. o = p
  BY <1>3, <1>4, <1>5, <1>7 DEF Packet
<1>9. QED BY <1>8 DEF o, w

\* What holds in every state: the wire carries the masked packet, and the
\* receiver, once it has one, the packet.
HInv ==
  /\ TypeOK
  /\ pc # "built" => wire = ApplyHeaderMask(mask, packet, FALSE)
  /\ pc = "opened" => opened = packet

LEMMA HInvInit == Init => HInv
  BY PacketAssumption DEF Init, HInv, TypeOK

LEMMA HInvNext == HInv /\ [Next]_vars => HInv'
<1> SUFFICES ASSUME HInv, [Next]_vars PROVE HInv'
  OBVIOUS
<1>1. CASE EncryptInPlace
  <2>1. ApplyHeaderMask(mask, packet, FALSE) \in Packet
    BY MaskedPacket DEF HInv, TypeOK
  <2>2. QED BY <1>1, <2>1 DEF EncryptInPlace, HInv, TypeOK
<1>2. CASE DecryptInPlace
  <2>1. opened' = packet
    BY <1>2, MaskInverse DEF DecryptInPlace, HInv, TypeOK
  <2>2. QED BY <1>2, <2>1 DEF DecryptInPlace, HInv, TypeOK
<1>3. CASE UNCHANGED vars
  BY <1>3 DEF vars, HInv, TypeOK
<1>4. QED BY <1>1, <1>2, <1>3 DEF Next

LEMMA Holds == Spec => []HInv
  BY HInvInit, HInvNext, PTL DEF Spec

\* decrypt_in_place gives back every packet that encrypt_in_place masked.
THEOREM RoundTripHolds == Spec => []RoundTrip
<1>1. HInv => RoundTrip
  BY DEF HInv, RoundTrip
<1>2. QED BY <1>1, Holds, PTL

\* Exactly the packet number is masked behind the first byte, and the bits that
\* say what kind of packet it is are left readable.
THEOREM PacketNumberMaskedHolds == Spec => []PacketNumberMasked
<1>1. ASSUME HInv, pc # "built"
      PROVE  \A k \in Slice :
               wire.rest[k] = IF k \in PacketNumber(packet.first)
                              THEN XorOn(Bit, packet.rest[k], mask[k])
                              ELSE packet.rest[k]
  <2>1. packet.first \in Byte
    BY <1>1 DEF HInv, TypeOK, Packet
  <2>2. \A k \in Slice : k <= PnLen(packet.first) <=> k \in PacketNumber(packet.first)
    BY <2>1, LengthRead
  <2>3. \A k \in Slice :
          wire.rest[k] = IF k <= PnLen(packet.first) THEN XorOn(Bit, packet.rest[k], mask[k])
                         ELSE packet.rest[k]
    BY <1>1 DEF HInv, ApplyHeaderMask
  <2> QED BY <2>2, <2>3
<1>2. ASSUME HInv, pc # "built"
      PROVE  /\ \A k \in 5 .. 7 : wire.first[k] = packet.first[k]
             /\ packet.first[7] = 1 => wire.first[4] = packet.first[4]
  <2>1. wire.first = XorOn(MaskedBits(packet.first), packet.first, mask[0])
    BY <1>2 DEF HInv, ApplyHeaderMask
  <2>2. \A k \in 5 .. 7 : k \in Bit /\ k \notin MaskedBits(packet.first)
    BY DEF Bit, MaskedBits
  <2>3. 4 \in Bit /\ (packet.first[7] = 1 => 4 \notin MaskedBits(packet.first))
    BY DEF Bit, MaskedBits
  <2>4. QED BY <2>1, <2>2, <2>3 DEF XorOn
<1>3. HInv => PacketNumberMasked
  BY <1>1, <1>2 DEF PacketNumberMasked
<1>4. QED BY <1>3, Holds, PTL
=============================================================================
