SPECIFICATION Spec

CONSTANTS
  Packets <- AllFirst
  Masks <- AllMasks

CHECK_DEADLOCK FALSE

INVARIANTS
  RoundTrip
  PacketNumberMasked
