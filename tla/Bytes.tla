-------------------------------- MODULE Bytes --------------------------------
(***************************************************************************)
(* The bytes of the MQTT wire.  A byte of a length or of a 16-bit number   *)
(* has Octet values, and a digit of the remaining length, which gives one  *)
(* bit to the continuation mark, half as many.                             *)
(***************************************************************************)
EXTENDS Integers

CONSTANT Radix   \* values of a digit of the remaining length: 128 in the code

\* A literal length of 2 (packets.hpp:110) is one digit.
ASSUME BytesAssumption == Radix \in Nat /\ Radix > 2

Octet == 2 * Radix

Digit(b) == b % Radix          \* b & 0x7F
Continues(b) == b >= Radix     \* (b & 0x80) # 0

\* is_valid_packet_type(), with the type in the high half of the first byte.
TypeBits(b) == b \div 16
ValidType(b) == TypeBits(b) \in 1 .. 14
=============================================================================
