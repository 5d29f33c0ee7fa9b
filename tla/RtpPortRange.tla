---------------------------- MODULE RtpPortRange ----------------------------
(***************************************************************************)
(* The arithmetic of RtpPortRange: how the configured ports become a range *)
(* of RTP/RTCP pairs, and how the cursor walks over it. A pair is named by *)
(* its RTP port; the RTCP port is the next one. Port numbers are unsigned  *)
(* integers below Modulus (2^16 in the code) that wrap around, as they do  *)
(* in a release build.                                                     *)
(*                                                                         *)
(* A definition introduced as a "Variant" is deliberately wrong and is not *)
(* part of the specification: it shows which property notices the slip.    *)
(***************************************************************************)
EXTENDS Integers

CONSTANT Modulus

ASSUME ModulusAssumption == Modulus \in Nat /\ Modulus > 2

Port == 0 .. Modulus - 1

(* RtpPortRange::new refuses a range that cannot hold a port pair.         *)
ValidRange(min, max) == max > min

(* Variant: an uneven maximum is taken for an RTP port.                    *)
NewRangeByMax(min, max) ==
  [first |-> min, last |-> IF max % 2 = 0 THEN max - 2 ELSE max]

(* The last RTP port leaves room for its RTCP port.                        *)
NewRange(min, max) ==
  [first |-> min, last |-> IF max % 2 = 0 THEN max - 2 ELSE max - 1]

(* Variant: compared before it is advanced.                                *)
NextPortLate(range, cursor) ==
  IF cursor > range.last THEN range.first ELSE (cursor + 2) % Modulus

(* The cursor advances by one pair, back to the first after the last.      *)
NextPort(range, cursor) ==
  IF (cursor + 2) % Modulus > range.last THEN range.first
                                         ELSE (cursor + 2) % Modulus

(* Variant: without the last pair.                                         *)
CapacityShort(range) == ((range.last - range.first) % Modulus) \div 2

(* How many pairs there are, and so how often an allocation tries.         *)
Capacity(range) == ((range.last - range.first) % Modulus) \div 2 + 1

(* What the documentation means by the range: min_port is the first RTP    *)
(* port and no port above max_port is used.                                *)
PairsWithin(min, max) ==
  {p \in Port : min <= p /\ p + 1 <= max /\ (p - min) % 2 = 0}

(* A range that does not overflow: there is a pair in it, and the cursor   *)
(* can go past the last one.                                               *)
Fits(range) ==
  /\ range.first \in Nat /\ range.last \in Nat
  /\ range.first <= range.last /\ range.last + 2 < Modulus

(* The pairs of the range by their RTP ports, in the order of the cursor.  *)
PairAt(range, i) == range.first + 2 * i

PairsOf(range) == {PairAt(range, i) : i \in 0 .. Capacity(range) - 1}
============================================================================
