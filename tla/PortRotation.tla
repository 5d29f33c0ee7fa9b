---------------------------- MODULE PortRotation ----------------------------
(***************************************************************************)
(* Every configuration of the port range below Modulus, and one full turn  *)
(* of its cursor: the arithmetic of RtpPortRange against what the          *)
(* documentation says of min_port and max_port.                            *)
(***************************************************************************)
EXTENDS RtpPortRange, FiniteSets

VARIABLES
  min, max,  \* the configured ports
  cursor,    \* current_rtp_port
  drawn      \* the pairs drawn so far, by their RTP ports

vars == <<min, max, cursor, drawn>>

PortRange == NewRange(min, max)

(* Where the 16-bit arithmetic does not overflow: the cursor must be able  *)
(* to go past the last pair, and the range must not be a single pair whose *)
(* RTP port is uneven (see PortOverflow in the README).                    *)
NoOverflow == PortRange.first <= PortRange.last /\ PortRange.last + 2 < Modulus

Init ==
  /\ min \in Port /\ max \in Port
  /\ ValidRange(min, max)
  /\ NoOverflow
  /\ cursor = PortRange.first
  /\ drawn = {}

(* next_port_pair by a task that is alone.                                 *)
Draw ==
  /\ Cardinality(drawn) < Capacity(PortRange)
  /\ drawn' = drawn \cup {cursor}
  /\ cursor' = NextPort(PortRange, cursor)
  /\ UNCHANGED <<min, max>>

(* try_allocate_socket_pair stops after capacity() pairs.                  *)
Next == Draw

Spec == Init /\ [][Next]_vars /\ WF_vars(Draw)

(* No draw leaves the configured ports or repeats a pair before the turn   *)
(* is over, and after capacity() draws the cursor is back at the start.    *)
NoPairTwice ==
  /\ drawn \subseteq PairsWithin(min, max)
  /\ Cardinality(drawn) < Capacity(PortRange) <=> cursor \notin drawn
  /\ Cardinality(drawn) = Capacity(PortRange) => cursor = PortRange.first

(* The turn uses every pair the configuration allows, except the last one  *)
(* when min_port is uneven and max_port even.                              *)
EveryPairUsed ==
  (drawn = {}) ~> (\/ drawn = PairsWithin(min, max)
                   \/ /\ min % 2 = 1 /\ max % 2 = 0
                      /\ drawn = PairsWithin(min, max - 1))
============================================================================
