------------------------- MODULE PortRotation_proofs -------------------------
(***************************************************************************)
(* Proofs about RtpPortRange and PortRotation: the range and one turn of   *)
(* the cursor, for every size of the port numbers and every configuration  *)
(* that does not overflow.                                                 *)
(***************************************************************************)
EXTENDS PortRotation, FiniteSetTheorems, TLAPS

----------------------------------------------------------------------------
(* The range *)

(* A number that is small enough does not wrap around.                     *)
LEMMA NoWrap ==
  ASSUME NEW n \in 0 .. Modulus - 1
  PROVE  n % Modulus = n
BY ModulusAssumption

(* capacity() is the number of pairs that fit between first and last.      *)
LEMMA CapacityIs ==
  ASSUME NEW range, Fits(range)
  PROVE  /\ Capacity(range) \in Nat /\ Capacity(range) > 0
         /\ range.first + 2 * Capacity(range) - 2 <= range.last
         /\ range.last < range.first + 2 * Capacity(range)
<1> DEFINE first == range.first
           last  == range.last
<1>1. first \in Nat /\ last \in Nat /\ first <= last /\ last - first \in 0 .. Modulus - 1
  BY ModulusAssumption DEF Fits
<1>2. Capacity(range) = (last - first) \div 2 + 1
  BY <1>1, NoWrap DEF Capacity
<1> HIDE DEF first, last
<1>3. PICK d \in Nat : d = last - first
  BY <1>1
<1>4. d \div 2 \in Nat /\ 2 * (d \div 2) <= d /\ d < 2 * (d \div 2) + 2
  BY <1>3
<1> QED
  BY <1>1, <1>2, <1>3, <1>4 DEF first, last

(* The pairs lie within the range, at even distances from its first.       *)
LEMMA PairsWithinRange ==
  ASSUME NEW range, Fits(range), NEW p
  PROVE  p \in PairsOf(range) <=> /\ p \in range.first .. range.last
                                /\ (p - range.first) % 2 = 0
<1> DEFINE first == range.first
           last  == range.last
           C     == Capacity(range)
<1>1. /\ first \in Nat /\ last \in Nat
      /\ C \in Nat /\ C > 0 /\ first + 2 * C - 2 <= last /\ last < first + 2 * C
  BY CapacityIs DEF Fits
<1> HIDE DEF first, last, C
<1>2. ASSUME NEW i \in 0 .. C - 1, p = first + 2 * i
      PROVE  p \in first .. last /\ (p - first) % 2 = 0
  <2>1. p \in Int /\ first <= p /\ p <= last /\ p - first = 2 * i
    BY <1>1, <1>2
  <2>2. (2 * i) % 2 = 0
    BY <1>1
  <2> QED
    BY <1>1, <2>1, <2>2
<1>3. ASSUME p \in first .. last, (p - first) % 2 = 0
      PROVE  \E i \in 0 .. C - 1 : p = first + 2 * i
  <2>1. PICK d \in Nat : d = p - first
    BY <1>1, <1>3
  <2>2. d % 2 = 0
    BY <1>3, <2>1
  <2>3. PICK i \in Nat : d = 2 * i
    <3>1. d = 2 * (d \div 2) /\ d \div 2 \in Nat
      BY <2>2
    <3> QED
      BY <3>1
  <2>4. i \in 0 .. C - 1 /\ p = first + 2 * i
    BY <1>1, <1>3, <2>1, <2>3
  <2> QED
    BY <2>4
<1> QED
  BY <1>2, <1>3 DEF PairsOf, PairAt, first, last, C

(* next_port_pair advances by one pair, and from the last to the first.    *)
LEMMA NextPortIs ==
  ASSUME NEW range, Fits(range), NEW i \in 0 .. Capacity(range) - 1
  PROVE  NextPort(range, PairAt(range, i)) =
           PairAt(range, IF i = Capacity(range) - 1 THEN 0 ELSE i + 1)
<1> DEFINE first == range.first
           last  == range.last
           C     == Capacity(range)
           next  == first + 2 * i + 2
<1>1. /\ first \in Nat /\ last \in Nat /\ last + 2 < Modulus /\ Modulus \in Nat
      /\ C \in Nat /\ C > 0 /\ first + 2 * C - 2 <= last /\ last < first + 2 * C
      /\ i \in 0 .. C - 1
  BY CapacityIs, ModulusAssumption DEF Fits
<1>2. NextPort(range, PairAt(range, i)) = IF next % Modulus > last THEN first ELSE next % Modulus
  BY DEF NextPort, PairAt
<1> HIDE DEF first, last, C
<1>3. next \in 0 .. Modulus - 1
  BY <1>1
<1>4. next % Modulus = next
  BY <1>3, NoWrap
<1>5. next > last <=> i = C - 1
  BY <1>1
<1>6. first = first + 2 * 0 /\ next = first + 2 * (i + 1)
  BY <1>1
<1> QED
  BY <1>2, <1>4, <1>5, <1>6 DEF PairAt, first, last, C

(* RtpPortRange::new makes a range within the configured ports: its last   *)
(* RTCP port is max_port, or below it.                                     *)
LEMMA NewRangeIs ==
  ASSUME NEW lo \in Port, NEW hi \in Port, ValidRange(lo, hi)
  PROVE  LET range == NewRange(lo, hi)
         IN  /\ range.first = lo
             /\ range.last \in Int /\ range.last + 1 <= hi /\ hi <= range.last + 2
BY ModulusAssumption DEF NewRange, Port, ValidRange
(* The pairs of the range are all those the configuration allows; only if  *)
(* min_port is uneven and max_port even, the last of them is missing.      *)
THEOREM RangeIsConfigured ==
  ASSUME NEW lo \in Port, NEW hi \in Port, ValidRange(lo, hi), Fits(NewRange(lo, hi))
  PROVE  PairsOf(NewRange(lo, hi)) =
           PairsWithin(lo, IF lo % 2 = 1 /\ hi % 2 = 0 THEN hi - 1 ELSE hi)
<1> DEFINE range == NewRange(lo, hi)
           top   == IF lo % 2 = 1 /\ hi % 2 = 0 THEN hi - 1 ELSE hi
<1>1. lo \in Int /\ hi \in Int /\ hi < Modulus /\ Modulus \in Nat /\ lo >= 0
  BY ModulusAssumption DEF Port
<1>2. range.first = lo /\ range.last = IF hi % 2 = 0 THEN hi - 2 ELSE hi - 1
  BY DEF NewRange
<1>3. ASSUME NEW p \in Port, (p - lo) % 2 = 0
      PROVE  (lo <= p /\ p <= range.last) <=> (lo <= p /\ p + 1 <= top)
  <2>1. p \in Int
    BY <1>1, <1>3 DEF Port
  <2>2. p % 2 = lo % 2
    <3>1. \A m, n \in Int : (m - n) % 2 = 0 => m % 2 = n % 2
      OBVIOUS
    <3> QED
      BY <1>1, <1>3, <2>1, <3>1
  <2>3. CASE hi % 2 = 0
    BY <1>1, <1>2, <2>1, <2>2, <2>3
  <2>4. CASE hi % 2 # 0
    BY <1>1, <1>2, <2>1, <2>4
  <2> QED
    BY <2>3, <2>4
<1>4. \A p : p \in PairsOf(range) <=> p \in range.first .. range.last /\ (p - range.first) % 2 = 0
  BY PairsWithinRange
<1>5. \A p : p \in range.first .. range.last => p \in Port
  BY <1>1, <1>2 DEF Port
<1>6. \A p : p \in PairsWithin(lo, top) <=>
               p \in Port /\ lo <= p /\ p + 1 <= top /\ (p - lo) % 2 = 0
  BY DEF PairsWithin
<1> HIDE DEF range, top
<1>7. \A p : p \in Port => p \in Int
  BY <1>1 DEF Port
<1>8. \A p : p \in PairsOf(range) <=>
               p \in Port /\ lo <= p /\ p <= range.last /\ (p - lo) % 2 = 0
  BY <1>1, <1>2, <1>4, <1>5, <1>7
<1>9. \A p : p \in PairsOf(range) <=> p \in PairsWithin(lo, top)
  BY <1>3, <1>6, <1>8
<1> QED
  BY <1>9 DEF range, top

(* The k-th draw takes the k-th pair, and the turn ends where it began.    *)
InTurn ==
  LET k == Cardinality(drawn)
      C == Capacity(PortRange)
  IN  /\ IsFiniteSet(drawn) /\ k \in 0 .. C
      /\ drawn = {PairAt(PortRange, i) : i \in 0 .. k - 1}
      /\ cursor = PairAt(PortRange, IF k = C THEN 0 ELSE k)

Configured ==
  /\ min \in Port /\ max \in Port
  /\ ValidRange(min, max)
  /\ NoOverflow

IInv == Configured /\ InTurn

(* A configuration is a range that does not overflow.                      *)
LEMMA ConfiguredFits == Configured => Fits(PortRange)
BY ModulusAssumption, NewRangeIs DEF Configured, NoOverflow, PortRange, Fits, Port

(* The turn begins at the first pair.                                      *)
LEMMA InitInTurn == Init => IInv
<1> SUFFICES ASSUME Init
             PROVE  IInv
  OBVIOUS
<1>1. Configured
  BY DEF Init, Configured
<1>2. Capacity(PortRange) \in Nat /\ Capacity(PortRange) > 0 /\ PortRange.first \in Nat
  BY <1>1, ConfiguredFits, CapacityIs DEF Fits
<1>3. IsFiniteSet(drawn) /\ Cardinality(drawn) = 0 /\ drawn = {}
  BY FS_EmptySet DEF Init
<1>4. cursor = PairAt(PortRange, 0)
  BY <1>2 DEF Init, PairAt
<1> QED
  BY <1>1, <1>2, <1>3, <1>4 DEF IInv, InTurn

(* A draw takes a pair that was not drawn, and moves on to the next.       *)
LEMMA DrawInTurn == IInv /\ [Next]_vars => IInv'
<1> SUFFICES ASSUME IInv, [Next]_vars
             PROVE  IInv'
  OBVIOUS
<1> DEFINE k     == Cardinality(drawn)
           C     == Capacity(PortRange)
           at(i) == PairAt(PortRange, i)
<1>1. CASE UNCHANGED vars
  BY <1>1 DEF IInv, Configured, InTurn, NoOverflow, PortRange, vars
<1>2. CASE Draw
  <2>1. UNCHANGED <<min, max, PortRange>> /\ Configured'
    BY <1>2 DEF Draw, IInv, Configured, NoOverflow, PortRange
  <2>2. Fits(PortRange) /\ C \in Nat /\ C > 0 /\ PortRange.first \in Nat
    BY ConfiguredFits, CapacityIs DEF IInv, Fits
  <2>3. k \in 0 .. C - 1 /\ cursor = at(k) /\ drawn = {at(i) : i \in 0 .. k - 1}
    BY <1>2, <2>2 DEF Draw, IInv, InTurn
  <2>4. at(k) \notin drawn
    BY <2>2, <2>3 DEF PairAt
  <2>5. drawn' = drawn \cup {at(k)}
    BY <1>2, <2>3 DEF Draw
  <2>6. IsFiniteSet(drawn') /\ Cardinality(drawn') = k + 1
    BY <2>4, <2>5, FS_AddElement DEF IInv, InTurn
  <2>7. cursor' = at(IF k = C - 1 THEN 0 ELSE k + 1)
    BY <1>2, <2>2, <2>3, NextPortIs DEF Draw
  <2> HIDE DEF k, C, at
  <2>8. drawn' = {at(i) : i \in 0 .. (k + 1) - 1}
    <3>1. 0 .. (k + 1) - 1 = (0 .. k - 1) \cup {k}
      BY <2>2, <2>3
    <3> QED
      BY <2>3, <2>5, <3>1
  <2>9. k + 1 \in 0 .. C /\ cursor' = at(IF k + 1 = C THEN 0 ELSE k + 1)
    BY <2>2, <2>3, <2>7
  <2> QED
    BY <2>1, <2>6, <2>8, <2>9 DEF IInv, InTurn, C, at
<1> QED
  BY <1>1, <1>2 DEF Next

(* Whatever the configured ports, as long as they do not overflow: within  *)
(* capacity() draws the cursor stays on pairs of the configured ports and  *)
(* repeats none, and then it is back at the first.                         *)
THEOREM SpecNoPairTwice == Spec => []NoPairTwice
<1>1. IInv => NoPairTwice
  <2> SUFFICES ASSUME IInv
               PROVE  NoPairTwice
    OBVIOUS
  <2> DEFINE k     == Cardinality(drawn)
             C     == Capacity(PortRange)
             first == PortRange.first
  <2>1. /\ C \in Nat /\ C > 0 /\ first \in Nat
        /\ first + 2 * C - 2 <= PortRange.last
    BY ConfiguredFits, CapacityIs DEF IInv, Fits
  <2>2. first = min /\ PortRange.last \in Int /\ PortRange.last + 1 <= max
    BY NewRangeIs DEF IInv, Configured, PortRange
  <2>3. /\ k \in 0 .. C
        /\ drawn = {first + 2 * i : i \in 0 .. k - 1}
        /\ cursor = first + 2 * (IF k = C THEN 0 ELSE k)
    BY DEF IInv, InTurn, PairAt
  <2>4. max \in Nat /\ max < Modulus /\ Modulus \in Nat
    BY ModulusAssumption DEF IInv, Configured, Port
  <2> HIDE DEF k, C, first
  <2>5. ASSUME NEW i \in 0 .. k - 1 PROVE first + 2 * i \in PairsWithin(min, max)
    <3> DEFINE p == first + 2 * i
    <3>1. p \in Port /\ min <= p /\ p + 1 <= max
      BY <2>1, <2>2, <2>3, <2>4 DEF Port
    <3>2. (p - min) % 2 = 0
      <4>1. p - min = 2 * i
        BY <2>1, <2>2, <2>3
      <4> QED
        BY <2>3, <4>1
    <3> QED
      BY <3>1, <3>2 DEF PairsWithin
  <2>6. drawn \subseteq PairsWithin(min, max)
    BY <2>3, <2>5
  <2>7. k < C <=> cursor \notin drawn
    BY <2>1, <2>3
  <2>8. k = C => cursor = first
    BY <2>1, <2>3
  <2> QED
    BY <2>6, <2>7, <2>8 DEF NoPairTwice, k, C, first
<1> QED
  BY <1>1, InitInTurn, DrawInTurn, PTL DEF Spec

(* After capacity() draws every pair of the configured ports was drawn,    *)
(* but for the last one when min_port is uneven and max_port even: what    *)
(* EveryPairUsed promises of the turn, provided that it is completed.      *)
THEOREM SpecTurnIsComplete ==
  Spec => [](Cardinality(drawn) = Capacity(PortRange) =>
               \/ drawn = PairsWithin(min, max)
               \/ /\ min % 2 = 1 /\ max % 2 = 0
                  /\ drawn = PairsWithin(min, max - 1))
<1>1. IInv => (Cardinality(drawn) = Capacity(PortRange) =>
                 \/ drawn = PairsWithin(min, max)
                 \/ /\ min % 2 = 1 /\ max % 2 = 0
                    /\ drawn = PairsWithin(min, max - 1))
  <2> SUFFICES ASSUME IInv, Cardinality(drawn) = Capacity(PortRange)
               PROVE  \/ drawn = PairsWithin(min, max)
                      \/ /\ min % 2 = 1 /\ max % 2 = 0
                         /\ drawn = PairsWithin(min, max - 1)
    OBVIOUS
  <2>1. drawn = PairsOf(PortRange)
    BY DEF IInv, InTurn, PairsOf
  <2>2. PairsOf(PortRange) =
          PairsWithin(min, IF min % 2 = 1 /\ max % 2 = 0 THEN max - 1 ELSE max)
    BY RangeIsConfigured, ConfiguredFits DEF IInv, Configured, PortRange
  <2> QED
    BY <2>1, <2>2
<1> QED
  BY <1>1, InitInTurn, DrawInTurn, PTL DEF Spec

=============================================================================
