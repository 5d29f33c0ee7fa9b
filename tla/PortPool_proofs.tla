-------------------------- MODULE PortPool_proofs --------------------------
(***************************************************************************)
(* Proofs about PortPool, for any number of allocations, any range and any *)
(* ports of other programs.                                                *)
(***************************************************************************)
EXTENDS PortPool, FiniteSetTheorems, SequenceTheorems, TLAPS

----------------------------------------------------------------------------
(* The range *)

(* What PortRotation_proofs shows of the range: its lemmas do not speak of *)
(* the variables of a turn.                                                *)
R == INSTANCE PortRotation_proofs WITH min <- MinPort, max <- MaxPort, drawn <- {}

(* capacity() is the number of pairs that fit between first and last.      *)
LEMMA CapacityIs ==
  ASSUME NEW range, Fits(range)
  PROVE  /\ Capacity(range) \in Nat /\ Capacity(range) > 0
         /\ range.first + 2 * Capacity(range) - 2 <= range.last
         /\ range.last < range.first + 2 * Capacity(range)
BY ModulusAssumption, R!CapacityIs DEF Fits, Capacity, R!Fits, R!Capacity

(* The pairs lie within the range, at even distances from its first.       *)
LEMMA PairsWithinRange ==
  ASSUME NEW range, Fits(range), NEW p
  PROVE  p \in PairsOf(range) <=> /\ p \in range.first .. range.last
                                  /\ (p - range.first) % 2 = 0
BY ModulusAssumption, R!PairsWithinRange
   DEF Fits, PairsOf, PairAt, Capacity, R!Fits, R!PairsOf, R!PairAt, R!Capacity

(* next_port_pair advances by one pair, and from the last to the first.    *)
LEMMA NextPortIs ==
  ASSUME NEW range, Fits(range), NEW i \in 0 .. Capacity(range) - 1
  PROVE  NextPort(range, PairAt(range, i)) =
           PairAt(range, IF i = Capacity(range) - 1 THEN 0 ELSE i + 1)
BY ModulusAssumption, R!NextPortIs
   DEF Fits, NextPort, PairAt, Capacity, R!Fits, R!NextPort, R!PairAt, R!Capacity

(* RtpPortRange::new makes a range within the configured ports.            *)
LEMMA NewRangeIs ==
  ASSUME NEW lo \in Port, NEW hi \in Port, ValidRange(lo, hi)
  PROVE  LET range == NewRange(lo, hi)
         IN  /\ range.first = lo
             /\ range.last \in Int /\ range.last + 1 <= hi /\ hi <= range.last + 2
BY ModulusAssumption DEF NewRange, Port, ValidRange

(* There are as many pairs as capacity() says.                             *)
LEMMA CountPairs ==
  ASSUME NEW range, Fits(range)
  PROVE  IsFiniteSet(PairsOf(range)) /\ Cardinality(PairsOf(range)) = Capacity(range)
<1> DEFINE C  == Capacity(range)
           at == [i \in 0 .. C - 1 |-> PairAt(range, i)]
<1>1. C \in Nat /\ range.first \in Nat
  BY CapacityIs DEF Fits
<1>2. at \in Bijection(0 .. C - 1, PairsOf(range))
  <2> HIDE DEF C
  <2>1. \A i, j \in 0 .. C - 1 : PairAt(range, i) = PairAt(range, j) => i = j
    BY <1>1 DEF PairAt
  <2> QED
    BY <2>1 DEF PairsOf, C, Bijection, Injection, Surjection, IsInjective
<1>3. IsFiniteSet(0 .. C - 1) /\ Cardinality(0 .. C - 1) = C
  <2> HIDE DEF C
  <2>1. 0 \in Int /\ C - 1 \in Int
    BY <1>1
  <2>2. /\ IsFiniteSet(0 .. C - 1)
        /\ Cardinality(0 .. C - 1) = IF 0 > C - 1 THEN 0 ELSE (C - 1) - 0 + 1
    BY <2>1, FS_Interval
  <2> QED
    BY <1>1, <2>2
<1> QED
  BY <1>2, <1>3, FS_Bijection DEF ExistsBijection

----------------------------------------------------------------------------
(* Both sockets or neither *)

(* Neither property needs to know more of the ports than who holds them.   *)
Holders ==
  /\ pc \in [Allocators -> Places]
  /\ loaded \in [Allocators -> Int]
  /\ rtpSock \in [Allocators -> Int \cup {NoPort}]
  /\ rtcpSock \in [Allocators -> Int \cup {NoPort}]
  /\ cursor \in Int

(* NextPort is a port whatever the range.                                  *)
LEMMA NextPortInt ==
  ASSUME NEW p \in Int
  PROVE  NextPort(PortRange, p) \in Int
BY ModulusAssumption, RangeAssumption DEF NextPort, PortRange, NewRange, Port

(* Every step keeps the holders' types.                                    *)
LEMMA HoldersStep == Holders /\ [Next]_vars => Holders'
<1> SUFFICES ASSUME Holders, [Next]_vars
             PROVE  Holders'
  OBVIOUS
<1> USE DEF Holders, Goto, Places, Searching, sockets
<1>1. ASSUME NEW a \in Allocators, Start(a) \/ Load(a) \/ GiveUp(a) PROVE Holders'
  BY <1>1 DEF Start, Load, GiveUp
<1>2. ASSUME NEW a \in Allocators, CompareExchange(a) PROVE Holders'
  <2>1. NextPort(PortRange, loaded[a]) \in Int
    BY NextPortInt
  <2> QED
    BY <1>2, <2>1 DEF CompareExchange
<1>3. ASSUME NEW a \in Allocators, BindRtp(a) \/ BindRtcp(a) PROVE Holders'
  BY <1>3 DEF BindRtp, BindRtcp, Retry
<1>4. ASSUME NEW a \in Allocators, StartMedia(a) \/ Close(a) PROVE Holders'
  BY <1>4 DEF StartMedia, Close
<1>5. ASSUME NEW q \in OtherPorts, OtherProgram(q) PROVE Holders'
  BY <1>5 DEF OtherProgram
<1>6. CASE UNCHANGED vars
  BY <1>6 DEF vars
<1> QED
  BY <1>1, <1>2, <1>3, <1>4, <1>5, <1>6 DEF Next, Call, Allocate

(* Every step keeps the sockets with the pair that was drawn.              *)
LEMMA BothOrNeitherStep == Holders /\ BothOrNeither /\ [Next]_vars => BothOrNeither'
<1> SUFFICES ASSUME Holders, BothOrNeither, [Next]_vars
             PROVE  BothOrNeither'
  OBVIOUS
<1> USE DEF Holders, BothOrNeither, Goto, sockets
<1>1. ASSUME NEW a \in Allocators, Start(a) \/ Load(a) \/ GiveUp(a) PROVE BothOrNeither'
  BY <1>1 DEF Start, Load, GiveUp
<1>2. ASSUME NEW a \in Allocators, CompareExchange(a) PROVE BothOrNeither'
  BY <1>2 DEF CompareExchange
<1>3. ASSUME NEW a \in Allocators, BindRtp(a) PROVE BothOrNeither'
  BY <1>3 DEF BindRtp, Retry
<1>4. ASSUME NEW a \in Allocators, BindRtcp(a) PROVE BothOrNeither'
  BY <1>4 DEF BindRtcp, Retry
<1>5. ASSUME NEW a \in Allocators, StartMedia(a) \/ Close(a) PROVE BothOrNeither'
  BY <1>5 DEF StartMedia, Close
<1>6. ASSUME NEW q \in OtherPorts, OtherProgram(q) PROVE BothOrNeither'
  BY <1>6 DEF OtherProgram
<1>7. CASE UNCHANGED vars
  BY <1>7 DEF vars
<1> QED
  BY <1>1, <1>2, <1>3, <1>4, <1>5, <1>6, <1>7 DEF Next, Call, Allocate

(* RtpSocketPair::new returns both sockets or neither, and drops the RTP   *)
(* socket when the RTCP port cannot be bound: of a call that is between    *)
(* two attempts, or has given up, no socket is left.                       *)
THEOREM SpecBothOrNeither == Spec => []BothOrNeither
<1>1. Init => Holders /\ BothOrNeither
  BY RangeAssumption DEF Init, Holders, BothOrNeither, Places, PortRange, NewRange, Port
<1>2. Holders /\ BothOrNeither /\ [Next]_vars => (Holders /\ BothOrNeither)'
  BY HoldersStep, BothOrNeitherStep
<1> QED
  BY <1>1, <1>2, PTL DEF Spec

(* An exchange that would succeed succeeds, can still succeed, or is lost  *)
(* because another allocation has drawn a pair in the meantime.            *)
LostToADraw ==
  \A a \in Allocators :
    pc[a] = "cas" /\ loaded[a] = cursor =>
      \/ pc'[a] = "bindRtp"
      \/ pc'[a] = "cas" /\ loaded'[a] = cursor'
      \/ \E b \in Allocators \ {a} : pc[b] = "cas" /\ pc'[b] = "bindRtp"

(* "one thread always makes progress": the loop of next_port_pair repeats  *)
(* an exchange only when somebody else got out of it with a pair. That     *)
(* somebody gets out at all is SomeDrawSucceeds.                           *)
THEOREM SpecExchangeLostToADraw == Spec => [][LostToADraw]_vars
<1>1. Init => Holders
  BY RangeAssumption DEF Init, Holders, Places, PortRange, NewRange, Port
<1>2. Holders /\ [Next]_vars => [LostToADraw]_vars
  <2> SUFFICES ASSUME Holders, Next, NEW a \in Allocators, pc[a] = "cas", loaded[a] = cursor
               PROVE  \/ pc'[a] = "bindRtp"
                      \/ pc'[a] = "cas" /\ loaded'[a] = cursor'
                      \/ \E b \in Allocators \ {a} : pc[b] = "cas" /\ pc'[b] = "bindRtp"
    BY DEF LostToADraw
  <2> USE DEF Holders, Goto
  <2>1. ASSUME NEW b \in Allocators, CompareExchange(b)
        PROVE  \/ pc'[a] = "bindRtp"
               \/ pc'[a] = "cas" /\ loaded'[a] = cursor'
               \/ pc[b] = "cas" /\ pc'[b] = "bindRtp" /\ b # a
    BY <2>1 DEF CompareExchange
  <2>2. ASSUME NEW b \in Allocators,
               Start(b) \/ Load(b) \/ BindRtp(b) \/ BindRtcp(b) \/ GiveUp(b) \/ StartMedia(b) \/ Close(b)
        PROVE  pc'[a] = "cas" /\ loaded'[a] = cursor'
    BY <2>2 DEF Start, Load, BindRtp, BindRtcp, Retry, GiveUp, StartMedia, Close
  <2>3. ASSUME NEW q \in OtherPorts, OtherProgram(q)
        PROVE  pc'[a] = "cas" /\ loaded'[a] = cursor'
    BY <2>3 DEF OtherProgram
  <2> QED
    BY <2>1, <2>2, <2>3 DEF Next, Call, Allocate
<1> QED
  BY <1>1, <1>2, HoldersStep, PTL DEF Spec

----------------------------------------------------------------------------
(* The cursor *)

(* The ranges of which 16 bits can count past the last pair.               *)
NoOverflow == PortRange.first <= PortRange.last /\ PortRange.last + 2 < Modulus

(* In such a range the RTP ports are the pairs that capacity() counts.     *)
LEMMA RangeFits ==
  ASSUME NoOverflow
  PROVE  Fits(PortRange) /\ RtpPorts = PairsOf(PortRange)
<1>1. Fits(PortRange)
  BY ModulusAssumption, RangeAssumption, NewRangeIs DEF NoOverflow, PortRange, Fits, Port
<1>2. PortRange.last < Modulus
  BY <1>1, ModulusAssumption DEF Fits
<1>3. RtpPorts = {p \in PortRange.first .. PortRange.last : (p - PortRange.first) % 2 = 0}
  BY <1>1, <1>2, ModulusAssumption DEF RtpPorts, Port, Fits
<1>4. \A p : p \in RtpPorts <=> p \in PairsOf(PortRange)
  BY <1>1, <1>3, PairsWithinRange
<1> QED
  BY <1>1, <1>4

(* next_port_pair goes from one RTP port of the range to another one.      *)
LEMMA NextPortInRange ==
  ASSUME NoOverflow, NEW p \in RtpPorts
  PROVE  NextPort(PortRange, p) \in RtpPorts
<1>1. PICK i \in 0 .. Capacity(PortRange) - 1 : p = PairAt(PortRange, i)
  BY RangeFits DEF PairsOf
<1>2. NextPort(PortRange, p) = PairAt(PortRange, IF i = Capacity(PortRange) - 1 THEN 0 ELSE i + 1)
  BY <1>1, RangeFits, NextPortIs
<1>3. (IF i = Capacity(PortRange) - 1 THEN 0 ELSE i + 1) \in 0 .. Capacity(PortRange) - 1
  BY RangeFits, CapacityIs
<1> QED
  BY <1>2, <1>3, RangeFits DEF PairsOf

(* There is a pair to draw, and it is drawn at least once.                 *)
LEMMA RangeHasPairs ==
  ASSUME NoOverflow
  PROVE  /\ PortRange.first \in RtpPorts
         /\ Capacity(PortRange) \in Nat /\ Capacity(PortRange) > 0
<1>1. Capacity(PortRange) \in Nat /\ Capacity(PortRange) > 0
  BY RangeFits, CapacityIs
<1>2. PortRange.first = PairAt(PortRange, 0) /\ 0 \in 0 .. Capacity(PortRange) - 1
  BY <1>1, RangeFits DEF PairAt, Fits
<1> QED
  BY <1>1, <1>2, RangeFits DEF PairsOf

(* What TypeOK says of the variables that are not sockets; an allocation   *)
(* that draws again has pairs left to draw.                                *)
Drawn ==
  /\ cursor \in RtpPorts
  /\ loaded \in [Allocators -> RtpPorts]
  /\ tries \in [Allocators -> 0 .. Capacity(PortRange)]
  /\ \A a \in Allocators : pc[a] \in {"load", "cas"} => tries[a] < Capacity(PortRange)
  /\ taken \subseteq OtherPorts
  /\ busy \in [Allocators -> SUBSET RtpPorts]

(* What is observed is made of pairs of the range.                         *)
LEMMA ObserveTyped ==
  ASSUME busy \in [Allocators -> SUBSET RtpPorts], Observe
  PROVE  busy' \in [Allocators -> SUBSET RtpPorts]
<1> DEFINE now(a) == {p \in RtpPorts : Contended(a, p)'}
           then(a) == IF pc'[a] \in Searching \cup {"exhausted"}
                      THEN (IF pc[a] = "idle" THEN {} ELSE busy[a]) \cup now(a)
                      ELSE {}
<1>1. \A a \in Allocators : now(a) \subseteq RtpPorts
  OBVIOUS
<1>2. busy' = [a \in Allocators |-> then(a)]
  BY DEF Observe
<1> HIDE DEF now
<1>3. \A a \in Allocators : then(a) \in SUBSET RtpPorts
  BY <1>1
<1> QED
  BY <1>2, <1>3, Zenon

(* Every step keeps the draws in range and within capacity().              *)
LEMMA DrawnStep ==
  ASSUME NoOverflow, Holders, Drawn, [Next]_vars
  PROVE  Drawn'
<1>1. Capacity(PortRange) \in Nat /\ Capacity(PortRange) > 0
  BY RangeHasPairs
<1> DEFINE C == Capacity(PortRange)
<1>2. C' = C /\ RtpPorts' = RtpPorts
  OBVIOUS
<1> HIDE DEF C
<1>3. busy' \in [Allocators -> SUBSET RtpPorts]
  BY ObserveTyped
     DEF Drawn, Next, Call, Allocate, Start, Load, CompareExchange, BindRtp, BindRtcp, GiveUp,
         StartMedia, Close, OtherProgram, vars
<1>4. ASSUME NEW a \in Allocators, Start(a) \/ Load(a) \/ GiveUp(a) PROVE Drawn'
  BY <1>1, <1>3, <1>4 DEF Start, Load, GiveUp, Drawn, Goto, Holders, C
<1>5. ASSUME NEW a \in Allocators, CompareExchange(a) PROVE Drawn'
  <2>1. NextPort(PortRange, loaded[a]) \in RtpPorts
    BY NextPortInRange DEF Drawn
  <2> QED
    BY <1>1, <1>3, <1>5, <2>1 DEF CompareExchange, Drawn, Goto, Holders
<1>6. ASSUME NEW a \in Allocators, BindRtp(a) \/ BindRtcp(a) PROVE Drawn'
  BY <1>1, <1>3, <1>6 DEF BindRtp, BindRtcp, Retry, Drawn, Goto, Holders
<1>7. ASSUME NEW a \in Allocators, StartMedia(a) \/ Close(a) PROVE Drawn'
  BY <1>1, <1>3, <1>7 DEF StartMedia, Close, Drawn, Goto, Holders
<1>8. ASSUME NEW q \in OtherPorts, OtherProgram(q) PROVE Drawn'
  BY <1>3, <1>8 DEF OtherProgram, Drawn
<1>9. CASE UNCHANGED vars
  BY <1>9 DEF vars, Drawn
<1> QED
  BY <1>4, <1>5, <1>6, <1>7, <1>8, <1>9 DEF Next, Call, Allocate

(* What the pool knows of its ports, its sockets and its draws.            *)
PoolInv == Holders /\ BothOrNeither /\ Drawn

(* In a range that does not overflow it knows that in every state.         *)
LEMMA PoolInvInit ==
  ASSUME NoOverflow
  PROVE  Init => PoolInv
<1> SUFFICES ASSUME Init
             PROVE  PoolInv
  OBVIOUS
<1>1. Holders /\ BothOrNeither
  BY RangeAssumption DEF Init, Holders, BothOrNeither, Places, PortRange, NewRange, Port
<1>2. Drawn
  BY RangeHasPairs DEF Init, Drawn
<1> QED
  BY <1>1, <1>2 DEF PoolInv

(* Every step keeps it.                                                    *)
LEMMA PoolInvStep ==
  ASSUME NoOverflow
  PROVE  PoolInv /\ [Next]_vars => PoolInv'
BY HoldersStep, BothOrNeitherStep, DrawnStep DEF PoolInv

(* However the exchanges of next_port_pair interleave, in a range that     *)
(* does not overflow the cursor stays on the RTP ports of the range, no    *)
(* allocation draws more than capacity() pairs, and every bound socket is  *)
(* one of a pair of the range.                                             *)
THEOREM SpecTypeOK ==
  ASSUME NoOverflow
  PROVE  Spec => []TypeOK
<1>1. PoolInv => TypeOK
  <2> SUFFICES ASSUME Holders, BothOrNeither, Drawn
               PROVE  TypeOK
    BY DEF PoolInv
  <2>1. rtpSock \in [Allocators -> RtpPorts \cup {NoPort}]
    BY DEF Holders, BothOrNeither, Drawn
  <2>2. rtcpSock \in [Allocators -> {p + 1 : p \in RtpPorts} \cup {NoPort}]
    BY DEF Holders, BothOrNeither, Drawn
  <2> QED
    BY <2>1, <2>2 DEF TypeOK, Holders, Drawn
<1> QED
  BY <1>1, PoolInvInit, PoolInvStep, PTL DEF Spec

----------------------------------------------------------------------------
(* A free pair is found *)

(* How far the cursor has gone, in ports, since it was last at p.          *)
Behind(p) == IF p < cursor THEN cursor - p ELSE cursor - p + 2 * Capacity(PortRange)

(* The allocation has drawn p and is about to bind it.                     *)
Trying(a, p) == pc[a] \in {"bindRtp", "bindRtcp"} /\ loaded[a] = p

(* Of the pairs the cursor has passed in as many draws as the allocation   *)
(* has made, whoever made them, none was free all the time.                *)
PassedAreBusy ==
  \A a \in Allocators : pc[a] \in Searching \cup {"exhausted"} =>
    \A p \in RtpPorts : Behind(p) <= 2 * tries[a] => p \in busy[a] \/ Trying(a, p)

(* An allocation gives up after capacity() draws, not before.              *)
TriesUsedUp ==
  \A a \in Allocators : pc[a] = "exhausted" => tries[a] = Capacity(PortRange)

(* A draw brings the cursor from the pair it takes to the next one, and    *)
(* one pair farther from every other.                                      *)
LEMMA DrawMovesOn ==
  ASSUME NoOverflow, cursor \in RtpPorts, cursor' = NextPort(PortRange, cursor),
         NEW p \in RtpPorts
  PROVE  Behind(p)' = IF p = cursor THEN 2 ELSE Behind(p) + 2
<1> DEFINE C     == Capacity(PortRange)
           first == PortRange.first
<1>1. C \in Nat /\ C > 0 /\ first \in Nat
  BY RangeHasPairs, RangeFits DEF Fits
<1>2. PICK i \in 0 .. C - 1 : cursor = first + 2 * i
  BY RangeFits DEF PairsOf, PairAt
<1>3. PICK j \in 0 .. C - 1 : p = first + 2 * j
  BY RangeFits DEF PairsOf, PairAt
<1>4. cursor' = first + 2 * (IF i = C - 1 THEN 0 ELSE i + 1)
  <2>1. cursor = PairAt(PortRange, i)
    BY <1>2 DEF PairAt
  <2>2. cursor' = PairAt(PortRange, IF i = C - 1 THEN 0 ELSE i + 1)
    BY <2>1, RangeFits, NextPortIs
  <2> QED
    BY <2>2 DEF PairAt
<1>5. Behind(p) = IF p < cursor THEN cursor - p ELSE cursor - p + 2 * C
  BY DEF Behind
<1>6. Behind(p)' = IF p < cursor' THEN cursor' - p ELSE cursor' - p + 2 * C
  BY DEF Behind
<1> HIDE DEF C, first
<1>7. CASE i = C - 1
  BY <1>1, <1>2, <1>3, <1>4, <1>5, <1>6, <1>7
<1>8. CASE i # C - 1
  BY <1>1, <1>2, <1>3, <1>4, <1>5, <1>6, <1>8
<1> QED
  BY <1>7, <1>8

(* The cursor was at every pair within the last capacity() draws.          *)
LEMMA BehindBound ==
  ASSUME NoOverflow, cursor \in RtpPorts, NEW p \in RtpPorts
  PROVE  Behind(p) \in Nat /\ 0 < Behind(p) /\ Behind(p) <= 2 * Capacity(PortRange)
<1> DEFINE C     == Capacity(PortRange)
           first == PortRange.first
<1>1. C \in Nat /\ C > 0 /\ first \in Nat
  BY RangeHasPairs, RangeFits DEF Fits
<1>2. PICK i \in 0 .. C - 1 : cursor = first + 2 * i
  BY RangeFits DEF PairsOf, PairAt
<1>3. PICK j \in 0 .. C - 1 : p = first + 2 * j
  BY RangeFits DEF PairsOf, PairAt
<1>4. Behind(p) = IF p < cursor THEN cursor - p ELSE cursor - p + 2 * C
  BY DEF Behind
<1> HIDE DEF C, first
<1>5. Behind(p) \in Nat /\ 0 < Behind(p) /\ Behind(p) <= 2 * C
  BY <1>1, <1>2, <1>3, <1>4
<1> QED
  BY <1>5 DEF C

(* RTP ports of the range differ in parity from its RTCP ports.            *)
LEMMA RtpIsNotRtcp ==
  ASSUME NEW p \in RtpPorts, NEW q \in RtpPorts
  PROVE  p # q + 1
<1>1. p \in Int /\ q \in Int /\ PortRange.first \in Int
  BY ModulusAssumption, RangeAssumption DEF RtpPorts, Port, PortRange, NewRange
<1>2. (p - PortRange.first) % 2 = 0 /\ (q - PortRange.first) % 2 = 0
  BY DEF RtpPorts
<1>3. \A m, n \in Int : m % 2 = 0 /\ n % 2 = 0 => m # n + 1
  OBVIOUS
<1>4. p - PortRange.first \in Int /\ q - PortRange.first \in Int
  BY <1>1
<1>5. p - PortRange.first # q - PortRange.first + 1
  BY <1>2, <1>3, <1>4
<1> QED
  BY <1>1, <1>5

(* A bind fails only on a pair that another program or call has in use.    *)
LEMMA FailedBindIsContended ==
  ASSUME NoOverflow, Holders, BothOrNeither, Drawn, NEW a \in Allocators,
         \/ pc[a] = "bindRtp" /\ ~ PortFree(loaded[a])
         \/ pc[a] = "bindRtcp" /\ ~ PortFree(loaded[a] + 1)
  PROVE  Contended(a, loaded[a])
<1> DEFINE p == loaded[a]
<1>1. /\ p \in RtpPorts /\ p \in Int
      /\ \A b \in Allocators : loaded[b] \in RtpPorts /\ loaded[b] \in Int
  BY DEF Drawn, Holders
<1>2. NoPort # p /\ NoPort # p + 1
  <2>1. p \in Port /\ p + 1 \in Port
    BY <1>1, RangeFits, ModulusAssumption DEF RtpPorts, Port, Fits
  <2> QED
    BY <2>1, NoPortAssumption
<1> QED
  BY <1>1, <1>2, RtpIsNotRtcp DEF PortFree, Contended, BothOrNeither

(* The history of an allocation grows by what is contended now.            *)
LEMMA ObserveGrows ==
  ASSUME Observe, NEW a \in Allocators, pc'[a] \in Searching \cup {"exhausted"},
         NEW p \in RtpPorts,
         Contended(a, p)' \/ (pc[a] # "idle" /\ p \in busy[a])
  PROVE  p \in busy'[a]
<1>1. busy'[a] = (IF pc[a] = "idle" THEN {} ELSE busy[a]) \cup {r \in RtpPorts : Contended(a, r)'}
  BY DEF Observe
<1> QED
  BY <1>1

(* Every step of the allocation itself keeps what it knows.                *)
LEMMA OwnStepKnows ==
  ASSUME NoOverflow, Holders, BothOrNeither, Drawn, PassedAreBusy, Observe, Holders', Drawn',
         NEW a \in Allocators, Call(a), pc'[a] \in Searching \cup {"exhausted"},
         NEW p \in RtpPorts, Behind(p)' <= 2 * tries'[a]
  PROVE  p \in busy'[a] \/ Trying(a, p)'
<1> USE DEF Goto, sockets
<1>1. tries \in [Allocators -> Nat] /\ tries' \in [Allocators -> Nat]
  BY RangeHasPairs DEF Drawn
<1>2. cursor \in RtpPorts /\ cursor' \in RtpPorts
  BY DEF Drawn
<1>3. CASE Start(a)
  <2>1. tries'[a] = 0
    BY <1>1, <1>3 DEF Start
  <2>2. Behind(p)' > 0
    <3>1. cursor' = cursor /\ Behind(p)' = Behind(p)
      BY <1>3 DEF Start, Behind
    <3> QED
      BY <1>2, <3>1, BehindBound
  <2>3. Behind(p)' \in Int
    BY <1>2, <1>3, BehindBound DEF Start, Behind
  <2> QED
    BY <2>1, <2>2, <2>3
<1>4. CASE CompareExchange(a) /\ cursor = loaded[a]
  <2>1. /\ cursor' = NextPort(PortRange, cursor)
        /\ tries'[a] = tries[a] + 1
        /\ pc[a] = "cas" /\ pc'[a] = "bindRtp" /\ loaded'[a] = cursor
    BY <1>1, <1>4 DEF CompareExchange, Holders
  <2>2. CASE p = cursor
    BY <2>1, <2>2 DEF Trying
  <2>3. CASE p # cursor
    <3>1. Behind(p) + 2 <= 2 * (tries[a] + 1)
      BY <1>2, <2>1, <2>3, DrawMovesOn
    <3>2. Behind(p) \in Nat /\ tries[a] \in Nat
      BY <1>1, <1>2, BehindBound
    <3>3. Behind(p) <= 2 * tries[a]
      BY <3>1, <3>2
    <3>4. p \in busy[a]
      BY <2>1, <3>3 DEF PassedAreBusy, Trying, Searching
    <3> QED
      BY <2>1, <3>4, ObserveGrows
  <2> QED
    BY <2>2, <2>3
<1>5. ASSUME UNCHANGED <<cursor, tries, loaded>>, pc[a] \in Searching,
             pc[a] \in {"bindRtp", "bindRtcp"} /\ ~ Trying(a, loaded[a])' => Contended(a, loaded[a])'
      PROVE  p \in busy'[a] \/ Trying(a, p)'
  <2>1. Behind(p) <= 2 * tries[a]
    BY <1>5 DEF Behind
  <2>2. p \in busy[a] \/ Trying(a, p)
    BY <1>5, <2>1 DEF PassedAreBusy
  <2>3. CASE p \in busy[a]
    BY <1>5, <2>3, ObserveGrows DEF Searching
  <2>4. CASE Trying(a, p)
    <3>1. p = loaded[a] /\ loaded'[a] = loaded[a]
      BY <1>5, <2>4 DEF Trying
    <3>2. Trying(a, p)' \/ Contended(a, p)'
      BY <1>5, <2>4, <3>1 DEF Trying, Contended
    <3> QED
      BY <3>2, ObserveGrows
  <2> QED
    BY <2>2, <2>3, <2>4
<1>6. CASE Load(a)
  <2>1. UNCHANGED <<cursor, tries>> /\ pc[a] = "load"
    BY <1>6 DEF Load
  <2>2. Behind(p) <= 2 * tries[a]
    BY <2>1 DEF Behind
  <2>3. p \in busy[a]
    BY <2>1, <2>2 DEF PassedAreBusy, Trying, Searching
  <2> QED
    BY <2>1, <2>3, ObserveGrows
<1>7. CASE CompareExchange(a) /\ cursor # loaded[a]
  BY <1>5, <1>7 DEF CompareExchange, Searching
<1>8. CASE BindRtp(a)
  <2>1. CASE PortFree(loaded[a])
    BY <1>5, <1>8, <2>1 DEF BindRtp, Searching, Trying, Holders
  <2>2. CASE ~ PortFree(loaded[a])
    <3>1. Contended(a, loaded[a])
      BY <1>8, <2>2, FailedBindIsContended DEF BindRtp
    <3>2. Contended(a, loaded[a])'
      BY <1>8, <2>2, <3>1 DEF BindRtp, Contended, Retry, Holders
    <3> QED
      BY <1>5, <1>8, <3>2 DEF BindRtp, Searching
  <2> QED
    BY <2>1, <2>2
<1>9. CASE BindRtcp(a)
  <2>1. CASE PortFree(loaded[a] + 1)
    BY <1>9, <2>1 DEF BindRtcp, Searching, Holders
  <2>2. CASE ~ PortFree(loaded[a] + 1)
    <3>1. Contended(a, loaded[a])
      BY <1>9, <2>2, FailedBindIsContended DEF BindRtcp
    <3>2. Contended(a, loaded[a])'
      BY <1>9, <2>2, <3>1 DEF BindRtcp, Contended, Retry, Holders
    <3> QED
      BY <1>5, <1>9, <3>2 DEF BindRtcp, Searching
  <2> QED
    BY <2>1, <2>2
<1>10. CASE GiveUp(a) \/ StartMedia(a) \/ Close(a)
  BY <1>10 DEF GiveUp, StartMedia, Close, Holders, Searching
<1> QED
  BY <1>3, <1>4, <1>6, <1>7, <1>8, <1>9, <1>10 DEF Call, Allocate

(* A step of another allocation or program does: what it draws it tries.   *)
LEMMA OtherStepKnows ==
  ASSUME NoOverflow, Holders, Drawn, PassedAreBusy, Observe, Drawn',
         NEW a \in Allocators, pc'[a] \in Searching \cup {"exhausted"},
         UNCHANGED <<pc[a], loaded[a], tries[a]>>,
         \/ UNCHANGED cursor
         \/ \E b \in Allocators \ {a} : CompareExchange(b) /\ cursor = loaded[b],
         NEW p \in RtpPorts, Behind(p)' <= 2 * tries'[a]
  PROVE  p \in busy'[a] \/ Trying(a, p)'
<1>1. tries[a] \in Nat /\ tries'[a] = tries[a]
  BY RangeHasPairs DEF Drawn
<1>2. cursor \in RtpPorts /\ Behind(p) \in Nat
  BY BehindBound DEF Drawn
<1>3. Trying(a, p)' = Trying(a, p) /\ pc[a] \in Searching \cup {"exhausted"} /\ pc[a] # "idle"
  BY DEF Trying, Searching
<1>4. CASE Behind(p) <= 2 * tries[a]
  BY <1>3, <1>4, ObserveGrows DEF PassedAreBusy
<1>5. CASE ~ (Behind(p) <= 2 * tries[a])
  <2>1. ~ UNCHANGED cursor
    BY <1>1, <1>5 DEF Behind
  <2>2. PICK b \in Allocators \ {a} : CompareExchange(b) /\ cursor = loaded[b]
    BY <2>1
  <2>3. cursor' = NextPort(PortRange, cursor)
    BY <2>2 DEF CompareExchange
  <2>4. p = cursor
    BY <1>1, <1>2, <1>5, <2>3, DrawMovesOn
  <2>5. pc'[b] = "bindRtp" /\ loaded'[b] = p
    BY <2>2, <2>4 DEF CompareExchange, Goto, Holders
  <2>6. Contended(a, p)'
    BY <2>5 DEF Contended
  <2> QED
    BY <2>6, ObserveGrows
<1> QED
  BY <1>4, <1>5

(* Every step keeps what the searches know.                                *)
LEMMA PassedStep ==
  ASSUME NoOverflow, PoolInv, PassedAreBusy, [Next]_vars
  PROVE  PassedAreBusy'
<1>1. PoolInv'
  BY PoolInvStep
<1> USE DEF PoolInv
<1>2. CASE UNCHANGED vars
  BY <1>2 DEF vars, PassedAreBusy, Trying, Behind
<1>3. CASE Next
  <2> SUFFICES ASSUME NEW a \in Allocators, pc'[a] \in Searching \cup {"exhausted"},
                      NEW p \in RtpPorts, Behind(p)' <= 2 * tries'[a]
               PROVE  p \in busy'[a] \/ Trying(a, p)'
    BY DEF PassedAreBusy
  <2>1. Observe
    BY <1>3
       DEF Next, Call, Allocate, Start, Load, CompareExchange, BindRtp, BindRtcp, GiveUp,
           StartMedia, Close, OtherProgram
  <2>2. CASE Call(a)
    BY <1>1, <2>1, <2>2, OwnStepKnows
  <2>3. ASSUME NEW b \in Allocators \ {a}, Call(b)
        PROVE  /\ UNCHANGED <<pc[a], loaded[a], tries[a]>>
               /\ UNCHANGED cursor \/ (CompareExchange(b) /\ cursor = loaded[b])
    BY <2>3
       DEF Call, Allocate, Start, Load, CompareExchange, BindRtp, BindRtcp, Retry, GiveUp,
           StartMedia, Close, Goto, Holders, Drawn
  <2>4. CASE \E b \in Allocators \ {a} : Call(b)
    BY <1>1, <2>1, <2>3, <2>4, OtherStepKnows
  <2>5. CASE \E q \in OtherPorts : OtherProgram(q)
    <3>1. UNCHANGED <<cursor, pc, loaded, tries>>
      BY <2>5 DEF OtherProgram
    <3> QED
      BY <1>1, <2>1, <3>1, OtherStepKnows
  <2> QED
    BY <1>3, <2>2, <2>4, <2>5 DEF Next
<1> QED
  BY <1>2, <1>3

(* Every step keeps the number of draws of an allocation that gives up.    *)
LEMMA TriesStep ==
  ASSUME NoOverflow, PoolInv, TriesUsedUp, [Next]_vars
  PROVE  TriesUsedUp'
<1> DEFINE C == Capacity(PortRange)
<1>1. C \in Nat /\ \A a \in Allocators : tries[a] \in 0 .. C
  BY RangeHasPairs DEF PoolInv, Drawn
<1>2. C' = C
  BY DEF PortRange
<1> SUFFICES ASSUME NEW a \in Allocators, pc'[a] = "exhausted"
             PROVE  tries'[a] = C
  BY DEF TriesUsedUp, C
<1>3. ASSUME NEW b \in Allocators, BindRtp(b) \/ BindRtcp(b) PROVE tries'[a] = C
  BY <1>1, <1>3 DEF BindRtp, BindRtcp, Retry, Goto, PoolInv, Holders, TriesUsedUp, C
<1>4. ASSUME NEW b \in Allocators, Start(b) \/ Load(b) \/ CompareExchange(b)
      PROVE  tries'[a] = C
  BY <1>4
     DEF Start, Load, CompareExchange, Goto, PoolInv, Holders, Drawn, TriesUsedUp, C
<1>5. ASSUME NEW b \in Allocators, GiveUp(b) \/ StartMedia(b) \/ Close(b)
      PROVE  tries'[a] = C
  BY <1>5 DEF GiveUp, StartMedia, Close, Goto, PoolInv, Holders, TriesUsedUp, C
<1>6. CASE UNCHANGED vars \/ \E q \in OtherPorts : OtherProgram(q)
  BY <1>6 DEF vars, OtherProgram, TriesUsedUp, C
<1> QED
  BY <1>3, <1>4, <1>5, <1>6 DEF Next, Call, Allocate

(* An allocation that gives up has seen every pair of the range in use:    *)
(* capacity() draws of its own move the shared cursor at least once around,*)
(* and a pair that it did not draw itself was drawn by another allocation  *)
(* in the meantime. No number of racing allocations breaks this.           *)
THEOREM SpecFreePairIsFound ==
  ASSUME NoOverflow
  PROVE  Spec => []FreePairIsFound
<1> DEFINE IInv == PoolInv /\ PassedAreBusy /\ TriesUsedUp
<1>1. Init => IInv
  <2> SUFFICES ASSUME Init
               PROVE  IInv
    OBVIOUS
  <2>1. PassedAreBusy /\ TriesUsedUp
    BY DEF Init, PassedAreBusy, TriesUsedUp, Searching
  <2> QED
    BY <2>1, PoolInvInit
<1>2. IInv /\ [Next]_vars => IInv'
  BY PoolInvStep, PassedStep, TriesStep
<1>3. IInv => FreePairIsFound
  <2> SUFFICES ASSUME IInv, NEW a \in Allocators, pc[a] = "exhausted"
               PROVE  busy[a] = RtpPorts
    BY DEF FreePairIsFound
  <2>1. ASSUME NEW p \in RtpPorts PROVE p \in busy[a]
    <3>1. Behind(p) <= 2 * tries[a]
      BY BehindBound DEF PoolInv, Drawn, TriesUsedUp
    <3> QED
      BY <3>1 DEF PassedAreBusy, Trying
  <2>2. busy[a] \subseteq RtpPorts
    BY DEF PoolInv, Drawn
  <2> QED
    BY <2>1, <2>2
<1> HIDE DEF IInv
<1> QED
  BY <1>1, <1>2, <1>3, PTL DEF Spec

----------------------------------------------------------------------------
(* The pool implements the queue of pairs *)

(* Two calls never have the same RTP port.                                 *)
ExclusiveSockets ==
  \A a, b \in Allocators : a # b /\ rtpSock[a] = rtpSock[b] => rtpSock[a] = NoPort

(* A port is bound only while no other call has it.                        *)
LEMMA ExclusiveStep ==
  ASSUME Holders, ExclusiveSockets, [Next]_vars
  PROVE  ExclusiveSockets'
<1> USE DEF Holders, ExclusiveSockets, sockets
<1>1. ASSUME NEW a \in Allocators, Start(a) \/ Load(a) \/ CompareExchange(a) \/ GiveUp(a)
      PROVE  ExclusiveSockets'
  BY <1>1 DEF Start, Load, CompareExchange, GiveUp
<1>2. ASSUME NEW a \in Allocators, BindRtp(a) PROVE ExclusiveSockets'
  BY <1>2 DEF BindRtp, PortFree
<1>3. ASSUME NEW a \in Allocators, BindRtcp(a) PROVE ExclusiveSockets'
  BY <1>3 DEF BindRtcp
<1>4. ASSUME NEW a \in Allocators, StartMedia(a) \/ Close(a) PROVE ExclusiveSockets'
  BY <1>4 DEF StartMedia, Close
<1>5. CASE UNCHANGED vars \/ \E q \in OtherPorts : OtherProgram(q)
  BY <1>5 DEF vars, OtherProgram
<1> QED
  BY <1>1, <1>2, <1>3, <1>4, <1>5 DEF Next, Call, Allocate

(* The queue has every pair of the range once, the one at the cursor first.*)
LEMMA PositionIs ==
  ASSUME NoOverflow, NEW k \in 0 .. Capacity(PortRange) - 1, NEW i \in 1 .. Capacity(PortRange)
  PROVE  Position(PairAt(PortRange, k), i) =
           PairAt(PortRange, IF k + i <= Capacity(PortRange)
                             THEN k + i - 1
                             ELSE k + i - 1 - Capacity(PortRange))
<1> DEFINE C     == Capacity(PortRange)
           first == PortRange.first
           last  == PortRange.last
<1>1. /\ C \in Nat /\ C > 0 /\ first \in Nat /\ last \in Nat
      /\ first + 2 * C - 2 <= last /\ last < first + 2 * C
  BY RangeFits, CapacityIs DEF Fits
<1>2. Position(PairAt(PortRange, k), i) =
                    LET p == first + 2 * k + 2 * (i - 1)
                    IN  IF p <= last THEN p ELSE p - 2 * C
  BY DEF Position, PairAt
<1> HIDE DEF C, first, last
<1>3. k \in 0 .. C - 1 /\ i \in 1 .. C
  BY DEF C
<1>4. CASE k + i <= C
  BY <1>1, <1>2, <1>3, <1>4 DEF PairAt, C, first
<1>5. CASE ~ (k + i <= C)
  BY <1>1, <1>2, <1>3, <1>5 DEF PairAt, C, first
<1> QED
  BY <1>4, <1>5

(* At first the pairs wait in the order of their ports.                    *)
LEMMA QueueInit ==
  ASSUME NoOverflow, cursor = PortRange.first
  PROVE  /\ queue \in [1 .. Capacity(PortRange) -> RtpPorts]
         /\ \A p \in RtpPorts : \E i \in DOMAIN queue : queue[i] = p
<1> DEFINE C == Capacity(PortRange)
<1>1. C \in Nat /\ C > 0
  BY RangeHasPairs
<1>2. cursor = PairAt(PortRange, 0) /\ 0 \in 0 .. C - 1
  BY <1>1, RangeFits DEF PairAt, Fits
<1>3. \A i \in 1 .. C : Position(cursor, i) = PairAt(PortRange, i - 1)
  BY <1>1, <1>2, PositionIs
<1>4. \A i \in 1 .. C : Position(cursor, i) \in RtpPorts
  BY <1>1, <1>3, RangeFits DEF PairsOf
<1>5. ASSUME NEW p \in RtpPorts PROVE \E i \in DOMAIN queue : queue[i] = p
  <2>1. PICK j \in 0 .. C - 1 : p = PairAt(PortRange, j)
    BY RangeFits DEF PairsOf
  <2>2. j + 1 \in 1 .. C /\ Position(cursor, j + 1) = p
    BY <1>1, <1>3, <2>1
  <2> QED
    BY <2>2 DEF queue
<1> QED
  BY <1>4, <1>5 DEF queue

(* A sequence that has moved up by one, with its old head last.            *)
LEMMA Rotated ==
  ASSUME NEW S, NEW n \in Nat \ {0}, NEW q \in [1 .. n -> S], NEW r \in [1 .. n -> S],
         \A i \in 1 .. n - 1 : r[i] = q[i + 1], r[n] = q[1]
  PROVE  r = Append(Tail(q), Head(q))
<1>1. q \in Seq(S) /\ r \in Seq(S) /\ Len(q) = n /\ Len(r) = n /\ q # <<>>
  <2>1. q \in Seq(S) /\ r \in Seq(S)
    OBVIOUS
  <2> QED
    BY <2>1, LenProperties
<1>2. Head(q) = q[1] /\ Head(q) \in S
  BY <1>1
<1>3. /\ Tail(q) \in Seq(S) /\ Len(Tail(q)) = n - 1
      /\ \A i \in 1 .. n - 1 : Tail(q)[i] = q[i + 1]
  BY <1>1, HeadTailProperties
<1> DEFINE moved == Append(Tail(q), Head(q))
<1>4. /\ moved \in Seq(S) /\ Len(moved) = n
      /\ \A i \in 1 .. n - 1 : moved[i] = Tail(q)[i]
      /\ moved[n] = Head(q)
  BY <1>2, <1>3, AppendProperties
<1>5. \A i \in 1 .. n : moved[i] = r[i]
  <2>1. \A i \in 1 .. n : i = n \/ i \in 1 .. n - 1
    OBVIOUS
  <2> QED
    BY <1>2, <1>3, <1>4, <2>1
<1> QED
  BY <1>1, <1>4, <1>5, SeqEqual

(* A draw takes the head of the queue and puts it last.                    *)
LEMMA DrawRotates ==
  ASSUME NoOverflow, cursor \in RtpPorts, cursor' = NextPort(PortRange, cursor)
  PROVE  queue' = Append(Tail(queue), Head(queue))
<1> DEFINE C     == Capacity(PortRange)
           at(j) == PairAt(PortRange, j)
<1>1. C \in Nat /\ C > 0
  BY RangeHasPairs
<1>2. PICK k \in 0 .. C - 1 : cursor = at(k)
  BY RangeFits DEF PairsOf
<1> DEFINE next == IF k = C - 1 THEN 0 ELSE k + 1
<1>3. cursor' = at(next) /\ next \in 0 .. C - 1
  BY <1>1, <1>2, RangeFits, NextPortIs
<1>4. \A i \in 1 .. C :
        Position(cursor, i) = at(IF k + i <= C THEN k + i - 1 ELSE k + i - 1 - C)
  BY <1>2, PositionIs
<1>5. \A i \in 1 .. C :
        Position(cursor', i) = at(IF next + i <= C THEN next + i - 1 ELSE next + i - 1 - C)
  BY <1>3, PositionIs
<1>6. queue = [i \in 1 .. C |-> Position(cursor, i)]
  BY DEF queue
<1>7. queue' = [i \in 1 .. C |-> Position(cursor', i)]
  BY DEF queue, PortRange
<1> HIDE DEF C, at
<1>8. \A i \in 1 .. C - 1 : Position(cursor', i) = Position(cursor, i + 1)
  <2> SUFFICES ASSUME NEW i \in 1 .. C - 1
               PROVE  Position(cursor', i) = Position(cursor, i + 1)
    OBVIOUS
  <2>1. i \in 1 .. C /\ i + 1 \in 1 .. C
    BY <1>1
  <2>2. (IF next + i <= C THEN next + i - 1 ELSE next + i - 1 - C) =
          (IF k + (i + 1) <= C THEN k + (i + 1) - 1 ELSE k + (i + 1) - 1 - C)
    BY <1>1
  <2> QED
    BY <1>4, <1>5, <2>1, <2>2
<1>9. Position(cursor', C) = Position(cursor, 1)
  <2>1. 1 \in 1 .. C /\ C \in 1 .. C
    BY <1>1
  <2>2. (IF next + C <= C THEN next + C - 1 ELSE next + C - 1 - C) =
          (IF k + 1 <= C THEN k + 1 - 1 ELSE k + 1 - 1 - C)
    BY <1>1
  <2> QED
    BY <1>4, <1>5, <2>1, <2>2
<1> DEFINE places == {Position(cursor, i) : i \in 1 .. C} \cup {Position(cursor', i) : i \in 1 .. C}
<1>10. queue \in [1 .. C -> places] /\ queue' \in [1 .. C -> places]
  BY <1>6, <1>7
<1>11. (\A i \in 1 .. C - 1 : queue'[i] = queue[i + 1]) /\ queue'[C] = queue[1]
  BY <1>1, <1>6, <1>7, <1>8, <1>9
<1> HIDE DEF places
<1>12. C \in Nat \ {0}
  BY <1>1
<1> QED
  BY <1>10, <1>11, <1>12, Rotated

(* What a call has is what the sockets say; for the rest of the step it    *)
(* matters only how they change.                                           *)
LEMMA LeaseIs ==
  ASSUME Holders, BothOrNeither, NEW a \in Allocators
  PROVE  /\ lease[a] = IF pc[a] \in {"open", "media"} THEN loaded[a] ELSE NoPort
         /\ control[a] = IF pc[a] = "open" THEN loaded[a] ELSE NoPort
BY DEF Holders, BothOrNeither, lease, control

(* Steps that neither draw nor end a search are not seen.                  *)
LEMMA HiddenStep ==
  ASSUME PoolInv, NEW a \in Allocators,
         \/ Start(a) \/ Load(a) \/ CompareExchange(a) \/ BindRtp(a) \/ GiveUp(a)
         \/ BindRtcp(a) /\ ~ PortFree(loaded[a] + 1)
  PROVE  UNCHANGED <<lease, control>>
<1> USE DEF PoolInv, Holders, Goto, sockets, lease, control
<1>1. CASE Start(a) \/ Load(a) \/ GiveUp(a)
  BY <1>1 DEF Start, Load, GiveUp
<1>2. CASE CompareExchange(a)
  BY <1>2 DEF CompareExchange
<1>3. CASE BindRtp(a)
  BY <1>3 DEF BindRtp, Retry
<1>4. CASE BindRtcp(a) /\ ~ PortFree(loaded[a] + 1)
  BY <1>4 DEF BindRtcp, Retry
<1> QED
  BY <1>1, <1>2, <1>3, <1>4

(* The queue moves with the cursor only.                                   *)
LEMMA QueueStays == UNCHANGED cursor => UNCHANGED queue
BY DEF queue, PortRange

(* The bind of the RTCP socket lets the pair to the call.                  *)
LEMMA BindLets ==
  ASSUME NoOverflow, PoolInv, ExclusiveSockets, NEW a \in Allocators,
         BindRtcp(a), PortFree(loaded[a] + 1)
  PROVE  Abstract!Let(a, loaded[a])
<1> DEFINE p == loaded[a]
<1> USE DEF PoolInv
<1>1. /\ pc[a] = "bindRtcp" /\ rtpSock[a] = p
      /\ pc' = [pc EXCEPT ![a] = "open"] /\ rtcpSock' = [rtcpSock EXCEPT ![a] = p + 1]
      /\ UNCHANGED <<cursor, rtpSock>>
  BY DEF BindRtcp, Goto, BothOrNeither
<1>2. p \in Int /\ p # NoPort
  BY NoPortAssumption DEF Drawn, Holders, RtpPorts
<1>3. lease[a] = NoPort
  BY <1>1, LeaseIs
<1>4. ASSUME NEW b \in Allocators PROVE lease[b] # p /\ control[b] # p
  <2>1. CASE b = a
    BY <1>1, <1>2, <2>1, LeaseIs
  <2>2. CASE b # a
    <3>1. rtpSock[b] # p
      BY <1>1, <1>2, <2>2 DEF ExclusiveSockets
    <3>2. pc[b] \in {"open", "media"} => rtpSock[b] = loaded[b]
      BY DEF BothOrNeither
    <3> QED
      BY <1>2, <3>1, <3>2, LeaseIs
  <2> QED
    BY <2>1, <2>2
<1>5. /\ lease' = [lease EXCEPT ![a] = p]
      /\ control' = [control EXCEPT ![a] = p]
  <2>1. \A b \in Allocators : pc'[b] = IF b = a THEN "open" ELSE pc[b]
    BY <1>1 DEF Holders
  <2>2. \A b \in Allocators : lease'[b] = IF b = a THEN p ELSE lease[b]
    BY <1>1, <2>1 DEF lease, Holders
  <2>3. \A b \in Allocators : control'[b] = IF b = a THEN p ELSE control[b]
    <3>1. rtcpSock'[a] - 1 = p
      BY <1>1, <1>2 DEF Holders
    <3>2. \A b \in Allocators \ {a} : rtcpSock'[b] = rtcpSock[b]
      BY <1>1 DEF Holders
    <3> QED
      BY <2>1, <3>1, <3>2 DEF control
  <2> QED
    BY <2>2, <2>3 DEF lease, control
<1> QED
  BY <1>1, <1>3, <1>4, <1>5, QueueStays DEF Abstract!Let

(* The start of the media session gives the RTCP socket back, the end of   *)
(* the call what it has.                                                   *)
LEMMA CloseReturns ==
  ASSUME NoOverflow, PoolInv, NEW a \in Allocators
  PROVE  /\ StartMedia(a) => Abstract!ReturnControl(a)
         /\ Close(a) => Abstract!Return(a)
<1> USE DEF PoolInv
<1>1. loaded[a] # NoPort
  BY NoPortAssumption DEF Drawn, RtpPorts
<1>2. ASSUME StartMedia(a) PROVE Abstract!ReturnControl(a)
  <2>1. control[a] # NoPort
    BY <1>1, <1>2, LeaseIs DEF StartMedia
  <2>2. UNCHANGED lease /\ control' = [control EXCEPT ![a] = NoPort] /\ UNCHANGED cursor
    BY <1>2 DEF StartMedia, Goto, lease, control, Holders
  <2> QED
    BY <2>1, <2>2, QueueStays DEF Abstract!ReturnControl
<1>3. ASSUME Close(a) PROVE Abstract!Return(a)
  <2>1. lease[a] # NoPort
    BY <1>1, <1>3, LeaseIs DEF Close
  <2>2. /\ lease' = [lease EXCEPT ![a] = NoPort]
        /\ control' = [control EXCEPT ![a] = NoPort]
        /\ UNCHANGED cursor
    BY <1>3 DEF Close, Goto, lease, control, Holders
  <2> QED
    BY <2>1, <2>2, QueueStays DEF Abstract!Return
<1> QED
  BY <1>2, <1>3

(* Every step is a step of the queue or not seen there.                    *)
LEMMA QueueStep ==
  ASSUME NoOverflow, PoolInv, ExclusiveSockets, [Next]_vars
  PROVE  [Abstract!Next]_(Abstract!vars)
<1>1. ASSUME NEW a \in Allocators, CompareExchange(a), cursor = loaded[a]
      PROVE  Abstract!Draw
  <2>1. cursor \in RtpPorts /\ cursor' = NextPort(PortRange, cursor)
    BY <1>1 DEF CompareExchange, PoolInv, Drawn
  <2> QED
    BY <1>1, <2>1, DrawRotates, HiddenStep DEF Abstract!Draw
<1>2. ASSUME NEW a \in Allocators,
             \/ Start(a) \/ Load(a) \/ BindRtp(a) \/ GiveUp(a)
             \/ CompareExchange(a) /\ cursor # loaded[a]
             \/ BindRtcp(a) /\ ~ PortFree(loaded[a] + 1)
      PROVE  UNCHANGED Abstract!vars
  <2>1. UNCHANGED cursor
    BY <1>2 DEF Start, Load, BindRtp, GiveUp, CompareExchange, BindRtcp
  <2>2. UNCHANGED <<lease, control>>
    BY <1>2, HiddenStep
  <2> QED
    BY <2>1, <2>2, QueueStays DEF Abstract!vars
<1>3. ASSUME NEW a \in Allocators, BindRtcp(a), PortFree(loaded[a] + 1)
      PROVE  Abstract!Next
  <2>1. loaded[a] \in RtpPorts
    BY DEF PoolInv, Drawn
  <2> QED
    BY <1>3, <2>1, BindLets DEF Abstract!Next
<1>4. ASSUME NEW a \in Allocators, StartMedia(a) \/ Close(a)
      PROVE  Abstract!Next
  BY <1>4, CloseReturns DEF Abstract!Next
<1>5. CASE UNCHANGED vars \/ \E q \in OtherPorts : OtherProgram(q)
  <2>1. UNCHANGED <<cursor, pc, sockets>>
    BY <1>5 DEF vars, OtherProgram
  <2> QED
    BY <2>1, QueueStays DEF Abstract!vars, lease, control, sockets
<1> QED
  BY <1>1, <1>2, <1>3, <1>4, <1>5 DEF Next, Call, Allocate, Abstract!Next

(* The lock-free cursor and the binding of two sockets implement a queue   *)
(* of pairs: a draw takes the pair that was drawn longest ago, and the two *)
(* ports of a pair are let together, to one call at a time. This holds for *)
(* any number of allocations and any range that does not overflow.         *)
THEOREM SpecImplementsQueue ==
  ASSUME NoOverflow
  PROVE  Spec => ImplementsQueue
<1> DEFINE QueueInv == PoolInv /\ ExclusiveSockets
<1>1. Init => QueueInv
  <2>1. Init => ExclusiveSockets
    BY DEF Init, ExclusiveSockets
  <2> QED
    BY <2>1, PoolInvInit
<1>2. QueueInv /\ [Next]_vars => QueueInv'
  BY PoolInvStep, ExclusiveStep DEF PoolInv
<1>3. Init => Abstract!Init
  <2> SUFFICES ASSUME Init
               PROVE  Abstract!Init
    OBVIOUS
  <2>1. Abstract!Cardinality(RtpPorts) = Capacity(PortRange)
    <3>1. \A S : Abstract!Cardinality(S) = Cardinality(S)
      BY DEF Abstract!Cardinality, Cardinality, Abstract!IsFiniteSet, IsFiniteSet
    <3> QED
      BY <3>1, RangeFits, CountPairs
  <2>2. lease = [a \in Allocators |-> NoPort] /\ control = [a \in Allocators |-> NoPort]
    BY DEF Init, lease, control
  <2> QED
    BY <2>1, <2>2, QueueInit DEF Init, Abstract!Init
<1>4. QueueInv /\ [Next]_vars => [Abstract!Next]_(Abstract!vars)
  BY QueueStep
<1> HIDE DEF QueueInv
<1> QED
  BY <1>1, <1>2, <1>3, <1>4, PTL DEF Spec, ImplementsQueue, Abstract!Spec

=============================================================================
