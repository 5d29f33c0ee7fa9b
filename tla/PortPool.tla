------------------------------ MODULE PortPool ------------------------------
(***************************************************************************)
(* Calls that allocate RTP/RTCP port pairs at the same time: the lock-free *)
(* cursor of RtpPortRange::next_port_pair, the binding of the two sockets  *)
(* of a pair (RtpSocketPair::new) and the bounded retries of               *)
(* try_allocate_socket_pair, until the sockets are closed again. Other     *)
(* programs bind and close ports of the range as well.                     *)
(*                                                                         *)
(* A definition introduced as a "Variant" is deliberately wrong and is not *)
(* part of the specification: it shows which property notices the slip.    *)
(***************************************************************************)
EXTENDS RtpPortRange, FiniteSets

CONSTANTS
  Allocators,        \* the tasks that allocate, one call each at a time
  MinPort, MaxPort,  \* the configured range
  OtherPorts,        \* the ports other programs may bind
  NoPort             \* "no socket bound"

ASSUME RangeAssumption ==
  /\ MinPort \in Port /\ MaxPort \in Port
  /\ ValidRange(MinPort, MaxPort)
ASSUME NoPortAssumption == NoPort \notin Port

VARIABLES
  cursor,   \* the atomic current_rtp_port
  pc,       \* [Allocators -> where the call's allocation is]
  loaded,   \* [Allocators -> current_port, what next_port_pair last loaded]
  tries,    \* [Allocators -> pairs drawn by this allocation]
  rtpSock,  \* [Allocators -> port of the bound RTP socket]
  rtcpSock, \* [Allocators -> port of the bound RTCP socket]
  taken,    \* ports bound by other programs
  busy      \* [Allocators -> pairs that were not free at some time since
            \*  the allocation began]; history, read by the properties only

sockets == <<rtpSock, rtcpSock>>
vars == <<cursor, pc, loaded, tries, sockets, taken, busy>>

PortRange == NewRange(MinPort, MaxPort)
RtpPorts  == {p \in Port : /\ PortRange.first <= p /\ p <= PortRange.last
                           /\ (p - PortRange.first) % 2 = 0}

Searching == {"load", "cas", "bindRtp", "bindRtcp"}
Places    == {"idle", "exhausted", "open", "media"} \cup Searching

Init ==
  /\ cursor = PortRange.first
  /\ pc = [a \in Allocators |-> "idle"]
  /\ loaded = [a \in Allocators |-> PortRange.first]
  /\ tries = [a \in Allocators |-> 0]
  /\ rtpSock = [a \in Allocators |-> NoPort]
  /\ rtcpSock = [a \in Allocators |-> NoPort]
  /\ taken \in SUBSET OtherPorts
  /\ busy = [a \in Allocators |-> {}]

----------------------------------------------------------------------------
Goto(a, place) == pc' = [pc EXCEPT ![a] = place]

(* bind(2) succeeds on a port no socket of any program has bound.          *)
PortFree(q) ==
  /\ q \notin taken
  /\ \A a \in Allocators : rtpSock[a] # q /\ rtcpSock[a] # q

(* Pair p cannot be bound by a now, or another allocation has drawn it and *)
(* is about to bind it.                                                    *)
Contended(a, p) ==
  \/ {p, p + 1} \cap taken # {}
  \/ \E b \in Allocators \ {a} :
       \/ rtpSock[b] = p \/ rtcpSock[b] = p + 1
       \/ pc[b] \in {"bindRtp", "bindRtcp"} /\ loaded[b] = p

(* The history of an allocation starts with the allocation.                *)
Observe ==
  busy' = [a \in Allocators |->
             IF pc'[a] \in Searching \cup {"exhausted"}
             THEN (IF pc[a] = "idle" THEN {} ELSE busy[a])
                  \cup {p \in RtpPorts : Contended(a, p)'}
             ELSE {}]

----------------------------------------------------------------------------
(* One allocation *)

Start(a) ==
  /\ pc[a] = "idle"
  /\ Goto(a, "load")
  /\ tries' = [tries EXCEPT ![a] = 0]
  /\ UNCHANGED <<cursor, loaded, sockets, taken>>
  /\ Observe

Load(a) ==
  /\ pc[a] = "load"
  /\ loaded' = [loaded EXCEPT ![a] = cursor]
  /\ Goto(a, "cas")
  /\ UNCHANGED <<cursor, tries, sockets, taken>>
  /\ Observe

(* Variant: the cursor is stored without comparing it first.               *)
StoreCursor(a) ==
  /\ pc[a] = "cas"
  /\ cursor' = NextPort(PortRange, loaded[a])
  /\ tries' = [tries EXCEPT ![a] = @ + 1]
  /\ Goto(a, "bindRtp")
  /\ UNCHANGED <<loaded, sockets, taken>>
  /\ Observe

(* Variant: the exchange is tried, but not tried again.                    *)
CompareExchangeOnce(a) ==
  /\ pc[a] = "cas"
  /\ cursor = loaded[a]
  /\ cursor' = NextPort(PortRange, loaded[a])
  /\ tries' = [tries EXCEPT ![a] = @ + 1]
  /\ Goto(a, "bindRtp")
  /\ UNCHANGED <<loaded, sockets, taken>>
  /\ Observe

(* The pair is this allocation's if nobody moved the cursor since it was   *)
(* loaded, or if it has come all the way round to the same port.           *)
CompareExchange(a) ==
  /\ pc[a] = "cas"
  /\ IF cursor = loaded[a]
     THEN /\ cursor' = NextPort(PortRange, loaded[a])
          /\ tries' = [tries EXCEPT ![a] = @ + 1]
          /\ Goto(a, "bindRtp")
     ELSE /\ Goto(a, "load")
          /\ UNCHANGED <<cursor, tries>>
  /\ UNCHANGED <<loaded, sockets, taken>>
  /\ Observe

(* Try the next pair, capacity() times in all.                             *)
Retry(a) == Goto(a, IF tries[a] < Capacity(PortRange) THEN "load" ELSE "exhausted")

BindRtp(a) ==
  /\ pc[a] = "bindRtp"
  /\ IF PortFree(loaded[a])
     THEN /\ rtpSock' = [rtpSock EXCEPT ![a] = loaded[a]]
          /\ Goto(a, "bindRtcp")
     ELSE Retry(a) /\ UNCHANGED rtpSock
  /\ UNCHANGED <<cursor, loaded, tries, rtcpSock, taken>>
  /\ Observe

(* Variant: a failure leaves the RTP socket bound.                         *)
BindRtcpLeaky(a) ==
  /\ pc[a] = "bindRtcp"
  /\ IF PortFree(loaded[a] + 1)
     THEN rtcpSock' = [rtcpSock EXCEPT ![a] = loaded[a] + 1] /\ Goto(a, "open")
     ELSE Retry(a) /\ UNCHANGED rtcpSock
  /\ UNCHANGED <<cursor, loaded, tries, rtpSock, taken>>
  /\ Observe

(* A failure drops the RTP socket bound just before.                       *)
BindRtcp(a) ==
  /\ pc[a] = "bindRtcp"
  /\ IF PortFree(loaded[a] + 1)
     THEN /\ rtcpSock' = [rtcpSock EXCEPT ![a] = loaded[a] + 1]
          /\ Goto(a, "open")
          /\ UNCHANGED rtpSock
     ELSE /\ rtpSock' = [rtpSock EXCEPT ![a] = NoPort]
          /\ Retry(a)
          /\ UNCHANGED rtcpSock
  /\ UNCHANGED <<cursor, loaded, tries, taken>>
  /\ Observe

(* The call is refused with 503; the task may handle another call.         *)
GiveUp(a) ==
  /\ pc[a] = "exhausted"
  /\ Goto(a, "idle")
  /\ UNCHANGED <<cursor, loaded, tries, sockets, taken>>
  /\ Observe

(* The media session keeps the RTP socket and drops the RTCP socket.       *)
StartMedia(a) ==
  /\ pc[a] = "open"
  /\ rtcpSock' = [rtcpSock EXCEPT ![a] = NoPort]
  /\ Goto(a, "media")
  /\ UNCHANGED <<cursor, loaded, tries, rtpSock, taken>>
  /\ Observe

(* The call's setup is refused, or its media ends.                         *)
Close(a) ==
  /\ pc[a] \in {"open", "media"}
  /\ rtpSock' = [rtpSock EXCEPT ![a] = NoPort]
  /\ rtcpSock' = [rtcpSock EXCEPT ![a] = NoPort]
  /\ Goto(a, "idle")
  /\ UNCHANGED <<cursor, loaded, tries, taken>>
  /\ Observe

(* Other programs bind a free port, or close theirs.                       *)
OtherProgram(q) ==
  /\ PortFree(q) \/ q \in taken
  /\ taken' = IF q \in taken THEN taken \ {q} ELSE taken \cup {q}
  /\ UNCHANGED <<cursor, pc, loaded, tries, sockets>>
  /\ Observe

----------------------------------------------------------------------------
Allocate(a) == Load(a) \/ CompareExchange(a) \/ BindRtp(a) \/ BindRtcp(a)

Call(a) == Start(a) \/ Allocate(a) \/ GiveUp(a) \/ StartMedia(a) \/ Close(a)

Next == (\E a \in Allocators : Call(a)) \/ \E q \in OtherPorts : OtherProgram(q)

(* An allocation that has begun goes on; nothing else has to happen.       *)
Spec == Init /\ [][Next]_vars /\ \A a \in Allocators : WF_vars(Allocate(a))

----------------------------------------------------------------------------
(* Properties *)

(* Every variable keeps its type; in particular the cursor never leaves    *)
(* the RTP ports of the range, whatever the interleaving.                  *)
TypeOK ==
  /\ cursor \in RtpPorts
  /\ pc \in [Allocators -> Places]
  /\ loaded \in [Allocators -> RtpPorts]
  /\ tries \in [Allocators -> 0 .. Capacity(PortRange)]
  /\ rtpSock \in [Allocators -> RtpPorts \cup {NoPort}]
  /\ rtcpSock \in [Allocators -> {p + 1 : p \in RtpPorts} \cup {NoPort}]
  /\ taken \subseteq OtherPorts
  /\ busy \in [Allocators -> SUBSET RtpPorts]

(* A failed attempt leaves no socket behind, and an open pair is the one   *)
(* that was drawn: RtpSocketPair::new returns both sockets or neither.     *)
BothOrNeither ==
  \A a \in Allocators :
    /\ rtpSock[a] = IF pc[a] \in {"bindRtcp", "open", "media"} THEN loaded[a] ELSE NoPort
    /\ rtcpSock[a] = IF pc[a] = "open" THEN loaded[a] + 1 ELSE NoPort

(* An allocation gives up only if every pair of the range was, at some     *)
(* time during the search, bound by somebody or about to be: a pair that   *)
(* stays free and unwanted is found however the searches interleave.       *)
FreePairIsFound ==
  \A a \in Allocators : pc[a] = "exhausted" => busy[a] = RtpPorts

(* "This cannot result in a deadlock because one thread always makes       *)
(* progress": whenever tasks are in the loop of next_port_pair, one of     *)
(* them gets out of it with a pair.                                        *)
SomeDrawSucceeds ==
  (\E a \in Allocators : pc[a] \in {"load", "cas"})
    ~> (\E a \in Allocators : pc[a] = "bindRtp")

(* The pool implements the queue of pairs, the least recently drawn first: *)
(* the two-step draw is as good as an atomic one, and the two binds of a   *)
(* search as good as the one step in which CallHandler binds a pair.       *)
Position(head, i) ==
  LET p == head + 2 * (i - 1)
  IN  IF p <= PortRange.last THEN p ELSE p - 2 * Capacity(PortRange)

queue   == [i \in 1 .. Capacity(PortRange) |-> Position(cursor, i)]
lease   == [a \in Allocators |-> IF pc[a] \in {"open", "media"} THEN rtpSock[a] ELSE NoPort]
control == [a \in Allocators |-> IF pc[a] = "open" THEN rtcpSock[a] - 1 ELSE NoPort]

Abstract == INSTANCE PortQueue WITH Pairs <- RtpPorts, NoPair <- NoPort

ImplementsQueue == Abstract!Spec

(* ServerConfig: min_port is the starting port for RTP media and max_port  *)
(* the last RTCP port, so no other port is ever drawn.                     *)
CursorWithinConfig == cursor \in PairsWithin(MinPort, MaxPort)
============================================================================
