----------------------------- MODULE PortQueue -----------------------------
(***************************************************************************)
(* What the pool of port pairs promises: the pairs are a queue, a draw     *)
(* takes the pair that was drawn longest ago and puts it last; the two     *)
(* ports of a pair are let together, to one call at a time, and the second *)
(* may be given back before the first. Without the queue this is the pool  *)
(* of CallHandler: Free, BindPair and DropPair.                            *)
(***************************************************************************)
EXTENDS Naturals, Sequences, FiniteSets

CONSTANTS Allocators, Pairs, NoPair

VARIABLES
  queue,   \* every pair once, the next to be drawn first
  lease,   \* [Allocators -> the pair whose RTP socket the call has, or NoPair]
  control  \* [Allocators -> the pair whose RTCP socket the call has, or NoPair]

vars == <<queue, lease, control>>

Init ==
  /\ queue \in [1 .. Cardinality(Pairs) -> Pairs]
  /\ \A p \in Pairs : \E i \in DOMAIN queue : queue[i] = p
  /\ lease = [a \in Allocators |-> NoPair]
  /\ control = [a \in Allocators |-> NoPair]

Draw ==
  /\ queue' = Append(Tail(queue), Head(queue))
  /\ UNCHANGED <<lease, control>>

Let(a, p) ==
  /\ lease[a] = NoPair
  /\ \A b \in Allocators : lease[b] # p /\ control[b] # p
  /\ lease' = [lease EXCEPT ![a] = p]
  /\ control' = [control EXCEPT ![a] = p]
  /\ UNCHANGED queue

ReturnControl(a) ==
  /\ control[a] # NoPair
  /\ control' = [control EXCEPT ![a] = NoPair]
  /\ UNCHANGED <<queue, lease>>

Return(a) ==
  /\ lease[a] # NoPair
  /\ lease' = [lease EXCEPT ![a] = NoPair]
  /\ control' = [control EXCEPT ![a] = NoPair]
  /\ UNCHANGED queue

Next ==
  \/ Draw
  \/ \E a \in Allocators : ReturnControl(a) \/ Return(a) \/ \E p \in Pairs : Let(a, p)

Spec == Init /\ [][Next]_vars
=============================================================================
