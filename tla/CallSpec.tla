------------------------------ MODULE CallSpec ------------------------------
(***************************************************************************)
(* What the server promises about calls, without SIP, tasks or sockets: a  *)
(* call is set up, may come up, and is over. It seizes a line before it    *)
(* comes up, no two calls have the same line, and a call that is over      *)
(* gives its line back.                                                    *)
(***************************************************************************)
CONSTANTS Calls, Pairs, NoPair

VARIABLES
  phase,  \* [Calls -> "idle", "setup", "up" or "over"]
  line    \* [Calls -> the line the call has, or NoPair]

vars == <<phase, line>>

Init ==
  /\ phase = [c \in Calls |-> "idle"]
  /\ line = [c \in Calls |-> NoPair]

Move(c, from, to) ==
  /\ phase[c] = from
  /\ phase' = [phase EXCEPT ![c] = to]

HangLine(c) == line' = [line EXCEPT ![c] = NoPair]

Offer(c) == Move(c, "idle", "setup") /\ UNCHANGED line

Seize(c) ==
  /\ phase[c] = "setup" /\ line[c] = NoPair
  /\ \E p \in Pairs : /\ \A d \in Calls : line[d] # p
                      /\ line' = [line EXCEPT ![c] = p]
  /\ UNCHANGED phase

Refuse(c) == Move(c, "setup", "over") /\ HangLine(c)

ComeUp(c) == line[c] # NoPair /\ Move(c, "setup", "up") /\ UNCHANGED line

(* The media of a call may fail before the call is over.                   *)
LoseLine(c) ==
  /\ phase[c] \in {"up", "over"} /\ line[c] # NoPair
  /\ HangLine(c)
  /\ UNCHANGED phase

End(c) == Move(c, "up", "over") /\ UNCHANGED line

Next == \E c \in Calls : \/ Offer(c) \/ Seize(c) \/ Refuse(c) \/ ComeUp(c)
                         \/ LoseLine(c) \/ End(c)

Safe == Init /\ [][Next]_vars

(* A setup is decided, and a line is not kept once the call is over.       *)
Fairness ==
  \A c \in Calls : /\ WF_vars(Refuse(c) \/ ComeUp(c))
                   /\ WF_vars(phase[c] = "over" /\ LoseLine(c))

Spec == Safe /\ Fairness
============================================================================
