----------------------------- MODULE MediaSession -----------------------------
(***************************************************************************)
(* One media session in detail: the receive task with its deadline         *)
(* (rtp_receive_task, Deadline), the send task with its RTP counters       *)
(* (rtp_send_task, RtpSendState), the socket's receive buffer, the two     *)
(* audio channels and the application that may drop either of its ends.    *)
(* Time passes in ticks; sequence numbers and timestamps wrap around.      *)
(*                                                                         *)
(* A definition introduced as a "Variant" is deliberately wrong and is not *)
(* part of the specification: it shows which property notices the slip.    *)
(***************************************************************************)
EXTENDS Integers, Sequences

CONSTANTS
  Timeout,      \* media_receive_timeout, in ticks
  SeqModulus,   \* 2^16 in the code
  TimeModulus,  \* 2^32 in the code
  Increments,   \* the values a codec's timestamp_increment may have
  Buffer,       \* bound: packets the socket buffers, the rest is lost
  MaxFrames     \* bound: frames the application sends

ASSUME SessionAssumption ==
  /\ Timeout \in Nat \ {0}
  /\ SeqModulus \in Nat \ {0} /\ TimeModulus \in Nat \ {0}
  /\ Increments \subseteq Nat /\ Buffer \in Nat /\ MaxFrames \in Nat

VARIABLES
  parent,    \* the dialog's token is cancelled
  child,     \* the session's child token is cancelled by the session
  recv,      \* receive task: running, or why it stopped
  send,      \* send task: at its select, sending, or why it stopped
  alarm,     \* ticks until the deadline fires
  inbox,     \* packets in the socket: TRUE for one that parses
  listening, \* the application holds the receiver of audio_in
  speaking,  \* the application holds the sender of audio_out
  queue,     \* frames in audio_out
  rtp,       \* RtpSendState
  wire,      \* the packets sent, in order; the last one may be in flight
  silence,   \* ticks since the session started or a packet was decoded, up
             \*  to Timeout; history, read by the properties only
  spoken     \* for each frame sent, whether the codec can encode it; history

incoming == <<alarm, inbox, silence>>
outgoing == <<queue, rtp, wire, spoken>>
ends     == <<listening, speaking>>
vars     == <<parent, child, recv, send, incoming, outgoing, ends>>

RtpSendState == [sequence  : 0 .. SeqModulus - 1,
                 timestamp : 0 .. TimeModulus - 1,
                 increment : Increments]

(* Deadline::reset and what its poll reports.                              *)
ResetDeadline == alarm' = Timeout
DeadlineIsOver == alarm = 0

Sending == {"select", "sending"}
Over    == parent \/ child

Init ==
  /\ parent = FALSE /\ child = FALSE
  /\ recv = "running" /\ send = "select"
  /\ alarm = Timeout
  /\ inbox = <<>>
  /\ listening = TRUE /\ speaking = TRUE
  /\ queue = <<>>
  /\ rtp \in RtpSendState
  /\ wire = <<>>
  /\ silence = 0
  /\ spoken = <<>>

----------------------------------------------------------------------------
(* The environment: time, the network, the dialog and the application *)

Tick ==
  /\ alarm > 0 \/ silence < Timeout
  /\ alarm' = IF alarm > 0 THEN alarm - 1 ELSE 0
  /\ silence' = IF silence < Timeout THEN silence + 1 ELSE Timeout
  /\ UNCHANGED <<parent, child, recv, send, inbox, outgoing, ends>>

Arrive(valid) ==
  /\ recv = "running" \/ send \in Sending
  /\ Len(inbox) < Buffer
  /\ inbox' = Append(inbox, valid)
  /\ UNCHANGED <<parent, child, recv, send, alarm, silence, outgoing, ends>>

DialogEnds ==
  /\ ~ parent
  /\ parent' = TRUE
  /\ UNCHANGED <<child, recv, send, incoming, outgoing, ends>>

Speak(encodable) ==
  /\ speaking /\ send \in Sending
  /\ Len(spoken) < MaxFrames
  /\ spoken' = Append(spoken, encodable)
  /\ queue' = Append(queue, Len(spoken) + 1)
  /\ UNCHANGED <<parent, child, recv, send, incoming, rtp, wire, ends>>

StopListening ==
  /\ listening
  /\ listening' = FALSE
  /\ UNCHANGED <<parent, child, recv, send, incoming, outgoing, speaking>>

StopSpeaking ==
  /\ speaking
  /\ speaking' = FALSE
  /\ UNCHANGED <<parent, child, recv, send, incoming, outgoing, listening>>

----------------------------------------------------------------------------
(* The receive task: a biased select, the token before the deadline before *)
(* the socket                                                              *)

RecvStops(why) ==
  /\ recv' = why
  /\ UNCHANGED <<parent, child, send, outgoing, ends>>

RecvCancelled ==
  /\ recv = "running" /\ Over
  /\ RecvStops("cancelled")
  /\ UNCHANGED incoming

(* Variant: leaves the loop as well.                                       *)
RecvDeadlineBreaks ==
  /\ recv = "running" /\ ~ Over /\ DeadlineIsOver
  /\ child' = TRUE
  /\ recv' = "cancelled"
  /\ UNCHANGED <<parent, send, incoming, outgoing, ends>>

(* The deadline cancels the token; the next turn of the loop sees that.    *)
RecvDeadline ==
  /\ recv = "running" /\ ~ Over /\ DeadlineIsOver
  /\ child' = TRUE
  /\ UNCHANGED <<parent, recv, send, incoming, outgoing, ends>>

RecvPacket(valid) ==
  /\ recv = "running" /\ ~ Over /\ ~ DeadlineIsOver
  /\ inbox # <<>> /\ Head(inbox) = valid
  /\ inbox' = Tail(inbox)

(* Variant: the deadline is not reset.                                     *)
DecodeOnly ==
  /\ RecvPacket(TRUE)
  /\ silence' = 0
  /\ RecvStops(IF listening THEN "running" ELSE "unheard")
  /\ UNCHANGED alarm

(* A packet that parses resets the deadline and is decoded; it ends the    *)
(* task if nobody listens.                                                 *)
Decode ==
  /\ RecvPacket(TRUE)
  /\ ResetDeadline
  /\ silence' = 0
  /\ RecvStops(IF listening THEN "running" ELSE "unheard")

(* Variant: any packet resets the deadline.                                *)
SkipAndReset ==
  /\ RecvPacket(FALSE)
  /\ ResetDeadline
  /\ UNCHANGED <<parent, child, recv, send, silence, outgoing, ends>>

(* A packet that does not parse is ignored.                                *)
Skip ==
  /\ RecvPacket(FALSE)
  /\ UNCHANGED <<parent, child, recv, send, alarm, silence, outgoing, ends>>

(* The socket reports an error, such as a refused port of the peer.        *)
RecvFails ==
  /\ recv = "running" /\ ~ Over /\ ~ DeadlineIsOver
  /\ RecvStops("failed")
  /\ UNCHANGED incoming

----------------------------------------------------------------------------
(* The send task: a select without priority *)

SendStops(why) ==
  /\ send' = why
  /\ UNCHANGED <<parent, child, recv, incoming, queue, rtp, wire, spoken, ends>>

(* Variant: listens to the dialog's token only.                            *)
SendCancelledByDialog == send = "select" /\ parent /\ SendStops("cancelled")

SendCancelled == send = "select" /\ Over /\ SendStops("cancelled")

(* Variant: without wrapping_add.                                          *)
NextHeaderBeyond ==
  [rtp EXCEPT !.sequence = @ + 1, !.timestamp = @ + rtp.increment]

(* RtpSendState::next: the current header, and the next one.               *)
NextHeader ==
  [rtp EXCEPT !.sequence  = (@ + 1) % SeqModulus,
              !.timestamp = (@ + rtp.increment) % TimeModulus]

TakeFrame(encodable) ==
  /\ send = "select" /\ queue # <<>>
  /\ spoken[Head(queue)] = encodable
  /\ queue' = Tail(queue)
  /\ UNCHANGED <<parent, child, recv, incoming, spoken, ends>>

Encode ==
  /\ TakeFrame(TRUE)
  /\ rtp' = NextHeader
  /\ wire' = Append(wire, [header |-> rtp, frame |-> Head(queue)])
  /\ send' = "sending"

(* Variant: the header is taken before the payload is looked at.           *)
SkipFrameAndCount ==
  /\ TakeFrame(FALSE)
  /\ rtp' = NextHeader
  /\ UNCHANGED <<wire, send>>

(* A frame the codec cannot encode is skipped.                             *)
SkipFrame ==
  /\ TakeFrame(FALSE)
  /\ UNCHANGED <<rtp, wire, send>>

Sent == send = "sending" /\ SendStops("select")

SendFails == send = "sending" /\ SendStops("failed")

(* Variant: a closed channel is not emptied first.                         *)
SendClosedAtOnce == send = "select" /\ ~ speaking /\ SendStops("closed")

(* The channel is closed and empty.                                        *)
SendClosed ==
  /\ send = "select" /\ queue = <<>> /\ ~ speaking
  /\ SendStops("closed")

----------------------------------------------------------------------------
(* The specification *)

RecvTask == RecvCancelled \/ RecvDeadline \/ Decode \/ Skip \/ RecvFails
SendTask == SendCancelled \/ Encode \/ SkipFrame \/ Sent \/ SendFails \/ SendClosed

Environment ==
  \/ DialogEnds \/ StopListening \/ StopSpeaking
  \/ \E b \in BOOLEAN : Arrive(b) \/ Speak(b)

Next == Tick \/ Environment \/ RecvTask \/ SendTask

(* Time passes and both tasks are polled; the select of the send task is   *)
(* random, so that a cancelled token is seen if it is looked at often.     *)
(* Nothing is assumed of the network, the dialog and the application.      *)
Fairness ==
  /\ WF_vars(Tick)
  /\ WF_vars(RecvTask)
  /\ WF_vars(SendTask)
  /\ SF_vars(SendCancelled)

Spec == Init /\ [][Next]_vars /\ Fairness

----------------------------------------------------------------------------
(* Properties *)

(* Every variable keeps its type.                                          *)
TypeOK ==
  /\ parent \in BOOLEAN /\ child \in BOOLEAN
  /\ recv \in {"running", "cancelled", "unheard", "failed"}
  /\ send \in Sending \cup {"cancelled", "closed", "failed"}
  /\ alarm \in 0 .. Timeout /\ silence \in 0 .. Timeout
  /\ inbox \in Seq(BOOLEAN) /\ Len(inbox) <= Buffer
  /\ listening \in BOOLEAN /\ speaking \in BOOLEAN
  /\ queue \in Seq(1 .. MaxFrames)
  /\ rtp \in RtpSendState
  /\ \A i \in DOMAIN wire : wire[i].frame \in DOMAIN spoken
  /\ spoken \in Seq(BOOLEAN) /\ Len(spoken) <= MaxFrames

(* What the peer can rely on: the packets are the application's frames in  *)
(* their order, without those the codec refused, and neither a refused     *)
(* frame nor a wrap-around leaves a gap in the sequence numbers or in the  *)
(* timestamps.                                                             *)
StreamHasNoGap ==
  /\ \A i \in DOMAIN wire : spoken[wire[i].frame]
  /\ \A i \in 1 .. Len(wire) - 1 :
       LET this == wire[i] next == wire[i + 1] IN
       /\ next.header.sequence = (this.header.sequence + 1) % SeqModulus
       /\ next.header.timestamp = (this.header.timestamp + rtp.increment) % TimeModulus
       /\ this.frame < next.frame
       /\ \A f \in this.frame + 1 .. next.frame - 1 : ~ spoken[f]

(* An application that just drops its sender has everything it said sent:  *)
(* only a cancelled token or a broken socket loses frames.                 *)
LastWordsAreSent ==
  send = "closed" =>
    \A f \in DOMAIN spoken : spoken[f] => \E i \in DOMAIN wire : wire[i].frame = f

(* The session cancels itself only after a whole timeout without a valid   *)
(* packet, whatever else arrives.                                          *)
DeadlineNeedsSilence == [][child' # child => silence = Timeout]_vars

(* Garbage does not keep a session alive: a whole timeout without a valid  *)
(* packet ends the receive task, however many others arrive.               *)
SilenceEndsReceiving == (silence = Timeout) ~> (recv # "running")

(* Once a token is cancelled both tasks end, and with them the socket.     *)
CancelEndsBothTasks == Over ~> (recv # "running" /\ send \notin Sending)

----------------------------------------------------------------------------
(* The session is what the calls of CallHandler take it for: every step    *)
(* that its tasks or the end of the application's task can be seen by is   *)
(* one of their steps there.                                               *)

OneCall == {"call"}

ForCall(value) == [c \in OneCall |-> value]

Task(state, on) == ForCall(IF state \in on THEN "running" ELSE "stopped")

recvTask == Task(recv, {"running"})
sendTask == Task(send, Sending)
appTask  == Task("application", IF listening \/ speaking THEN {"application"} ELSE {})

Call == INSTANCE CallHandler WITH
  Calls <- OneCall, Pairs <- {"pair"}, NoPair <- "none",
  dialog <- ForCall("confirmed"), layer <- OneCall, events <- <<>>,
  cancelled <- {c \in OneCall : parent}, mediaCancelled <- {c \in OneCall : child},
  pc <- ForCall("wait"), rtcp <- ForCall("none"),
  rtp <- ForCall(IF recv = "running" \/ send \in Sending THEN "pair" ELSE "none"),
  recv <- recvTask, send <- sendTask, app <- appTask,
  active <- 1, accepted <- 1, rejected <- 0, terminated <- 0

ImplementsCallMedia ==
  [][Call!RecvTask("call") \/ Call!SendTask("call") \/ Call!AppReturns("call")]_
    <<child, recvTask, sendTask, appTask>>

============================================================================
