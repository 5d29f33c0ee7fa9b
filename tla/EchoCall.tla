------------------------------ MODULE EchoCall ------------------------------
(***************************************************************************)
(* A call to the echo server: EchoHandler::process between the two audio   *)
(* channels of a MediaSession, with the lengths that the negotiated codec  *)
(* gives to payloads and frames, and the timing metric of the send task.   *)
(*                                                                         *)
(* A definition introduced as a "Variant" is deliberately wrong and is not *)
(* part of the specification: it shows which property notices the slip.    *)
(***************************************************************************)
EXTENDS CodecKinds, Sequences, SequencesExt

CONSTANTS Timeout, SeqModulus, TimeModulus, Increments, Buffer, MaxFrames
                     \* of MediaSession

CONSTANTS
  Kinds,             \* the codecs the call may have
  Payloads,          \* bound: the payload lengths a peer sends, in bytes
  OpusLengths,       \* bound: what a peer's Opus packets decode to, in samples
  ExpectedInterval   \* EXPECTED_SEND_INTERVAL, in ticks

(* What MediaSession assumes of its constants.                             *)
ASSUME SessionConstants ==
  /\ Timeout \in Nat \ {0}
  /\ SeqModulus \in Nat \ {0} /\ TimeModulus \in Nat \ {0}
  /\ Increments \subseteq Nat /\ Buffer \in Nat /\ MaxFrames \in Nat

(* One frame does not take the timestamps all the way around.              *)
ASSUME CodecAssumption ==
  /\ \A k \in Kinds : Increment(k) < TimeModulus
  /\ ExpectedInterval \in Nat

ASSUME PeerAssumption ==
  Payloads \subseteq Nat /\ Payloads # {} /\ OpusLengths \subseteq OpusDecode

VARIABLES  \* of MediaSession
  parent, child, recv, send, alarm, inbox, listening, speaking, queue, rtp, wire,
  silence, spoken

VARIABLES
  kind,       \* the negotiated codec
  audioIn,    \* frames in audio_in: their samples
  said,       \* for each frame in spoken, its samples and the bytes it encodes to
  clock,      \* ticks since the session started
  deviation,  \* TimingDeviationMetric: the last tick, what was recorded
  heard,      \* the payloads decoded for the application: their bytes and
              \*  samples; history, read by the properties only
  firstSent   \* when the first packet was sent; history

Session == INSTANCE MediaSession

frames == <<audioIn, said, heard>>
timing == <<clock, deviation, firstSent>>
vars   == <<Session!vars, kind, frames, timing>>

Never == -1

(* TimingDeviationMetric::new; the sum and the number of the samples stand *)
(* for the two histograms.                                                 *)
NewMetric == [last |-> Never, count |-> 0, sum |-> 0]

Init ==
  /\ Session!Init
  /\ kind \in Kinds
  /\ rtp.increment = Increment(kind) /\ rtp.timestamp = TimeModulus - 1
  /\ audioIn = <<>> /\ said = <<>> /\ heard = <<>>
  /\ clock = 0 /\ firstSent = Never
  /\ deviation = NewMetric

----------------------------------------------------------------------------
(* Time, the network and the tasks of the session *)

Tick ==
  /\ Session!Tick
  /\ clock' = clock + 1
  /\ UNCHANGED <<kind, frames, deviation, firstSent>>

Arrive(valid) ==
  /\ Session!Arrive(valid)
  /\ valid => Len(heard) + Len(SelectSeq(inbox, LAMBDA v : v)) < MaxFrames
  /\ UNCHANGED <<kind, frames, timing>>

(* What Opus decodes does not depend on the length: one stands for all.    *)
Received == IF kind = "opus" THEN {CHOOSE bytes \in Payloads : TRUE} ELSE Payloads

(* The decoded packet becomes a frame of audio_in.                         *)
Decode(bytes, samples) ==
  /\ Session!Decode
  /\ audioIn' = IF listening THEN Append(audioIn, samples) ELSE audioIn
  /\ heard' = IF listening THEN Append(heard, [bytes |-> bytes, samples |-> samples])
              ELSE heard
  /\ UNCHANGED <<kind, said, timing>>

(* Variant: measures the first tick as well.                               *)
RecordFromStart ==
  deviation' = [last  |-> clock,
                count |-> deviation.count + 1,
                sum   |-> deviation.sum + clock - deviation.last - ExpectedInterval]

(* TimingDeviationMetric::record: the first tick is only remembered.       *)
Record ==
  deviation' =
    IF deviation.last = Never
    THEN [deviation EXCEPT !.last = clock]
    ELSE [last  |-> clock,
          count |-> deviation.count + 1,
          sum   |-> deviation.sum + clock - deviation.last - ExpectedInterval]

Sent ==
  /\ Session!Sent
  /\ Record
  /\ firstSent' = IF firstSent = Never THEN clock ELSE firstSent
  /\ UNCHANGED <<kind, frames, clock>>

(* The other steps of the session do not concern the frames.               *)
SessionStep ==
  /\ \/ Session!DialogEnds
     \/ Session!RecvCancelled \/ Session!RecvDeadline \/ Session!Skip
     \/ Session!RecvFails
     \/ Session!SendCancelled \/ Session!Encode \/ Session!SkipFrame
     \/ Session!SendFails \/ Session!SendClosed
  /\ UNCHANGED <<kind, frames, timing>>

----------------------------------------------------------------------------
(* EchoHandler::process: a select without priority *)

Echoing == listening /\ speaking

(* A frame is sent back; it is encoded when the send task takes it.        *)
EchoFrame ==
  /\ Echoing /\ audioIn # <<>>
  /\ \E bytes \in EncodedBytes(kind, Head(audioIn)) :
       /\ Session!Speak(bytes > 0)
       /\ said' = Append(said, [samples |-> Head(audioIn), bytes |-> bytes])
  /\ audioIn' = Tail(audioIn)
  /\ UNCHANGED <<kind, heard, timing>>

(* The handler returns and drops its ends of both channels.                *)
EchoReturns ==
  /\ listening' = FALSE /\ speaking' = FALSE
  /\ audioIn' = <<>>
  /\ UNCHANGED <<parent, child, recv, send, alarm, inbox, queue, rtp, wire, silence,
                 spoken, kind, said, heard, timing>>

(* handle_call passes the dialog's token, and aborts the task after it.    *)
EchoCancelled == Echoing /\ parent /\ EchoReturns

(* The send task has ended.                                                *)
EchoRefused == Echoing /\ audioIn # <<>> /\ send \notin Session!Sending /\ EchoReturns

(* Variant: frames that are left in the channel are not taken.             *)
EchoClosedAtOnce == Echoing /\ recv # "running" /\ EchoReturns

(* Variant: a closed channel is taken for silence.                         *)
EchoClosedUnnoticed == Echoing /\ audioIn = <<>> /\ parent /\ EchoReturns

(* The receive task has ended and all its frames are taken.                *)
EchoClosed == Echoing /\ audioIn = <<>> /\ recv # "running" /\ EchoReturns

----------------------------------------------------------------------------
(* The specification *)

EchoTask == EchoFrame \/ EchoCancelled \/ EchoRefused \/ EchoClosed

Next ==
  \/ Tick \/ Sent \/ SessionStep \/ EchoTask
  \/ \E valid \in BOOLEAN : Arrive(valid)
  \/ \E bytes \in Received : \E samples \in DecodedSamples(kind, bytes) :
       (kind = "opus" => samples \in OpusLengths) /\ Decode(bytes, samples)

(* As for the session; the runtime polls the handler's task as well.       *)
Fairness == Session!Fairness /\ WF_vars(EchoTask)

Spec == Init /\ [][Next]_vars /\ Fairness

----------------------------------------------------------------------------
(* Properties *)

(* Every variable keeps its type, and every frame heard is in one place.   *)
TypeOK ==
  /\ Session!TypeOK
  /\ kind \in Kinds /\ rtp.increment = Increment(kind)
  /\ heard \in Seq([bytes : Payloads, samples : Nat])
  /\ audioIn \in Seq(Nat)
  /\ said \in Seq([bytes : Nat, samples : Nat])
  /\ Len(said) + Len(audioIn) <= Len(heard)
  /\ Echoing => Len(said) + Len(audioIn) = Len(heard)
  /\ clock \in Nat
  /\ firstSent \in 0 .. clock \cup {Never} /\ deviation.last \in 0 .. clock \cup {Never}
  /\ deviation.count \in Nat /\ deviation.sum \in Int

(* Payloads that need not come back with their length.                     *)
Lossy(payload) == kind = "opus" \/ (kind = "l16" /\ payload.bytes % 2 = 1)

(* The caller hears everything he said, in order and in payloads of the    *)
(* same length, if the call is not ended by its token: the handler empties *)
(* audio_in after the receive task, the send task audio_out after the      *)
(* handler. Only a frame the codec encodes to nothing is left out.         *)
EverythingIsEchoed ==
  /\ \A i \in DOMAIN said :
       /\ said[i].samples = heard[i].samples
       /\ Lossy(heard[i]) \/ said[i].bytes = heard[i].bytes
  /\ send = "closed" /\ ~ parent =>
       /\ Len(said) = Len(heard)
       /\ \A i \in DOMAIN said :
            (\E j \in DOMAIN wire : wire[j].frame = i) <=> said[i].bytes > 0

(* The timestamps advance with the audio as the answer's rtpmap promises:  *)
(* after a frame of 20 ms by 20 ms of the clock the rtpmap names, which is *)
(* not the sample rate, whatever the codec.                                *)
StampsFollowAudio ==
  \A i \in 1 .. Len(wire) - 1 :
    LET ticks == (wire[i + 1].header.timestamp - wire[i].header.timestamp) % TimeModulus
    IN  said[wire[i].frame].samples = SamplesPerFrame =>
          ticks * SampleRate = SamplesPerFrame * Rate(kind)

(* What the histograms expose: one deviation for each packet sent after    *)
(* the first, which sum up to how late the last packet is against a steady *)
(* stream from the first; refused frames and failed sends leave no trace.  *)
LatenessAddsUp ==
  LET sent == Len(wire) - (IF send \in {"sending", "failed"} THEN 1 ELSE 0)
  IN  /\ deviation.last = Never <=> sent = 0
      /\ sent > 0 =>
           /\ deviation.count = sent - 1
           /\ deviation.sum =
                deviation.last - firstSent - deviation.count * ExpectedInterval

(* A receive task that ends, by its deadline or by a socket error, takes   *)
(* the rest of the session with it although no token may be cancelled: the *)
(* handler sees its input closed, and the send task the handler's end.     *)
InputEndsSession ==
  (recv # "running") ~> (~ Echoing /\ send \notin Session!Sending)
============================================================================
