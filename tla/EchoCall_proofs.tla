--------------------------- MODULE EchoCall_proofs ---------------------------
(***************************************************************************)
(* Proofs about EchoCall, for any codecs, payloads and numbers of frames,  *)
(* every send interval and every size of the RTP counters that one frame   *)
(* does not exhaust. The session of a call is MediaSession, so that what   *)
(* MediaSession_proofs shows of its steps holds here; only the return of   *)
(* the handler, which drops both ends at once, is not one of them.         *)
(***************************************************************************)
EXTENDS EchoCall, SequenceTheorems, TLAPS

P == INSTANCE MediaSession_proofs

----------------------------------------------------------------------------
(* The invariant *)

Payload == [bytes : Payloads, samples : Nat]
Frame   == [bytes : Nat, samples : Nat]
Metric  == [last : Int, count : Nat, sum : Int]

(* The clock of the timestamps is the codec's.                             *)
ClockOfCodec == kind \in Kinds /\ rtp.increment = Increment(kind)

FramesTyped ==
  /\ heard \in Seq(Payload) /\ audioIn \in Seq(Nat) /\ said \in Seq(Frame)
  /\ listening \in BOOLEAN /\ speaking = listening

(* The frames of the session are the frames the handler sent back, and it  *)
(* encodes those that the codec makes bytes of.                            *)
SpokenIsSaid ==
  /\ Len(spoken) = Len(said)
  /\ \A i \in 1 .. Len(said) : spoken[i] <=> said[i].bytes > 0

(* What was heard is what the codec made of it, in one line: first what    *)
(* was sent back, then what waits in audio_in.                             *)
OneLine ==
  /\ Len(said) + Len(audioIn) <= Len(heard)
  /\ \A i \in 1 .. Len(heard) : heard[i].samples \in DecodedSamples(kind, heard[i].bytes)
  /\ \A i \in 1 .. Len(said) : /\ said[i].samples = heard[i].samples
                               /\ said[i].bytes \in EncodedBytes(kind, said[i].samples)
  /\ \A j \in 1 .. Len(audioIn) : audioIn[j] = heard[Len(said) + j].samples

(* While the handler runs nothing is lost, and it returns early only       *)
(* behind a token or behind a send task that has given up. A channel whose *)
(* receiver is dropped is empty.                                           *)
ReturnsForCause ==
  /\ \/ Len(said) + Len(audioIn) = Len(heard)
     \/ ~ listening /\ (parent \/ send \in {"cancelled", "failed"})
  /\ listening \/ audioIn = <<>>

FramesInv == FramesTyped /\ SpokenIsSaid /\ OneLine /\ ReturnsForCause

(* The packets the socket has taken.                                       *)
SentPackets == Len(wire) - (IF send \in {"sending", "failed"} THEN 1 ELSE 0)

TimingTyped ==
  /\ clock \in Nat /\ deviation \in Metric
  /\ firstSent \in 0 .. clock \cup {Never} /\ deviation.last \in 0 .. clock \cup {Never}
  /\ SentPackets \in Nat

(* The metric knows the packets sent.                                      *)
MetricCountsPackets ==
  /\ deviation.last = Never <=> SentPackets = 0
  /\ firstSent = Never <=> SentPackets = 0
  /\ deviation.count = IF SentPackets = 0 THEN 0 ELSE SentPackets - 1
  /\ deviation.sum = deviation.last - firstSent - deviation.count * ExpectedInterval

TimingInv == TimingTyped /\ MetricCountsPackets

IInv == P!IInv /\ ClockOfCodec /\ FramesInv /\ TimingInv

----------------------------------------------------------------------------
(* The codecs *)

(* Lengths become lengths.                                                 *)
LEMMA LengthsAreNat ==
  /\ \A k : \A b \in Nat : DecodedSamples(k, b) \subseteq Nat
  /\ \A k : \A n \in Nat : EncodedBytes(k, n) \subseteq Nat
<1>1. ASSUME NEW k, NEW b \in Nat PROVE DecodedSamples(k, b) \subseteq Nat
  BY DEF DecodedSamples, OpusDecode, L16Decode, G722Decode, G711Decode
<1>2. ASSUME NEW k, NEW n \in Nat PROVE EncodedBytes(k, n) \subseteq Nat
  <2>1. OpusEncode(n) \subseteq Nat /\ L16Encode(n) \subseteq Nat
    BY DEF OpusEncode, OpusFrames, LongOpusFrames, L16Encode
  <2>2. G722Encode(n) \subseteq Nat /\ G711Encode(n) \subseteq Nat
    BY DEF G722Encode, G711Encode
  <2> QED
    BY <2>1, <2>2 DEF EncodedBytes
<1> QED
  BY <1>1, <1>2

(* A codec other than Opus gives back the length it was given, but that    *)
(* L16 has no use for half a sample.                                       *)
LEMMA LengthComesBack ==
  ASSUME NEW k, NEW b \in Nat, k # "opus", k = "l16" => b % 2 # 1,
         NEW n \in DecodedSamples(k, b), NEW c \in EncodedBytes(k, n)
  PROVE  c = b
<1>1. CASE k = "l16"
  <2>1. n = b \div 2 /\ c = 2 * n
    BY <1>1 DEF DecodedSamples, EncodedBytes, L16Decode, L16Encode
  <2> QED
    BY <1>1, <2>1
<1>2. CASE k = "g722"
  <2>1. n = 2 * b /\ c = (n + (n % 2)) \div 2
    BY <1>2 DEF DecodedSamples, EncodedBytes, G722Decode, G722Encode
  <2> QED
    BY <2>1
<1>3. CASE k \notin {"opus", "l16", "g722"}
  <2>1. n = 2 * b /\ c = (n + 1) \div 2
    BY <1>3 DEF DecodedSamples, EncodedBytes, G711Decode, G711Encode
  <2> QED
    BY <2>1
<1> QED
  BY <1>1, <1>2, <1>3

(* The clock the rtpmap names, against the clock of the samples.           *)
LEMMA IncrementIsRate ==
  \A k : Increment(k) \in Nat /\ Increment(k) * SampleRate = SamplesPerFrame * Rate(k)
BY DEF Increment, SampleRate, SamplesPerFrame, Rate

(* The distance of two stamps, the counter wrapped or not.                 *)
LEMMA DistanceOfStamps ==
  ASSUME NEW m \in Nat \ {0}, NEW d \in 0 .. m - 1, NEW t \in 0 .. m - 1
  PROVE  (((t + d) % m) - t) % m = d
<1>1. CASE t + d < m
  <2>1. (t + d) % m = t + d
    BY <1>1
  <2> QED
    BY <2>1
<1>2. CASE t + d >= m
  <2>1. (t + d) % m = t + d - m
    BY <1>2
  <2>2. (d - m) % m = d
    OBVIOUS
  <2> QED
    BY <2>1, <2>2
<1> QED
  BY <1>1, <1>2

----------------------------------------------------------------------------
(* The steps of the session *)

(* What the lemmas of the instance assume of the constants holds here.     *)
LEMMA SessionAssumed ==
  /\ Timeout \in Nat \ {0}
  /\ SeqModulus \in Nat \ {0} /\ TimeModulus \in Nat \ {0}
  /\ Increments \subseteq Nat /\ Buffer \in Nat /\ MaxFrames \in Nat
BY SessionConstants

(* A call starts with a session that starts.                               *)
LEMMA CallInit == Init => P!Init
BY DEF Init, Session!Init, P!Init, Session!RtpSendState, P!RtpSendState

(* The instances of MediaSession have the same next header.                *)
LEMMA SameNextHeader == Session!NextHeader = P!NextHeader
BY Zenon DEF Session!NextHeader, P!NextHeader

(* Every step but the handler's return is one of the session.              *)
LEMMA CallStep ==
  ASSUME [Next]_vars
  PROVE  [P!Next]_(P!vars) \/ EchoReturns
<1> USE DEF Session!incoming, P!incoming, Session!outgoing, P!outgoing, Session!ends, P!ends
<1>1. CASE Tick
  BY <1>1 DEF Tick, Session!Tick, P!Tick, P!Next
<1>2. ASSUME NEW b \in BOOLEAN, Arrive(b) PROVE P!Next
  BY <1>2 DEF Arrive, Session!Arrive, P!Arrive, P!Next, P!Environment, Session!Sending,
              P!Sending
<1>3. ASSUME NEW b, NEW n, Decode(b, n) PROVE P!Next
  BY <1>3 DEF Decode, Session!Decode, P!Decode, P!RecvTask, P!Next, Session!RecvPacket,
              P!RecvPacket, Session!RecvStops, P!RecvStops, Session!ResetDeadline,
              P!ResetDeadline, Session!Over, P!Over, Session!DeadlineIsOver, P!DeadlineIsOver
<1>4. CASE Sent
  BY <1>4 DEF Sent, Session!Sent, P!Sent, P!SendTask, P!Next, Session!SendStops, P!SendStops
<1>5. CASE SessionStep
  <2>1. CASE Session!DialogEnds
    BY <2>1 DEF Session!DialogEnds, P!DialogEnds, P!Environment, P!Next
  <2>2. CASE Session!RecvCancelled \/ Session!RecvDeadline \/ Session!Skip \/ Session!RecvFails
    BY <2>2 DEF Session!RecvCancelled, P!RecvCancelled, Session!RecvDeadline, P!RecvDeadline,
                Session!Skip, P!Skip, Session!RecvFails, P!RecvFails, P!RecvTask, P!Next,
                Session!RecvPacket, P!RecvPacket, Session!RecvStops, P!RecvStops,
                Session!Over, P!Over, Session!DeadlineIsOver, P!DeadlineIsOver
  <2>3. CASE Session!SendCancelled \/ Session!SendFails \/ Session!SendClosed
    BY <2>3 DEF Session!SendCancelled, P!SendCancelled, Session!SendFails, P!SendFails,
                Session!SendClosed, P!SendClosed, P!SendTask, P!Next,
                Session!SendStops, P!SendStops, Session!Over, P!Over
  <2>4. CASE Session!Encode \/ Session!SkipFrame
    BY <2>4, SameNextHeader
       DEF Session!Encode, P!Encode, Session!SkipFrame, P!SkipFrame, P!SendTask, P!Next,
           Session!TakeFrame, P!TakeFrame
  <2> QED
    BY <1>5, <2>1, <2>2, <2>3, <2>4 DEF SessionStep
<1>6. CASE EchoFrame
  <2>1. PICK bytes : Session!Speak(bytes > 0)
    BY <1>6 DEF EchoFrame
  <2>2. (bytes > 0) \in BOOLEAN
    OBVIOUS
  <2>3. P!Speak(bytes > 0)
    BY <2>1 DEF Session!Speak, P!Speak, Session!Sending, P!Sending
  <2> QED
    BY <2>2, <2>3 DEF P!Environment, P!Next
<1>7. CASE EchoCancelled \/ EchoRefused \/ EchoClosed
  BY <1>7 DEF EchoCancelled, EchoRefused, EchoClosed
<1>8. CASE UNCHANGED vars
  BY <1>8 DEF vars, Session!vars, P!vars
<1> QED
  BY <1>1, <1>2, <1>3, <1>4, <1>5, <1>6, <1>7, <1>8 DEF Next, EchoTask

(* The handler's return leaves the stream and the deadline alone; a        *)
(* channel it closes was not closed before.                                *)
LEMMA ReturnKeepsSession == P!IInv /\ EchoReturns => P!IInv'
<1> SUFFICES ASSUME P!IInv, EchoReturns
             PROVE  P!IInv'
  OBVIOUS
<1> USE DEF P!IInv, EchoReturns
<1>1. P!Typed'
  BY DEF P!Typed
<1>2. P!AlarmCountsSilence'
  BY DEF P!AlarmCountsSilence
<1>3. P!Stream'
  <2>1. UNCHANGED P!outgoing
    BY DEF P!outgoing
  <2> QED
    BY <2>1, P!StreamUntouched, SessionAssumed
<1>4. P!ClosedIsEmpty'
  BY DEF P!ClosedIsEmpty
<1> QED
  BY <1>1, <1>2, <1>3, <1>4

(* The session of the call keeps the session's invariant.                  *)
LEMMA SessionInv ==
  /\ Init => P!IInv
  /\ P!IInv /\ [Next]_vars => P!IInv'
<1>1. Init => P!IInv
  BY CallInit, P!InitIInv, SessionAssumed
<1>2. P!IInv /\ [P!Next]_(P!vars) => P!IInv'
  BY P!IInvStep, SessionAssumed
<1> QED
  BY <1>1, <1>2, CallStep, ReturnKeepsSession

----------------------------------------------------------------------------
(* The clock and the frames *)

(* A header keeps its increment.                                           *)
LEMMA ClockStep == P!IInv /\ ClockOfCodec /\ [Next]_vars => ClockOfCodec'
<1> SUFFICES ASSUME P!IInv, ClockOfCodec, [Next]_vars
             PROVE  ClockOfCodec'
  OBVIOUS
<1>1. UNCHANGED kind
  BY DEF Next, vars, Tick, Arrive, Decode, Sent, SessionStep, EchoTask, EchoFrame, EchoReturns,
         EchoCancelled, EchoRefused, EchoClosed
<1>2. rtp' = rtp \/ rtp' = P!NextHeader
  BY CallStep
     DEF P!Next, P!Environment, P!RecvTask, P!SendTask, P!vars, P!outgoing, P!Tick, P!DialogEnds,
         P!StopListening, P!StopSpeaking, P!Arrive, P!Speak, P!RecvCancelled, P!RecvDeadline,
         P!RecvFails, P!RecvStops, P!Decode, P!Skip, P!SendCancelled, P!Sent, P!SendFails,
         P!SendClosed, P!SendStops, P!Encode, P!SkipFrame, P!TakeFrame, EchoReturns
<1>3. rtp \in P!RtpSendState
  BY DEF P!IInv, P!Typed
<1>4. rtp'.increment = rtp.increment
  BY <1>2, <1>3 DEF P!NextHeader, P!RtpSendState
<1> QED
  BY <1>1, <1>4 DEF ClockOfCodec

(* A decoded packet goes to the end of the line if the handler listens.    *)
LEMMA FramesDecode ==
  ASSUME FramesInv, kind \in Kinds, NEW bytes \in Received,
         NEW samples \in DecodedSamples(kind, bytes), Decode(bytes, samples)
  PROVE  FramesInv'
<1> USE DEF FramesInv
<1>1. UNCHANGED <<parent, send, listening, speaking, spoken, said, kind>>
  BY DEF Decode, Session!Decode, Session!RecvStops, Session!ends, Session!outgoing
<1>2. bytes \in Payloads /\ Payloads \subseteq Nat
  BY PeerAssumption DEF Received
<1>3. samples \in Nat
  BY <1>2, LengthsAreNat
<1>4. CASE ~ listening
  BY <1>1, <1>4 DEF Decode, FramesTyped, SpokenIsSaid, OneLine, ReturnsForCause
<1>5. CASE listening
  <2> DEFINE packet == [bytes |-> bytes, samples |-> samples]
  <2>1. /\ audioIn' = Append(audioIn, samples) /\ heard' = Append(heard, packet)
        /\ packet \in Payload /\ packet.bytes = bytes /\ packet.samples = samples
    BY <1>2, <1>3, <1>5 DEF Decode, Payload
  <2> HIDE DEF packet
  <2>2. FramesTyped'
    BY <1>1, <1>3, <2>1 DEF FramesTyped
  <2>3. SpokenIsSaid'
    BY <1>1 DEF SpokenIsSaid
  <2>4. /\ Len(said) \in Nat /\ Len(audioIn) \in Nat /\ Len(heard) \in Nat
        /\ Len(audioIn') = Len(audioIn) + 1 /\ Len(heard') = Len(heard) + 1
        /\ \A j \in 1 .. Len(audioIn) : audioIn'[j] = audioIn[j]
        /\ \A i \in 1 .. Len(heard) : heard'[i] = heard[i]
        /\ audioIn'[Len(audioIn) + 1] = samples /\ heard'[Len(heard) + 1] = packet
    BY <2>1 DEF FramesTyped
  <2>5. Len(said) + Len(audioIn) = Len(heard)
    BY <1>5 DEF ReturnsForCause
  <2>6. OneLine'
    <3>1. ASSUME NEW i \in 1 .. Len(heard')
          PROVE  heard'[i].samples \in DecodedSamples(kind, heard'[i].bytes)
      <4>1. CASE i \in 1 .. Len(heard)
        BY <2>4, <4>1 DEF OneLine
      <4>2. CASE i = Len(heard) + 1
        BY <2>1, <2>4, <4>2
      <4> QED
        BY <2>4, <4>1, <4>2
    <3>2. ASSUME NEW j \in 1 .. Len(audioIn')
          PROVE  audioIn'[j] = heard'[Len(said) + j].samples
      <4>1. CASE j \in 1 .. Len(audioIn)
        <5>1. Len(said) + j \in 1 .. Len(heard)
          BY <2>4, <2>5, <4>1
        <5> QED
          BY <2>4, <4>1, <5>1 DEF OneLine
      <4>2. CASE j = Len(audioIn) + 1
        <5>1. Len(said) + j = Len(heard) + 1
          BY <2>4, <2>5, <4>2
        <5> QED
          BY <2>1, <2>4, <4>2, <5>1
      <4> QED
        BY <2>4, <4>1, <4>2
    <3>3. \A i \in 1 .. Len(said) : heard'[i] = heard[i]
      BY <2>4, <2>5
    <3> QED
      BY <1>1, <2>4, <2>5, <3>1, <3>2, <3>3 DEF OneLine
  <2>7. ReturnsForCause'
    BY <1>1, <1>5, <2>4, <2>5 DEF ReturnsForCause
  <2> QED
    BY <2>2, <2>3, <2>6, <2>7
<1> QED
  BY <1>4, <1>5

(* The first frame that waits is sent back and joins what was said.        *)
LEMMA FramesEcho ==
  ASSUME FramesInv, P!IInv, kind \in Kinds, EchoFrame
  PROVE  FramesInv'
<1> USE DEF FramesInv
<1>1. PICK bytes \in EncodedBytes(kind, Head(audioIn)) :
        /\ Session!Speak(bytes > 0)
        /\ said' = Append(said, [samples |-> Head(audioIn), bytes |-> bytes])
  BY DEF EchoFrame
<1>2. /\ audioIn # <<>> /\ audioIn' = Tail(audioIn) /\ spoken' = Append(spoken, bytes > 0)
      /\ UNCHANGED <<parent, send, listening, speaking, heard, kind>>
  BY <1>1 DEF EchoFrame, Session!Speak, Session!ends
<1> DEFINE frame == [samples |-> Head(audioIn), bytes |-> bytes]
           sound == bytes > 0
<1>3. Head(audioIn) = audioIn[1] /\ Head(audioIn) \in Nat
  BY <1>2 DEF FramesTyped
<1>4. bytes \in Nat
  BY <1>1, <1>3, LengthsAreNat
<1>5. frame \in Frame /\ frame.samples = audioIn[1] /\ frame.bytes = bytes
  BY <1>3, <1>4 DEF Frame
<1>6. said' = Append(said, frame) /\ spoken' = Append(spoken, sound) /\ sound \in BOOLEAN
  BY <1>1, <1>2
<1>7. bytes \in EncodedBytes(kind, audioIn[1])
  BY <1>1, <1>3
<1>8. sound <=> frame.bytes > 0
  BY <1>5
<1> HIDE DEF frame, sound
<1>9. /\ Len(said) \in Nat /\ Len(audioIn) \in Nat \ {0} /\ Len(heard) \in Nat
      /\ said' \in Seq(Frame) /\ Len(said') = Len(said) + 1 /\ said'[Len(said) + 1] = frame
      /\ \A i \in 1 .. Len(said) : said'[i] = said[i]
      /\ \A i \in 1 .. Len(said) + 1 : i \in 1 .. Len(said) \/ i = Len(said) + 1
  BY <1>2, <1>5, <1>6 DEF FramesTyped
<1>10. /\ audioIn' \in Seq(Nat) /\ Len(audioIn') = Len(audioIn) - 1
       /\ \A j \in 1 .. Len(audioIn') : audioIn'[j] = audioIn[j + 1]
  BY <1>2, HeadTailProperties DEF FramesTyped
<1>11. FramesTyped'
  BY <1>2, <1>9, <1>10 DEF FramesTyped
<1>12. SpokenIsSaid'
  <2>1. /\ spoken \in Seq(BOOLEAN) /\ Len(spoken) = Len(said)
    BY DEF P!IInv, P!Typed, SpokenIsSaid
  <2>2. /\ Len(spoken') = Len(said) + 1 /\ spoken'[Len(said) + 1] = sound
        /\ \A i \in 1 .. Len(said) : spoken'[i] = spoken[i]
    BY <1>6, <2>1
  <2> QED
    BY <1>8, <1>9, <2>2 DEF SpokenIsSaid
<1>13. OneLine'
  <2>1. \A i \in 1 .. Len(said) + 1 : /\ said'[i].samples = heard[i].samples
                                      /\ said'[i].bytes \in EncodedBytes(kind, said'[i].samples)
    <3>1. audioIn[1] = heard[Len(said) + 1].samples
      BY <1>9 DEF OneLine
    <3>2. ASSUME NEW i \in 1 .. Len(said)
          PROVE  /\ said'[i].samples = heard[i].samples
                 /\ said'[i].bytes \in EncodedBytes(kind, said'[i].samples)
      BY <1>9 DEF OneLine
    <3> QED
      BY <1>5, <1>7, <1>9, <3>1, <3>2
  <2>2. ASSUME NEW j \in 1 .. Len(audioIn')
        PROVE  audioIn'[j] = heard[Len(said) + 1 + j].samples
    <3>1. j + 1 \in 1 .. Len(audioIn) /\ Len(said) + (j + 1) = Len(said) + 1 + j
      BY <1>9, <1>10
    <3>2. audioIn[j + 1] = heard[Len(said) + (j + 1)].samples
      BY <3>1 DEF OneLine
    <3> QED
      BY <1>10, <3>1, <3>2
  <2> QED
    BY <1>2, <1>9, <1>10, <2>1, <2>2 DEF OneLine
<1>14. ReturnsForCause'
  BY <1>2, <1>9, <1>10 DEF ReturnsForCause
<1> QED
  BY <1>11, <1>12, <1>13, <1>14

(* The handler returns behind a token, behind a send task that has given   *)
(* up, or with nothing left of what was heard.                             *)
LEMMA FramesReturn ==
  ASSUME FramesInv, P!IInv, EchoCancelled \/ EchoRefused \/ EchoClosed
  PROVE  FramesInv'
<1> USE DEF FramesInv
<1>1. /\ Echoing /\ EchoReturns
      /\ parent \/ send \notin Session!Sending \/ audioIn = <<>>
  BY DEF EchoCancelled, EchoRefused, EchoClosed
<1>2. /\ listening' = FALSE /\ speaking' = FALSE /\ audioIn' = <<>> /\ Len(audioIn') = 0
      /\ UNCHANGED <<parent, send, spoken, said, heard, kind>>
  BY <1>1 DEF EchoReturns
<1>3. Len(said) \in Nat /\ Len(audioIn) \in Nat /\ Len(heard) \in Nat
  BY DEF FramesTyped
<1>4. FramesTyped'
  <2>1. heard' \in Seq(Payload) /\ audioIn' \in Seq(Nat) /\ said' \in Seq(Frame)
    BY <1>2, EmptySeq DEF FramesTyped
  <2> QED
    BY <1>2, <2>1 DEF FramesTyped
<1>5. SpokenIsSaid' /\ OneLine'
  BY <1>2, <1>3 DEF SpokenIsSaid, OneLine
<1>6. ReturnsForCause'
  <2>1. Len(said) + Len(audioIn) = Len(heard)
    BY <1>1 DEF ReturnsForCause, Echoing
  <2>2. send \notin Session!Sending => send \in {"cancelled", "failed"}
    BY <1>1 DEF P!IInv, P!Typed, P!ClosedIsEmpty, P!Sending, Session!Sending, Echoing
  <2> QED
    BY <1>1, <1>2, <1>3, <2>1, <2>2 DEF ReturnsForCause
<1> QED
  BY <1>4, <1>5, <1>6

(* Every step keeps the line.                                              *)
LEMMA FramesStep == P!IInv /\ ClockOfCodec /\ FramesInv /\ [Next]_vars => FramesInv'
<1> SUFFICES ASSUME P!IInv, ClockOfCodec, FramesInv, [Next]_vars
             PROVE  FramesInv'
  OBVIOUS
<1>1. ASSUME NEW bytes \in Received, NEW samples \in DecodedSamples(kind, bytes),
             Decode(bytes, samples)
      PROVE  FramesInv'
  BY <1>1, FramesDecode DEF ClockOfCodec
<1>2. CASE EchoFrame
  BY <1>2, FramesEcho DEF ClockOfCodec
<1>3. CASE EchoCancelled \/ EchoRefused \/ EchoClosed
  BY <1>3, FramesReturn
<1>4. ASSUME UNCHANGED <<kind, frames, listening, speaking, spoken>>,
             parent => parent',
             send \in {"cancelled", "failed"} => send' = send
      PROVE  FramesInv'
  BY <1>4 DEF frames, FramesInv, FramesTyped, SpokenIsSaid, OneLine, ReturnsForCause
<1>5. CASE Tick \/ Sent \/ SessionStep \/ (\E b \in BOOLEAN : Arrive(b)) \/ UNCHANGED vars
  <2> USE DEF Session!outgoing, Session!ends
  <2>1. CASE Tick
    BY <1>4, <2>1 DEF Tick, Session!Tick
  <2>2. CASE Sent
    BY <1>4, <2>2 DEF Sent, Session!Sent, Session!SendStops
  <2>3. ASSUME NEW b \in BOOLEAN, Arrive(b) PROVE FramesInv'
    BY <1>4, <2>3 DEF Arrive, Session!Arrive
  <2>4. CASE UNCHANGED vars
    BY <1>4, <2>4 DEF vars, Session!vars
  <2>5. CASE SessionStep
    BY <1>4, <2>5
       DEF SessionStep, Session!DialogEnds, Session!RecvCancelled, Session!RecvDeadline,
           Session!Skip, Session!RecvFails, Session!RecvStops, Session!SendCancelled,
           Session!Encode, Session!SkipFrame, Session!TakeFrame, Session!SendFails,
           Session!SendClosed, Session!SendStops
  <2> QED
    BY <1>5, <2>1, <2>2, <2>3, <2>4, <2>5
<1> QED
  BY <1>1, <1>2, <1>3, <1>5 DEF Next, EchoTask

----------------------------------------------------------------------------
(* The metric *)

(* Steps that send nothing, whether or not a packet is begun or fails.     *)
LEMMA TimingQuiet ==
  ASSUME TimingInv, clock' = clock \/ clock' = clock + 1, UNCHANGED <<deviation, firstSent>>,
         SentPackets' = SentPackets
  PROVE  TimingInv'
<1>1. TimingTyped'
  BY DEF TimingInv, TimingTyped
<1>2. MetricCountsPackets'
  BY DEF TimingInv, MetricCountsPackets
<1> QED
  BY <1>1, <1>2 DEF TimingInv

(* A packet sent counts from the second on, and its lateness adds up.      *)
LEMMA TimingSent == P!IInv /\ TimingInv /\ Sent => TimingInv'
<1> SUFFICES ASSUME P!IInv, TimingInv, Sent
             PROVE  TimingInv'
  OBVIOUS
<1> USE DEF TimingInv
<1>1. /\ send = "sending" /\ send' = "select" /\ UNCHANGED <<wire, clock>>
      /\ firstSent' = IF firstSent = Never THEN clock ELSE firstSent
  BY DEF Sent, Session!Sent, Session!SendStops
<1>2. SentPackets' = SentPackets + 1 /\ SentPackets \in Nat
  <2>1. Len(wire) \in Nat
    BY DEF P!IInv, P!Typed
  <2> QED
    BY <1>1, <2>1 DEF SentPackets, TimingTyped
<1>3. /\ clock \in Nat /\ ExpectedInterval \in Nat /\ deviation \in Metric
      /\ deviation.last \in Int /\ deviation.count \in Nat /\ deviation.sum \in Int
      /\ firstSent \in 0 .. clock \cup {Never}
  BY CodecAssumption DEF TimingTyped, Metric
<1>4. CASE deviation.last = Never
  <2>1. deviation' = [deviation EXCEPT !.last = clock]
    BY <1>4 DEF Sent, Record
  <2>2. deviation' \in Metric /\ deviation'.last = clock /\ deviation'.count = 0
    <3>1. deviation.count = 0
      BY <1>4 DEF MetricCountsPackets
    <3> QED
      BY <1>3, <2>1, <3>1 DEF Metric
  <2>3. SentPackets = 0 /\ firstSent' = clock /\ deviation'.sum = 0
    <3>1. SentPackets = 0 /\ firstSent = Never /\ deviation.count = 0
      BY <1>4 DEF MetricCountsPackets
    <3>2. deviation.sum = Never - Never - 0 * ExpectedInterval
      BY <1>4, <3>1 DEF MetricCountsPackets
    <3>3. deviation'.sum = deviation.sum
      BY <1>3, <2>1 DEF Metric
    <3> QED
      BY <1>1, <1>3, <3>1, <3>2, <3>3 DEF Never
  <2> QED
    BY <1>1, <1>2, <1>3, <2>2, <2>3 DEF TimingTyped, MetricCountsPackets, Never
<1>5. CASE deviation.last # Never
  <2>1. deviation' =
          [last  |-> clock,
           count |-> deviation.count + 1,
           sum   |-> deviation.sum + clock - deviation.last - ExpectedInterval]
    BY <1>5 DEF Sent, Record
  <2>2. /\ deviation' \in Metric
        /\ deviation'.last = clock /\ deviation'.count = deviation.count + 1
        /\ deviation'.sum = deviation.sum + clock - deviation.last - ExpectedInterval
    BY <1>3, <2>1 DEF Metric
  <2>3. SentPackets # 0 /\ firstSent' = firstSent /\ firstSent # Never
    BY <1>1, <1>5 DEF MetricCountsPackets
  <2>4. (deviation.count + 1) * ExpectedInterval
          = deviation.count * ExpectedInterval + ExpectedInterval
    BY <1>3
  <2>5. deviation.count * ExpectedInterval \in Nat
    BY <1>3
  <2>6. deviation'.sum = clock - firstSent - deviation'.count * ExpectedInterval
    BY <1>3, <2>2, <2>4, <2>5 DEF MetricCountsPackets, Never
  <2> QED
    BY <1>1, <1>2, <1>3, <2>2, <2>3, <2>6 DEF TimingTyped, MetricCountsPackets, Never
<1> QED
  BY <1>4, <1>5

(* Every step keeps the metric.                                            *)
LEMMA TimingStep == P!IInv /\ TimingInv /\ [Next]_vars => TimingInv'
<1> SUFFICES ASSUME P!IInv, TimingInv, [Next]_vars
             PROVE  TimingInv'
  OBVIOUS
<1> USE DEF timing, Session!outgoing
<1>1. CASE Sent
  BY <1>1, TimingSent
<1>2. CASE Tick
  BY <1>2, TimingQuiet DEF Tick, Session!Tick, SentPackets
<1>3. CASE UNCHANGED <<timing, send, wire>>
  BY <1>3, TimingQuiet DEF SentPackets
<1>4. CASE SessionStep
  <2>1. UNCHANGED timing
    BY <1>4 DEF SessionStep
  <2>2. SentPackets' = SentPackets
    <3>1. CASE Session!Encode
      <4>1. wire \in Seq(P!Packet)
        BY DEF P!IInv, P!Typed
      <4>2. /\ send = "select" /\ send' = "sending"
            /\ \E packet : wire' = Append(wire, packet) /\ packet \in P!Packet
        <5>1. Head(queue) \in Nat /\ rtp \in P!RtpSendState
          BY <3>1 DEF Session!Encode, Session!TakeFrame, P!IInv, P!Typed
        <5> QED
          BY <3>1, <5>1 DEF Session!Encode, Session!TakeFrame, P!Packet
      <4> QED
        BY <4>1, <4>2 DEF SentPackets
    <3>2. CASE Session!SendFails \/ Session!SendCancelled \/ Session!SendClosed
      BY <3>2 DEF Session!SendFails, Session!SendCancelled, Session!SendClosed,
                  Session!SendStops, SentPackets
    <3>3. CASE UNCHANGED <<send, wire>>
      BY <3>3 DEF SentPackets
    <3> QED
      BY <1>4, <3>1, <3>2, <3>3
         DEF SessionStep, Session!DialogEnds, Session!RecvCancelled, Session!RecvDeadline,
             Session!Skip, Session!RecvFails, Session!RecvStops, Session!SkipFrame,
             Session!TakeFrame
  <2> QED
    BY <2>1, <2>2, TimingQuiet
<1> QED
  BY <1>1, <1>2, <1>3, <1>4
     DEF Next, vars, Session!vars, EchoTask, EchoFrame, Session!Speak, EchoCancelled,
         EchoRefused, EchoClosed, EchoReturns, Arrive, Session!Arrive, Decode, Session!Decode,
         Session!RecvStops

----------------------------------------------------------------------------
(* The invariant and what follows from it *)

(* A call starts with nothing heard, said or sent.                         *)
LEMMA InitIInv == Init => IInv
<1> SUFFICES ASSUME Init
             PROVE  IInv
  OBVIOUS
<1>1. ClockOfCodec
  BY DEF Init, ClockOfCodec
<1>2. /\ audioIn = <<>> /\ said = <<>> /\ heard = <<>> /\ spoken = <<>> /\ wire = <<>>
      /\ listening = TRUE /\ speaking = TRUE /\ send = "select"
  BY DEF Init, Session!Init
<1>3. FramesTyped
  BY <1>2, EmptySeq DEF FramesTyped
<1>4. SpokenIsSaid /\ OneLine /\ ReturnsForCause
  BY <1>2 DEF SpokenIsSaid, OneLine, ReturnsForCause
<1>5. SentPackets = 0
  BY <1>2 DEF SentPackets
<1>6. /\ clock = 0 /\ firstSent = Never /\ deviation \in Metric
      /\ deviation.last = Never /\ deviation.count = 0 /\ deviation.sum = 0
  BY DEF Init, NewMetric, Metric, Never
<1>7. TimingTyped /\ MetricCountsPackets
  <2>1. 0 * ExpectedInterval = 0
    BY CodecAssumption
  <2> QED
    BY <1>5, <1>6, <2>1 DEF TimingTyped, MetricCountsPackets, Never
<1> QED
  BY <1>1, <1>3, <1>4, <1>7, SessionInv DEF IInv, FramesInv, TimingInv

(* The invariant holds in every reachable state.                           *)
LEMMA SpecIInv == Spec => []IInv
<1>1. IInv /\ [Next]_vars => IInv'
  BY SessionInv, ClockStep, FramesStep, TimingStep DEF IInv
<1> QED
  BY InitIInv, <1>1, PTL DEF Spec

(* Every variable of a call keeps its type, and no frame that was decoded  *)
(* is in two places, or in none while EchoHandler::process runs.           *)
THEOREM SpecTypeOK == Spec => []TypeOK
<1>1. IInv => TypeOK
  <2> SUFFICES ASSUME IInv
               PROVE  TypeOK
    OBVIOUS
  <2>1. Session!TypeOK
    <3>1. P!TypeOK
      BY P!TypeOKFollows, SessionAssumed DEF IInv
    <3> QED
      BY <3>1 DEF P!TypeOK, Session!TypeOK, P!Sending, Session!Sending, P!RtpSendState,
                  Session!RtpSendState
  <2>2. kind \in Kinds /\ rtp.increment = Increment(kind)
    BY DEF IInv, ClockOfCodec
  <2>3. /\ heard \in Seq([bytes : Payloads, samples : Nat]) /\ audioIn \in Seq(Nat)
        /\ said \in Seq([bytes : Nat, samples : Nat])
        /\ Len(said) + Len(audioIn) <= Len(heard)
        /\ Echoing => Len(said) + Len(audioIn) = Len(heard)
    BY DEF IInv, FramesInv, FramesTyped, OneLine, ReturnsForCause, Echoing, Payload, Frame
  <2>4. /\ clock \in Nat
        /\ firstSent \in 0 .. clock \cup {Never} /\ deviation.last \in 0 .. clock \cup {Never}
        /\ deviation.count \in Nat /\ deviation.sum \in Int
    BY DEF IInv, TimingInv, TimingTyped, Metric
  <2> QED
    BY <2>1, <2>2, <2>3, <2>4 DEF TypeOK
<1> QED
  BY <1>1, SpecIInv, PTL

(* EchoHandler::process loses no frame and changes no length but by the    *)
(* codec: unless the call's token is cancelled, the send task that stops   *)
(* behind the closed channel has sent all that the caller was heard to say *)
(* and the codec encodes.                                                  *)
THEOREM SpecEverythingIsEchoed == Spec => []EverythingIsEchoed
<1>1. IInv => EverythingIsEchoed
  <2> SUFFICES ASSUME IInv
               PROVE  EverythingIsEchoed
    OBVIOUS
  <2> USE DEF IInv, FramesInv
  <2>1. /\ Len(said) \in Nat /\ Len(heard) \in Nat /\ Len(audioIn) \in Nat
        /\ DOMAIN said = 1 .. Len(said)
        /\ \A i \in 1 .. Len(said) : i \in 1 .. Len(heard)
    BY DEF FramesTyped, OneLine
  <2>2. ASSUME NEW i \in 1 .. Len(said)
        PROVE  /\ said[i].samples = heard[i].samples
               /\ Lossy(heard[i]) \/ said[i].bytes = heard[i].bytes
    <3>1. said[i].samples = heard[i].samples
      BY DEF OneLine
    <3>2. heard[i].bytes \in Nat
      <4>1. heard[i] \in Payload
        BY <2>1 DEF FramesTyped
      <4> QED
        BY <4>1, PeerAssumption DEF Payload
    <3>3. /\ heard[i].samples \in DecodedSamples(kind, heard[i].bytes)
          /\ said[i].bytes \in EncodedBytes(kind, heard[i].samples)
      BY <2>1, <3>1 DEF OneLine
    <3>4. ~ Lossy(heard[i]) => kind # "opus" /\ (kind = "l16" => heard[i].bytes % 2 # 1)
      BY DEF Lossy
    <3> QED
      BY <3>1, <3>2, <3>3, <3>4, LengthComesBack
  <2>3. ASSUME send = "closed", ~ parent
        PROVE  /\ Len(said) = Len(heard)
               /\ \A i \in 1 .. Len(said) :
                    (\E j \in DOMAIN wire : wire[j].frame = i) <=> said[i].bytes > 0
    <3>1. Len(said) = Len(heard)
      BY <2>1, <2>3 DEF ReturnsForCause, FramesTyped, P!IInv, P!ClosedIsEmpty
    <3>2. /\ wire \in Seq(P!Packet) /\ DOMAIN wire = 1 .. Len(wire) /\ Len(wire) \in Nat
      BY DEF P!IInv, P!Typed
    <3>3. P!Taken = Len(said)
      BY <2>1, <2>3 DEF P!IInv, P!ClosedIsEmpty, P!Taken, SpokenIsSaid
    <3>4. /\ \A j \in 1 .. Len(wire) : spoken[wire[j].frame]
          /\ \A i \in 1 .. Len(said) :
               spoken[i] => \E j \in 1 .. Len(wire) : wire[j].frame = i
      BY <3>3 DEF P!IInv, P!Stream, P!WireIsEncodable
    <3> QED
      BY <3>1, <3>2, <3>4 DEF SpokenIsSaid
  <2> QED
    BY <2>1, <2>2, <2>3 DEF EverythingIsEchoed
<1> QED
  BY <1>1, SpecIInv, PTL

(* The timestamps of RtpSendState::next advance by the clock the rtpmap of *)
(* the answer names, 20 ms for a frame of 20 ms, the 32 bits wrapped or    *)
(* not.                                                                    *)
THEOREM SpecStampsFollowAudio == Spec => []StampsFollowAudio
<1>1. IInv => StampsFollowAudio
  <2> SUFFICES ASSUME IInv, NEW i \in 1 .. Len(wire) - 1
               PROVE  ((wire[i + 1].header.timestamp - wire[i].header.timestamp) % TimeModulus)
                        * SampleRate = SamplesPerFrame * Rate(kind)
    BY DEF StampsFollowAudio
  <2> DEFINE this == wire[i].header.timestamp
             next == wire[i + 1].header.timestamp
  <2>1. next = (this + Increment(kind)) % TimeModulus
    <3>1. P!StreamHasNoGap
      BY P!NoGapFollows, SessionAssumed DEF IInv
    <3> QED
      BY <3>1 DEF P!StreamHasNoGap, IInv, ClockOfCodec
  <2>2. this \in 0 .. TimeModulus - 1
    <3>1. wire \in Seq(P!Packet)
      BY DEF IInv, P!IInv, P!Typed
    <3>2. wire[i] \in P!Packet
      BY <3>1
    <3> QED
      BY <3>2 DEF P!Packet, P!RtpSendState
  <2>3. TimeModulus \in Nat \ {0} /\ Increment(kind) \in 0 .. TimeModulus - 1
    BY SessionConstants, CodecAssumption, IncrementIsRate DEF IInv, ClockOfCodec
  <2> HIDE DEF this, next
  <2>4. (next - this) % TimeModulus = Increment(kind)
    BY <2>1, <2>2, <2>3, DistanceOfStamps
  <2> QED
    BY <2>4, IncrementIsRate DEF this, next
<1> QED
  BY <1>1, SpecIInv, PTL

(* TimingDeviationMetric::record, called for every packet the socket takes *)
(* and for no other, records one deviation for each packet after the first *)
(* and loses none of the lateness.                                         *)
THEOREM SpecLatenessAddsUp == Spec => []LatenessAddsUp
<1>1. IInv => LatenessAddsUp
  <2> SUFFICES ASSUME IInv
               PROVE  LatenessAddsUp
    OBVIOUS
  <2>1. /\ deviation.last = Never <=> SentPackets = 0
        /\ SentPackets > 0 => deviation.count = SentPackets - 1
        /\ deviation.sum = deviation.last - firstSent - deviation.count * ExpectedInterval
    BY DEF IInv, TimingInv, TimingTyped, MetricCountsPackets
  <2> QED
    BY <2>1 DEF LatenessAddsUp, SentPackets
<1> QED
  BY <1>1, SpecIInv, PTL

============================================================================
