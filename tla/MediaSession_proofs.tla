------------------------ MODULE MediaSession_proofs ------------------------
(***************************************************************************)
(* Proofs about MediaSession, for every timeout, every size of the RTP     *)
(* counters, every increment and every number of frames and packets.       *)
(***************************************************************************)
EXTENDS MediaSession, SequenceTheorems, TLAPS

----------------------------------------------------------------------------
(* The invariant *)

Packet == [header : RtpSendState, frame : Nat]

(* Every variable keeps its type; of the frames only that they are Nat.    *)
Typed ==
  /\ parent \in BOOLEAN /\ child \in BOOLEAN
  /\ recv \in {"running", "cancelled", "unheard", "failed"}
  /\ send \in Sending \cup {"cancelled", "closed", "failed"}
  /\ alarm \in 0 .. Timeout /\ silence \in 0 .. Timeout
  /\ inbox \in Seq(BOOLEAN) /\ Len(inbox) <= Buffer
  /\ listening \in BOOLEAN /\ speaking \in BOOLEAN
  /\ queue \in Seq(Nat)
  /\ rtp \in RtpSendState
  /\ wire \in Seq(Packet)
  /\ spoken \in Seq(BOOLEAN) /\ Len(spoken) <= MaxFrames

(* The deadline has run down by the silence.                               *)
AlarmCountsSilence == alarm + silence = Timeout

(* The frames the send task has taken from the channel.                    *)
Taken == Len(spoken) - Len(queue)

(* The channel holds the other frames, in the order they were said.        *)
QueueInOrder ==
  /\ Taken >= 0
  /\ \A i \in 1 .. Len(queue) : queue[i] = Taken + i

(* The packets are exactly the frames taken that the codec encodes.        *)
WireIsEncodable ==
  /\ \A i \in 1 .. Len(wire) :
       wire[i].frame \in 1 .. Taken /\ spoken[wire[i].frame]
  /\ \A f \in 1 .. Taken : spoken[f] => \E i \in 1 .. Len(wire) : wire[i].frame = f

(* The header that follows another one.                                    *)
Follows(next, this) ==
  /\ next.sequence = (this.sequence + 1) % SeqModulus
  /\ next.timestamp = (this.timestamp + rtp.increment) % TimeModulus

(* Two packets in a row: consecutive headers, and between the frames only  *)
(* frames the codec refused.                                               *)
Joined(this, next) ==
  /\ Follows(next.header, this.header)
  /\ this.frame < next.frame
  /\ \A f \in this.frame + 1 .. next.frame - 1 : ~ spoken[f]

(* The last packet: the counters hold the header that is next, and all     *)
(* frames taken since were refused.                                        *)
LastIn(packet) ==
  /\ Follows(rtp, packet.header)
  /\ \A f \in packet.frame + 1 .. Taken : ~ spoken[f]

WireInOrder ==
  /\ \A i \in 1 .. Len(wire) - 1 : Joined(wire[i], wire[i + 1])
  /\ Len(wire) > 0 => LastIn(wire[Len(wire)])

(* The send task closes behind an empty channel that nobody can fill.      *)
ClosedIsEmpty == send = "closed" => queue = <<>> /\ ~ speaking

Stream == QueueInOrder /\ WireIsEncodable /\ WireInOrder

IInv == Typed /\ AlarmCountsSilence /\ Stream /\ ClosedIsEmpty

----------------------------------------------------------------------------
(* Typing and the deadline *)

(* The next header is a header.                                            *)
LEMMA NextHeaderTyped == rtp \in RtpSendState => NextHeader \in RtpSendState
<1> SUFFICES ASSUME rtp \in RtpSendState PROVE NextHeader \in RtpSendState
  OBVIOUS
<1>1. /\ SeqModulus \in Nat \ {0} /\ TimeModulus \in Nat \ {0}
      /\ Increments \subseteq Nat
  BY SessionAssumption
<1>2. ASSUME NEW n \in Nat, NEW m \in Nat \ {0} PROVE n % m \in 0 .. m - 1
  BY <1>2
<1>3. /\ rtp.sequence \in 0 .. SeqModulus - 1 /\ rtp.timestamp \in 0 .. TimeModulus - 1
      /\ rtp.increment \in Increments
  BY DEF RtpSendState
<1>4. rtp.increment \in Nat
  BY <1>1, <1>3, Zenon
<1>5. (rtp.sequence + 1) % SeqModulus \in 0 .. SeqModulus - 1
  <2>1. rtp.sequence + 1 \in Nat
    BY <1>1, <1>3
  <2> QED
    BY <1>1, <1>2, <2>1
<1>6. (rtp.timestamp + rtp.increment) % TimeModulus \in 0 .. TimeModulus - 1
  <2>1. rtp.timestamp + rtp.increment \in Nat
    BY <1>1, <1>3, <1>4
  <2> QED
    BY <1>1, <1>2, <2>1
<1> QED
  BY <1>3, <1>5, <1>6 DEF NextHeader, RtpSendState

(* Every step keeps the types.                                             *)
LEMMA TypedStep == Typed /\ [Next]_vars => Typed'
<1> SUFFICES ASSUME Typed, [Next]_vars
             PROVE  Typed'
  OBVIOUS
<1> USE SessionAssumption DEF Typed, incoming, outgoing, ends
<1>1. CASE Tick
  BY <1>1 DEF Tick
<1>2. CASE DialogEnds \/ StopListening \/ StopSpeaking
  BY <1>2 DEF DialogEnds, StopListening, StopSpeaking
<1>3. ASSUME NEW b \in BOOLEAN, Arrive(b) PROVE Typed'
  BY <1>3 DEF Arrive
<1>4. ASSUME NEW b \in BOOLEAN, Speak(b) PROVE Typed'
  BY <1>4 DEF Speak
<1>5. CASE RecvCancelled \/ RecvDeadline \/ RecvFails
  BY <1>5 DEF RecvCancelled, RecvDeadline, RecvFails, RecvStops
<1>6. CASE Decode \/ Skip
  <2>1. inbox # <<>> /\ inbox' = Tail(inbox)
    BY <1>6 DEF Decode, Skip, RecvPacket
  <2>2. Tail(inbox) \in Seq(BOOLEAN) /\ Len(Tail(inbox)) = Len(inbox) - 1
    BY <2>1, HeadTailProperties
  <2>3. inbox' \in Seq(BOOLEAN) /\ Len(inbox') <= Buffer
    BY <2>1, <2>2
  <2>4. CASE Decode
    <3>1. recv' \in {"running", "unheard"} /\ alarm' = Timeout /\ silence' = 0
      BY <2>4, Zenon DEF Decode, RecvStops, ResetDeadline
    <3>2. UNCHANGED <<parent, child, send, outgoing, ends>>
      BY <2>4 DEF Decode, RecvStops
    <3> QED
      BY <2>3, <3>1, <3>2
  <2>5. CASE Skip
    BY <2>3, <2>5 DEF Skip
  <2> QED
    BY <1>6, <2>4, <2>5
<1>7. CASE SendCancelled \/ Sent \/ SendFails \/ SendClosed
  BY <1>7 DEF SendCancelled, Sent, SendFails, SendClosed, SendStops, Sending
<1>8. CASE Encode
  <2>1. queue # <<>>
    BY <1>8 DEF Encode, TakeFrame
  <2>2. queue \in Seq(Nat) /\ rtp \in RtpSendState
    OBVIOUS
  <2>3. Head(queue) \in Nat
    BY <2>1, <2>2, HeadTailProperties
  <2>4. [header |-> rtp, frame |-> Head(queue)] \in Packet
    BY <2>2, <2>3 DEF Packet
  <2> QED
    BY <1>8, <2>3, <2>4, NextHeaderTyped DEF Encode, TakeFrame, Sending
<1>9. CASE SkipFrame
  BY <1>9 DEF SkipFrame, TakeFrame
<1>10. CASE UNCHANGED vars
  BY <1>10 DEF vars
<1> QED
  BY <1>1, <1>2, <1>3, <1>4, <1>5, <1>6, <1>7, <1>8, <1>9, <1>10
     DEF Next, Environment, RecvTask, SendTask

(* Time passes for both, a decoded packet resets both, nothing else        *)
(* touches either.                                                         *)
LEMMA AlarmStep == Typed /\ AlarmCountsSilence /\ [Next]_vars => AlarmCountsSilence'
<1> SUFFICES ASSUME Typed, AlarmCountsSilence, [Next]_vars
             PROVE  AlarmCountsSilence'
  OBVIOUS
<1> USE DEF AlarmCountsSilence
<1>1. CASE Tick
  BY <1>1, SessionAssumption DEF Tick, Typed
<1>2. CASE Decode
  BY <1>2, SessionAssumption DEF Decode, ResetDeadline
<1>3. CASE UNCHANGED <<alarm, silence>>
  BY <1>3
<1> QED
  BY <1>1, <1>2, <1>3
     DEF Next, Environment, RecvTask, SendTask, vars, incoming, DialogEnds, StopListening,
         StopSpeaking, Arrive, Speak, RecvCancelled, RecvDeadline, RecvFails, RecvStops, Skip,
         SendCancelled, Sent, SendFails, SendClosed, SendStops, Encode, SkipFrame, TakeFrame

----------------------------------------------------------------------------
(* The stream *)

(* The order does not depend on where a step leaves the tasks.             *)
LEMMA StreamUntouched == Stream /\ UNCHANGED outgoing => Stream'
<1> SUFFICES ASSUME Stream, UNCHANGED outgoing PROVE Stream'
  OBVIOUS
<1>1. /\ queue' = queue /\ rtp' = rtp
      /\ wire' = wire /\ spoken' = spoken
  BY DEF outgoing
<1>2. Taken' = Taken
  BY <1>1 DEF Taken
<1>3. QueueInOrder'
  BY <1>1, <1>2, ZenonT(60) DEF Stream, QueueInOrder
<1>4. WireIsEncodable'
  BY <1>1, <1>2, ZenonT(60) DEF Stream, WireIsEncodable
<1>5. WireInOrder'
  BY <1>1, <1>2, ZenonT(60) DEF Stream, WireInOrder, Joined, LastIn, Follows
<1> QED
  BY <1>3, <1>4, <1>5 DEF Stream

(* A new frame goes last; what is said of the frames taken stays true.     *)
LEMMA StreamSpeak ==
  ASSUME Typed, Stream, NEW b \in BOOLEAN, Speak(b)
  PROVE  Stream'
<1>1. /\ spoken' = Append(spoken, b) /\ queue' = Append(queue, Len(spoken) + 1)
      /\ UNCHANGED <<rtp, wire>>
  BY DEF Speak
<1>2. /\ Len(spoken) \in Nat /\ Len(queue) \in Nat /\ Len(wire) \in Nat
      /\ Len(spoken') = Len(spoken) + 1 /\ Len(queue') = Len(queue) + 1
      /\ \A f \in 1 .. Len(spoken) : spoken'[f] = spoken[f]
      /\ \A i \in 1 .. Len(queue) : queue'[i] = queue[i]
      /\ queue'[Len(queue) + 1] = Len(spoken) + 1
  BY <1>1 DEF Typed
<1>3. Taken' = Taken /\ Taken \in Nat /\ Taken <= Len(spoken)
  BY <1>2 DEF Taken, Stream, QueueInOrder
<1>4. QueueInOrder'
  <2> SUFFICES ASSUME NEW i \in 1 .. Len(queue) + 1
               PROVE  queue'[i] = Taken + i
    BY <1>2, <1>3 DEF QueueInOrder
  <2>1. CASE i \in 1 .. Len(queue)
    BY <2>1, <1>2 DEF Stream, QueueInOrder
  <2>2. CASE i = Len(queue) + 1
    BY <2>2, <1>2 DEF Taken
  <2> QED
    BY <1>2, <2>1, <2>2
<1>5. WireIsEncodable'
  <2>1. \A f \in 1 .. Taken : spoken'[f] = spoken[f]
    BY <1>2, <1>3
  <2>2. \A i \in 1 .. Len(wire) : wire[i].frame \in 1 .. Taken /\ spoken'[wire[i].frame]
    BY <2>1, ZenonT(60) DEF Stream, WireIsEncodable
  <2>3. \A f \in 1 .. Taken : spoken'[f] => \E i \in 1 .. Len(wire) : wire[i].frame = f
    BY <2>1, ZenonT(60) DEF Stream, WireIsEncodable
  <2> QED
    BY <1>1, <1>3, <2>2, <2>3, ZenonT(60) DEF WireIsEncodable
<1>6. WireInOrder'
  <2>1. \A i \in 1 .. Len(wire) : wire[i].frame \in 1 .. Taken
    BY DEF Stream, WireIsEncodable
  <2>2. \A f \in 1 .. Taken : spoken'[f] = spoken[f]
    BY <1>2, <1>3
  <2>3. ASSUME NEW i \in 1 .. Len(wire) - 1
        PROVE  Joined(wire[i], wire[i + 1])'
    <3>1. i \in 1 .. Len(wire) /\ i + 1 \in 1 .. Len(wire)
      BY <1>2
    <3>2. wire[i].frame \in 1 .. Taken /\ wire[i + 1].frame \in 1 .. Taken
      BY <2>1, <3>1
    <3>3. \A f \in wire[i].frame + 1 .. wire[i + 1].frame - 1 : f \in 1 .. Taken
      BY <1>3, <3>2
    <3>4. Joined(wire[i], wire[i + 1])
      BY DEF Stream, WireInOrder
    <3> QED
      BY <1>1, <2>2, <3>3, <3>4 DEF Joined, Follows
  <2>4. ASSUME Len(wire) > 0
        PROVE  LastIn(wire[Len(wire)])'
    <3>1. wire[Len(wire)].frame \in 1 .. Taken
      BY <1>2, <2>1, <2>4
    <3>2. \A f \in wire[Len(wire)].frame + 1 .. Taken : f \in 1 .. Taken
      BY <1>3, <3>1
    <3>3. LastIn(wire[Len(wire)])
      BY <2>4 DEF Stream, WireInOrder
    <3> QED
      BY <1>1, <1>3, <2>2, <3>2, <3>3 DEF LastIn, Follows
  <2> QED
    BY <1>1, <2>3, <2>4 DEF WireInOrder
<1> QED
  BY <1>4, <1>5, <1>6 DEF Stream

(* The frame the send task takes is the next one.                          *)
LEMMA TakeFrameInOrder ==
  ASSUME Typed, Stream, NEW b \in BOOLEAN, TakeFrame(b)
  PROVE  /\ Head(queue) = Taken + 1 /\ Taken' = Taken + 1 /\ Taken \in Nat
         /\ Taken + 1 <= Len(spoken) /\ spoken[Taken + 1] = b /\ spoken' = spoken
         /\ QueueInOrder'
<1>1. /\ queue # <<>> /\ queue' = Tail(queue) /\ spoken' = spoken /\ spoken[Head(queue)] = b
  BY DEF TakeFrame
<1>2. /\ Len(queue) \in Nat \ {0} /\ Len(spoken) \in Nat /\ Head(queue) = queue[1]
      /\ Len(queue') = Len(queue) - 1 /\ \A i \in 1 .. Len(queue') : queue'[i] = queue[i + 1]
  BY <1>1, HeadTailProperties DEF Typed
<1>3. Head(queue) = Taken + 1 /\ Taken \in Nat /\ Taken + 1 <= Len(spoken)
  BY <1>2 DEF Stream, QueueInOrder, Taken
<1>4. Taken' = Taken + 1
  BY <1>1, <1>2 DEF Taken
<1>5. QueueInOrder'
  BY <1>2, <1>3, <1>4 DEF Stream, QueueInOrder
<1> QED
  BY <1>1, <1>3, <1>4, <1>5

(* A frame the codec refuses joins the gap after the last packet.          *)
LEMMA StreamSkip == Typed /\ Stream /\ SkipFrame => Stream'
<1> SUFFICES ASSUME Typed, Stream, SkipFrame
             PROVE  Stream'
  OBVIOUS
<1>1. /\ Taken' = Taken + 1 /\ Taken \in Nat /\ ~ spoken[Taken + 1] /\ spoken' = spoken
      /\ QueueInOrder'
  BY TakeFrameInOrder DEF SkipFrame
<1>2. UNCHANGED <<rtp, wire>> /\ Len(wire) \in Nat
  BY DEF SkipFrame, Typed
<1>3. WireIsEncodable'
  BY <1>1, <1>2 DEF Stream, WireIsEncodable
<1>4. \A i \in 1 .. Len(wire) - 1 : Joined(wire[i], wire[i + 1])'
  BY <1>1, <1>2 DEF Stream, WireInOrder, Joined, Follows
<1>5. ASSUME Len(wire) > 0
      PROVE  LastIn(wire[Len(wire)])'
  <2> DEFINE last == wire[Len(wire)].frame
  <2>1. last \in 1 .. Taken
    BY <1>2, <1>5 DEF Stream, WireIsEncodable
  <2>2. /\ \A f \in last + 1 .. Taken : ~ spoken[f]
        /\ Follows(rtp, wire[Len(wire)].header)
    BY <1>5 DEF Stream, WireInOrder, LastIn
  <2> HIDE DEF last
  <2>3. \A f \in last + 1 .. Taken + 1 : f \in last + 1 .. Taken \/ f = Taken + 1
    BY <1>1, <2>1
  <2>4. \A f \in last + 1 .. Taken + 1 : ~ spoken[f]
    BY <1>1, <2>2, <2>3
  <2> QED
    BY <1>1, <1>2, <2>2, <2>4 DEF LastIn, Follows, last
<1>6. WireInOrder'
  BY <1>2, <1>4, <1>5 DEF WireInOrder
<1> QED
  BY <1>1, <1>3, <1>6 DEF Stream

(* A packet takes the header that is next, and its frame ends the gap.     *)
LEMMA StreamEncode == Typed /\ Stream /\ Encode => Stream'
<1> SUFFICES ASSUME Typed, Stream, Encode
             PROVE  Stream'
  OBVIOUS
<1>0. PICK n, packet : n = Len(wire) /\ packet = [header |-> rtp, frame |-> Taken + 1]
  OBVIOUS
<1>1. /\ Head(queue) = Taken + 1 /\ Taken' = Taken + 1 /\ Taken \in Nat
      /\ spoken[Taken + 1] /\ spoken' = spoken /\ QueueInOrder'
  BY TakeFrameInOrder DEF Encode
<1>2. /\ rtp' = NextHeader /\ wire' = Append(wire, packet) /\ wire \in Seq(Packet)
      /\ packet.header = rtp /\ packet.frame = Taken + 1
  BY <1>0, <1>1 DEF Encode, Typed
<1>3. /\ Len(wire') = n + 1 /\ n \in Nat
      /\ \A i \in 1 .. n : wire'[i] = wire[i]
      /\ wire'[n + 1] = packet
      /\ \A i \in 1 .. n + 1 : i \in 1 .. n \/ i = n + 1
      /\ \A i \in 1 .. n - 1 : i \in 1 .. n /\ i + 1 \in 1 .. n
  BY <1>0, <1>2
<1>4. \A i \in 1 .. n : wire[i].frame \in 1 .. Taken /\ spoken[wire[i].frame]
  BY <1>0 DEF Stream, WireIsEncodable
<1>5. WireIsEncodable'
  <2>1. \A i \in 1 .. n + 1 : wire'[i].frame \in 1 .. Taken + 1 /\ spoken[wire'[i].frame]
    <3>1. ASSUME NEW i \in 1 .. n
          PROVE  wire'[i].frame \in 1 .. Taken + 1 /\ spoken[wire'[i].frame]
      BY <1>1, <1>3, <1>4
    <3>2. wire'[n + 1].frame \in 1 .. Taken + 1 /\ spoken[wire'[n + 1].frame]
      BY <1>1, <1>2, <1>3
    <3> QED
      BY <1>3, <3>1, <3>2
  <2>2. ASSUME NEW f \in 1 .. Taken + 1, spoken[f]
        PROVE  \E i \in 1 .. n + 1 : wire'[i].frame = f
    <3>1. CASE f = Taken + 1
      BY <1>2, <1>3, <3>1
    <3>2. CASE f \in 1 .. Taken
      <4>1. PICK i \in 1 .. n : wire[i].frame = f
        BY <1>0, <2>2, <3>2 DEF Stream, WireIsEncodable
      <4> QED
        BY <1>3, <4>1
    <3> QED
      BY <1>1, <3>1, <3>2
  <2> QED
    BY <1>1, <1>3, <2>1, <2>2 DEF WireIsEncodable
<1>6. /\ rtp'.increment = rtp.increment
      /\ rtp'.sequence = (rtp.sequence + 1) % SeqModulus
      /\ rtp'.timestamp = (rtp.timestamp + rtp.increment) % TimeModulus
  BY <1>2 DEF NextHeader, Typed, RtpSendState
<1>7. ASSUME NEW i \in 1 .. n
      PROVE  Joined(wire[i], wire'[i + 1])
  <2>1. CASE i \in 1 .. n - 1
    BY <1>0, <1>3, <2>1 DEF Stream, WireInOrder
  <2>2. CASE i = n
    <3>1. LastIn(wire[n]) /\ wire[n].frame \in 1 .. Taken
      BY <1>0, <1>3, <1>4, <2>2 DEF Stream, WireInOrder
    <3>2. wire'[i + 1] = packet
      BY <1>3, <2>2
    <3>3. Follows(packet.header, wire[n].header)
      BY <1>2, <3>1 DEF LastIn
    <3>4. wire[n].frame < packet.frame
      BY <1>1, <1>2, <3>1
    <3>5. \A f \in wire[n].frame + 1 .. packet.frame - 1 : ~ spoken[f]
      <4>1. packet.frame - 1 = Taken
        BY <1>1, <1>2
      <4> QED
        BY <3>1, <4>1 DEF LastIn
    <3> QED
      BY <2>2, <3>2, <3>3, <3>4, <3>5 DEF Joined
  <2> QED
    BY <1>3, <2>1, <2>2
<1>8. \A i \in 1 .. n : Joined(wire[i], wire[i + 1])'
  <2> TAKE i \in 1 .. n
  <2>1. Joined(wire[i], wire'[i + 1])
    BY <1>7
  <2>2. wire'[i] = wire[i]
    BY <1>3
  <2> QED
    BY <1>1, <1>6, <2>1, <2>2 DEF Joined, Follows
<1>9. LastIn(wire[n + 1])'
  <2>1. wire'[n + 1].header = rtp /\ wire'[n + 1].frame = Taken'
    BY <1>1, <1>2, <1>3
  <2>2. Taken' + 1 .. Taken' = {}
    BY <1>1
  <2> QED
    BY <1>6, <2>1, <2>2 DEF LastIn, Follows
<1>10. WireInOrder'
  BY <1>3, <1>8, <1>9 DEF WireInOrder
<1> QED
  BY <1>1, <1>5, <1>10 DEF Stream

(* Every step keeps the stream.                                            *)
LEMMA StreamStep == Typed /\ Stream /\ [Next]_vars => Stream'
<1> SUFFICES ASSUME Typed, Stream, [Next]_vars
             PROVE  Stream'
  OBVIOUS
<1>1. ASSUME NEW b \in BOOLEAN, Speak(b) PROVE Stream'
  BY <1>1, StreamSpeak
<1>2. CASE Encode
  BY <1>2, StreamEncode
<1>3. CASE SkipFrame
  BY <1>3, StreamSkip
<1>4. CASE UNCHANGED outgoing
  BY <1>4, StreamUntouched
<1> QED
  BY <1>1, <1>2, <1>3, <1>4
     DEF Next, Environment, RecvTask, SendTask, vars, outgoing, Tick, DialogEnds, StopListening,
         StopSpeaking, Arrive, RecvCancelled, RecvDeadline, RecvFails, RecvStops, Decode, Skip,
         SendCancelled, Sent, SendFails, SendClosed, SendStops

(* Behind a closed channel nobody speaks and nothing is taken.             *)
LEMMA ClosedStep == ClosedIsEmpty /\ [Next]_vars => ClosedIsEmpty'
<1> SUFFICES ASSUME ClosedIsEmpty, [Next]_vars
             PROVE  ClosedIsEmpty'
  OBVIOUS
<1> USE DEF ClosedIsEmpty
<1>1. CASE StopSpeaking
  BY <1>1 DEF StopSpeaking, outgoing
<1>2. CASE SendCancelled \/ Sent \/ SendFails \/ SendClosed
  BY <1>2 DEF SendCancelled, Sent, SendFails, SendClosed, SendStops, ends
<1>3. CASE Encode \/ SkipFrame
  BY <1>3 DEF Encode, SkipFrame, TakeFrame
<1>4. ASSUME NEW b \in BOOLEAN, Speak(b) PROVE ClosedIsEmpty'
  BY <1>4 DEF Speak, Sending
<1>5. CASE UNCHANGED <<send, queue, speaking>>
  BY <1>5
<1> QED
  BY <1>1, <1>2, <1>3, <1>4, <1>5
     DEF Next, Environment, RecvTask, SendTask, vars, outgoing, ends, Tick, DialogEnds,
         StopListening, Arrive, RecvCancelled, RecvDeadline, RecvFails, RecvStops, Decode, Skip

----------------------------------------------------------------------------
(* The invariant and what follows from it *)

(* A session starts with a full deadline and nothing said.                 *)
LEMMA InitIInv == Init => IInv
<1> SUFFICES ASSUME Init
             PROVE  IInv
  OBVIOUS
<1>1. Typed
  <2>1. Timeout \in Nat /\ Buffer \in Nat /\ MaxFrames \in Nat
    BY SessionAssumption
  <2>2. /\ alarm \in 0 .. Timeout /\ silence \in 0 .. Timeout
        /\ Len(inbox) <= Buffer /\ Len(spoken) <= MaxFrames
    BY <2>1 DEF Init
  <2>3. /\ inbox \in Seq(BOOLEAN) /\ queue \in Seq(Nat)
        /\ wire \in Seq(Packet) /\ spoken \in Seq(BOOLEAN)
    BY EmptySeq DEF Init
  <2> QED
    BY <2>2, <2>3 DEF Init, Typed, Sending
<1>2. AlarmCountsSilence
  BY SessionAssumption DEF Init, AlarmCountsSilence
<1>3. /\ queue = <<>> /\ wire = <<>> /\ spoken = <<>>
      /\ Len(queue) = 0 /\ Len(wire) = 0 /\ Len(spoken) = 0 /\ Taken = 0
  BY DEF Init, Taken
<1>4. Stream
  BY <1>3 DEF Stream, QueueInOrder, WireIsEncodable, WireInOrder
<1>5. ClosedIsEmpty
  BY DEF Init, ClosedIsEmpty
<1> QED
  BY <1>1, <1>2, <1>4, <1>5 DEF IInv

(* The invariant is inductive.                                             *)
LEMMA IInvStep == IInv /\ [Next]_vars => IInv'
BY TypedStep, AlarmStep, StreamStep, ClosedStep DEF IInv

(* It holds in every reachable state.                                      *)
LEMMA SpecIInv == Spec => []IInv
BY InitIInv, IInvStep, PTL DEF Spec

(* With the frames in their order the types are those of MediaSession.     *)
LEMMA TypeOKFollows == IInv => TypeOK
<1> SUFFICES ASSUME IInv
             PROVE  TypeOK
  OBVIOUS
<1>1. /\ Len(spoken) \in Nat /\ Len(queue) \in Nat /\ Len(wire) \in Nat
      /\ DOMAIN wire = 1 .. Len(wire) /\ DOMAIN spoken = 1 .. Len(spoken)
      /\ Len(spoken) <= MaxFrames /\ MaxFrames \in Nat
  BY SessionAssumption DEF IInv, Typed
<1>2. Taken \in Nat /\ Taken + Len(queue) <= MaxFrames
  BY <1>1 DEF IInv, Stream, QueueInOrder, Taken
<1>3. \A i \in 1 .. Len(queue) : queue[i] \in 1 .. MaxFrames
  BY <1>1, <1>2 DEF IInv, Stream, QueueInOrder
<1>4. queue \in Seq(1 .. MaxFrames)
  <2>1. queue \in Seq(Nat) /\ queue = [i \in 1 .. Len(queue) |-> queue[i]]
    BY LenProperties DEF IInv, Typed
  <2>2. queue \in [1 .. Len(queue) -> 1 .. MaxFrames]
    BY <1>3, <2>1, Zenon
  <2> QED
    BY <1>1, <2>2, SeqDef, Zenon
<1>5. \A i \in DOMAIN wire : wire[i].frame \in DOMAIN spoken
  BY <1>1, <1>2 DEF IInv, Stream, WireIsEncodable, Taken
<1> QED
  BY <1>4, <1>5 DEF TypeOK, IInv, Typed

(* The frames in the channel and in the packets are frames that were said, *)
(* every packet's header fits its 16 and 32 bits however often the         *)
(* counters wrap, and neither deadline nor silence leaves 0 .. Timeout.    *)
THEOREM SpecTypeOK == Spec => []TypeOK
BY TypeOKFollows, SpecIInv, PTL

(* The packets of the invariant have no gap.                               *)
LEMMA NoGapFollows == IInv => StreamHasNoGap
<1> SUFFICES ASSUME IInv
             PROVE  StreamHasNoGap
  OBVIOUS
<1>1. Len(wire) \in Nat /\ DOMAIN wire = 1 .. Len(wire)
  BY DEF IInv, Typed
<1>2. \A i \in DOMAIN wire : spoken[wire[i].frame]
  BY <1>1 DEF IInv, Stream, WireIsEncodable
<1>3. \A i \in 1 .. Len(wire) - 1 : Joined(wire[i], wire[i + 1])
  BY DEF IInv, Stream, WireInOrder
<1> QED
  BY <1>2, <1>3 DEF StreamHasNoGap, Joined, Follows

(* What rtp_send_task sends is the application's audio: its frames in      *)
(* order, those the codec refuses left out, under sequence numbers and     *)
(* timestamps that RtpSendState::next makes consecutive.                   *)
THEOREM SpecStreamHasNoGap == Spec => []StreamHasNoGap
BY NoGapFollows, SpecIInv, PTL

(* rtp_send_task that stops because its channel is closed has sent every   *)
(* frame the application said and the codec encodes.                       *)
THEOREM SpecLastWordsAreSent == Spec => []LastWordsAreSent
<1>1. IInv => LastWordsAreSent
  <2> SUFFICES ASSUME IInv, send = "closed", NEW f \in DOMAIN spoken, spoken[f]
               PROVE  \E i \in DOMAIN wire : wire[i].frame = f
    BY DEF LastWordsAreSent
  <2>1. /\ Len(spoken) \in Nat /\ DOMAIN spoken = 1 .. Len(spoken)
        /\ DOMAIN wire = 1 .. Len(wire)
    BY DEF IInv, Typed
  <2>2. Taken = Len(spoken)
    BY <2>1 DEF IInv, ClosedIsEmpty, Taken
  <2> QED
    BY <2>1, <2>2 DEF IInv, Stream, WireIsEncodable
<1> QED
  BY <1>1, SpecIInv, PTL

(* rtp_receive_task cancels the session's token only when a whole          *)
(* media_receive_timeout has passed without a packet that parses.          *)
THEOREM SpecDeadlineNeedsSilence == Spec => DeadlineNeedsSilence
<1>1. IInv /\ [Next]_vars => [child' # child => silence = Timeout]_vars
  <2> SUFFICES ASSUME IInv, [Next]_vars, child' # child
               PROVE  silence = Timeout
    OBVIOUS
  <2>1. RecvDeadline
    BY DEF Next, Environment, RecvTask, SendTask, vars, Tick, DialogEnds, StopListening,
           StopSpeaking, Arrive, Speak, RecvCancelled, RecvFails, RecvStops, Decode, Skip,
           SendCancelled, Sent, SendFails, SendClosed, SendStops, Encode, SkipFrame, TakeFrame
  <2> QED
    BY <2>1 DEF RecvDeadline, DeadlineIsOver, IInv, Typed, AlarmCountsSilence
<1>2. Spec => [][Next]_vars
  BY PTL DEF Spec
<1> QED
  BY <1>1, <1>2, SpecIInv, PTL DEF DeadlineNeedsSilence

----------------------------------------------------------------------------
(* The session implements the media of a call of CallHandler *)

Shared == <<child, recvTask, sendTask, appTask>>

(* A call's only value is the one it is built from.                        *)
LEMMA ForCallIs == \A v, w :
  /\ ForCall(v)["call"] = v
  /\ [ForCall(v) EXCEPT !["call"] = w] = ForCall(w)
BY DEF ForCall, OneCall

(* What every step of a task leaves alone in CallHandler.                  *)
LEMMA CallUntouched ==
  UNCHANGED parent =>
    UNCHANGED <<Call!sip, ForCall("none"), ForCall("wait"), Call!stats>>
BY DEF Call!sip, Call!stats

(* A receive task that ends leaves the socket to a send task that runs.    *)
LEMMA CallRecvEnds ==
  ASSUME recv = "running", recv' # "running", UNCHANGED <<parent, child, send, ends>>
  PROVE  Call!RecvEnds("call")
<1>1. recvTask' = [recvTask EXCEPT !["call"] = "stopped"]
  BY ForCallIs DEF recvTask, Task
<1>2. UNCHANGED <<sendTask, appTask>>
  BY DEF sendTask, appTask, Task, ends
<1>3. Call!LastTask("call", sendTask) <=> send \notin Sending
  BY ForCallIs DEF Call!LastTask, sendTask, Task
<1>4. ForCall(IF recv' = "running" \/ send' \in Sending THEN "pair" ELSE "none")
        = [ForCall(IF recv = "running" \/ send \in Sending THEN "pair" ELSE "none")
             EXCEPT !["call"] = IF Call!LastTask("call", sendTask) THEN "none" ELSE @]
  BY <1>3, ForCallIs
<1> QED
  BY <1>1, <1>2, <1>4, CallUntouched DEF Call!RecvEnds, Call!sip, Call!stats

(* A send task that ends leaves the socket to a receive task that runs.    *)
LEMMA CallSendEnds ==
  ASSUME send \in Sending, send' \notin Sending, UNCHANGED <<parent, child, recv, ends>>
  PROVE  Call!SendEnds("call")
<1>1. sendTask' = [sendTask EXCEPT !["call"] = "stopped"]
  BY ForCallIs DEF sendTask, Task
<1>2. UNCHANGED <<recvTask, appTask>>
  BY DEF recvTask, appTask, Task, ends
<1>3. Call!LastTask("call", recvTask) <=> recv # "running"
  BY ForCallIs DEF Call!LastTask, recvTask, Task
<1>4. ForCall(IF recv' = "running" \/ send' \in Sending THEN "pair" ELSE "none")
        = [ForCall(IF recv = "running" \/ send \in Sending THEN "pair" ELSE "none")
             EXCEPT !["call"] = IF Call!LastTask("call", recvTask) THEN "none" ELSE @]
  BY <1>3, ForCallIs
<1> QED
  BY <1>1, <1>2, <1>4, CallUntouched DEF Call!SendEnds, Call!sip, Call!stats

(* A call's media is over when one of the two tokens is cancelled.         *)
LEMMA CallOver == Call!MediaOver("call") <=> Over
BY DEF Call!MediaOver, Over, OneCall

(* A deadline that fires cancels the token the session shares.             *)
LEMMA CallDeadline ==
  ASSUME recv = "running", ~ Over, child' = TRUE, UNCHANGED <<parent, recv, send, ends>>
  PROVE  Call!RecvDeadline("call")
<1>1. UNCHANGED <<recvTask, sendTask, appTask>>
  BY DEF recvTask, sendTask, appTask, Task, ends
<1>2. recvTask["call"] = "running"
  BY ForCallIs DEF recvTask, Task
<1>3. {c \in OneCall : child'} = {c \in OneCall : child} \cup {"call"}
  BY DEF OneCall
<1> QED
  BY <1>1, <1>2, <1>3, CallOver, CallUntouched
     DEF Call!RecvDeadline, Call!sip, Call!ports, Call!stats

(* Every step of the session that a call can see is a step of one of the   *)
(* call's two tasks, or the end of its application's.                      *)
LEMMA SessionStep ==
  Next => \/ UNCHANGED Shared
          \/ Call!RecvTask("call") \/ Call!SendTask("call") \/ Call!AppReturns("call")
<1> SUFFICES ASSUME Next
             PROVE  \/ UNCHANGED Shared
                    \/ Call!RecvTask("call") \/ Call!SendTask("call")
                    \/ Call!AppReturns("call")
  OBVIOUS
<1> USE DEF ends
<1>1. CASE UNCHANGED <<child, recv, send, ends>>
  BY <1>1 DEF Shared, recvTask, sendTask, appTask, Task
<1>2. CASE Sent
  BY <1>2 DEF Shared, recvTask, sendTask, appTask, Task, Sent, SendStops, Sending
<1>3. CASE Encode
  BY <1>3 DEF Shared, recvTask, sendTask, appTask, Task, Encode, TakeFrame, Sending
<1>4. CASE RecvCancelled
  BY <1>4, CallRecvEnds, CallOver, ForCallIs
     DEF RecvCancelled, RecvStops, Call!RecvTask, Call!RecvCancelled, recvTask, Task
<1>5. CASE RecvDeadline
  BY <1>5, CallDeadline DEF RecvDeadline, Call!RecvTask
<1>6. CASE RecvFails \/ Decode
  <2>1. /\ recv = "running" /\ ~ Over /\ recv' \in {"running", "unheard", "failed"}
        /\ UNCHANGED <<parent, child, send, ends>>
    BY <1>6, Zenon DEF RecvFails, Decode, RecvPacket, RecvStops
  <2>2. CASE recv' = recv
    BY <2>1, <2>2 DEF Shared, recvTask, sendTask, appTask, Task
  <2>3. CASE recv' # recv
    BY <2>1, <2>3, CallRecvEnds, CallOver, ForCallIs
       DEF Call!RecvTask, Call!RecvBreaks, recvTask, Task
  <2> QED
    BY <2>2, <2>3
<1>7. CASE SendCancelled \/ SendFails \/ SendClosed
  <2>1. /\ send \in Sending /\ send' \notin Sending
        /\ UNCHANGED <<parent, child, recv, ends>>
    BY <1>7 DEF SendCancelled, SendFails, SendClosed, SendStops, Sending
  <2> QED
    BY <2>1, CallSendEnds, ForCallIs DEF Call!SendTask, Call!SendBreaks, sendTask, Task
<1>8. CASE StopListening \/ StopSpeaking
  <2>1. /\ listening \/ speaking
        /\ UNCHANGED <<parent, child, recv, send>>
    BY <1>8 DEF StopListening, StopSpeaking
  <2>2. UNCHANGED <<recvTask, sendTask>>
    BY <2>1 DEF recvTask, sendTask, Task
  <2>3. CASE listening' \/ speaking'
    BY <2>1, <2>2, <2>3 DEF Shared, appTask
  <2>4. CASE ~ (listening' \/ speaking')
    <3>1. appTask["call"] = "running" /\ appTask' = [appTask EXCEPT !["call"] = "stopped"]
      BY <2>1, <2>4, ForCallIs DEF appTask, Task
    <3> QED
      BY <2>1, <2>2, <3>1, CallUntouched
         DEF Call!AppReturns, Call!AppStops, Call!sip, Call!ports, Call!media, Call!stats
  <2> QED
    BY <2>3, <2>4
<1> QED
  BY <1>1, <1>2, <1>3, <1>4, <1>5, <1>6, <1>7, <1>8
     DEF Next, Environment, RecvTask, SendTask, Tick, DialogEnds, Arrive, Speak, Skip,
         SkipFrame, TakeFrame

(* What MediaSession::start spawns behaves as the two RTP tasks and the    *)
(* application's task of CallHandler do, whatever packets and frames pass. *)
THEOREM SpecImplementsCallMedia == Spec => ImplementsCallMedia
<1>1. [Next]_vars =>
        [Call!RecvTask("call") \/ Call!SendTask("call") \/ Call!AppReturns("call")]_
          <<child, recvTask, sendTask, appTask>>
  <2>1. CASE Next
    BY <2>1, SessionStep DEF Shared
  <2>2. CASE UNCHANGED vars
    BY <2>2 DEF vars, ends, recvTask, sendTask, appTask, Task
  <2> QED
    BY <2>1, <2>2
<1> QED
  BY <1>1, PTL DEF Spec, ImplementsCallMedia

=============================================================================
