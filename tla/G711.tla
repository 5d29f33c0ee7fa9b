-------------------------------- MODULE G711 --------------------------------
(***************************************************************************)
(* The companding codecs PCMU and PCMA: a frame of linear samples is       *)
(* thinned out to 8 kHz and encoded sample by sample into a payload, a     *)
(* payload is decoded and every sample doubled. A behaviour begins with    *)
(* what an application says or with what a peer sends and passes it        *)
(* through one codec after the other, as a chain of gateways does.         *)
(*                                                                         *)
(* A definition introduced as a "Variant" is deliberately wrong and is not *)
(* part of the specification: it shows which property notices the slip.    *)
(***************************************************************************)
EXTENDS Integers, Sequences

CONSTANTS
  Frames,   \* bound: the frames an application says
  Payloads  \* bound: the payloads a peer sends

(* i16 and u8 *)
MinSample == -32768
MaxSample == 32767

Linear == MinSample .. MaxSample

Bytes == 0 .. 255

ASSUME SpeechAssumption == Frames \subseteq Seq(Linear) /\ Payloads \subseteq Seq(Bytes)

VARIABLES
  law,      \* the codec: "ulaw" or "alaw"
  at,       \* what was computed last: the linear frame or the coded payload
  frame,    \* i16 samples at 16 kHz
  payload   \* bytes at 8 kHz

vars == <<law, at, frame, payload>>

ResampleFactor == 2

Magnitude(sample) == IF sample < 0 THEN -sample ELSE sample

Signed(negative, magnitude) == IF negative THEN -magnitude ELSE magnitude

AtMost(bound, n) == IF n > bound THEN bound ELSE n
AtLeast(bound, n) == IF n < bound THEN bound ELSE n

(* The fields of a code word: sign, exponent of 3 bits, mantissa of 4.     *)
Negative(word) == word \div 128 = 1
Exponent(word) == (word \div 16) % 8
Mantissa(word) == word % 16

Word(negative, exponent, mantissa) ==
  (IF negative THEN 128 ELSE 0) + 16 * exponent + mantissa

----------------------------------------------------------------------------
(* One sample *)

Bias == 132

(* Variant: any magnitude of 16 bits, whose sum with the bias has 17.      *)
ClipNone == 32768

Clip == 32635

(* decode_ulaw_sample: all bits of the word are inverted on the wire.      *)
DecodeUlaw(byte) ==
  LET word == 255 - byte
  IN  Signed(Negative(word),
             (2 * Mantissa(word) + 33) * 2 ^ (Exponent(word) + 2) - Bias)

(* u32::leading_zeros of a positive number of 16 bits.                      *)
LeadingZeros(n) == CHOOSE zeros \in 16 .. 31 : n \div 2 ^ (31 - zeros) = 1

(* encode_ulaw_sample                                                      *)
EncodeUlaw(sample) ==
  LET biased   == AtMost(Clip, Magnitude(sample)) + Bias
      exponent == 7 - AtLeast(0, AtMost(7, LeadingZeros(biased) - 17))
  IN  255 - Word(sample < 0, exponent, (biased \div 2 ^ (exponent + 3)) % 16)

EvenBits(byte) ==
  (byte % 2) + 4 * ((byte \div 4) % 2)
    + 16 * ((byte \div 16) % 2) + 64 * ((byte \div 64) % 2)

(* The even bits of an A-law word, 85 if all are set, are inverted on the  *)
(* wire: byte ^ 0x55.                                                      *)
Toggle == [byte \in Bytes |-> byte + 85 - 2 * EvenBits(byte)]

(* Variant: the segments begin one bit higher.                             *)
DecodeAlawShifted(byte) ==
  LET word == Toggle[byte]
  IN  Signed(Negative(word),
             8 * (IF Exponent(word) = 0 THEN 2 * Mantissa(word) + 1
                  ELSE (2 * Mantissa(word) + 33) * 2 ^ Exponent(word)))

(* decode_alaw_sample                                                      *)
DecodeAlaw(byte) ==
  LET word == Toggle[byte]
  IN  Signed(Negative(word),
             8 * (IF Exponent(word) = 0 THEN 2 * Mantissa(word) + 1
                  ELSE (2 * Mantissa(word) + 33) * 2 ^ (Exponent(word) - 1)))

(* The segments but the lowest: the first that a magnitude fits.           *)
Segment(scaled) ==
  CHOOSE e \in 1 .. 7 : /\ scaled \div 2 ^ e < 32 \/ e = 7
                        /\ \A lower \in 1 .. e - 1 : scaled \div 2 ^ lower >= 32

(* encode_alaw_sample                                                      *)
EncodeAlaw(sample) ==
  LET scaled   == AtMost(4095, Magnitude(sample) \div 8)
      exponent == IF scaled < 32 THEN 0 ELSE Segment(scaled)
      mantissa == IF scaled < 32 THEN scaled \div 2
                  ELSE (scaled \div 2 ^ exponent - 16) % 16
  IN  Toggle[Word(sample < 0, exponent, mantissa)]

----------------------------------------------------------------------------
(* A frame *)

Encoder(sample) == IF law = "ulaw" THEN EncodeUlaw(sample) ELSE EncodeAlaw(sample)

(* DECODE_TABLE of both codecs.                                            *)
DecodeTable == [ulaw |-> [byte \in Bytes |-> DecodeUlaw(byte)],
                alaw |-> [byte \in Bytes |-> DecodeAlaw(byte)]]

(* Of each chunk of two samples the second is encoded, a last one alone.   *)
Chosen(samples) ==
  [i \in 1 .. (Len(samples) + 1) \div ResampleFactor |->
     samples[AtMost(Len(samples), ResampleFactor * i)]]

Encode ==
  /\ at = "linear"
  /\ at' = "coded"
  /\ payload' = [i \in DOMAIN Chosen(frame) |-> Encoder(Chosen(frame)[i])]
  /\ UNCHANGED <<law, frame>>

Decode ==
  /\ at = "coded"
  /\ at' = "linear"
  /\ frame' = [i \in 1 .. ResampleFactor * Len(payload) |->
                 DecodeTable[law][payload[(i + 1) \div ResampleFactor]]]
  /\ UNCHANGED <<law, payload>>

(* An application says something or a peer sends something.                *)
Spoken == at = "linear" /\ payload = <<>> /\ frame \in Frames
Heard  == at = "coded" /\ frame = <<>> /\ payload \in Payloads

Init == law \in {"ulaw", "alaw"} /\ (Spoken \/ Heard)

Next == Encode \/ Decode

Spec == Init /\ [][Next]_vars

----------------------------------------------------------------------------
(* Properties *)

(* What decode_ulaw_sample and decode_alaw_sample compute on 32 bits fits  *)
(* the 16 of the i16 it is cast to, and what the encoders put together     *)
(* fits a byte.                                                            *)
TypeOK ==
  /\ law \in {"ulaw", "alaw"} /\ at \in {"linear", "coded"}
  /\ frame \in Seq(Linear)
  /\ payload \in Seq(Bytes)

(* Whatever the loudness, the error of a code word is at most one part in  *)
(* 32 of what was said, or of the smallest segment: the promise of         *)
(* companding, which a wrong segment, bias or clipping anywhere in the     *)
(* 16-bit range breaks.                                                    *)
ErrorIsRelative ==
  at = "coded" /\ frame # <<>> =>
    \A i \in DOMAIN payload :
      LET sample == Chosen(frame)[i]
          error  == Magnitude(DecodeTable[law][payload[i]] - sample)
      IN  \/ law = "ulaw" /\ 32 * error <= Magnitude(sample) + Bias
          \/ law = "alaw" /\ (32 * error <= Magnitude(sample) \/ error <= 8)

(* Mu-law has two words for zero; linear samples have one zero.            *)
MinusZero == 127

(* A chain of gateways loses no more than its first: decoding a payload    *)
(* and encoding it again gives the same payload, minus zero aside.         *)
TandemIsLossless ==
  [][Encode /\ payload # <<>> =>
       /\ Len(payload') = Len(payload)
       /\ \A i \in DOMAIN payload :
            payload[i] # MinusZero \/ law = "alaw" => payload'[i] = payload[i]]_vars
============================================================================
