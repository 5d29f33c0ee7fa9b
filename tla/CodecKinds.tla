----------------------------- MODULE CodecKinds -----------------------------
(***************************************************************************)
(* What the codecs have in common: how many samples of the internal format *)
(* a payload becomes and how many bytes a frame, the clock of the RTP      *)
(* timestamps, and how the SDP describes them. Lengths only; what the      *)
(* bytes of PCMU and PCMA stand for is in G711. The operators that depend  *)
(* on a codec's library give the set of the possible outcomes.             *)
(*                                                                         *)
(* A definition introduced as a "Variant" is deliberately wrong and is not *)
(* part of the specification: it shows which property notices the slip.    *)
(***************************************************************************)
EXTENDS Integers

SampleRate == 16000

SamplesPerFrame == 320

(* What the server speaks under the name of a codec: the answer's rtpmap.  *)
Rate(kind) == CASE kind = "l16" -> 16000 [] kind = "opus" -> 48000 [] OTHER -> 8000

Channels(kind) == IF kind = "opus" THEN 2 ELSE 1

(* Variant: G.722 with the clock of its samples.                           *)
IncrementBySampling(kind) ==
  CASE kind \in {"l16", "g722"} -> 320 [] kind = "opus" -> 960 [] OTHER -> 160

(* rtp_timestamp_increment                                                 *)
Increment(kind) == CASE kind = "l16" -> 320 [] kind = "opus" -> 960 [] OTHER -> 160

(* The frames Opus encodes: of 2.5 to 20 ms, and of 40 to 120 ms.          *)
OpusFrames == {40, 80, 160, 320}
LongOpusFrames == {640, 960, 1280, 1600, 1920}

(* A packet has one or several frames, of 2.5 ms or a multiple; what fits  *)
(* into 20 ms is decoded, anything else becomes 20 ms of silence ...       *)
OpusDecode == {40 * k : k \in 1 .. 8}

(* ... and a frame it knows is encoded, or nothing returned on an error.   *)
OpusEncode(samples) ==
  IF samples \in OpusFrames \cup LongOpusFrames THEN {0, samples \div 4} ELSE {0}

(* Of L16 an odd last byte is dropped.                                     *)
L16Decode(bytes) == {bytes \div 2}
L16Encode(samples) == {2 * samples}

(* An odd last sample is padded for the library.                           *)
G722Decode(bytes) == {2 * bytes}
G722Encode(samples) == {(samples + (samples % 2)) \div 2}

(* Half the samples are kept, an odd last one is encoded alone.            *)
G711Decode(bytes) == {2 * bytes}
G711Encode(samples) == {(samples + 1) \div 2}

(* create and the decoder and encoder of the session.                      *)
DecodedSamples(kind, bytes) ==
  CASE kind = "opus" -> OpusDecode
    [] kind = "l16"  -> L16Decode(bytes)
    [] kind = "g722" -> G722Decode(bytes)
    [] OTHER         -> G711Decode(bytes)

EncodedBytes(kind, samples) ==
  CASE kind = "opus" -> OpusEncode(samples)
    [] kind = "l16"  -> L16Encode(samples)
    [] kind = "g722" -> G722Encode(samples)
    [] OTHER         -> G711Encode(samples)
============================================================================
