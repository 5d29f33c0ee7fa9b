------------------------------ MODULE SdpOffer ------------------------------
(***************************************************************************)
(* The codec negotiation of a call: parse_sdp_offer takes the first audio  *)
(* line of the peer's offer, names the codec of each payload type, selects *)
(* the codec the server prefers most, and generate_sdp_answer answers with *)
(* that one. One behaviour negotiates one offer; the initial states are    *)
(* the offers.                                                             *)
(*                                                                         *)
(* A definition introduced as a "Variant" is deliberately wrong and is not *)
(* part of the specification: it shows which property notices the slip.    *)
(***************************************************************************)
EXTENDS CodecKinds, Sequences, FiniteSetsExt

CONSTANTS
  PayloadTypes,  \* bound: the payload types an audio line may list
  MaxTypes,      \* bound: how many it lists
  Rtpmaps        \* bound: the lists of rtpmap attributes it may have

Rtpmap == [type : Nat, name : STRING, rate : Nat, channels : Nat]

ASSUME OfferAssumption ==
  PayloadTypes \subseteq Nat /\ MaxTypes \in Nat /\ Rtpmaps \subseteq Seq(Rtpmap)

VARIABLES
  features, \* the optional codecs compiled in
  offer,    \* the session description of the INVITE
  parsed,   \* what parse_sdp_offer returned
  answer    \* the format of the audio line of the answer

vars == <<features, offer, parsed, answer>>

Optional == {"opus", "g722"}

(* The codecs, the most preferred first ...                                *)
Preference == <<"l16", "opus", "g722", "pcmu", "pcma">>

Rank(kind) == CHOOSE i \in DOMAIN Preference : Preference[i] = kind

(* ... of which the optional ones may not be there.                        *)
CodecKind ==
  {kind \in {Preference[i] : i \in DOMAIN Preference} :
     kind \in Optional => kind \in features}

Static == [type \in {0, 8, 9} |->
             CASE type = 0 -> "pcmu" [] type = 8 -> "pcma" [] type = 9 -> "g722"]

AudioLine == [types   : UNION {[1 .. n -> PayloadTypes] : n \in 0 .. MaxTypes},
              rtpmaps : Rtpmaps]

(* An audio line or a line of other media, with its formats. A connection  *)
(* address is found if the line or the session has one.                    *)
Offers == [wellFormed : BOOLEAN, hasAudio : BOOLEAN, hasAddress : BOOLEAN,
           audio : AudioLine]

Regular(o) == o.wellFormed /\ o.hasAudio /\ o.hasAddress

----------------------------------------------------------------------------
(* parse_sdp_offer *)

(* The rtpmaps of a payload type, and the first one.                       *)
MapsOf(line, type) == {i \in DOMAIN line.rtpmaps : line.rtpmaps[i].type = type}

FirstMap(line, type) == line.rtpmaps[Min(MapsOf(line, type))]

(* The first rtpmap of a payload type names its codec; an L16 of another   *)
(* rate than 16 kHz does not count.                                        *)
DynamicName(line, type) ==
  IF \/ MapsOf(line, type) = {}
     \/ FirstMap(line, type).name = "l16" /\ FirstMap(line, type).rate # 16000
  THEN "none"
  ELSE FirstMap(line, type).name

(* The static payload types have their name without an rtpmap.             *)
CodecName(line, type) ==
  IF type \in DOMAIN Static THEN Static[type] ELSE DynamicName(line, type)

(* The payload types of the line whose codec is supported: their places.   *)
Codecs(line) == {i \in DOMAIN line.types : CodecName(line, line.types[i]) \in CodecKind}

(* Variant: the peer's first choice.                                       *)
SelectFirst(line) == line.types[Min(Codecs(line))]

(* The most preferred codec; of its payload types the one listed first.    *)
SelectPreferred(line) ==
  LET rank(i) == Rank(CodecName(line, line.types[i]))
  IN  line.types[CHOOSE i \in Codecs(line) : \A j \in Codecs(line) \ {i} :
                   rank(i) < rank(j) \/ (rank(i) = rank(j) /\ i < j)]

(* Variant: an offer without a connection address is taken.                *)
ParseErrorAnywhere(o) ==
  IF ~ o.wellFormed THEN "ParseError"
  ELSE IF ~ o.hasAudio THEN "NoAudioMedia"
  ELSE IF Codecs(o.audio) = {} THEN "NoSupportedCodec"
  ELSE "none"

(* The first check that fails, whatever the later ones would say.          *)
ParseError(o) ==
  IF ~ o.wellFormed THEN "ParseError"
  ELSE IF ~ o.hasAudio THEN "NoAudioMedia"
  ELSE IF ~ o.hasAddress THEN "MissingConnectionAddress"
  ELSE IF Codecs(o.audio) = {} THEN "NoSupportedCodec"
  ELSE "none"

Parse ==
  /\ parsed.error = "pending"
  /\ parsed' = IF ParseError(offer) # "none"
               THEN [error |-> ParseError(offer)]
               ELSE LET type == SelectPreferred(offer.audio)
                    IN  [error |-> "none", type |-> type,
                         kind |-> CodecName(offer.audio, type)]
  /\ UNCHANGED <<features, offer, answer>>

(* generate_sdp_answer: one payload type and its rtpmap.                   *)
Answer ==
  /\ parsed.error = "none" /\ answer = <<>>
  /\ answer' = <<[type |-> parsed.type, name |-> parsed.kind,
                  rate |-> Rate(parsed.kind), channels |-> Channels(parsed.kind)]>>
  /\ UNCHANGED <<features, offer, parsed>>

----------------------------------------------------------------------------
Init ==
  /\ features \in SUBSET Optional
  /\ offer \in Offers
  /\ parsed = [error |-> "pending"]
  /\ answer = <<>>

Next == Parse \/ Answer

Spec == Init /\ [][Next]_vars

----------------------------------------------------------------------------
(* Properties *)

(* What a payload type of the line stands for: what its first rtpmap says, *)
(* or the static assignment.                                               *)
Formats(line, type) ==
  IF MapsOf(line, type) # {}
  THEN {FirstMap(line, type)}
  ELSE {[type |-> type, name |-> Static[type], rate |-> 8000, channels |-> 1] :
          t \in {type} \cap DOMAIN Static}

(* The formats of the line the server can speak.                           *)
Common(line) ==
  {f \in UNION {Formats(line, line.types[i]) : i \in DOMAIN line.types} :
     f.name \in CodecKind /\ f.rate = Rate(f.name)}

(* Every payload type of the offer is used for what its name and rate are  *)
(* registered for: no static type is remapped, no codec but L16 has an     *)
(* unusual rate, and every codec has its usual channels.                   *)
Usual(line) ==
  \A i \in DOMAIN line.rtpmaps :
    LET r == line.rtpmaps[i] IN
    /\ r.type \in DOMAIN Static => r.name = Static[r.type]
    /\ r.name \in CodecKind \ {"l16"} => r.rate = Rate(r.name)
    /\ r.name \in CodecKind => r.channels = Channels(r.name)

(* The server refuses an offer exactly when it does not understand it, be  *)
(* its codecs usable or not, or has no codec in common with the peer; only *)
(* in the latter case the codecs are named as the reason ...               *)
RefusedOnlyForCause ==
  parsed.error # "pending" /\ Usual(offer.audio) =>
    /\ parsed.error = "none" <=> Regular(offer) /\ Common(offer.audio) # {}
    /\ parsed.error = "NoSupportedCodec" <=> Regular(offer) /\ Common(offer.audio) = {}

(* ... and otherwise speaks the best codec both have, with the payload     *)
(* type, rate and channels the peer offered it with, and with the first    *)
(* such payload type in the peer's order.                                  *)
BestCommonFormat ==
  answer # <<>> /\ Usual(offer.audio) =>
    LET types == offer.audio.types
        same  == {i \in DOMAIN types : \E f \in Formats(offer.audio, types[i]) :
                    f \in Common(offer.audio) /\ f.name = answer[1].name}
    IN  /\ answer[1] \in Common(offer.audio)
        /\ \A f \in Common(offer.audio) : Rank(answer[1].name) <= Rank(f.name)
        /\ \E i \in same : types[i] = answer[1].type /\ \A j \in same : i <= j
============================================================================
