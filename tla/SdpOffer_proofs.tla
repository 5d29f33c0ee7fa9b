--------------------------- MODULE SdpOffer_proofs ---------------------------
(***************************************************************************)
(* Proofs about SdpOffer, for offers of any number of payload types with   *)
(* any rtpmaps, whatever codecs are compiled in.                           *)
(***************************************************************************)
EXTENDS SdpOffer, WellFoundedInduction, TLAPS

----------------------------------------------------------------------------
(* The first of several *)

(* Some natural numbers have a least one.                                  *)
LEMMA LeastOf ==
  ASSUME NEW S, S \subseteq Nat, S # {}
  PROVE  \E x \in S : \A y \in S : x <= y
<1> DEFINE R == OpToRel(<, Nat)
<1>1. \A x, y \in Nat : x < y => <<x, y>> \in R
  BY Zenon DEF OpToRel
<1>2. IsWellFoundedOn(R, Nat)
  BY NatLessThanWellFounded, Zenon
<1> HIDE DEF R
<1>3. PICK x \in S : \A y \in S : ~ (<<y, x>> \in R)
  BY <1>2, WFMin, Zenon
<1>4. ASSUME NEW y \in S PROVE ~ (y < x)
  <2>1. x \in Nat /\ y \in Nat
    BY <1>3
  <2> QED
    BY <1>1, <1>3, <2>1
<1>5. \A y \in S : x <= y
  BY <1>3, <1>4
<1> QED
  BY <1>3, <1>5

(* ... which Min chooses.                                                  *)
LEMMA MinIsLeast ==
  ASSUME NEW S, S \subseteq Nat, S # {}
  PROVE  Min(S) \in S /\ \A y \in S : Min(S) <= y
<1>1. \E x \in S : \A y \in S : x <= y
  BY LeastOf
<1> QED
  BY <1>1, Zenon DEF Min

----------------------------------------------------------------------------
(* Lines *)

Kinds == {"l16", "opus", "g722", "pcmu", "pcma"}

(* The answer's format for a codec and a payload type.                     *)
FormatOf(type, kind) ==
  [type |-> type, name |-> kind, rate |-> Rate(kind), channels |-> Channels(kind)]

(* A line has finitely many payload types and rtpmaps, in places 1, 2, ... *)
LEMMA LineTyped ==
  ASSUME NEW line \in AudioLine
  PROVE  /\ line.rtpmaps \in Seq(Rtpmap)
         /\ DOMAIN line.types \subseteq Nat
         /\ \A i \in DOMAIN line.types : line.types[i] \in Nat
<1>1. /\ line.rtpmaps \in Rtpmaps
      /\ line.types \in UNION {[1 .. n -> PayloadTypes] : n \in 0 .. MaxTypes}
  BY DEF AudioLine
<1>2. PICK n \in 0 .. MaxTypes : line.types \in [1 .. n -> PayloadTypes]
  BY <1>1
<1>3. line.rtpmaps \in Seq(Rtpmap)
  BY <1>1, OfferAssumption, Zenon
<1>4. PayloadTypes \subseteq Nat /\ DOMAIN line.types = 1 .. n
  BY <1>2, OfferAssumption
<1>5. \A i \in DOMAIN line.types : line.types[i] \in Nat
  BY <1>2, <1>4
<1> QED
  BY <1>3, <1>4, <1>5

(* The first rtpmap of a payload type is one of its rtpmaps.               *)
LEMMA FirstMapIs ==
  ASSUME NEW line \in AudioLine, NEW type, MapsOf(line, type) # {}
  PROVE  /\ FirstMap(line, type) \in Rtpmap /\ FirstMap(line, type).type = type
         /\ \E i \in DOMAIN line.rtpmaps : FirstMap(line, type) = line.rtpmaps[i]
<1>1. line.rtpmaps \in Seq(Rtpmap)
  BY LineTyped
<1>2. MapsOf(line, type) \subseteq Nat
  BY <1>1 DEF MapsOf
<1>3. PICK i \in MapsOf(line, type) : FirstMap(line, type) = line.rtpmaps[i]
  BY <1>2, MinIsLeast, Zenon DEF FirstMap
<1>4. i \in DOMAIN line.rtpmaps /\ line.rtpmaps[i].type = type
  BY <1>3 DEF MapsOf
<1>5. line.rtpmaps[i] \in Rtpmap
  BY <1>1, <1>4
<1> QED
  BY <1>3, <1>4, <1>5

(* The preference is an order of the codecs.                               *)
LEMMA RankIs == \A kind \in Kinds : Rank(kind) \in Nat
<1> SUFFICES ASSUME NEW kind \in Kinds
             PROVE  Rank(kind) \in Nat
  OBVIOUS
<1>1. DOMAIN Preference = 1 .. 5
  BY DEF Preference
<1>2. \E i \in DOMAIN Preference : Preference[i] = kind
  BY DEF Preference, Kinds
<1>3. Rank(kind) \in DOMAIN Preference
  BY <1>2, Zenon DEF Rank
<1> QED
  BY <1>1, <1>3

(* The codecs compiled in, and what the static payload types stand for.    *)
LEMMA CodecsAre ==
  /\ CodecKind \subseteq Kinds
  /\ "none" \notin CodecKind
  /\ DOMAIN Static = {0, 8, 9} /\ Static[0] = "pcmu" /\ Static[8] = "pcma" /\ Static[9] = "g722"
<1>1. CodecKind \subseteq Kinds
  BY DEF CodecKind, Preference, Kinds
<1> QED
  BY <1>1 DEF Kinds, Static

(* What the server speaks of a payload type of a usual line: the format of *)
(* the codec that parse_sdp_offer names, if it is supported.               *)
LEMMA SpokenFormats ==
  ASSUME NEW line \in AudioLine, Usual(line), NEW type \in Nat
  PROVE  \A f : (/\ f \in Formats(line, type)
                 /\ f.name \in CodecKind /\ f.rate = Rate(f.name))
             <=> (/\ CodecName(line, type) \in CodecKind
                  /\ f = FormatOf(type, CodecName(line, type)))
<1> DEFINE name == CodecName(line, type)
           Spoken(f) == /\ f \in Formats(line, type)
                        /\ f.name \in CodecKind /\ f.rate = Rate(f.name)
<1> SUFFICES ASSUME NEW f
             PROVE  Spoken(f) <=> name \in CodecKind /\ f = FormatOf(type, name)
  OBVIOUS
<1>1. CASE MapsOf(line, type) # {}
  <2> DEFINE map == FirstMap(line, type)
  <2>1. /\ map \in Rtpmap /\ map.type = type
        /\ type \in DOMAIN Static => map.name = Static[type]
        /\ map.name \in CodecKind \ {"l16"} => map.rate = Rate(map.name)
        /\ map.name \in CodecKind => map.channels = Channels(map.name)
    BY <1>1, FirstMapIs DEF Usual
  <2>2. Spoken(f) <=> f = map /\ map.name \in CodecKind /\ map.rate = Rate(map.name)
    BY <1>1 DEF Formats
  <2>3. map.rate = Rate(map.name) /\ map.name \in CodecKind => map = FormatOf(type, map.name)
    BY <2>1 DEF FormatOf, Rtpmap
  <2>4. FormatOf(type, map.name).rate = Rate(map.name)
    BY DEF FormatOf
  <2>5. CASE type \in DOMAIN Static
    <3>1. name = map.name /\ name # "l16"
      BY <2>1, <2>5, CodecsAre DEF CodecName
    <3> HIDE DEF name, map
    <3> QED
      BY <2>1, <2>2, <2>3, <2>4, <3>1
  <2>6. CASE type \notin DOMAIN Static
    <3>1. name = IF map.name = "l16" /\ map.rate # 16000 THEN "none" ELSE map.name
      BY <1>1, <2>6 DEF CodecName, DynamicName
    <3>2. Rate("l16") = 16000
      BY DEF Rate
    <3> HIDE DEF name, map
    <3> QED
      BY <2>1, <2>2, <2>3, <2>4, <3>1, <3>2, CodecsAre
  <2> QED
    BY <2>5, <2>6
<1>2. CASE MapsOf(line, type) = {}
  <2>1. CASE type \in DOMAIN Static
    <3>1. name = Static[type]
      BY <2>1 DEF CodecName
    <3>2. Rate(name) = 8000 /\ Channels(name) = 1
      BY <2>1, <3>1, CodecsAre DEF Rate, Channels
    <3>3. Formats(line, type) = {FormatOf(type, name)}
      BY <1>2, <2>1, <3>1, <3>2 DEF Formats, FormatOf
    <3>4. FormatOf(type, name).name = name /\ FormatOf(type, name).rate = Rate(name)
      BY DEF FormatOf
    <3> HIDE DEF name
    <3> QED
      BY <3>3, <3>4
  <2>2. CASE type \notin DOMAIN Static
    <3>1. name = "none" /\ Formats(line, type) = {}
      BY <1>2, <2>2 DEF CodecName, DynamicName, Formats
    <3> QED
      BY <3>1, CodecsAre
  <2> QED
    BY <2>1, <2>2
<1> QED
  BY <1>1, <1>2

----------------------------------------------------------------------------
(* The selection *)

RankAt(line, i) == Rank(CodecName(line, line.types[i]))

(* A line with a supported codec has one of the best rank, listed first.   *)
LEMMA BestExists ==
  ASSUME NEW line \in AudioLine, Codecs(line) # {}
  PROVE  \E i \in Codecs(line) : \A j \in Codecs(line) \ {i} :
           RankAt(line, i) < RankAt(line, j)
             \/ (RankAt(line, i) = RankAt(line, j) /\ i < j)
<1> DEFINE ranks == {RankAt(line, i) : i \in Codecs(line)}
           best(rank) == {i \in Codecs(line) : RankAt(line, i) = rank}
<1>1. Codecs(line) \subseteq Nat
  BY LineTyped DEF Codecs
<1>2. \A i \in Codecs(line) : RankAt(line, i) \in Nat
  BY RankIs, CodecsAre DEF Codecs, RankAt
<1>3. PICK rank \in ranks : \A other \in ranks : rank <= other
  <2>1. ranks \subseteq Nat /\ ranks # {}
    BY <1>2
  <2> HIDE DEF ranks
  <2> QED
    BY <2>1, LeastOf
<1>4. PICK i \in best(rank) : \A j \in best(rank) : i <= j
  <2>1. best(rank) \subseteq Nat /\ best(rank) # {}
    BY <1>1, <1>3
  <2> HIDE DEF best
  <2> QED
    BY <2>1, LeastOf
<1>5. ASSUME NEW j \in Codecs(line) \ {i}
      PROVE  RankAt(line, i) < RankAt(line, j)
               \/ (RankAt(line, i) = RankAt(line, j) /\ i < j)
  <2>1. rank <= RankAt(line, j) /\ RankAt(line, i) = rank /\ rank \in Nat
    BY <1>2, <1>3, <1>4, <1>5
  <2>2. CASE RankAt(line, j) = rank
    BY <1>1, <1>4, <1>5, <2>1, <2>2
  <2>3. CASE RankAt(line, j) # rank
    BY <1>2, <1>5, <2>1, <2>3
  <2> QED
    BY <2>2, <2>3
<1> QED
  BY <1>4, <1>5

(* That is the one select_preferred takes.                                 *)
LEMMA SelectedIsBest ==
  ASSUME NEW line \in AudioLine, Codecs(line) # {}
  PROVE  \E i \in Codecs(line) :
           /\ SelectPreferred(line) = line.types[i]
           /\ \A j \in Codecs(line) \ {i} : RankAt(line, i) <= RankAt(line, j)
           /\ \A j \in Codecs(line) : RankAt(line, i) = RankAt(line, j) => i <= j
<1> DEFINE Better(i, j) == RankAt(line, i) < RankAt(line, j)
                             \/ (RankAt(line, i) = RankAt(line, j) /\ i < j)
           selected == CHOOSE i \in Codecs(line) : \A j \in Codecs(line) \ {i} : Better(i, j)
<1>1. \E i \in Codecs(line) : \A j \in Codecs(line) \ {i} : Better(i, j)
  BY BestExists
<1>2. SelectPreferred(line) = line.types[selected]
  BY DEF SelectPreferred, RankAt
<1>3. selected \in Codecs(line) /\ \A j \in Codecs(line) \ {selected} : Better(selected, j)
  <2> HIDE DEF Better
  <2> QED
    BY <1>1, Zenon
<1>4. \A i \in Codecs(line) : i \in Nat /\ RankAt(line, i) \in Nat
  BY LineTyped, RankIs, CodecsAre DEF Codecs, RankAt
<1> HIDE DEF selected
<1>5. \A j \in Codecs(line) \ {selected} : RankAt(line, selected) <= RankAt(line, j)
  BY <1>3, <1>4
<1>6. \A j \in Codecs(line) : RankAt(line, selected) = RankAt(line, j) => selected <= j
  BY <1>3, <1>4
<1> QED
  BY <1>2, <1>3, <1>5, <1>6

----------------------------------------------------------------------------
(* The negotiation *)

Selected(o) == SelectPreferred(o.audio)

(* What parse_sdp_offer returns.                                           *)
Outcome(o) ==
  IF ParseError(o) # "none"
  THEN [error |-> ParseError(o)]
  ELSE [error |-> "none", type |-> Selected(o), kind |-> CodecName(o.audio, Selected(o))]

Pending == parsed = [error |-> "pending"] /\ answer = <<>>

(* The offer is parsed, and answered with what was parsed or not answered. *)
Parsed ==
  /\ parsed = Outcome(offer)
  /\ answer = <<>> \/ (parsed.error = "none" /\ answer = <<FormatOf(parsed.type, parsed.kind)>>)

IInv == offer \in Offers /\ (Pending \/ Parsed)

(* The codecs compiled in stay.                                            *)
LEMMA SameOutcome ==
  ASSUME UNCHANGED features, NEW o
  PROVE  Outcome(o)' = Outcome(o)
<1>1. CodecKind' = CodecKind
  BY DEF CodecKind
<1>2. \A line : Codecs(line)' = Codecs(line)
  BY <1>1 DEF Codecs
<1>3. ParseError(o)' = ParseError(o)
  BY <1>2 DEF ParseError
<1>4. Selected(o)' = Selected(o)
  BY <1>2 DEF Selected, SelectPreferred
<1> QED
  BY <1>3, <1>4 DEF Outcome

(* Parsing and answering keep to the offer.                                *)
LEMMA SpecIInv == Spec => []IInv
<1>1. Init => IInv
  BY DEF Init, IInv, Pending
<1>2. IInv /\ [Next]_vars => IInv'
  <2> SUFFICES ASSUME IInv, [Next]_vars
               PROVE  IInv'
    OBVIOUS
  <2>1. UNCHANGED <<features, offer>>
    BY DEF Next, Parse, Answer, vars
  <2>2. Outcome(offer)' = Outcome(offer)
    BY <2>1, SameOutcome
  <2>3. CASE Parse
    <3>1. parsed' = Outcome(offer) /\ answer' = answer
      BY <2>3 DEF Parse, Outcome, Selected
    <3>2. ~ Parsed \/ Pending
      BY <2>3 DEF Parse, Parsed, Outcome, ParseError
    <3> QED
      BY <2>1, <2>2, <3>1, <3>2 DEF IInv, Parsed, Pending
  <2>4. CASE Answer
    <3>1. parsed.error = "none" /\ parsed' = parsed
          /\ answer' = <<FormatOf(parsed.type, parsed.kind)>>
      BY <2>4 DEF Answer, FormatOf
    <3>2. ~ Pending
      BY <3>1 DEF Pending
    <3> QED
      BY <2>1, <2>2, <3>1, <3>2 DEF IInv, Parsed
  <2>5. CASE UNCHANGED vars
    BY <2>1, <2>2, <2>5 DEF vars, IInv, Parsed, Pending
  <2> QED
    BY <2>3, <2>4, <2>5 DEF Next
<1> QED
  BY <1>1, <1>2, PTL DEF Spec

(* An offer is parsed without an error if it is regular and a codec of its *)
(* line is supported; for the codecs alone it is refused if it is regular. *)
LEMMA ErrorIs ==
  ASSUME IInv, parsed.error # "pending"
  PROVE  /\ offer.audio \in AudioLine /\ Parsed /\ parsed.error = ParseError(offer)
         /\ parsed.error = "none" <=> Regular(offer) /\ Codecs(offer.audio) # {}
         /\ parsed.error = "NoSupportedCodec" <=> Regular(offer) /\ Codecs(offer.audio) = {}
<1>1. Parsed /\ offer \in Offers
  BY DEF IInv, Pending
<1>2. parsed.error = ParseError(offer)
  BY <1>1 DEF Parsed, Outcome
<1>3. ParseError(offer) = "none" <=> Regular(offer) /\ Codecs(offer.audio) # {}
  BY <1>1 DEF ParseError, Regular, Offers
<1>4. ParseError(offer) = "NoSupportedCodec" <=> Regular(offer) /\ Codecs(offer.audio) = {}
  BY <1>1 DEF ParseError, Regular, Offers
<1> QED
  BY <1>1, <1>2, <1>3, <1>4 DEF Offers

(* The formats the peer and the server have in common are those of the     *)
(* supported payload types.                                                *)
LEMMA CommonIs ==
  ASSUME NEW line \in AudioLine, Usual(line)
  PROVE  Common(line) =
           {FormatOf(line.types[i], CodecName(line, line.types[i])) : i \in Codecs(line)}
<1> DEFINE formats ==
      {FormatOf(line.types[i], CodecName(line, line.types[i])) : i \in Codecs(line)}
<1>1. ASSUME NEW f \in Common(line) PROVE f \in formats
  <2>1. /\ f.name \in CodecKind /\ f.rate = Rate(f.name)
        /\ \E i \in DOMAIN line.types : f \in Formats(line, line.types[i])
    BY <1>1 DEF Common
  <2>2. PICK i \in DOMAIN line.types : f \in Formats(line, line.types[i])
    BY <2>1
  <2>3. line.types[i] \in Nat
    BY LineTyped
  <2>4. /\ CodecName(line, line.types[i]) \in CodecKind
        /\ f = FormatOf(line.types[i], CodecName(line, line.types[i]))
    BY <2>1, <2>2, <2>3, SpokenFormats
  <2> QED
    BY <2>4 DEF Codecs
<1>2. ASSUME NEW i \in Codecs(line)
      PROVE  FormatOf(line.types[i], CodecName(line, line.types[i])) \in Common(line)
  <2> DEFINE f == FormatOf(line.types[i], CodecName(line, line.types[i]))
  <2>1. i \in DOMAIN line.types /\ CodecName(line, line.types[i]) \in CodecKind
    BY DEF Codecs
  <2>2. line.types[i] \in Nat
    BY <2>1, LineTyped
  <2>3. f \in Formats(line, line.types[i]) /\ f.name \in CodecKind /\ f.rate = Rate(f.name)
    BY <2>1, <2>2, SpokenFormats
  <2> QED
    BY <2>1, <2>3 DEF Common
<1> QED
  BY <1>1, <1>2

(* parse_sdp_offer takes an offer that it can read, that has an audio line *)
(* and an address, and of whose formats the server speaks one; an offer    *)
(* without one of the first three is refused for that reason, whatever     *)
(* codecs it lists and whatever codecs are compiled in.                    *)
THEOREM SpecRefusedOnlyForCause == Spec => []RefusedOnlyForCause
<1>1. IInv => RefusedOnlyForCause
  <2> SUFFICES ASSUME IInv, parsed.error # "pending", Usual(offer.audio)
               PROVE  /\ parsed.error = "none"
                        <=> Regular(offer) /\ Common(offer.audio) # {}
                      /\ parsed.error = "NoSupportedCodec"
                        <=> Regular(offer) /\ Common(offer.audio) = {}
    BY DEF RefusedOnlyForCause
  <2>1. Common(offer.audio) # {} <=> Codecs(offer.audio) # {}
    BY ErrorIs, CommonIs
  <2> QED
    BY <2>1, ErrorIs
<1> QED
  BY <1>1, SpecIInv, PTL

(* The answer is the format of the offer with the codec that CodecKind     *)
(* declares first, under the payload type the peer listed first for it.    *)
THEOREM SpecBestCommonFormat == Spec => []BestCommonFormat
<1>1. IInv => BestCommonFormat
  <2> DEFINE line == offer.audio
             types == offer.audio.types
             Name(j) == CodecName(line, types[j])
             same == {j \in DOMAIN types : \E f \in Formats(line, types[j]) :
                        f \in Common(line) /\ f.name = answer[1].name}
  <2> SUFFICES ASSUME IInv, answer # <<>>, Usual(line)
               PROVE  /\ answer[1] \in Common(line)
                      /\ \A f \in Common(line) : Rank(answer[1].name) <= Rank(f.name)
                      /\ \E i \in same : types[i] = answer[1].type /\ \A j \in same : i <= j
    BY DEF BestCommonFormat
  <2>1. /\ Parsed /\ line \in AudioLine /\ Codecs(line) # {}
        /\ parsed = [error |-> "none", type |-> Selected(offer),
                     kind |-> CodecName(line, Selected(offer))]
        /\ answer[1] = FormatOf(Selected(offer), CodecName(line, Selected(offer)))
    <3>1. Parsed /\ parsed.error = "none" /\ answer = <<FormatOf(parsed.type, parsed.kind)>>
      BY DEF IInv, Pending, Parsed
    <3>2. parsed = [error |-> "none", type |-> Selected(offer),
                    kind |-> CodecName(line, Selected(offer))]
      BY <3>1 DEF Parsed, Outcome
    <3> QED
      BY <3>1, <3>2, ErrorIs
  <2>2. PICK i \in Codecs(line) :
          /\ Selected(offer) = types[i]
          /\ \A j \in Codecs(line) \ {i} : RankAt(line, i) <= RankAt(line, j)
          /\ \A j \in Codecs(line) : RankAt(line, i) = RankAt(line, j) => i <= j
    BY <2>1, SelectedIsBest DEF Selected
  <2>3. answer[1] = FormatOf(types[i], Name(i)) /\ answer[1].name = Name(i)
        /\ answer[1].type = types[i]
    BY <2>1, <2>2 DEF FormatOf
  <2>4. Common(line) = {FormatOf(types[j], Name(j)) : j \in Codecs(line)}
    BY <2>1, CommonIs
  <2>5. \A f \in Common(line) : Rank(answer[1].name) <= Rank(f.name)
    <3> SUFFICES ASSUME NEW j \in Codecs(line)
                 PROVE  RankAt(line, i) <= RankAt(line, j)
      BY <2>3, <2>4 DEF RankAt, FormatOf
    <3>1. RankAt(line, i) \in Nat
      BY RankIs, CodecsAre DEF Codecs, RankAt
    <3> QED
      BY <2>2, <3>1
  <2>6. \A j \in DOMAIN types : j \in same <=> j \in Codecs(line) /\ Name(j) = Name(i)
    <3> TAKE j \in DOMAIN types
    <3>1. types[j] \in Nat
      BY <2>1, LineTyped
    <3>2. \A f : f \in Formats(line, types[j]) /\ f \in Common(line)
                   <=> Name(j) \in CodecKind /\ f = FormatOf(types[j], Name(j))
      <4>1. \A f \in Formats(line, types[j]) :
              f \in Common(line) <=> f.name \in CodecKind /\ f.rate = Rate(f.name)
        BY DEF Common
      <4> QED
        BY <2>1, <3>1, <4>1, SpokenFormats
    <3>3. FormatOf(types[j], Name(j)).name = Name(j)
      BY DEF FormatOf
    <3> QED
      BY <2>3, <3>2, <3>3 DEF Codecs
  <2>7. i \in same /\ \A j \in same : i <= j
    BY <2>2, <2>6 DEF Codecs, RankAt
  <2> QED
    BY <2>2, <2>3, <2>4, <2>5, <2>7
<1> QED
  BY <1>1, SpecIInv, PTL

============================================================================
