----------------------------- MODULE MCSdpOffer -----------------------------
(* SdpOffer for the offers with up to three payload types and two rtpmaps. *)
EXTENDS SdpOffer

Map(type, name, rate, channels) ==
  [type |-> type, name |-> name, rate |-> rate, channels |-> channels]

(* The formats a peer may give its payload types: the usual ones, L16 of   *)
(* another rate or with two channels, a codec the server does not know.    *)
Maps ==
  {Map(0, "pcmu", 8000, 1), Map(9, "g722", 8000, 1),
   Map(96, "opus", 48000, 2), Map(96, "l16", 16000, 1), Map(96, "l16", 8000, 1),
   Map(97, "pcma", 8000, 1), Map(97, "l16", 16000, 1), Map(97, "l16", 16000, 2),
   Map(97, "telephone-event", 8000, 1)}

MCRtpmaps == {<<>>} \cup {<<m>> : m \in Maps} \cup {<<m, n>> : m, n \in Maps}

MCPayloadTypes == {0, 9, 96, 97}
============================================================================
