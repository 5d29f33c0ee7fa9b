------------------------------- MODULE MCG711 -------------------------------
(* G711 for every sample of 16 bits, alone or after silence, and for every *)
(* byte.                                                                   *)
EXTENDS G711

MCFrames == [1 .. 1 -> Linear] \cup {<<0, s>> : s \in Linear}

MCPayloads == [1 .. 1 -> Bytes]
============================================================================
