----------------------------- MODULE MCSipServer -----------------------------
(* SipServer on a small instance: one call, one pair, two other calls.     *)
EXTENDS SipServer

CONSTANTS c1, p1, o1, o2
============================================================================
