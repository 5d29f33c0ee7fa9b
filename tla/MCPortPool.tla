----------------------------- MODULE MCPortPool -----------------------------
(* PortPool on a small instance.                                           *)
EXTENDS PortPool

CONSTANTS a1, a2
============================================================================
