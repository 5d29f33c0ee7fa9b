--------------------------- MODULE MCCallHandler ---------------------------
(* CallHandler on a small instance: two calls that compete for a pair.     *)
EXTENDS CallHandler

CONSTANTS c1, c2, p1
============================================================================
