----------------------------- MODULE MCRateLimit -----------------------------
(* Two connections share a bucket, as they do from one address, and a      *)
(* third has its own.                                                      *)
EXTENDS RateLimit, TLC

CONSTANTS c1, c2, c3, k1, k2

SharedKey == [c \in Conn |-> IF c = c3 THEN k2 ELSE k1]

(* Connections of one key are interchangeable. *)
Interchangeable == Permutations({c1, c2})
=============================================================================
