--------------------------- MODULE MCPaymentRequest ---------------------------
(* A small instance of PaymentRequest for TLC.                             *)
EXTENDS PaymentRequest, TLC

CONSTANTS s1, s2, c1, c2, o1, o2

Symmetry == Permutations({s1, s2}) \cup Permutations({c1, c2})
=============================================================================
