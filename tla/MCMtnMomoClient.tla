---------------------------- MODULE MCMtnMomoClient ----------------------------
(* A small instance of MtnMomoClient for TLC.                              *)
EXTENDS MtnMomoClient, TLC

CONSTANTS w1, w2

Symmetry == Permutations(Workers)

(* Prefixes and lengths that a number can be mistaken for one another in.  *)
(* No prefix begins with a 0: the settings' message says so, their check   *)
(* does not, and a number with the prefix 002 would be refused when sent.  *)
SmallFormats == {[prefix |-> <<"2">>, length |-> 2],
                 [prefix |-> <<"2">>, length |-> 3],
                 [prefix |-> <<"2", "0">>, length |-> 2]}
=============================================================================
