---------------------------- MODULE MCLocalPayment ----------------------------
(* A small instance of LocalPayment for TLC.                               *)
EXTENDS LocalPayment, TLC

CONSTANTS w1, w2, a1, a2

(* Processes are interchangeable, and so are attempts: no action, property *)
(* or initial state tells one from another.                                *)
Symmetry == Permutations({w1, w2}) \cup Permutations({a1, a2})

(* Nothing reads the dates of a row that can no longer be checked: states  *)
(* that differ in those alone are the same.                                *)
Read(row) ==
    IF row.status \in CheckableStates THEN row
    ELSE [status |-> row.status, duplicate |-> row.duplicate,
          amount_mismatch |-> row.amount_mismatch]

View ==
    <<[a \in Attempts |-> Read(rows[a])], session, worker, provider, copies, effects, alerts,
      repaid>>
=============================================================================
