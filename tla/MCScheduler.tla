------------------------------ MODULE MCScheduler ------------------------------
(* Small instances of Scheduler for TLC, and the dates of the hourly jobs. *)
EXTENDS Scheduler, Dates

(* Two facts about constants, which no state enters into: TLC evaluates    *)
(* them, DatesProofs proves them.                                          *)
ASSUME DatesFit == LadderSpansThreeDays /\ BackoffFitsADay
=============================================================================
