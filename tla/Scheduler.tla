------------------------------- MODULE Scheduler -------------------------------
(***************************************************************************)
(* scheduler.py: which due attempts a bounded run takes, and in what       *)
(* order.  What a check does to a session is LocalPayment's matter; here   *)
(* it settles the attempt, reschedules it, or raises.                      *)
(*                                                                         *)
(* The jobs run one after the other: what another job, the page or a       *)
(* callback does between two items of a run is CheckElsewhere.             *)
(* Ages are three here; the minutes they stand for are those of Dates.     *)
(* retry_authorizations is left out: every try reschedules its session.    *)
(***************************************************************************)
EXTENDS Naturals, Sequences, FiniteSets

CONSTANTS
    N,              \* bound: how many attempts; they are numbered by deadline
    Unanswered,     \* attempts about which every query raises
    Contested,      \* attempts on a session that another attempt may pay
    BatchSize,      \* BATCH_SIZE
    Reach           \* how many items fit in TIME_BUDGET for certain

Attempts == 1 .. N

ASSUME SchedulerAssumption ==
    /\ N \in Nat
    /\ Unanswered \subseteq Attempts /\ Contested \subseteq Attempts
    /\ BatchSize \in Nat \ {0} /\ Reach \in 1 .. BatchSize

VARIABLES
    status,         \* of each attempt; InFlight stands for Initiated and Pending
    age,            \* 0 before its deadline, 1 after it, 2 from 72 hours on
    due,            \* the attempts whose next_check_on is past, oldest first
    superseded,     \* attempts on a session that another attempt has paid
    run,            \* the job that runs, the items it has left and has handled,
                    \* and what it has read of the next one's session
    alerted,        \* attempts whose flag is committed
    unsaved,        \* attempts whose flag the run has set and not committed
    told            \* ghost: how many times the managers were told of each

vars == <<status, age, due, superseded, run, alerted, unsaved, told>>

Checks == {"check_due_attempts", "check_unresolved_attempts"}
Jobs   == Checks \cup {"send_daily_alerts"}
RunType ==
    [job : Jobs \cup {"none"}, left : Seq(Attempts), handled : Nat,
     session : {"unread", "paid", "unpaid"}]

Idle   == [job |-> "none", left |-> <<>>, handled |-> 0, session |-> "unread"]

Init ==
    /\ status = [a \in Attempts |-> "InFlight"]
    /\ age = [a \in Attempts |-> 0]
    /\ due = <<>>
    /\ superseded = {}
    /\ run = Idle
    /\ alerted = {} /\ unsaved = {}
    /\ told = [a \in Attempts |-> 0]

IsDue(a) == \E i \in 1 .. Len(due) : due[i] = a

Place(a) == CHOOSE i \in 1 .. Len(due) : due[i] = a

DueWithout(a) ==
    IF IsDue(a)
    THEN [i \in 1 .. Len(due) - 1 |-> IF i < Place(a) THEN due[i] ELSE due[i + 1]]
    ELSE due

-----------------------------------------------------------------------------
(* Time                                                                    *)

(* The date set by _next_attempt_check, or by _open_attempt, comes.        *)
BecomesDue(a) ==
    /\ status[a] # "Settled" /\ ~IsDue(a)
    /\ due' = Append(due, a)
    /\ UNCHANGED <<status, age, superseded, run, alerted, unsaved, told>>

GrowsOld(a) ==
    /\ status[a] # "Settled" /\ age[a] < 2
    /\ \A b \in 1 .. a - 1 : status[b] = "Settled" \/ age[b] > age[a]
    /\ age' = [age EXCEPT ![a] = @ + 1]
    /\ UNCHANGED <<status, due, superseded, run, alerted, unsaved, told>>

-----------------------------------------------------------------------------
(* reconcile(), as far as the dates go                                     *)

(* The answer is recorded: final, or still pending and past the deadline   *)
(* or not.  A new date replaces the one that had come.                     *)
Answered(a) ==
    /\ a \notin Unanswered /\ status[a] # "Settled"
    /\ status' \in {[status EXCEPT ![a] = "Settled"],
                    [status EXCEPT ![a] = IF age[a] = 0 THEN @ ELSE "Unresolved"]}
    /\ due' = DueWithout(a)

CheckElsewhere(a) ==
    /\ Answered(a)
    /\ UNCHANGED <<age, superseded, run, alerted, unsaved, told>>

PaidByAnother(a) ==
    /\ a \in Contested \ superseded /\ status[a] # "Settled"
    /\ superseded' = superseded \cup {a}
    /\ UNCHANGED <<status, age, due, run, alerted, unsaved, told>>

-----------------------------------------------------------------------------
(* The jobs                                                                *)

GivenUp(a) == status[a] = "Unresolved" /\ age[a] = 2

Selected(job) ==
    {a \in Attempts :
        CASE job = "check_due_attempts"        -> IsDue(a) /\ status[a] = "InFlight"
          [] job = "check_unresolved_attempts" -> IsDue(a) /\ status[a] = "Unresolved"
                                                           /\ age[a] < 2
          [] OTHER                             -> GivenUp(a) /\ a \notin alerted}

(* Two bugs: the latest date first, and no limit.                          *)
LatestFirst(job, a) == IF job \in Checks THEN N + 1 - Place(a) ELSE a
NoLimit == N

(* order_by: next_check_on, or expires_on.                                 *)
Rank(job, a) == IF job \in Checks THEN Place(a) ELSE a

Limit == BatchSize

(* The first BATCH_SIZE of those selected, in the job's order.             *)
Batches(job) ==
    {batch \in UNION {[1 .. n -> Selected(job)] : n \in 1 .. Limit} :
        /\ \A i, j \in 1 .. Len(batch) : i < j => Rank(job, batch[i]) < Rank(job, batch[j])
        /\ \A a \in Selected(job) :
              \/ \E i \in 1 .. Len(batch) : batch[i] = a
              \/ Len(batch) = Limit /\ Rank(job, batch[Limit]) < Rank(job, a)}

Start(job) ==
    /\ run = Idle
    /\ \E batch \in Batches(job) :
          run' = [job |-> job, left |-> batch, handled |-> 0, session |-> "unread"]
    /\ UNCHANGED <<status, age, due, superseded, alerted, unsaved, told>>

(* _each goes on with item a.                                              *)
Handles(a) ==
    /\ run.left # <<>> /\ Head(run.left) = a
    /\ run' = [run EXCEPT !.left = Tail(@), !.handled = @ + 1, !.session = "unread"]

Check(a) ==
    /\ run.job \in Checks /\ Handles(a)
    /\ Answered(a)
    /\ UNCHANGED <<age, superseded, alerted, unsaved, told>>

(* Nothing changes: the query raised, and the date stays in the past; or   *)
(* another trigger settled the attempt, or checked it a moment ago.        *)
CheckChangesNothing(a) ==
    /\ run.job \in Checks /\ Handles(a)
    /\ UNCHANGED <<status, age, due, superseded, alerted, unsaved, told>>

(* _alert_unresolved reads the session with no lock.  One that the attempt *)
(* itself has settled may be paid or not.                                  *)
ReadSession(a) ==
    /\ run.job = "send_daily_alerts" /\ run.session = "unread"
    /\ run.left # <<>> /\ Head(run.left) = a
    /\ \/ run' = [run EXCEPT !.session = IF a \in superseded THEN "paid" ELSE "unpaid"]
       \/ status[a] = "Settled" /\ run' = [run EXCEPT !.session = "paid"]
    /\ UNCHANGED <<status, age, due, superseded, alerted, unsaved, told>>

HandlesUnpaid(a) ==
    /\ run.job = "send_daily_alerts" /\ run.session = "unpaid" /\ Handles(a)

(* A bug: the flag stays for the commit at the end of the job.             *)
FlagCommitsLate(a) ==
    /\ HandlesUnpaid(a)
    /\ told' = [told EXCEPT ![a] = @ + 1]
    /\ unsaved' = unsaved \cup {a}
    /\ UNCHANGED <<status, age, due, superseded, alerted>>

(* The flag and the notifications commit together.                         *)
Alert(a) ==
    /\ HandlesUnpaid(a)
    /\ told' = [told EXCEPT ![a] = @ + 1]
    /\ alerted' = alerted \cup unsaved \cup {a}
    /\ unsaved' = {}
    /\ UNCHANGED <<status, age, due, superseded>>

(* The session is paid: nobody is told, nor selected again.                *)
AlertIsMoot(a) ==
    /\ run.job = "send_daily_alerts" /\ run.session = "paid" /\ Handles(a)
    /\ unsaved' = unsaved \cup {a}
    /\ UNCHANGED <<status, age, due, superseded, alerted, told>>

(* A bug: the flag is committed with the Error Log.                        *)
FlagStays(a) ==
    /\ HandlesUnpaid(a)
    /\ alerted' = alerted \cup unsaved \cup {a}
    /\ unsaved' = {}
    /\ UNCHANGED <<status, age, due, superseded, told>>

(* The rollback takes every flag the run has not committed.                *)
AlertFails(a) ==
    /\ HandlesUnpaid(a)
    /\ unsaved' = {}
    /\ UNCHANGED <<status, age, due, superseded, alerted, told>>

(* The batch is done, or TIME_BUDGET is spent; Frappe commits the job.     *)
RunMayEnd ==
    \/ run.left = <<>>
    \/ run.handled >= Reach /\ run.session = "unread"

EndRun ==
    /\ run # Idle /\ RunMayEnd
    /\ run' = Idle
    /\ alerted' = alerted \cup unsaved
    /\ unsaved' = {}
    /\ UNCHANGED <<status, age, due, superseded, told>>

(* A kill at the end of a run that has nothing to commit is EndRun.        *)
Killed ==
    /\ run # Idle
    /\ ~RunMayEnd \/ unsaved # {}
    /\ run' = Idle
    /\ unsaved' = {}
    /\ UNCHANGED <<status, age, due, superseded, alerted, told>>

-----------------------------------------------------------------------------
Next ==
    \/ \E a \in Attempts :
          \/ BecomesDue(a)
          \/ GrowsOld(a)
          \/ CheckElsewhere(a)
          \/ PaidByAnother(a)
          \/ Check(a)
          \/ CheckChangesNothing(a)
          \/ ReadSession(a)
          \/ Alert(a)
          \/ AlertIsMoot(a)
          \/ AlertFails(a)
    \/ \E job \in Jobs : Start(job)
    \/ EndRun
    \/ Killed

Spec == Init /\ [][Next]_vars

(* A run goes on: it ends, or turns to the next item.                      *)
GoesOn ==
    \/ EndRun
    \/ \E a \in Attempts :
          CheckChangesNothing(a) \/ ReadSession(a) \/ AlertIsMoot(a) \/ AlertFails(a)

(* Dates come, every job gets its turn and goes on, and a query or an      *)
(* alert that may succeed does if it is tried again and again.  Nothing is *)
(* assumed of the page and of callbacks.                                   *)
Fairness ==
    /\ \A job \in Jobs : SF_vars(Start(job))
    /\ \A a \in Attempts : WF_vars(BecomesDue(a))
    /\ \A a \in Attempts \ Unanswered : SF_vars(Check(a))
    /\ \A a \in Attempts : SF_vars(Alert(a))
    /\ WF_vars(GoesOn)
    /\ <>[][~Killed]_vars

FairSpec == Spec /\ Fairness

-----------------------------------------------------------------------------
(* The flags: a kill between two alerts, or one that fails, never makes    *)
(* the managers hear of an attempt twice (send_daily_alerts).              *)
ToldOnce == \A a \in Attempts : told[a] <= 1

(* And none keeps its flag without their having heard of it, but the ones  *)
(* with nothing left to chase (_alert_unresolved, alert_managers).         *)
FlagMeansTold ==
    \A a \in alerted : told[a] >= 1 \/ a \in superseded \/ status[a] = "Settled"

(* Every attempt that is 72 hours past its deadline ends: settled, told    *)
(* of, or its session paid by another one.  However small the batches, and *)
(* whatever fails or is killed, it gets through both checks to the alert   *)
(* (check_due_attempts, check_unresolved_attempts, send_daily_alerts).     *)
EveryAttemptEnds ==
    Cardinality(Unanswered) < Reach =>
        \A a \in Attempts \ Unanswered :
            age[a] = 2 ~> status[a] = "Settled" \/ told[a] = 1 \/ a \in superseded

(* Every attempt the payer may still be waiting on is asked about, whatever *)
(* the attempts that come due beside it ("What is left over is picked up   *)
(* by the next run").                                                      *)
LeftOverIsPickedUp ==
    \A a \in Attempts \ Unanswered :
        (IsDue(a) /\ status[a] = "InFlight") ~> ~(IsDue(a) /\ status[a] = "InFlight")

(* The same, for as long as the attempts that cannot be asked about, which *)
(* keep their dates in the past, do not fill a run.                        *)
DueIsChecked == Cardinality(Unanswered) < Reach => LeftOverIsPickedUp

(* Every variable has its type; only what is not settled is due, once; a   *)
(* run stays within its batch; only the alerts leave a flag uncommitted.   *)
TypeOK ==
    /\ status \in [Attempts -> {"InFlight", "Unresolved", "Settled"}]
    /\ age \in [Attempts -> 0 .. 2]
    /\ due \in Seq(Attempts)
    /\ \A i, j \in 1 .. Len(due) : due[i] = due[j] => i = j
    /\ \A i \in 1 .. Len(due) : status[due[i]] # "Settled"
    /\ superseded \subseteq Contested
    /\ run \in RunType /\ Len(run.left) + run.handled <= BatchSize
    /\ alerted \subseteq Attempts /\ told \in [Attempts -> Nat]
    /\ unsaved \subseteq Attempts /\ (unsaved # {} => run.job = "send_daily_alerts")
=============================================================================
