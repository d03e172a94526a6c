---------------------------- MODULE SchedulerProofs ----------------------------
(***************************************************************************)
(* Theorems about what is due, what a run takes of it, and the flags of    *)
(* the daily alert, for any number of attempts, any batch size, and any    *)
(* kills, failures and races.                                              *)
(***************************************************************************)
EXTENDS Scheduler, TLAPS

Statuses == {"InFlight", "Unresolved", "Settled"}

IsRun(r) ==
    r = [job |-> r.job, left |-> r.left, handled |-> r.handled, session |-> r.session]

Shape ==
    /\ status \in [Attempts -> Statuses]
    /\ told \in [Attempts -> Nat]
    /\ IsRun(run)

(* Nothing is left to chase: true once, true for ever.                     *)
Moot(a) == a \in superseded \/ status[a] = "Settled"

(* Told and flagged go together: the managers hear of an attempt at most   *)
(* once, and when they have, its flag is committed.                        *)
ToldInv == \A a \in Attempts : told[a] = 0 \/ (told[a] = 1 /\ a \in alerted)

(* What a run of the alerts has left, each once, nobody was told of.       *)
Untold(seq) ==
    /\ seq \in Seq(Attempts)
    /\ \A i, j \in 1 .. Len(seq) : i < j => seq[i] < seq[j]
    /\ \A i \in 1 .. Len(seq) : told[seq[i]] = 0

LeftInv == run.job = "send_daily_alerts" => Untold(run.left)

FlagInv ==
    /\ \A a \in alerted : told[a] >= 1 \/ Moot(a)
    /\ \A a \in unsaved : Moot(a)
    /\ run.session = "paid" => Head(run.left) \in Attempts /\ Moot(Head(run.left))
    /\ alerted \subseteq Attempts /\ unsaved \subseteq Attempts

IInv == Shape /\ ToldInv /\ LeftInv /\ FlagInv

-----------------------------------------------------------------------------
LEMMA InitInv == Init => IInv
<1> SUFFICES ASSUME Init PROVE IInv
  OBVIOUS
<1>1. Shape
  BY DEF Init, Shape, Statuses, IsRun, Idle
<1>2. ToldInv /\ FlagInv
  BY DEF Init, ToldInv, FlagInv, Idle
<1>3. LeftInv
  BY DEF Init, LeftInv, Idle
<1> QED
  BY <1>1, <1>2, <1>3 DEF IInv

(* Handling an item: what is left is the tail.                             *)
LEMMA HandlesMoves ==
    ASSUME Shape, NEW a \in Attempts, Handles(a)
    PROVE  /\ IsRun(run)' /\ run'.job = run.job /\ run'.session = "unread"
           /\ run'.left = Tail(run.left) /\ run.left # <<>> /\ Head(run.left) = a
<1>1. run' = [run EXCEPT !.left = Tail(@), !.handled = @ + 1, !.session = "unread"]
  BY DEF Handles
<1> QED
  BY <1>1 DEF Handles, Shape, IsRun

LEMMA TailUntold ==
    ASSUME NEW seq, seq # <<>>, Untold(seq)
    PROVE  Untold(Tail(seq)) /\ \A i \in 1 .. Len(Tail(seq)) : Tail(seq)[i] # Head(seq)
<1>1. /\ Tail(seq) \in Seq(Attempts) /\ Len(Tail(seq)) = Len(seq) - 1
      /\ Len(seq) \in Nat \ {0}
      /\ \A i \in 1 .. Len(Tail(seq)) : Tail(seq)[i] = seq[i + 1]
      /\ Head(seq) = seq[1]
  BY DEF Untold
<1>2. \A i \in 1 .. Len(Tail(seq)) : i + 1 \in 1 .. Len(seq) /\ 1 < i + 1
  BY <1>1
<1>3. \A i, j \in 1 .. Len(Tail(seq)) : i < j => Tail(seq)[i] < Tail(seq)[j]
  BY <1>1, <1>2 DEF Untold
<1>4. \A i \in 1 .. Len(Tail(seq)) : told[Tail(seq)[i]] = 0
  BY <1>1, <1>2 DEF Untold
<1>5. \A i \in 1 .. Len(seq) : seq[i] \in Nat
  BY SchedulerAssumption DEF Untold, Attempts
<1>6. \A i \in 1 .. Len(Tail(seq)) : seq[1] < seq[i + 1]
  BY <1>1, <1>2 DEF Untold
<1>7. \A i \in 1 .. Len(Tail(seq)) : Tail(seq)[i] # Head(seq)
  BY <1>1, <1>2, <1>5, <1>6
<1> QED
  BY <1>1, <1>3, <1>4, <1>7 DEF Untold

LEMMA MootStays ==
    ASSUME Shape, [Next]_vars, NEW a \in Attempts, Moot(a)
    PROVE  Moot(a)'
<1>1. superseded \subseteq superseded'
  BY DEF Next, vars, BecomesDue, GrowsOld, CheckElsewhere, PaidByAnother, Check,
     CheckChangesNothing, ReadSession, Alert, AlertIsMoot, AlertFails, Start, EndRun, Killed
<1>2. status' = status \/ \E b \in Attempts : Answered(b)
  BY DEF Next, vars, BecomesDue, GrowsOld, CheckElsewhere, PaidByAnother, Check,
     CheckChangesNothing, ReadSession, Alert, AlertIsMoot, AlertFails, Start, EndRun, Killed
<1>3. ASSUME NEW b \in Attempts, Answered(b), status[a] = "Settled"
      PROVE  status'[a] = "Settled"
  BY <1>3 DEF Answered, Shape
<1> QED
  BY <1>1, <1>2, <1>3 DEF Moot

LEMMA ShapeStays == Shape /\ [Next]_vars => Shape'
<1> SUFFICES ASSUME Shape, [Next]_vars PROVE Shape'
  OBVIOUS
<1>1. status' \in [Attempts -> Statuses]
  <2>1. status' = status \/ \E b \in Attempts : Answered(b)
    BY DEF Next, vars, BecomesDue, GrowsOld, CheckElsewhere, PaidByAnother, Check,
       CheckChangesNothing, ReadSession, Alert, AlertIsMoot, AlertFails, Start, EndRun, Killed
  <2>2. ASSUME NEW b \in Attempts, Answered(b) PROVE status' \in [Attempts -> Statuses]
    BY <2>2 DEF Answered, Shape, Statuses
  <2> QED
    BY <2>1, <2>2 DEF Shape
<1>2. told' \in [Attempts -> Nat]
  <2>1. told' = told \/ \E b \in Attempts : told' = [told EXCEPT ![b] = @ + 1]
    BY DEF Next, vars, BecomesDue, GrowsOld, CheckElsewhere, PaidByAnother, Check,
       CheckChangesNothing, ReadSession, Alert, AlertIsMoot, AlertFails, Start, EndRun, Killed
  <2> QED
    BY <2>1 DEF Shape
<1>3. IsRun(run)'
  <2>1. CASE run' = run
    BY <2>1 DEF Shape, IsRun
  <2>2. ASSUME NEW b \in Attempts, Handles(b) PROVE IsRun(run)'
    BY <2>2, HandlesMoves
  <2>3. ASSUME NEW b \in Attempts, ReadSession(b) PROVE IsRun(run)'
    BY <2>3 DEF ReadSession, Shape, IsRun
  <2>4. ASSUME NEW job \in Jobs, Start(job) PROVE IsRun(run)'
    BY <2>4 DEF Start, IsRun
  <2>5. CASE EndRun \/ Killed
    BY <2>5 DEF EndRun, Killed, Idle, IsRun
  <2> QED
    BY <2>1, <2>2, <2>3, <2>4, <2>5 DEF Next, vars, BecomesDue, GrowsOld, CheckElsewhere,
       PaidByAnother, Check, CheckChangesNothing, Alert, AlertIsMoot, AlertFails, HandlesUnpaid
<1> QED
  BY <1>1, <1>2, <1>3 DEF Shape

-----------------------------------------------------------------------------
(* One lemma per way a step concerns the flags.                            *)

ToldSame == UNCHANGED <<told, alerted, unsaved>>

(* No flag, no run: time, answers elsewhere and other payments.            *)
LEMMA ElsewhereKeeps ==
    ASSUME IInv, [Next]_vars, ToldSame, run' = run
    PROVE  IInv'
<1>1. Shape' /\ \A a \in Attempts : Moot(a) => Moot(a)'
  BY ShapeStays, MootStays DEF IInv
<1>2. ToldInv' /\ LeftInv'
  BY DEF IInv, ToldSame, ToldInv, LeftInv, Untold
<1>3. FlagInv'
  BY <1>1 DEF IInv, ToldSame, FlagInv
<1> QED
  BY <1>1, <1>2, <1>3 DEF IInv

(* A run turns to its next item, and no flag is set but one of an attempt  *)
(* with nothing left to chase.                                             *)
LEMMA HandlingKeeps ==
    ASSUME IInv, [Next]_vars, NEW a \in Attempts, Handles(a), UNCHANGED <<told, alerted>>,
           \A b \in unsaved' : b \in unsaved \/ (b = a /\ Moot(a))
    PROVE  IInv'
<1>1. Shape' /\ \A b \in Attempts : Moot(b) => Moot(b)'
  BY ShapeStays, MootStays DEF IInv
<1>2. /\ run'.job = run.job /\ run'.session = "unread"
      /\ run'.left = Tail(run.left) /\ run.left # <<>>
  BY HandlesMoves DEF IInv
<1>3. ToldInv'
  BY DEF IInv, ToldInv
<1>4. LeftInv'
  BY <1>2, TailUntold DEF IInv, LeftInv, Untold
<1>5. FlagInv'
  BY <1>1, <1>2 DEF IInv, FlagInv
<1> QED
  BY <1>1, <1>3, <1>4, <1>5 DEF IInv

(* The managers are told of the item, and its flag is committed with every *)
(* one set before.                                                         *)
LEMMA AlertKeeps ==
    ASSUME IInv, [Next]_vars, NEW a \in Attempts, Alert(a)
    PROVE  IInv'
<1>1. Shape' /\ \A b \in Attempts : Moot(b) => Moot(b)'
  BY ShapeStays, MootStays DEF IInv
<1>2. Handles(a) /\ run.job = "send_daily_alerts"
  BY DEF Alert, HandlesUnpaid
<1>3. /\ run'.job = run.job /\ run'.session = "unread"
      /\ run'.left = Tail(run.left) /\ run.left # <<>> /\ Head(run.left) = a
  BY <1>2, HandlesMoves DEF IInv
<1>4. Untold(run.left)
  BY <1>2 DEF IInv, LeftInv
<1>5. told[a] = 0
  BY <1>3, <1>4 DEF Untold
<1>6. /\ told'[a] = 1 /\ \A b \in Attempts : b # a => told'[b] = told[b]
      /\ alerted' = alerted \cup unsaved \cup {a} /\ unsaved' = {}
  BY <1>5 DEF Alert, IInv, Shape
<1>7. ToldInv'
  BY <1>6 DEF IInv, ToldInv
<1>8. LeftInv'
  <2>1. /\ Untold(Tail(run.left))
        /\ \A i \in 1 .. Len(Tail(run.left)) : Tail(run.left)[i] # a
    BY <1>3, <1>4, TailUntold
  <2>2. \A i \in 1 .. Len(Tail(run.left)) : Tail(run.left)[i] \in Attempts
    BY <2>1 DEF Untold
  <2> QED
    BY <1>3, <1>6, <2>1, <2>2 DEF LeftInv, Untold
<1>9. FlagInv'
  BY <1>1, <1>3, <1>6 DEF IInv, FlagInv
<1> QED
  BY <1>1, <1>7, <1>8, <1>9 DEF IInv

LEMMA ReadKeeps ==
    ASSUME IInv, [Next]_vars, NEW a \in Attempts, ReadSession(a)
    PROVE  IInv'
<1>1. Shape' /\ \A b \in Attempts : Moot(b) => Moot(b)'
  BY ShapeStays, MootStays DEF IInv
<1>2. /\ run'.job = run.job /\ run'.left = run.left /\ Head(run.left) = a
      /\ run'.session = "paid" => Moot(a)
      /\ UNCHANGED <<told, alerted, unsaved>>
  BY DEF ReadSession, IInv, Shape, IsRun, Moot
<1>3. ToldInv' /\ LeftInv'
  BY <1>2 DEF IInv, ToldInv, LeftInv, Untold
<1>4. FlagInv'
  BY <1>1, <1>2 DEF IInv, FlagInv
<1> QED
  BY <1>1, <1>3, <1>4 DEF IInv

LEMMA StartKeeps ==
    ASSUME IInv, [Next]_vars, NEW job \in Jobs, Start(job)
    PROVE  IInv'
<1>1. Shape' /\ \A b \in Attempts : Moot(b) => Moot(b)'
  BY ShapeStays, MootStays DEF IInv
<1>2. /\ run'.job = job /\ run'.session = "unread"
      /\ UNCHANGED <<told, alerted, unsaved>>
  BY DEF Start
<1>3. ToldInv' /\ FlagInv'
  BY <1>1, <1>2 DEF IInv, ToldInv, FlagInv
<1>4. ASSUME job = "send_daily_alerts" PROVE Untold(run.left)'
  <2>1. run'.left \in Batches(job)
    BY DEF Start
  <2>2. PICK n \in 1 .. BatchSize : run'.left \in [1 .. n -> Selected(job)]
    BY <2>1 DEF Batches, Limit
  <2>3. /\ run'.left \in Seq(Attempts) /\ Len(run'.left) = n
        /\ \A i \in 1 .. n : run'.left[i] \in Selected(job)
    BY <2>2, SchedulerAssumption DEF Selected
  <2>4. \A a \in Selected(job) : told'[a] = 0
    BY <1>2, <1>4 DEF Selected, IInv, ToldInv
  <2>5. \A i, j \in 1 .. Len(run'.left) : i < j => run'.left[i] < run'.left[j]
    BY <1>4, <2>1 DEF Batches, Rank, Checks
  <2> QED
    BY <2>3, <2>4, <2>5 DEF Untold
<1>5. LeftInv'
  BY <1>2, <1>4 DEF LeftInv
<1> QED
  BY <1>1, <1>3, <1>5 DEF IInv

(* The run ends, with its flags committed or lost.                         *)
LEMMA EndKeeps ==
    ASSUME IInv, [Next]_vars, EndRun \/ Killed
    PROVE  IInv'
<1>1. Shape' /\ \A b \in Attempts : Moot(b) => Moot(b)'
  BY ShapeStays, MootStays DEF IInv
<1>2. /\ run' = Idle /\ told' = told /\ unsaved' = {}
      /\ alerted \subseteq alerted' /\ alerted' \subseteq alerted \cup unsaved
  BY DEF EndRun, Killed
<1>3. ToldInv' /\ LeftInv' /\ FlagInv'
  BY <1>1, <1>2 DEF IInv, ToldInv, LeftInv, FlagInv, Idle
<1> QED
  BY <1>1, <1>3 DEF IInv

LEMMA NextInv == IInv /\ [Next]_vars => IInv'
<1> SUFFICES ASSUME IInv, [Next]_vars PROVE IInv'
  OBVIOUS
<1>1. CASE UNCHANGED vars
  BY <1>1, ElsewhereKeeps DEF vars, ToldSame
<1>2. ASSUME NEW a \in Attempts,
             BecomesDue(a) \/ GrowsOld(a) \/ CheckElsewhere(a) \/ PaidByAnother(a)
      PROVE  IInv'
  BY <1>2, ElsewhereKeeps
     DEF ToldSame, BecomesDue, GrowsOld, CheckElsewhere, PaidByAnother
<1>3. ASSUME NEW a \in Attempts, Check(a) \/ CheckChangesNothing(a) \/ AlertFails(a)
      PROVE  IInv'
  BY <1>3, HandlingKeeps DEF Check, CheckChangesNothing, AlertFails, HandlesUnpaid
<1>4. ASSUME NEW a \in Attempts, AlertIsMoot(a) PROVE IInv'
  <2>1. Handles(a) /\ run.session = "paid" /\ unsaved' = unsaved \cup {a}
        /\ UNCHANGED <<told, alerted>>
    BY <1>4 DEF AlertIsMoot
  <2>2. Moot(a)
    BY <2>1 DEF IInv, FlagInv, Handles
  <2> QED
    BY <2>1, <2>2, HandlingKeeps
<1> QED
  BY <1>1, <1>2, <1>3, <1>4, AlertKeeps, ReadKeeps, StartKeeps, EndKeeps DEF Next

LEMMA Invariant == Spec => []IInv
  BY InitInv, NextInv, PTL DEF Spec

-----------------------------------------------------------------------------
(* Types, and what is due.                                                 *)

(* The order in which attempts are due has each of them once, and none     *)
(* that is settled.                                                        *)
DueInv ==
    /\ due \in Seq(Attempts)
    /\ \A i, j \in 1 .. Len(due) : due[i] = due[j] => i = j
    /\ \A i \in 1 .. Len(due) : status[due[i]] # "Settled"

LEMMA PlaceIs ==
    ASSUME NEW a, IsDue(a)
    PROVE  Place(a) \in 1 .. Len(due) /\ due[Place(a)] = a
  BY DEF IsDue, Place

(* An attempt that leaves the order is gone, and the others stay in it as  *)
(* they are.                                                               *)
LEMMA WithoutIs ==
    ASSUME DueInv, NEW a \in Attempts
    PROVE  /\ DueWithout(a) \in Seq(Attempts)
           /\ \A i, j \in 1 .. Len(DueWithout(a)) :
                 DueWithout(a)[i] = DueWithout(a)[j] => i = j
           /\ \A i \in 1 .. Len(DueWithout(a)) :
                 DueWithout(a)[i] # a /\ \E j \in 1 .. Len(due) : DueWithout(a)[i] = due[j]
<1>1. CASE ~IsDue(a)
  BY <1>1 DEF DueInv, IsDue, DueWithout
<1>2. CASE IsDue(a)
  <2> DEFINE p == Place(a)
             n == Len(due) - 1
             at(i) == IF i < p THEN i ELSE i + 1
             rest == [i \in 1 .. n |-> due[at(i)]]
  <2>1. p \in 1 .. Len(due) /\ due[p] = a /\ n \in Nat /\ Len(due) = n + 1
    BY <1>2, PlaceIs DEF DueInv
  <2> HIDE DEF p
  <2>2. \A i \in 1 .. n : at(i) \in 1 .. Len(due) /\ at(i) # p
    BY <2>1
  <2>3. \A i, j \in 1 .. n : at(i) = at(j) => i = j
    BY <2>1
  <2>4. DueWithout(a) = rest
    <3>1. \A i \in 1 .. n : (IF i < p THEN due[i] ELSE due[i + 1]) = due[at(i)]
      OBVIOUS
    <3> QED
      BY <1>2, <3>1 DEF DueWithout, p
  <2> HIDE DEF n, at
  <2>5. rest \in Seq(Attempts) /\ Len(rest) = n /\ \A i \in 1 .. n : rest[i] = due[at(i)]
    BY <2>1, <2>2 DEF DueInv
  <2> HIDE DEF rest
  <2>6. \A i, j \in 1 .. n : rest[i] = rest[j] => i = j
    BY <2>2, <2>3, <2>5 DEF DueInv
  <2>7. \A i \in 1 .. n : rest[i] # a /\ \E j \in 1 .. Len(due) : rest[i] = due[j]
    BY <2>1, <2>2, <2>5 DEF DueInv
  <2> QED
    BY <2>4, <2>5, <2>6, <2>7
<1> QED
  BY <1>1, <1>2

LEMMA DueStays == TypeOK /\ [Next]_vars => DueInv'
<1> SUFFICES ASSUME TypeOK, [Next]_vars PROVE DueInv'
  OBVIOUS
<1>1. DueInv
  BY DEF TypeOK, DueInv
<1>2. CASE UNCHANGED <<status, due>>
  BY <1>1, <1>2 DEF DueInv
<1>3. ASSUME NEW a \in Attempts, BecomesDue(a) PROVE DueInv'
  <2>1. /\ due' = Append(due, a) /\ status' = status /\ status[a] # "Settled"
        /\ \A i \in 1 .. Len(due) : due[i] # a
    BY <1>3 DEF BecomesDue, IsDue
  <2>2. /\ due' \in Seq(Attempts) /\ Len(due') = Len(due) + 1 /\ Len(due) \in Nat
        /\ \A i \in 1 .. Len(due') : due'[i] = IF i = Len(due) + 1 THEN a ELSE due[i]
    BY <1>1, <2>1 DEF DueInv
  <2>3. \A i \in 1 .. Len(due') : i = Len(due) + 1 \/ i \in 1 .. Len(due)
    BY <2>2
  <2> QED
    BY <1>1, <2>1, <2>2, <2>3 DEF DueInv
<1>4. ASSUME NEW a \in Attempts, Answered(a) PROVE DueInv'
  <2>1. due' = DueWithout(a) /\ \A b \in Attempts : b # a => status'[b] = status[b]
    BY <1>4 DEF Answered, TypeOK
  <2>2. \A i \in 1 .. Len(due) : due[i] \in Attempts
    BY <1>1 DEF DueInv
  <2>3. /\ due' \in Seq(Attempts)
        /\ \A i, j \in 1 .. Len(due') : due'[i] = due'[j] => i = j
        /\ \A i \in 1 .. Len(due') : due'[i] # a /\ \E j \in 1 .. Len(due) : due'[i] = due[j]
    BY <1>1, <2>1, WithoutIs
  <2>4. \A i \in 1 .. Len(due') : status'[due'[i]] # "Settled"
    BY <1>1, <2>1, <2>2, <2>3 DEF DueInv
  <2> QED
    BY <2>3, <2>4 DEF DueInv
<1> QED
  BY <1>2, <1>3, <1>4 DEF Next, vars, GrowsOld, CheckElsewhere, PaidByAnother, Check,
     CheckChangesNothing, ReadSession, Alert, AlertIsMoot, AlertFails, HandlesUnpaid,
     Start, EndRun, Killed

(* What a run has left and what it has handled fit in a batch.             *)
RunInv == run \in RunType /\ Len(run.left) + run.handled <= BatchSize

LEMMA HandlesInBatch ==
    ASSUME RunInv, NEW a \in Attempts, Handles(a)
    PROVE  RunInv' /\ run'.job = run.job
<1>1. /\ run.left \in Seq(Attempts) /\ run.left # <<>> /\ run.handled \in Nat
      /\ run.job \in Jobs \cup {"none"}
  BY DEF RunInv, RunType, Handles
<1>2. Tail(run.left) \in Seq(Attempts) /\ Len(Tail(run.left)) = Len(run.left) - 1
  BY <1>1
<1>3. run' = [job |-> run.job, left |-> Tail(run.left), handled |-> run.handled + 1,
              session |-> "unread"]
  BY DEF Handles, RunInv, RunType
<1>4. run' \in RunType
  BY <1>1, <1>2, <1>3 DEF RunType
<1>5. Len(run'.left) + run'.handled = Len(run.left) + run.handled
  <2>1. run'.left = Tail(run.left) /\ run'.handled = run.handled + 1
    BY <1>3
  <2>2. Len(run.left) \in Nat
    BY <1>1
  <2> QED
    BY <1>1, <1>2, <2>1, <2>2
<1> QED
  BY <1>3, <1>4, <1>5 DEF RunInv

LEMMA RunStays == RunInv /\ [Next]_vars => RunInv'
<1> SUFFICES ASSUME RunInv, [Next]_vars PROVE RunInv'
  OBVIOUS
<1>1. CASE run' = run
  BY <1>1 DEF RunInv
<1>2. ASSUME NEW a \in Attempts, ReadSession(a) PROVE RunInv'
  <2>1. run' \in RunType /\ run'.left = run.left /\ run'.handled = run.handled
    BY <1>2 DEF ReadSession, RunInv, RunType
  <2> QED
    BY <2>1 DEF RunInv
<1>3. ASSUME NEW job \in Jobs, Start(job) PROVE RunInv'
  <2>1. PICK batch \in Batches(job) :
           run' = [job |-> job, left |-> batch, handled |-> 0, session |-> "unread"]
    BY <1>3 DEF Start
  <2>2. PICK n \in 1 .. BatchSize : batch \in [1 .. n -> Selected(job)]
    BY <2>1 DEF Batches, Limit
  <2>3. batch \in Seq(Attempts) /\ Len(batch) = n /\ n \in Nat /\ n <= BatchSize
    BY <2>2, SchedulerAssumption DEF Selected
  <2> QED
    BY <2>1, <2>3, SchedulerAssumption DEF RunInv, RunType
<1>4. CASE EndRun \/ Killed
  <2>1. run' = Idle
    BY <1>4 DEF EndRun, Killed
  <2>2. <<>> \in Seq(Attempts) /\ Len(<<>>) = 0
    OBVIOUS
  <2> QED
    BY <2>1, <2>2, SchedulerAssumption DEF RunInv, RunType, Idle
<1> QED
  BY <1>1, <1>2, <1>3, <1>4, HandlesInBatch DEF Next, vars, BecomesDue, GrowsOld,
     CheckElsewhere, PaidByAnother, Check, CheckChangesNothing, Alert, AlertIsMoot,
     AlertFails, HandlesUnpaid

(* Flags are set and not committed within a run of the alerts only.        *)
FlagTypes ==
    /\ superseded \subseteq Contested
    /\ alerted \subseteq Attempts /\ told \in [Attempts -> Nat]
    /\ unsaved \subseteq Attempts /\ (unsaved # {} => run.job = "send_daily_alerts")

LEMMA FlagTypesStay == TypeOK /\ [Next]_vars => FlagTypes'
<1> SUFFICES ASSUME TypeOK, [Next]_vars PROVE FlagTypes'
  OBVIOUS
<1>1. FlagTypes /\ RunInv
  BY DEF TypeOK, FlagTypes, RunInv
<1>2. CASE UNCHANGED <<alerted, told, unsaved>> /\ run' = run
           /\ superseded' \in {superseded} \cup {superseded \cup {a} : a \in Contested}
  BY <1>1, <1>2 DEF FlagTypes
<1>3. ASSUME NEW a \in Attempts, Handles(a), superseded' = superseded,
             alerted' \in {alerted, alerted \cup unsaved \cup {a}},
             told' \in {told, [told EXCEPT ![a] = @ + 1]},
             unsaved' \in {unsaved, {}}
                  \/ (run.job = "send_daily_alerts" /\ unsaved' = unsaved \cup {a})
      PROVE  FlagTypes'
  <2>1. run'.job = run.job
    BY <1>1, <1>3, HandlesInBatch
  <2>2. told' \in [Attempts -> Nat]
    BY <1>1, <1>3 DEF FlagTypes
  <2> QED
    BY <1>1, <1>3, <2>1, <2>2 DEF FlagTypes
<1>4. ASSUME NEW a \in Attempts, ReadSession(a) PROVE FlagTypes'
  BY <1>1, <1>4 DEF ReadSession, FlagTypes, RunInv, RunType
<1>5. ASSUME NEW job \in Jobs, Start(job) PROVE FlagTypes'
  <2>1. unsaved' = {} /\ UNCHANGED <<superseded, alerted, told>>
    BY <1>1, <1>5 DEF Start, Idle, FlagTypes
  <2> QED
    BY <1>1, <2>1 DEF FlagTypes
<1>6. CASE EndRun \/ Killed
  BY <1>1, <1>6 DEF EndRun, Killed, FlagTypes
<1>7. ASSUME NEW a \in Attempts,
             \/ BecomesDue(a) \/ GrowsOld(a) \/ CheckElsewhere(a) \/ PaidByAnother(a)
      PROVE  FlagTypes'
  BY <1>2, <1>7 DEF BecomesDue, GrowsOld, CheckElsewhere, PaidByAnother
<1>8. ASSUME NEW a \in Attempts,
             \/ Check(a) \/ CheckChangesNothing(a)
             \/ Alert(a) \/ AlertIsMoot(a) \/ AlertFails(a)
      PROVE  FlagTypes'
  BY <1>3, <1>8 DEF Check, CheckChangesNothing, Alert, AlertIsMoot, AlertFails, HandlesUnpaid
<1>9. CASE UNCHANGED vars
  BY <1>2, <1>9 DEF vars
<1> QED
  BY <1>4, <1>5, <1>6, <1>7, <1>8, <1>9 DEF Next

LEMMA AgesStay ==
    ASSUME TypeOK, [Next]_vars
    PROVE  /\ status' \in [Attempts -> {"InFlight", "Unresolved", "Settled"}]
           /\ age' \in [Attempts -> 0 .. 2]
<1>1. \/ UNCHANGED status
      \/ \E a \in Attempts : status' \in {[status EXCEPT ![a] = "Settled"], status,
                                            [status EXCEPT ![a] = "Unresolved"]}
  BY DEF Next, vars, BecomesDue, GrowsOld, CheckElsewhere, PaidByAnother, Check, Answered,
     CheckChangesNothing, ReadSession, Alert, AlertIsMoot, AlertFails, Start, EndRun, Killed,
     TypeOK
<1>2. \/ UNCHANGED age
      \/ \E a \in Attempts : age[a] < 2 /\ age' = [age EXCEPT ![a] = @ + 1]
  BY DEF Next, vars, BecomesDue, GrowsOld, CheckElsewhere, PaidByAnother, Check,
     CheckChangesNothing, ReadSession, Alert, AlertIsMoot, AlertFails, Start, EndRun, Killed
<1>3. status' \in [Attempts -> {"InFlight", "Unresolved", "Settled"}]
  BY <1>1 DEF TypeOK
<1>4. age' \in [Attempts -> 0 .. 2]
  <2>1. ASSUME NEW a \in Attempts, age[a] < 2, age' = [age EXCEPT ![a] = @ + 1]
        PROVE  age' \in [Attempts -> 0 .. 2]
    BY <2>1 DEF TypeOK
  <2> QED
    BY <1>2, <2>1 DEF TypeOK
<1> QED
  BY <1>3, <1>4

(* What is due is due once and is not settled; a run stays within its      *)
(* batch; flags wait for their commit in the daily job alone.              *)
THEOREM TypeCorrect == Spec => []TypeOK
<1>1. Init => TypeOK
  <2>1. <<>> \in Seq(Attempts) /\ Len(<<>>) = 0
    OBVIOUS
  <2> QED
    BY <2>1, SchedulerAssumption DEF Init, TypeOK, Idle, RunType
<1>2. TypeOK /\ [Next]_vars => TypeOK'
  <2> SUFFICES ASSUME TypeOK, [Next]_vars PROVE TypeOK'
    OBVIOUS
  <2>1. RunInv'
    BY RunStays DEF TypeOK, RunInv
  <2> QED
    BY <2>1, AgesStay, DueStays, FlagTypesStay DEF TypeOK, RunInv, DueInv, FlagTypes
<1> QED
  BY <1>1, <1>2, PTL DEF Spec

-----------------------------------------------------------------------------
(* Who is told.                                                            *)

(* However often the daily job is killed between two alerts, or an alert   *)
(* fails, the managers hear of an attempt at most once.                    *)
THEOREM AlertedOnce == Spec => []ToldOnce
<1>1. IInv => ToldOnce
  BY DEF IInv, ToldInv, ToldOnce
<1> QED
  BY <1>1, Invariant, PTL

(* No attempt keeps its flag unless the managers were told of it or there  *)
(* was nothing left to chase, whatever its session did meanwhile.          *)
THEOREM FlaggedWereTold == Spec => []FlagMeansTold
<1>1. IInv => FlagMeansTold
  BY DEF IInv, FlagInv, FlagMeansTold, Moot
<1> QED
  BY <1>1, Invariant, PTL
=============================================================================
