--------------------------- MODULE LocalPaymentSteps ---------------------------
(***************************************************************************)
(* What follows from the invariants of LocalPaymentProofs about the steps  *)
(* of LocalPayment, about the money received and about who is told, and    *)
(* that it implements Settlement.                                          *)
(***************************************************************************)
EXTENDS LocalPaymentProofs

-----------------------------------------------------------------------------
(* Transitions.                                                            *)

LegalRow(a) ==
    \/ rows'[a].status = rows[a].status
    \/ rows[a].status = "Absent" /\ rows'[a].status = "Initiated"
    \/ /\ rows[a].status # "Absent"
       /\ rows'[a].status \in AttemptTransitions[rows[a].status]

LegalSession ==
    \/ session'.status = session.status
    \/ session'.status \in SessionTransitions[session.status]

LEMMA RecordIsLegal ==
    ASSUME TypeInv, NEW w \in Workers, Record(w)
    PROVE  LegalSession /\ \A b \in Attempts : LegalRow(b)
<1>1. PICK a \in Attempts :
         \/ SettledMeanwhile(w)
         \/ OnlyRow(w, a) /\ (Pays(w, a) \/ PaysAgain(w, a) \/ OnlyClasses(w, a))
  BY RecordCases
<1>2. CASE SettledMeanwhile(w)
  BY <1>2 DEF SettledMeanwhile, LegalRow, LegalSession
<1>3. CASE OnlyRow(w, a) /\ (Pays(w, a) \/ PaysAgain(w, a) \/ OnlyClasses(w, a))
  <2>1. LegalRow(a) /\ \A b \in Attempts : b # a => rows'[b] = rows[b]
    BY <1>3 DEF OnlyRow, LegalRow, CheckableStates, TypeInv, TypeOK
  <2>2. \A b \in Attempts : LegalRow(b)
    BY <2>1 DEF LegalRow
  <2>3. CASE OnlyClasses(w, a)
    BY <2>2, <2>3 DEF OnlyClasses, LegalSession
  <2>4. CASE Pays(w, a) \/ PaysAgain(w, a)
    <3>1. session.status \in {"Open", "Paid"} /\ session'.status = "Paid"
      BY <2>4 DEF Pays, PaysAgain, PaidSession, TypeInv, TypeOK, SessionType
    <3> QED
      BY <2>2, <3>1 DEF LegalSession, SessionTransitions, SessionStatuses
  <2> QED
    BY <1>3, <2>3, <2>4
<1> QED
  BY <1>1, <1>2, <1>3

LEMMA StepIsLegal ==
    ASSUME TypeInv, [Next]_vars
    PROVE  LegalSession /\ \A b \in Attempts : LegalRow(b)
<1>1. CASE SameMoney
  BY <1>1 DEF SameMoney, SameRow, LegalSession, LegalRow
<1>2. ASSUME NEW w \in Workers, NEW a \in Attempts, OpenAttempt(w, a)
      PROVE  LegalSession /\ \A b \in Attempts : LegalRow(b)
  <2>1. /\ rows[a].status = "Absent" /\ rows'[a].status = "Initiated"
        /\ \A b \in Attempts : b # a => rows'[b] = rows[b]
        /\ session' = session
    BY <1>2 DEF OpenAttempt, TypeInv, TypeOK, RowType
  <2> QED
    BY <2>1 DEF LegalSession, LegalRow
<1>3. ASSUME NEW w \in Workers, RecordStart(w)
      PROVE  LegalSession /\ \A b \in Attempts : LegalRow(b)
  <2>1. PICK a \in Attempts : a = Attempt(w)
    BY <1>3 DEF TypeInv, Busy, AttemptPCs, RecordStart
  <2>2. /\ rows'[a] = RecordedStart(rows[a], At(w, "refused")) /\ session' = session
        /\ \A b \in Attempts : b # a => rows'[b] = rows[b]
    BY <1>3, <2>1 DEF RecordStart, TypeInv, TypeOK
  <2>3. \/ rows'[a].status = rows[a].status
        \/ rows[a].status = "Initiated" /\ rows'[a].status = "Error"
    BY <2>2 DEF RecordedStart, TypeInv, TypeOK, RowType
  <2>4. LegalRow(a)
    BY <2>3 DEF LegalRow, AttemptTransitions, AttemptStatuses
  <2> QED
    BY <2>2, <2>4 DEF LegalSession, LegalRow
<1>4. CASE VoidOpenSession
  <2>1. /\ rows' = rows /\ session.status = "Open" /\ session'.status = "Void"
    BY <1>4 DEF VoidOpenSession, TypeInv, TypeOK, SessionType
  <2> QED
    BY <2>1 DEF LegalSession, LegalRow, SessionTransitions, SessionStatuses
<1> QED
  BY <1>1, <1>2, <1>3, <1>4, RecordIsLegal, MoneyCases DEF MoneyNext

(* Every step of an attempt or of the session is in the code's transition  *)
(* tables, whatever answers come late and however often a session is paid. *)
THEOREM TransitionsAreLegal == Spec => LegalTransitions
<1>1. TypeInv /\ [Next]_vars =>
        [/\ \A a \in Attempts :
               \/ rows[a].status' = rows[a].status
               \/ rows[a].status = "Absent" /\ rows[a].status' = "Initiated"
               \/ /\ rows[a].status # "Absent"
                  /\ rows[a].status' \in AttemptTransitions[rows[a].status]
         /\ \/ session.status' = session.status
            \/ session.status' \in SessionTransitions[session.status]]_vars
  BY StepIsLegal DEF LegalRow, LegalSession
<1> QED
  BY <1>1, TypeInvariant, PTL DEF Spec, LegalTransitions

-----------------------------------------------------------------------------
(* Done is final.                                                          *)

LEMMA DoneStays ==
    ASSUME TypeInv, BookingInv, [Next]_vars, ~ConsumerCommits, session.authorization = "Done"
    PROVE  session'.authorization = "Done" \/ repaid'
<1> USE DEF BookingInv
<1>1. CASE session' = session
  BY <1>1
<1>2. ASSUME NEW w \in Workers, Record(w)
      PROVE  session'.authorization = "Done" \/ repaid'
  <2>1. PICK a \in Attempts :
           \/ SettledMeanwhile(w)
           \/ OnlyRow(w, a) /\ (Pays(w, a) \/ PaysAgain(w, a) \/ OnlyClasses(w, a))
    BY <1>2, RecordCases
  <2>2. ~Pays(w, a)
    BY DEF Pays, NothingToAuthorize
  <2> QED
    BY <2>1, <2>2 DEF SettledMeanwhile, PaysAgain, OnlyClasses
<1>3. ASSUME NEW w \in Workers,
             ConsumerReturns(w) \/ AlertFailure(w) \/ AlertExhausted(w)
      PROVE  session'.authorization = "Done"
  BY <1>3, DoneFields DEF AlertFailure, AlertExhausted, TypeInv, TypeOK, SessionType
<1>4. ASSUME NEW w \in Workers, NEW transient \in BOOLEAN, ConsumerRaises(w, transient)
      PROVE  FALSE
  BY <1>4 DEF ConsumerRaises, ConsumingAlone
<1>5. CASE VoidOpenSession \/ RetryDateComes
  BY <1>5 DEF VoidOpenSession, RetryDateComes, TypeInv, TypeOK, SessionType
<1>6. ASSUME NEW w \in Workers, Authorize(w) \/ ConsumerCommitsEarly(w)
      PROVE  session' = session
  BY <1>6 DEF Authorize, ConsumerCommitsEarly
<1> QED
  BY <1>1, <1>2, <1>3, <1>4, <1>5, <1>6, BookingCases DEF BookingNext, SameBooking

(* No late failure, stale retry or stale answer takes Done back, unless a  *)
(* result was taken as paying a session already Paid, or the consumer let  *)
(* go of the row lock.                                                     *)
THEOREM BookedStaysBooked == Spec => DoneIsFinal
<1>1. TypeInv /\ BookingInv /\ [Next]_vars =>
        [session.authorization = "Done" /\ ~ConsumerCommits
            => session'.authorization = "Done" \/ repaid']_vars
  BY DoneStays
<1> QED
  BY <1>1, TypeInvariant, BookingInvariant, PTL DEF Spec, DoneIsFinal

-----------------------------------------------------------------------------
(* What pays a session is in full.                                         *)

(* The provider takes no confirmed payment back.                           *)
LEMMA ConfirmedStays ==
    ASSUME TypeInv, [Next]_vars, NEW b \in Attempts, provider[b] = "Succeeded"
    PROVE  provider'[b] = "Succeeded"
<1>1. CASE provider' = provider
  BY <1>1
<1>2. ASSUME NEW a \in Attempts, NEW p, provider' = [provider EXCEPT ![a] = p],
             provider[a] # "Succeeded"
      PROVE  provider'[b] = "Succeeded"
  BY <1>2 DEF TypeInv, TypeOK
<1>3. ASSUME NEW a \in Attempts, LoseTrackOf(a) PROVE provider'[b] = "Succeeded"
  BY <1>1, <1>2, <1>3 DEF LoseTrackOf
<1>4. ASSUME NEW w \in Workers, worker[w].pc = "sending" PROVE Attempt(w) \in Attempts
  BY <1>4 DEF TypeInv, Busy, AttemptPCs
<1>5. ASSUME NEW w \in Workers, StartStep(w) PROVE provider'[b] = "Succeeded"
  BY <1>1, <1>2, <1>3, <1>4, <1>5 DEF StartStep, OpenAttempt, RequestArrives, SendAccepted,
     SendRefused, SendUnanswered, RecordStart, At
<1>6. ASSUME NEW w \in Workers, CheckStep(w) PROVE provider'[b] = "Succeeded"
  BY <1>1, <1>6 DEF CheckStep, GuestCheck, ScheduledCheck, Claim, Hear, Record, Tell
<1>7. ASSUME NEW w \in Workers, AuthorizeStep(w) PROVE provider'[b] = "Succeeded"
  BY <1>1, <1>7 DEF AuthorizeStep, BeginAuthorize, ScheduledRetry, ManagerRetry, Authorize,
     ConsumerCommitsEarly, ConsumerReturns, ConsumerRaises, AlertFailure, SelectExhausted,
     AlertExhausted
<1>8. ASSUME NEW w \in Workers, Abandon(w) PROVE provider'[b] = "Succeeded"
  BY <1>1, <1>3, <1>4, <1>8 DEF Abandon, At
<1>9. ASSUME NEW a \in Attempts, ProviderStep(a) PROVE provider'[b] = "Succeeded"
  BY <1>2, <1>9 DEF ProviderStep, LateArrival, Decide
<1>10. ASSUME NEW a \in Attempts, TimeStep(a) PROVE provider'[b] = "Succeeded"
  BY <1>1, <1>10 DEF TimeStep, CheckDateComes, CheckIntervalPasses, DeadlinePasses
<1>11. CASE VoidOpenSession \/ RetryDateComes \/ UNCHANGED vars
  BY <1>1, <1>11 DEF VoidOpenSession, RetryDateComes, vars
<1> QED
  BY <1>5, <1>6, <1>7, <1>8, <1>9, <1>10, <1>11 DEF Next

(* Only an answer recorded pays a session, or gives it a transaction.      *)
LEMMA OnlyRecordPays ==
    ASSUME TypeInv, [Next]_vars, \A w \in Workers : ~Record(w)
    PROVE  /\ \A b \in Attempts : Paying(b)' => Paying(b)
           /\ session'.status = "Paid" => session.status = "Paid"
           /\ session'.transaction = session.transaction
           /\ repaid' = repaid
<1>1. session'.transaction = session.transaction /\ repaid' = repaid
  <2>1. CASE UNCHANGED <<session, repaid>>
    BY <2>1
  <2>2. ASSUME NEW w \in Workers, Authorize(w) \/ ConsumerCommitsEarly(w)
        PROVE  UNCHANGED <<session, repaid>>
    BY <2>2 DEF Authorize, ConsumerCommitsEarly
  <2>3. ASSUME NEW w \in Workers, ConsumerReturns(w) \/ AlertFailure(w) \/ AlertExhausted(w)
        PROVE  session'.transaction = session.transaction /\ repaid' = repaid
    BY <2>3, DoneFields
       DEF ConsumerReturns, AlertFailure, AlertExhausted, TypeInv, TypeOK, SessionType
  <2>4. ASSUME NEW w \in Workers, NEW transient \in BOOLEAN, ConsumerRaises(w, transient)
        PROVE  session'.transaction = session.transaction /\ repaid' = repaid
    BY <2>4 DEF ConsumerRaises, FailedSession, TypeInv, TypeOK, SessionType
  <2>5. CASE VoidOpenSession \/ RetryDateComes
    BY <2>5 DEF VoidOpenSession, RetryDateComes, TypeInv, TypeOK, SessionType
  <2> QED
    BY <2>1, <2>2, <2>3, <2>4, <2>5, BookingCases DEF BookingNext, SameBooking
<1>2. CASE SameMoney
  BY <1>1, <1>2 DEF SameMoney, SameRow, Paying
<1>3. ASSUME NEW w \in Workers, NEW a \in Attempts, OpenAttempt(w, a)
      PROVE  session' = session /\ \A b \in Attempts : Paying(b)' => Paying(b)
  BY <1>3 DEF OpenAttempt, TypeInv, TypeOK, RowType, Paying
<1>4. ASSUME NEW w \in Workers, RecordStart(w)
      PROVE  session' = session /\ \A b \in Attempts : Paying(b)' => Paying(b)
  <2>1. PICK a \in Attempts : a = Attempt(w)
    BY <1>4 DEF TypeInv, Busy, AttemptPCs, RecordStart
  <2>2. /\ rows'[a] = RecordedStart(rows[a], At(w, "refused")) /\ session' = session
        /\ \A b \in Attempts : b # a => rows'[b] = rows[b]
    BY <1>4, <2>1 DEF RecordStart, TypeInv, TypeOK
  <2>3. rows'[a].status = "Succeeded" => rows'[a] = rows[a]
    BY <2>2 DEF RecordedStart, TypeInv, TypeOK, RowType
  <2> QED
    BY <2>2, <2>3 DEF Paying
<1>5. CASE VoidOpenSession
  <2>1. rows' = rows /\ session'.status = "Void"
    BY <1>5 DEF VoidOpenSession, TypeInv, TypeOK, SessionType
  <2> QED
    BY <1>1, <2>1 DEF Paying
<1> QED
  BY <1>1, <1>2, <1>3, <1>4, <1>5, MoneyCases DEF MoneyNext

LEMMA PaidInFullStep ==
    ASSUME TypeInv, MoneyInv, ProviderInv, PaidInFull, [Next]_vars
    PROVE  PaidInFull'
<1>1. CASE \A w \in Workers : ~Record(w)
  BY <1>1, OnlyRecordPays, ConfirmedStays DEF PaidInFull
<1>2. ASSUME NEW w \in Workers, Record(w) PROVE PaidInFull'
  <2>1. PICK a \in Attempts :
           /\ a = worker[w].attempt /\ provider' = provider
           /\ \/ SettledMeanwhile(w)
              \/ OnlyRow(w, a) /\ (Pays(w, a) \/ PaysAgain(w, a) \/ OnlyClasses(w, a))
    BY <1>2, RecordCases DEF Attempt
  <2>2. CASE SettledMeanwhile(w)
    BY <2>1, <2>2 DEF SettledMeanwhile, PaidInFull, Paying
  <2>3. CASE OnlyRow(w, a) /\ (Pays(w, a) \/ PaysAgain(w, a) \/ OnlyClasses(w, a))
    <3>1. \A b \in Attempts : b # a => (Paying(b)' <=> Paying(b))
      BY <2>3 DEF OnlyRow, Paying, TypeInv, TypeOK
    <3>2. CASE Pays(w, a)
      <4>1. \A b \in Attempts : Paying(b)' => b = a
        BY <3>1, <3>2 DEF Pays, MoneyInv, PaidByOne
      <4>2. provider[a] = "Succeeded"
        BY <1>2, <2>1, <3>2 DEF Pays, ProviderInv, AnswersHold, StillTrue, Record, At
      <4>3. session'.transaction = a
        BY <3>2 DEF Pays, PaidSession, TypeInv, TypeOK, SessionType
      <4> QED
        BY <2>1, <4>1, <4>2, <4>3 DEF PaidInFull
    <3>3. CASE PaysAgain(w, a)
      <4>1. ~Paying(a)' /\ session.status = "Paid" /\ repaid'
        BY <3>3 DEF PaysAgain, Paying
      <4> QED
        BY <2>1, <3>1, <4>1 DEF PaidInFull
    <3>4. CASE OnlyClasses(w, a)
      <4>1. session.status = "Paid" => ~Paying(a)'
        BY <3>4 DEF OnlyClasses, Paying
      <4> QED
        BY <2>1, <3>1, <3>4, <4>1 DEF PaidInFull, OnlyClasses
    <3> QED
      BY <2>3, <3>2, <3>3, <3>4
  <2> QED
    BY <2>1, <2>2, <2>3
<1> QED
  BY <1>1, <1>2

(* What pays a session is a payment the provider confirmed in full, and    *)
(* the session carries its transaction unless a result was taken as paying *)
(* it again.                                                               *)
THEOREM PaidIsInFull == Spec => []PaidInFull
<1>1. Init => PaidInFull
  BY DEF Init, PaidInFull
<1> QED
  BY <1>1, PaidInFullStep, TypeInvariant, MoneyInvariant, ProviderInvariant, PTL DEF Spec

-----------------------------------------------------------------------------
(* Managers hear once that the tries are used up.                          *)

WarnedByOne ==
    /\ \A v, w \in Workers : At(v, "warning") /\ At(w, "warning") => v = w
    /\ \A w \in Workers : At(w, "warning") => ~session.exhausted
    /\ \A copy \in copies : copy.exhausted => session.exhausted

(* The flag stays as it is, but for one that a copy's save takes back.     *)
LEMMA FlagCases ==
    ASSUME TypeInv, [Next]_vars, \A w \in Workers : ~AlertExhausted(w)
    PROVE  \/ session'.exhausted = session.exhausted
           \/ \E w \in Workers :
                 /\ ConsumerReturns(w) /\ At(w, "committed")
                 /\ \E copy \in copies : session'.exhausted = copy.exhausted
<1> DEFINE Kept == session'.exhausted = session.exhausted
<1>1. CASE session' = session
  BY <1>1
<1>2. ASSUME NEW w \in Workers, Record(w) PROVE Kept
  <2>1. \/ session' = session
        \/ \E a, result : session' = PaidSession(a, result)
        \/ \E s : session' = [session EXCEPT !.status = s]
    BY <1>2 DEF Record, Apply
  <2> QED
    BY <2>1 DEF PaidSession, TypeInv, TypeOK, SessionType
<1>3. ASSUME NEW w \in Workers, AlertFailure(w) PROVE Kept
  BY <1>3 DEF AlertFailure, TypeInv, TypeOK, SessionType
<1>4. ASSUME NEW w \in Workers, NEW transient \in BOOLEAN, ConsumerRaises(w, transient)
      PROVE  Kept
  BY <1>4 DEF ConsumerRaises, FailedSession, TypeInv, TypeOK, SessionType
<1>5. CASE VoidOpenSession \/ RetryDateComes
  BY <1>5 DEF VoidOpenSession, RetryDateComes, TypeInv, TypeOK, SessionType
<1>6. ASSUME NEW w \in Workers, Authorize(w) \/ ConsumerCommitsEarly(w) PROVE Kept
  BY <1>6 DEF Authorize, ConsumerCommitsEarly
<1> QED
  BY <1>1, <1>2, <1>3, <1>4, <1>5, <1>6, DoneFields, BookingCases
     DEF BookingNext, SameBooking

(* A copy is made of the session as it is.                                 *)
LEMMA CopyCases ==
    ASSUME TypeInv, [Next]_vars, NEW copy \in copies'
    PROVE  \/ copy \in copies /\ \A w \in Workers : ~ConsumerReturns(w)
           \/ copy.exhausted = session.exhausted /\ session' = session
<1>1. CASE \E w \in Workers : ConsumerReturns(w)
  BY <1>1 DEF ConsumerReturns, SaveSession
<1>2. ASSUME NEW w \in Workers, ConsumerCommitsEarly(w)
      PROVE  \/ copy \in copies
             \/ copy.exhausted = session.exhausted /\ session' = session
  BY <1>2 DEF ConsumerCommitsEarly
<1>3. CASE copies' = copies \/ copies' = {}
  BY <1>1, <1>3
<1>4. ASSUME NEW w \in Workers, Abandon(w) PROVE copy \in copies
  BY <1>4 DEF Abandon
<1>5. ASSUME NEW w \in Workers, StartStep(w) \/ CheckStep(w)
      PROVE  copies' = copies \/ copies' = {}
  BY <1>5 DEF StartStep, OpenAttempt, RequestArrives, SendAccepted, SendRefused,
     SendUnanswered, RecordStart, CheckStep, GuestCheck, ScheduledCheck, Claim, Hear, Record,
     Tell, SaveSession
<1>6. ASSUME NEW w \in Workers, AuthorizeStep(w)
      PROVE  \/ copies' = copies \/ copies' = {} \/ ConsumerCommitsEarly(w)
  BY <1>6 DEF AuthorizeStep, BeginAuthorize, ScheduledRetry, ManagerRetry, Authorize,
     ConsumerReturns, ConsumerRaises, AlertFailure, SelectExhausted, AlertExhausted,
     SaveSession
<1>7. ASSUME NEW a \in Attempts, ProviderStep(a) \/ TimeStep(a) PROVE copies' = copies
  BY <1>7 DEF ProviderStep, LateArrival, Decide, TimeStep, CheckDateComes,
     CheckIntervalPasses, DeadlinePasses
<1>8. CASE VoidOpenSession \/ RetryDateComes \/ UNCHANGED vars
  BY <1>3, <1>8 DEF VoidOpenSession, RetryDateComes, SaveSession, vars
<1> QED
  BY <1>1, <1>2, <1>3, <1>4, <1>5, <1>6, <1>7, <1>8 DEF Next

SameWarning ==
    /\ session'.exhausted => session.exhausted
    /\ \A v \in Workers : worker'[v].pc = "warning" => worker[v].pc = "warning"

LEMMA WarningCases ==
    ASSUME TypeInv, WarnedByOne, [Next]_vars,
           \A w \in Workers : ~SelectExhausted(w) /\ ~AlertExhausted(w)
    PROVE  SameWarning
<1>1. session'.exhausted => session.exhausted
  BY FlagCases DEF WarnedByOne
<1>2. ASSUME NEW v \in Workers, worker'[v].pc = "warning" PROVE worker[v].pc = "warning"
  <2>1. CASE worker' = worker
    BY <1>2, <2>1
  <2>2. ASSUME NEW w \in Workers,
               \/ Finish(w)
               \/ \E pc \in PCs \ {"warning"} : Enter(w, pc) \/ Go(w, pc)
        PROVE  worker[v].pc = "warning"
    BY <1>2, <2>2, FinishMoves, EnterMoves, GoMoves, IdleType
  <2>3. ASSUME NEW w \in Workers, NEW a \in Attempts, OpenAttempt(w, a) \/ Claim(w, a)
        PROVE  worker[v].pc = "warning"
    BY <1>2, <2>3 DEF OpenAttempt, Claim, TypeInv, TypeOK, WorkerType
  <2>4. ASSUME NEW w \in Workers, Hear(w) PROVE worker[v].pc = "warning"
    BY <1>2, <2>4 DEF Hear, TypeInv, TypeOK, WorkerType
  <2>5. ASSUME NEW w \in Workers, Record(w) PROVE worker[v].pc = "warning"
    <3>1. \/ Finish(w)
          \/ \E x, r : worker' = [worker EXCEPT ![w] = AfterRecord(x, r)]
      BY <2>5 DEF Record, Apply
    <3>2. ASSUME NEW x, NEW r PROVE AfterRecord(x, r).pc # "warning"
      BY IdleType DEF AfterRecord, WorkerType
    <3> QED
      BY <1>2, <3>1, <3>2, FinishMoves, IdleType DEF TypeInv, TypeOK
  <2>6. ASSUME NEW w \in Workers, StartStep(w) PROVE worker[v].pc = "warning"
    BY <2>1, <2>2, <2>3, <2>6 DEF StartStep, RequestArrives, SendAccepted, SendRefused,
       SendUnanswered, RecordStart, PCs
  <2>7. ASSUME NEW w \in Workers, CheckStep(w) PROVE worker[v].pc = "warning"
    BY <2>2, <2>3, <2>4, <2>5, <2>7 DEF CheckStep, GuestCheck, ScheduledCheck, Tell
  <2>8. ASSUME NEW w \in Workers, AuthorizeStep(w) PROVE worker[v].pc = "warning"
    BY <2>2, <2>8 DEF AuthorizeStep, BeginAuthorize, ScheduledRetry, ManagerRetry, Authorize,
       ConsumerCommitsEarly, ConsumerReturns, ConsumerRaises, AlertFailure, PCs
  <2>9. ASSUME NEW w \in Workers, Abandon(w) PROVE worker[v].pc = "warning"
    BY <2>2, <2>9 DEF Abandon
  <2>10. ASSUME NEW a \in Attempts, ProviderStep(a) \/ TimeStep(a)
         PROVE  worker[v].pc = "warning"
    BY <2>1, <2>10 DEF ProviderStep, LateArrival, Decide, TimeStep, CheckDateComes,
       CheckIntervalPasses, DeadlinePasses
  <2>11. CASE VoidOpenSession \/ RetryDateComes \/ UNCHANGED vars
    BY <2>1, <2>11 DEF VoidOpenSession, RetryDateComes, vars
  <2> QED
    BY <2>6, <2>7, <2>8, <2>9, <2>10, <2>11 DEF Next
<1> QED
  BY <1>1, <1>2 DEF SameWarning

LEMMA WarnedByOneStep ==
    ASSUME TypeInv, WarnedByOne, [Next]_vars
    PROVE  WarnedByOne'
<1> DEFINE One == /\ \A v, w \in Workers : At(v, "warning") /\ At(w, "warning") => v = w
                  /\ \A w \in Workers : At(w, "warning") => ~session.exhausted
<1>1. ASSUME \A w \in Workers : ~SelectExhausted(w) /\ ~AlertExhausted(w) PROVE One'
  BY <1>1, WarningCases DEF WarnedByOne, SameWarning, At
<1>2. ASSUME NEW w \in Workers, SelectExhausted(w) PROVE One'
  BY <1>2, EnterMoves DEF SelectExhausted, At
<1>3. ASSUME NEW w \in Workers, AlertExhausted(w) PROVE One' /\ session'.exhausted
  <2>1. \A v \in Workers : worker'[v].pc # "warning"
    BY <1>3, FinishMoves, IdleType DEF AlertExhausted, WarnedByOne, At
  <2>2. session'.exhausted
    BY <1>3 DEF AlertExhausted, TypeInv, TypeOK, SessionType
  <2> QED
    BY <2>1, <2>2 DEF At
<1>4. ASSUME NEW copy \in copies', copy.exhausted PROVE session'.exhausted
  <2>1. CASE copy.exhausted = session.exhausted /\ session' = session
    BY <1>4, <2>1
  <2>2. CASE copy \in copies /\ \A w \in Workers : ~ConsumerReturns(w)
    BY <1>3, <1>4, <2>2, FlagCases DEF WarnedByOne
  <2> QED
    BY <1>4, <2>1, <2>2, CopyCases
<1>5. One'
  BY <1>1, <1>2, <1>3 DEF WarnedByOne
<1> QED
  BY <1>4, <1>5 DEF WarnedByOne

(* However processes die and the daily job runs again, the alert that an   *)
(* authorization has used up its tries goes out unflagged only, and only a *)
(* consumer that has committed on its own takes its flag back, with Done   *)
(* (send_daily_alerts, authorize's save).                                  *)
THEOREM ExhaustionIsToldOnce == Spec => ExhaustionToldOnce
<1>1. Init => WarnedByOne
  BY DEF Init, WarnedByOne, Idle, At
<1>2. ASSUME TypeInv, WarnedByOne, [Next]_vars
      PROVE  /\ \A w \in Workers : AlertExhausted(w) => ~session.exhausted
             /\ session.exhausted =>
                   \/ session'.exhausted
                   \/ /\ session'.authorization = "Done"
                      /\ \E w \in Workers : At(w, "committed") /\ ~At(w, "committed")'
  <2>1. ASSUME NEW w \in Workers, AlertExhausted(w)
        PROVE  ~session.exhausted /\ session'.exhausted
    BY <1>2, <2>1 DEF WarnedByOne, AlertExhausted, TypeInv, TypeOK, SessionType
  <2>2. ASSUME NEW w \in Workers, ConsumerReturns(w)
        PROVE  session'.authorization = "Done" /\ ~At(w, "committed")'
    <3>1. worker'[w] = Idle
      BY <1>2, <2>2, FinishMoves DEF ConsumerReturns
    <3> QED
      BY <1>2, <2>2, <3>1, DoneFields, IdleType DEF At
  <2> QED
    BY <1>2, <2>1, <2>2, FlagCases
<1> QED
  BY <1>1, <1>2, WarnedByOneStep, TypeInvariant, PTL DEF Spec, ExhaustionToldOnce

-----------------------------------------------------------------------------
(* Money that does not pay the session is told, once.                      *)

IsSurplus(a) == rows[a].status = "Succeeded" /\ ~(Paying(a) /\ session.status = "Paid")

Tells(v, a) == worker[v].pc = "telling" /\ worker[v].attempt = a

(* Who is about to tell of an attempt, and what was told, follow from the  *)
(* attempt being surplus.                                                  *)
ToldByOne ==
    \A a \in Attempts :
        /\ \A v, w \in Workers : Tells(v, a) /\ Tells(w, a) => v = w
        /\ \A v \in Workers : Tells(v, a) => IsSurplus(a) /\ alerts[a] = "None"
        /\ IsSurplus(a) /\ alerts[a] = "None" => \E v \in Workers : Tells(v, a)
        /\ alerts[a] # "None" => IsSurplus(a)

LEMMA SurplusStays ==
    ASSUME TypeInv, [Next]_vars, \A w \in Workers : ~Record(w), NEW b \in Attempts
    PROVE  /\ IsSurplus(b)' <=> IsSurplus(b)
           /\ rows'[b].status = "Succeeded" <=> rows[b].status = "Succeeded"
<1>1. CASE SameMoney
  BY <1>1 DEF SameMoney, SameRow, IsSurplus, Paying
<1>2. CASE rows'[b] = rows[b] /\ session' = session
  BY <1>2 DEF IsSurplus, Paying
<1>3. CASE rows[b].status # "Succeeded" /\ rows'[b].status # "Succeeded"
  BY <1>3 DEF IsSurplus
<1>4. ASSUME NEW w \in Workers, NEW a \in Attempts, OpenAttempt(w, a)
      PROVE  \/ rows'[b] = rows[b] /\ session' = session
             \/ rows[b].status # "Succeeded" /\ rows'[b].status # "Succeeded"
  BY <1>4 DEF OpenAttempt, TypeInv, TypeOK, RowType
<1>5. ASSUME NEW w \in Workers, RecordStart(w)
      PROVE  \/ rows'[b] = rows[b] /\ session' = session
             \/ rows[b].status # "Succeeded" /\ rows'[b].status # "Succeeded"
  <2>1. PICK a \in Attempts : a = Attempt(w)
    BY <1>5 DEF TypeInv, Busy, AttemptPCs, RecordStart
  <2>2. /\ rows'[a] = RecordedStart(rows[a], At(w, "refused")) /\ session' = session
        /\ b # a => rows'[b] = rows[b]
    BY <1>5, <2>1 DEF RecordStart, TypeInv, TypeOK
  <2>3. \/ rows'[a] = rows[a]
        \/ rows[a].status # "Succeeded" /\ rows'[a].status # "Succeeded"
    BY <2>2 DEF RecordedStart, TypeInv, TypeOK, RowType
  <2> QED
    BY <2>2, <2>3
<1>6. CASE VoidOpenSession
  <2>1. rows' = rows /\ session.status = "Open" /\ session'.status = "Void"
    BY <1>6 DEF VoidOpenSession, TypeInv, TypeOK, SessionType
  <2> QED
    BY <2>1 DEF IsSurplus
<1> QED
  BY <1>1, <1>2, <1>3, <1>4, <1>5, <1>6, MoneyCases DEF MoneyNext

(* Most steps concern no process that is telling, before or after.         *)
SameTelling ==
    /\ alerts' = alerts
    /\ \A v \in Workers :
          \/ worker'[v] = worker[v]
          \/ worker[v].pc # "telling" /\ worker'[v].pc # "telling"

LEMMA TellingCases ==
    ASSUME TypeInv, [Next]_vars,
           \A w \in Workers : ~Record(w) /\ ~Tell(w) /\ ~Abandon(w)
    PROVE  SameTelling
<1>1. alerts' = alerts
  BY DEF Next, vars, StartStep, OpenAttempt, RequestArrives, SendAccepted, SendRefused,
     SendUnanswered, RecordStart, CheckStep, GuestCheck, ScheduledCheck, Claim, Hear,
     AuthorizeStep, BeginAuthorize, ScheduledRetry, ManagerRetry, Authorize,
     ConsumerCommitsEarly, ConsumerReturns, ConsumerRaises, AlertFailure, SelectExhausted,
     AlertExhausted, ProviderStep, LateArrival, Decide, TimeStep, CheckDateComes,
     CheckIntervalPasses, DeadlinePasses, VoidOpenSession, RetryDateComes
<1>2. CASE worker' = worker
  BY <1>1, <1>2 DEF SameTelling
<1>3. ASSUME NEW w \in Workers, worker[w].pc # "telling",
             \/ Finish(w)
             \/ \E pc \in PCs \ {"telling"} : Enter(w, pc) \/ Go(w, pc)
      PROVE  SameTelling
  BY <1>1, <1>3, FinishMoves, EnterMoves, GoMoves, IdleType DEF SameTelling
<1>4. ASSUME NEW w \in Workers, NEW a \in Attempts, OpenAttempt(w, a) \/ Claim(w, a)
      PROVE  SameTelling
  BY <1>1, <1>4 DEF OpenAttempt, Claim, At, TypeInv, TypeOK, WorkerType, SameTelling
<1>5. ASSUME NEW w \in Workers, Hear(w) PROVE SameTelling
  BY <1>1, <1>5 DEF Hear, At, TypeInv, TypeOK, WorkerType, SameTelling
<1>6. ASSUME NEW w \in Workers, StartStep(w) PROVE SameTelling
  BY <1>2, <1>3, <1>4, <1>6 DEF StartStep, RequestArrives, SendAccepted, SendRefused,
     SendUnanswered, RecordStart, At, PCs
<1>7. ASSUME NEW w \in Workers, CheckStep(w) PROVE SameTelling
  BY <1>4, <1>5, <1>7 DEF CheckStep, GuestCheck, ScheduledCheck
<1>8. ASSUME NEW w \in Workers, AuthorizeStep(w) PROVE SameTelling
  BY <1>3, <1>8 DEF AuthorizeStep, BeginAuthorize, ScheduledRetry, ManagerRetry, Authorize,
     ConsumerCommitsEarly, ConsumerReturns, ConsumerRaises, AlertFailure, SelectExhausted,
     AlertExhausted, At, PCs
<1>9. ASSUME NEW a \in Attempts, ProviderStep(a) \/ TimeStep(a) PROVE worker' = worker
  BY <1>9 DEF ProviderStep, LateArrival, Decide, TimeStep, CheckDateComes,
     CheckIntervalPasses, DeadlinePasses
<1>10. CASE VoidOpenSession \/ RetryDateComes \/ UNCHANGED vars
  BY <1>2, <1>10 DEF VoidOpenSession, RetryDateComes, vars
<1> QED
  BY <1>2, <1>6, <1>7, <1>8, <1>9, <1>10 DEF Next

(* resolve asks for an alert exactly when the money does not pay.          *)
DoesNotPay(r) ==
    /\ r.attempt_status = "Succeeded"
    /\ r.duplicate \/ r.amount_mismatch \/ r.session_status # "Paid"

LEMMA AlertDueCases ==
    ASSUME NEW s \in SessionStatuses, NEW t \in CheckableStates,
           NEW result \in ProviderResults, NEW late \in BOOLEAN
    PROVE  AlertDue(Resolve(s, t, result, late)) <=> DoesNotPay(Resolve(s, t, result, late))
  BY DEF AlertDue, VoidPaid, DoesNotPay, Resolve, ResolvedStatus, SessionStatuses,
         CheckableStates, ProviderResults, ProviderStatuses, AttemptInFlightStates

LEMMA RecordTells ==
    ASSUME TypeInv, NEW w \in Workers, Record(w), NEW a \in Attempts, a = Attempt(w),
           rows[a].status \in CheckableStates
    PROVE  /\ worker'[w].pc = "telling" => worker'[w].attempt = a
           /\ worker'[w].pc = "telling" <=> IsSurplus(a)'
<1> DEFINE late == rows[a].age # "young"
           r == Resolve(session.status, rows[a].status, worker[w].answer, late)
<1>1. /\ session.status \in SessionStatuses
      /\ worker[w].answer \in ProviderResults
      /\ late \in BOOLEAN
  BY DEF TypeInv, TypeOK, SessionType, WorkerType
<1>2. Apply(w, a, r)
  BY DEF Record
<1>3. AlertDue(r) <=> DoesNotPay(r)
  BY <1>1, AlertDueCases
<1> HIDE DEF r, late
<1>4. /\ rows'[a].status = r.attempt_status
      /\ rows'[a].duplicate = r.duplicate
      /\ rows'[a].amount_mismatch = r.amount_mismatch
  <2>1. rows[a] \in RowType /\ rows'[a] = ResolvedRow(rows[a], r)
    BY <1>2 DEF TypeInv, TypeOK, Apply
  <2> QED
    BY <2>1, ResolvedRowFields
<1>5. session'.status = r.session_status
  BY <1>2 DEF Apply, SessionPaid, PaidSession, TypeInv, TypeOK, SessionType
<1>6. IsSurplus(a)' <=> AlertDue(r)
  BY <1>3, <1>4, <1>5 DEF IsSurplus, Paying, DoesNotPay
<1>7. /\ AlertDue(r) => AfterRecord(a, r).pc = "telling" /\ AfterRecord(a, r).attempt = a
      /\ ~AlertDue(r) => AfterRecord(a, r).pc # "telling"
  BY IdleType DEF AfterRecord, WorkerType
<1>8. worker'[w] = AfterRecord(a, r)
  BY <1>2 DEF Apply, TypeInv, TypeOK
<1> QED
  BY <1>6, <1>7, <1>8

(* The end of a one-shot alert: sent, or lost with its process.            *)
LEMMA TellingEnds ==
    ASSUME TypeInv, ToldByOne, NEW w \in Workers, UNCHANGED <<rows, session>>,
           worker'[w].pc # "telling", \A v \in Workers : v # w => worker'[v] = worker[v],
           \/ worker[w].pc # "telling" /\ alerts' = alerts
           \/ /\ worker[w].pc = "telling"
              /\ \E said \in {"Sent", "Lost"} :
                    alerts' = [alerts EXCEPT ![worker[w].attempt] = said]
    PROVE  ToldByOne'
<1>1. \A a \in Attempts : IsSurplus(a)' <=> IsSurplus(a)
  BY DEF IsSurplus, Paying
<1>2. \A a \in Attempts, v \in Workers : Tells(v, a)' <=> Tells(v, a) /\ v # w
  BY DEF Tells
<1>3. CASE worker[w].pc # "telling" /\ alerts' = alerts
  BY <1>1, <1>2, <1>3 DEF ToldByOne, Tells
<1>4. ASSUME worker[w].pc = "telling", NEW said \in {"Sent", "Lost"},
             alerts' = [alerts EXCEPT ![worker[w].attempt] = said]
      PROVE  ToldByOne'
  <2>1. PICK a \in Attempts : a = worker[w].attempt
    BY <1>4 DEF TypeInv, Busy, AttemptPCs, Attempt
  <2>2. Tells(w, a) /\ IsSurplus(a) /\ \A v \in Workers : Tells(v, a) => v = w
    BY <1>4, <2>1 DEF ToldByOne, Tells
  <2>3. alerts'[a] # "None" /\ \A b \in Attempts : b # a => alerts'[b] = alerts[b]
    BY <1>4, <2>1 DEF TypeInv, TypeOK
  <2>4. \A b \in Attempts : b # a => ~Tells(w, b)
    BY <2>1 DEF Tells
  <2> QED
    BY <1>1, <1>2, <2>2, <2>3, <2>4 DEF ToldByOne
<1> QED
  BY <1>3, <1>4

LEMMA ToldByOneStep ==
    ASSUME TypeInv, MoneyInv, ToldByOne, [Next]_vars
    PROVE  ToldByOne'
<1>1. CASE \A w \in Workers : ~Record(w) /\ ~Tell(w) /\ ~Abandon(w)
  <2>1. \A a \in Attempts : IsSurplus(a)' <=> IsSurplus(a)
    BY <1>1, SurplusStays
  <2>2. alerts' = alerts /\ \A a \in Attempts, v \in Workers : Tells(v, a)' <=> Tells(v, a)
    BY <1>1, TellingCases DEF SameTelling, Tells
  <2> QED
    BY <2>1, <2>2 DEF ToldByOne
<1>2. ASSUME NEW w \in Workers, Tell(w) \/ Abandon(w) PROVE ToldByOne'
  <2>1. /\ UNCHANGED <<rows, session>> /\ worker'[w].pc # "telling"
        /\ \A v \in Workers : v # w => worker'[v] = worker[v]
    BY <1>2, FinishMoves, IdleType DEF Tell, Abandon
  <2>2. \/ worker[w].pc # "telling" /\ alerts' = alerts
        \/ /\ worker[w].pc = "telling"
           /\ \E said \in {"Sent", "Lost"} :
                 alerts' = [alerts EXCEPT ![worker[w].attempt] = said]
    BY <1>2 DEF Tell, Abandon, At, Attempt
  <2> QED
    BY <2>1, <2>2, TellingEnds
<1>3. ASSUME NEW w \in Workers, Record(w) PROVE ToldByOne'
  <2>1. PICK a \in Attempts :
           /\ a = Attempt(w) /\ alerts' = alerts
           /\ \/ SettledMeanwhile(w)
              \/ OnlyRow(w, a) /\ (Pays(w, a) \/ PaysAgain(w, a) \/ OnlyClasses(w, a))
    BY <1>3, RecordCases
  <2>2. worker[w].pc = "heard" /\ \A v \in Workers : v # w => worker'[v] = worker[v]
    BY <1>3, AfterRecordMoves DEF Record, At
  <2>3. CASE SettledMeanwhile(w)
    BY <2>1, <2>2, <2>3, TellingEnds, FinishMoves, IdleType DEF SettledMeanwhile
  <2>4. CASE OnlyRow(w, a) /\ (Pays(w, a) \/ PaysAgain(w, a) \/ OnlyClasses(w, a))
    <3>1. /\ rows[a].status \in CheckableStates
          /\ \A b \in Attempts : b # a => rows'[b] = rows[b]
      BY <2>4 DEF OnlyRow, TypeInv, TypeOK
    <3>2. /\ worker'[w].pc = "telling" => worker'[w].attempt = a
          /\ worker'[w].pc = "telling" <=> IsSurplus(a)'
      BY <1>3, <2>1, <3>1, RecordTells
    <3>3. ~IsSurplus(a)
      BY <3>1 DEF IsSurplus, CheckableStates
    <3>4. ASSUME NEW b \in Attempts, b # a PROVE IsSurplus(b)' <=> IsSurplus(b)
      <4>1. CASE session'.status = session.status
        BY <3>1, <3>4, <4>1 DEF IsSurplus, Paying
      <4>2. CASE Pays(w, a)
        <5>1. ~Paying(b) /\ ~Paying(b)'
          BY <3>1, <3>4, <4>2 DEF Pays, MoneyInv, PaidByOne, Paying
        <5> QED
          BY <3>1, <3>4, <5>1 DEF IsSurplus
      <4>3. CASE PaysAgain(w, a) \/ OnlyClasses(w, a)
        BY <4>1, <4>3 DEF PaysAgain, OnlyClasses, PaidSession, TypeInv, TypeOK, SessionType
      <4> QED
        BY <2>4, <4>2, <4>3
    <3>5. \A b \in Attempts, v \in Workers :
             Tells(v, b)' <=> \/ v # w /\ Tells(v, b)
                              \/ v = w /\ b = a /\ IsSurplus(a)'
      BY <2>2, <3>2 DEF Tells
    <3>6. \A b \in Attempts : ~Tells(w, b)
      BY <2>2 DEF Tells
    <3> QED
      BY <2>1, <3>3, <3>4, <3>5, <3>6 DEF ToldByOne
  <2> QED
    BY <2>1, <2>3, <2>4
<1> QED
  BY <1>1, <1>2, <1>3

(* Money received that does not pay the session is told to the managers,   *)
(* once, unless the process about to do it was stopped just then.          *)
THEOREM SurplusIsTold == Spec => []UnbookedMoneyTold
<1>1. Init => ToldByOne
  BY DEF Init, ToldByOne, Tells, IsSurplus, Idle
<1>2. ToldByOne => UnbookedMoneyTold
  <2> SUFFICES ASSUME ToldByOne, NEW a \in Attempts
               PROVE  IF IsSurplus(a)
                      THEN IF alerts[a] = "None"
                           THEN \E w \in Workers : Tellers(a) = {w}
                           ELSE Tellers(a) = {}
                      ELSE alerts[a] = "None" /\ Tellers(a) = {}
    BY DEF UnbookedMoneyTold, IsSurplus
  <2>1. \A w \in Workers : w \in Tellers(a) <=> Tells(w, a)
    BY DEF Tellers, Tells, At, Attempt
  <2>2. Tellers(a) \subseteq Workers
    BY DEF Tellers
  <2> QED
    BY <2>1, <2>2 DEF ToldByOne
<1> QED
  BY <1>1, <1>2, ToldByOneStep, TypeInvariant, MoneyInvariant, PTL DEF Spec

-----------------------------------------------------------------------------
(* The session keeps Settlement's promise.                                 *)

LEMMA MoneyIs ==
    ASSUME NEW a \in Attempts
    PROVE  /\ Money(a) = "None" <=> rows[a].status # "Succeeded"
           /\ Money(a) = "Surplus" <=> IsSurplus(a)
           /\ Money(a) = "Pays" <=> Paying(a) /\ session.status = "Paid"
           /\ Money(a) \in {"None", "Surplus", "Pays"}
  BY DEF Money, IsSurplus, Paying

LEMMA SameMoneys ==
    ASSUME TypeInv, [Next]_vars, \A w \in Workers : ~Record(w)
    PROVE  [a \in Attempts |-> Money(a)]' = [a \in Attempts |-> Money(a)]
<1> SUFFICES ASSUME NEW a \in Attempts PROVE Money(a)' = Money(a)
  OBVIOUS
<1>1. /\ IsSurplus(a)' <=> IsSurplus(a)
      /\ rows'[a].status = "Succeeded" <=> rows[a].status = "Succeeded"
  BY SurplusStays
<1> QED
  BY <1>1 DEF Money, IsSurplus

(* A record step pays the session, receives a surplus, or neither.         *)
LEMMA RecordSettles ==
    ASSUME TypeInv, MoneyInv, NEW w \in Workers, Record(w)
    PROVE  [Promise!Next]_(Promise!vars)
<1>1. PICK a \in Attempts :
         /\ effects' = effects
         /\ \/ SettledMeanwhile(w)
            \/ OnlyRow(w, a) /\ (Pays(w, a) \/ PaysAgain(w, a) \/ OnlyClasses(w, a))
  BY RecordCases
<1> USE DEF Promise!Next, Promise!vars
<1>2. CASE SettledMeanwhile(w)
  BY <1>1, <1>2 DEF SettledMeanwhile, Money, Paying
<1>3. CASE OnlyRow(w, a) /\ (Pays(w, a) \/ PaysAgain(w, a) \/ OnlyClasses(w, a))
  <2>1. /\ rows[a].status # "Succeeded" /\ Money(a) = "None"
        /\ \A b \in Attempts : b # a => rows'[b] = rows[b]
    BY <1>3 DEF OnlyRow, CheckableStates, Money, TypeInv, TypeOK
  <2>2. CASE Pays(w, a)
    <3>1. session.status = "Open" /\ session'.status = "Paid" /\ Paying(a)'
      BY <2>2 DEF Pays, PaidSession, TypeInv, TypeOK, SessionType, Paying
    <3>2. Money(a)' = "Pays"
      BY <3>1 DEF Money, Paying
    <3>3. \A b \in Attempts : b # a => Money(b)' = Money(b)
      BY <2>1, <3>1 DEF Money, Paying, MoneyInv, PaidByOne
    <3>4. [b \in Attempts |-> Money(b)]' = [[b \in Attempts |-> Money(b)] EXCEPT ![a] = "Pays"]
      BY <3>2, <3>3
    <3>5. Promise!Pay(a)
      BY <1>1, <2>1, <3>1, <3>4 DEF Promise!Pay
    <3> QED
      BY <3>5
  <2>3. CASE (PaysAgain(w, a) \/ OnlyClasses(w, a)) /\ rows'[a].status = "Succeeded"
    <3>1. session'.status = session.status /\ (session.status = "Paid" => ~Paying(a)')
      BY <2>3 DEF PaysAgain, OnlyClasses, Paying
    <3>2. Money(a)' = "Surplus"
      BY <2>3, <3>1 DEF Money
    <3>3. \A b \in Attempts : b # a => Money(b)' = Money(b)
      BY <2>1, <3>1 DEF Money, Paying
    <3>4. [b \in Attempts |-> Money(b)]'
             = [[b \in Attempts |-> Money(b)] EXCEPT ![a] = "Surplus"]
      BY <3>2, <3>3
    <3>5. Promise!ReceiveSurplus(a)
      BY <1>1, <2>1, <3>1, <3>4 DEF Promise!ReceiveSurplus
    <3> QED
      BY <3>5
  <2>4. CASE (PaysAgain(w, a) \/ OnlyClasses(w, a)) /\ rows'[a].status # "Succeeded"
    <3>1. session'.status = session.status
      BY <2>4 DEF PaysAgain, OnlyClasses, PaidSession, TypeInv, TypeOK, SessionType
    <3>2. \A b \in Attempts : Money(b)' = Money(b)
      BY <2>1, <2>4, <3>1 DEF Money, Paying
    <3> QED
      BY <1>1, <3>1, <3>2
  <2> QED
    BY <1>3, <2>2, <2>3, <2>4
<1> QED
  BY <1>1, <1>2, <1>3

LEMMA StepSettles ==
    ASSUME TypeInv, MoneyInv, BookingInv, [Next]_vars
    PROVE  [Promise!Next]_(Promise!vars)
<1>1. CASE \E w \in Workers : Record(w)
  BY <1>1, RecordSettles
<1>2. CASE \A w \in Workers : ~Record(w)
  <2> DEFINE money == [a \in Attempts |-> Money(a)]
  <2>1. money' = money
    BY <1>2, SameMoneys
  <2>2. CASE session'.status = session.status /\ effects' = effects
    BY <2>1, <2>2 DEF Promise!vars
  <2>3. ASSUME NEW w \in Workers, ConsumerReturns(w) \/ ConsumerCommitsEarly(w)
        PROVE  [Promise!Next]_(Promise!vars)
    <3>1. session'.status = session.status /\ session.status = "Paid"
      BY <2>3, DoneFields
         DEF ConsumerReturns, ConsumerCommitsEarly, BookingInv, ConsumingAlone
    <3>2. effects' > 0 \/ effects' = effects
      BY <2>3 DEF ConsumerReturns, ConsumerCommitsEarly, CountTo2, TypeInv, TypeOK
    <3>3. CASE effects > 0 /\ effects' > 0
      <4>1. (effects > 0)' = (effects > 0)
        BY <3>3
      <4> QED
        BY <2>1, <3>1, <4>1 DEF Promise!vars
    <3>4. CASE ~(effects > 0) /\ effects' > 0
      <4>1. (effects > 0)' = TRUE /\ (effects > 0) = FALSE
        BY <3>4
      <4> QED
        BY <2>1, <3>1, <4>1 DEF Promise!Next, Promise!Book
    <3> QED
      BY <2>2, <3>1, <3>2, <3>3, <3>4
  <2>4. CASE VoidOpenSession
    <3>1. session.status = "Open" /\ session'.status = "Void" /\ effects' = effects
      BY <2>4 DEF VoidOpenSession, TypeInv, TypeOK, SessionType
    <3> QED
      BY <2>1, <3>1 DEF Promise!Next, Promise!Cancel
  <2>5. ASSUME NEW w \in Workers, \/ Authorize(w) \/ AlertFailure(w) \/ AlertExhausted(w)
                                  \/ \E transient \in BOOLEAN : ConsumerRaises(w, transient)
        PROVE  session'.status = session.status /\ effects' = effects
    BY <2>5 DEF Authorize, AlertFailure, AlertExhausted, ConsumerRaises, FailedSession,
                TypeInv, TypeOK, SessionType
  <2>6. CASE RetryDateComes
    BY <2>2, <2>6 DEF RetryDateComes, TypeInv, TypeOK, SessionType
  <2> QED
    BY <1>2, <2>2, <2>3, <2>4, <2>5, <2>6, BookingCases DEF BookingNext, SameBooking
<1> QED
  BY <1>1, <1>2

(* The session, its handlers, locks and late answers together implement    *)
(* Settlement: whatever they do, every payment is classed once, one pays,  *)
(* and it is booked once it has.                                           *)
THEOREM SettlementIsKept == Spec => ImplementsSettlement
<1>1. Init => Promise!Init
  BY DEF Init, Promise!Init, Money
<1> QED
  BY <1>1, StepSettles, TypeInvariant, MoneyInvariant, BookingInvariant, PTL
     DEF Spec, ImplementsSettlement, Promise!Spec

-----------------------------------------------------------------------------
(* What a result taken as paying the session again says.                   *)

WasAnswered(b) == rows[b].status \notin {"Absent", "Initiated", "Error"}

LEMMA AnsweredStays ==
    ASSUME TypeInv, [Next]_vars, NEW b \in Attempts, WasAnswered(b)
    PROVE  WasAnswered(b)'
<1>1. CASE SameMoney \/ VoidOpenSession
  BY <1>1 DEF SameMoney, SameRow, VoidOpenSession, WasAnswered
<1>2. ASSUME NEW w \in Workers, NEW a \in Attempts, OpenAttempt(w, a)
      PROVE  WasAnswered(b)'
  BY <1>2 DEF OpenAttempt, TypeInv, TypeOK, RowType, WasAnswered
<1>3. ASSUME NEW w \in Workers, RecordStart(w) PROVE WasAnswered(b)'
  <2>1. PICK a \in Attempts : a = Attempt(w)
    BY <1>3 DEF TypeInv, Busy, AttemptPCs, RecordStart
  <2>2. b # a \/ rows'[b] = rows[b]
    BY <1>3, <2>1 DEF RecordStart, RecordedStart, TypeInv, TypeOK, WasAnswered
  <2>3. rows'[b] = rows[b]
    BY <1>3, <2>1, <2>2 DEF RecordStart, TypeInv, TypeOK
  <2> QED
    BY <2>3 DEF WasAnswered
<1>4. ASSUME NEW w \in Workers, Record(w) PROVE WasAnswered(b)'
  <2>1. CASE SettledMeanwhile(w)
    BY <2>1 DEF SettledMeanwhile, WasAnswered
  <2>2. CASE OnlyRow(w, Attempt(w))
    BY <2>2 DEF OnlyRow, WasAnswered, TypeInv, TypeOK
  <2> QED
    BY <1>4, <2>1, <2>2, RecordCases
<1> QED
  BY <1>1, <1>2, <1>3, <1>4, MoneyCases DEF MoneyNext

(* The attempt that pays a Paid session goes on paying it.                 *)
LEMMA PayingStays ==
    ASSUME TypeInv, [Next]_vars, NEW a \in Attempts, Paying(a), session.status = "Paid"
    PROVE  Paying(a)' /\ session'.status = "Paid"
<1>1. CASE \A w \in Workers : ~Record(w)
  <2>1. rows[a].status = "Succeeded" /\ ~IsSurplus(a)
    BY DEF Paying, IsSurplus
  <2> QED
    BY <1>1, <2>1, SurplusStays DEF IsSurplus
<1>2. ASSUME NEW w \in Workers, Record(w)
      PROVE  Paying(a)' /\ session'.status = "Paid"
  <2>1. CASE SettledMeanwhile(w)
    BY <2>1 DEF SettledMeanwhile, Paying
  <2>2. CASE OnlyRow(w, Attempt(w)) /\ (PaysAgain(w, Attempt(w)) \/ OnlyClasses(w, Attempt(w)))
    <3>1. rows'[a] = rows[a]
      BY <2>2 DEF OnlyRow, Paying, CheckableStates, TypeInv, TypeOK
    <3>2. session'.status = "Paid"
      BY <2>2 DEF PaysAgain, OnlyClasses, PaidSession, TypeInv, TypeOK, SessionType
    <3> QED
      BY <3>1, <3>2 DEF Paying
  <2> QED
    BY <1>2, <2>1, <2>2, RecordCases DEF Pays
<1> QED
  BY <1>1, <1>2

LEMMA RepaidStep ==
    ASSUME TypeInv, MoneyInv, RepaidByAnother, [Next]_vars
    PROVE  RepaidByAnother'
<1>1. ASSUME repaid' = repaid PROVE RepaidByAnother'
  BY <1>1, AnsweredStays, PayingStays DEF RepaidByAnother, WasAnswered
<1>2. ASSUME NEW w \in Workers, Record(w), repaid' # repaid PROVE RepaidByAnother'
  <2>1. /\ Attempt(w) \in Attempts
        /\ OnlyRow(w, Attempt(w)) /\ PaysAgain(w, Attempt(w))
    BY <1>2, RecordCases DEF SettledMeanwhile, Pays, OnlyClasses
  <2>2. PICK a \in Attempts : Paying(a) /\ session.status = "Paid"
    BY <2>1 DEF PaysAgain, MoneyInv, PaidByOne
  <2>3. Attempt(w) # a
    BY <2>1, <2>2 DEF OnlyRow, Paying, CheckableStates
  <2>4. Paying(a)' /\ session'.status = "Paid"
    BY <2>2, PayingStays
  <2> QED
    BY <2>1, <2>3, <2>4 DEF OnlyRow, RepaidByAnother
<1> QED
  BY <1>1, <1>2, OnlyRecordPays

(* An answer is taken as paying a Paid session again only if it is about   *)
(* another attempt than the one that pays it (session_paid).               *)
THEOREM OnlyAnotherRepays == Spec => []RepaidByAnother
<1>1. Init => RepaidByAnother
  BY DEF Init, RepaidByAnother
<1> QED
  BY <1>1, RepaidStep, TypeInvariant, MoneyInvariant, PTL DEF Spec

(* Where a session has one attempt at most, and the consumer leaves the    *)
(* commit to the application, the consumer's effects are committed at most *)
(* once: "a second trigger finds Done" (docs/ARCHITECTURE.md, D4).         *)
THEOREM OneAttemptRunsOnce ==
    ASSUME \A a, b \in Attempts : a = b, ~ConsumerCommits
    PROVE  Spec => []ConsumerRunsOnce
<1>1. RepaidByAnother /\ BookingInv => ConsumerRunsOnce
  BY DEF RepaidByAnother, BookingInv, BookedOnce, ConsumerRunsOnce
<1> QED
  BY <1>1, OnlyAnotherRepays, BookingInvariant, PTL

=============================================================================
