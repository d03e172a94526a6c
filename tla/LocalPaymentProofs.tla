-------------------------- MODULE LocalPaymentProofs --------------------------
(***************************************************************************)
(* Theorems about LocalPayment, for any processes, attempts, number of     *)
(* tries and outcomes.                                                     *)
(***************************************************************************)
EXTENDS LocalPayment, TLAPS

AttemptPCs == {"sending", "accepted", "refused", "asking", "heard", "telling"}

(* A process in the middle of a start, a check or a one-shot alert knows   *)
(* which attempt it is working on.                                         *)
Busy == \A w \in Workers : worker[w].pc \in AttemptPCs => Attempt(w) \in Attempts

TypeInv == TypeOK /\ Busy

-----------------------------------------------------------------------------
(* Operators.                                                              *)

(* resolve answers with statuses of the right kinds, and with the status   *)
(* its own transition table allows.                                        *)
LEMMA ResolveType ==
    ASSUME NEW s \in SessionStatuses, NEW t \in CheckableStates,
           NEW result \in ProviderResults, NEW late \in BOOLEAN
    PROVE  /\ Resolve(s, t, result, late) \in
                 [attempt_status : AttemptStatuses, session_status : SessionStatuses,
                  duplicate : BOOLEAN, amount_mismatch : BOOLEAN]
           /\ Resolvable(t, result, late)
  BY DEF Resolve, ResolvedStatus, Resolvable, SessionStatuses, CheckableStates,
         ProviderResults, ProviderStatuses, AttemptStatuses, AttemptTransitions,
         AttemptInFlightStates

LEMMA ResolvedRowType ==
    ASSUME NEW row \in RowType,
           NEW r \in [attempt_status : AttemptStatuses, session_status : SessionStatuses,
                      duplicate : BOOLEAN, amount_mismatch : BOOLEAN]
    PROVE  ResolvedRow(row, r) \in RowType
  BY DEF ResolvedRow, RowType

LEMMA ResolvedRowFields ==
    ASSUME NEW row \in RowType, NEW r
    PROVE  /\ ResolvedRow(row, r).status = r.attempt_status
           /\ ResolvedRow(row, r).duplicate = r.duplicate
           /\ ResolvedRow(row, r).amount_mismatch = r.amount_mismatch
           /\ ResolvedRow(row, r).checked = row.checked
<1>1. ResolvedRow(row, r).status = r.attempt_status
  BY DEF ResolvedRow, RowType
<1>2. ResolvedRow(row, r).duplicate = r.duplicate
  BY DEF ResolvedRow, RowType
<1>3. ResolvedRow(row, r).amount_mismatch = r.amount_mismatch
  BY DEF ResolvedRow, RowType
<1>4. ResolvedRow(row, r).checked = row.checked
  BY DEF ResolvedRow, RowType
<1> QED
  BY <1>1, <1>2, <1>3, <1>4

LEMMA AnswerType ==
    ASSUME NEW p \in ProviderStates
    PROVE  AnswerFor(p) \in ProviderResults
  BY DEF AnswerFor, ProviderStates, ProviderResults, ProviderStatuses

-----------------------------------------------------------------------------
(* Types.                                                                  *)

LEMMA TypeInit == Init => TypeInv
<1> SUFFICES ASSUME Init PROVE TypeInv
  OBVIOUS
<1>1. rows \in [Attempts -> RowType]
  BY DEF Init, RowType, Ages
<1>2. session \in SessionType
  BY MaxTriesAssumption DEF Init, SessionType, SessionStatuses
<1>3. worker \in [Workers -> WorkerType]
  BY DEF Init, WorkerType, Idle, PCs, NoAnswer, ProviderResults, ProviderStatuses
<1>4. Busy
  BY DEF Init, Busy, Idle, AttemptPCs, Attempt
<1>5. provider \in [Attempts -> ProviderStates]
  BY DEF Init, ProviderStates
<1>6. alerts \in [Attempts -> {"None", "Sent", "Lost"}]
  BY DEF Init
<1>7. effects \in 0 .. 2
  BY DEF Init
<1>8. repaid \in BOOLEAN
  BY Zenon DEF Init
<1>9. copies \subseteq Copies
  BY DEF Init
<1> QED
  BY <1>1, <1>2, <1>3, <1>4, <1>5, <1>6, <1>7, <1>8, <1>9 DEF TypeInv, TypeOK

(* Idle, and what Enter and Finish make of a process.                      *)
LEMMA IdleType == Idle \in WorkerType /\ Idle.pc = "idle" /\ Idle.attempt = NoAttempt
  BY DEF Idle, WorkerType, PCs, NoAnswer, ProviderResults, ProviderStatuses

LEMMA FinishType ==
    ASSUME TypeInv, NEW w \in Workers, Finish(w)
    PROVE  worker' \in [Workers -> WorkerType] /\ Busy'
  BY IdleType DEF TypeInv, TypeOK, Busy, Finish, Attempt, AttemptPCs

LEMMA EnterType ==
    ASSUME TypeInv, NEW w \in Workers, NEW pc \in PCs \ AttemptPCs, Enter(w, pc)
    PROVE  worker' \in [Workers -> WorkerType] /\ Busy'
<1>1. [Idle EXCEPT !.pc = pc] \in WorkerType /\ [Idle EXCEPT !.pc = pc].pc = pc
  BY IdleType DEF WorkerType
<1> QED
  BY <1>1 DEF TypeInv, TypeOK, Busy, Enter, Attempt

(* Go keeps the attempt, so it may only lead where one was known before.   *)
LEMMA GoType ==
    ASSUME TypeInv, NEW w \in Workers, NEW pc \in PCs, Go(w, pc),
           Attempt(w) \in Attempts
    PROVE  worker' \in [Workers -> WorkerType] /\ Busy'
<1>1. worker' \in [Workers -> WorkerType]
  BY DEF TypeInv, TypeOK, Go, WorkerType
<1>2. \A v \in Workers : worker'[v].attempt = worker[v].attempt
                         /\ (v # w => worker'[v] = worker[v])
  BY DEF TypeInv, TypeOK, Go, WorkerType
<1> QED
  BY <1>1, <1>2 DEF TypeInv, Busy, Attempt

-----------------------------------------------------------------------------
LEMMA TypeStart ==
    ASSUME TypeInv, NEW w \in Workers, StartStep(w)
    PROVE  TypeInv'
<1>1. ASSUME NEW a \in Attempts, OpenAttempt(w, a) PROVE TypeInv'
  <2>1. rows' \in [Attempts -> RowType]
    BY <1>1 DEF TypeInv, TypeOK, OpenAttempt, RowType, AttemptStatuses
  <2>2. worker' \in [Workers -> WorkerType]
    BY <1>1 DEF TypeInv, TypeOK, OpenAttempt, WorkerType, PCs
  <2>3. Busy'
    BY <1>1 DEF TypeInv, TypeOK, OpenAttempt, Busy, WorkerType, Attempt
  <2> QED
    BY <1>1, <2>1, <2>2, <2>3 DEF TypeInv, TypeOK, OpenAttempt, SaveSession
<1>2. CASE RequestArrives(w)
  <2>1. provider' \in [Attempts -> ProviderStates]
    BY <1>2 DEF TypeInv, TypeOK, RequestArrives, ProviderStates
  <2> QED
    BY <1>2, <2>1 DEF TypeInv, TypeOK, RequestArrives, Busy, Attempt
<1>3. CASE SendAccepted(w) \/ SendRefused(w) \/ SendUnanswered(w)
  <2>1. Attempt(w) \in Attempts
    BY <1>3 DEF TypeInv, Busy, AttemptPCs, SendAccepted, SendRefused, SendUnanswered, At
  <2>2. worker' \in [Workers -> WorkerType] /\ Busy'
    BY <1>3, <2>1, GoType DEF SendAccepted, SendRefused, SendUnanswered, PCs
  <2>3. provider' \in [Attempts -> ProviderStates]
    BY <1>3, <2>1 DEF TypeInv, TypeOK, SendAccepted, SendRefused, SendUnanswered,
                      LoseTrackOf, ProviderStates
  <2> QED
    BY <1>3, <2>2, <2>3 DEF TypeInv, TypeOK, SendAccepted, SendRefused, SendUnanswered
<1>4. CASE RecordStart(w)
  <2>1. Attempt(w) \in Attempts
    BY <1>4 DEF TypeInv, Busy, AttemptPCs, RecordStart
  <2>2. RecordedStart(rows[Attempt(w)], At(w, "refused")) \in RowType
    BY <2>1 DEF TypeInv, TypeOK, RecordedStart, RowType, AttemptStatuses
  <2>3. rows' \in [Attempts -> RowType]
    BY <1>4, <2>2 DEF TypeInv, TypeOK, RecordStart
  <2> QED
    BY <1>4, <2>3, FinishType DEF TypeInv, TypeOK, RecordStart, SaveSession
<1> QED
  BY <1>1, <1>2, <1>3, <1>4 DEF StartStep

LEMMA TypeCheck ==
    ASSUME TypeInv, NEW w \in Workers, CheckStep(w)
    PROVE  TypeInv'
<1>1. ASSUME NEW a \in Attempts, Claim(w, a) PROVE TypeInv'
  <2> DEFINE row == [rows[a] EXCEPT !.checked = TRUE, !.recent = TRUE]
  <2>0. row \in RowType
    BY DEF TypeInv, TypeOK, RowType
  <2>1. rows' \in [Attempts -> RowType]
    <3>1. rows' = [rows EXCEPT ![a] = row]
      BY <1>1 DEF TypeInv, TypeOK, Claim
    <3> QED
      BY <2>0, <3>1 DEF TypeInv, TypeOK
  <2>2. worker' \in [Workers -> WorkerType]
    BY <1>1 DEF TypeInv, TypeOK, Claim, WorkerType, PCs
  <2>3. Busy'
    BY <1>1 DEF TypeInv, TypeOK, Claim, Busy, WorkerType, Attempt
  <2> QED
    BY <1>1, <2>1, <2>2, <2>3 DEF TypeInv, TypeOK, Claim, SaveSession
<1>2. CASE Hear(w)
  <2>1. Attempt(w) \in Attempts
    BY <1>2 DEF TypeInv, Busy, AttemptPCs, Hear, At
  <2>2. AnswerFor(provider[Attempt(w)]) \in ProviderResults
    BY <2>1, AnswerType DEF TypeInv, TypeOK
  <2>3. worker' \in [Workers -> WorkerType]
    BY <1>2, <2>2 DEF TypeInv, TypeOK, Hear, WorkerType, PCs
  <2>4. Busy'
    BY <1>2, <2>1 DEF TypeInv, TypeOK, Hear, Busy, WorkerType, Attempt
  <2> QED
    BY <1>2, <2>3, <2>4 DEF TypeInv, TypeOK, Hear
<1>3. CASE Record(w)
  <2> DEFINE a == Attempt(w)
             late == rows[a].age # "young"
             r == Resolve(session.status, rows[a].status, worker[w].answer, late)
  <2>1. a \in Attempts
    BY <1>3 DEF TypeInv, Busy, AttemptPCs, Record, At
  <2>2. CASE rows[a].status \notin CheckableStates
    BY <1>3, <2>2, FinishType DEF TypeInv, TypeOK, Record
  <2>3. CASE rows[a].status \in CheckableStates
    <3>1. /\ session.status \in SessionStatuses
          /\ worker[w].answer \in ProviderResults
          /\ late \in BOOLEAN
      BY DEF TypeInv, TypeOK, SessionType, WorkerType
    <3>2. r \in [attempt_status : AttemptStatuses, session_status : SessionStatuses,
                 duplicate : BOOLEAN, amount_mismatch : BOOLEAN]
      BY <2>3, <3>1, ResolveType
    <3>3. Apply(w, a, r) /\ copies' = {} /\ UNCHANGED <<provider, effects, alerts>>
      BY <1>3, <2>3 DEF Record, SaveSession
    <3> HIDE DEF r, late
    <3>4. ResolvedRow(rows[a], r) \in RowType
      BY <2>1, <3>2, ResolvedRowType DEF TypeInv, TypeOK
    <3>5. rows' \in [Attempts -> RowType]
      BY <3>3, <3>4 DEF TypeInv, TypeOK, Apply
    <3>6. PaidSession(a, worker[w].answer) \in SessionType
      BY <2>1 DEF TypeInv, TypeOK, PaidSession, SessionType, SessionStatuses,
                  NextAuthorizationRetry
    <3>7. session' \in SessionType
      BY <3>2, <3>3, <3>6 DEF TypeInv, TypeOK, Apply, SessionType
    <3>8. /\ AfterRecord(a, r) \in WorkerType
          /\ AfterRecord(a, r).pc \in AttemptPCs => AfterRecord(a, r).attempt \in Attempts
      BY <2>1, IdleType DEF AfterRecord, WorkerType, PCs, AttemptPCs
    <3>9. worker' \in [Workers -> WorkerType] /\ Busy'
      BY <3>3, <3>8 DEF TypeInv, TypeOK, Busy, Apply, Attempt
    <3>10. repaid' \in BOOLEAN
      BY <3>3 DEF TypeInv, TypeOK, Apply
    <3> QED
      BY <3>3, <3>5, <3>7, <3>9, <3>10 DEF TypeInv, TypeOK
  <2> QED
    BY <2>2, <2>3
<1>4. CASE Tell(w)
  BY <1>4, FinishType DEF TypeInv, TypeOK, Tell
<1> QED
  BY <1>1, <1>2, <1>3, <1>4 DEF CheckStep, GuestCheck, ScheduledCheck

(* A consumer that returns leaves Done behind, and only a copy it kept can *)
(* change the flags.                                                       *)
LEMMA DoneFields ==
    ASSUME TypeInv, NEW w \in Workers, ConsumerReturns(w)
    PROVE  /\ session' \in SessionType
           /\ session'.status = session.status
           /\ session'.authorization = "Done"
           /\ session'.next_retry = "None"
           /\ session'.tries = session.tries
           /\ session'.transaction = session.transaction
           /\ \/ session'.exhausted = session.exhausted
              \/ /\ At(w, "committed")
                 /\ \E copy \in copies : session'.exhausted = copy.exhausted
<1>1. /\ DoneSession \in SessionType
      /\ DoneSession = [session EXCEPT !.authorization = "Done", !.next_retry = "None"]
  BY DEF TypeInv, TypeOK, SessionType, DoneSession
<1>2. CASE session' = DoneSession
  BY <1>1, <1>2 DEF TypeInv, TypeOK, SessionType
<1>3. CASE At(w, "committed") /\ SavedOver(w, DoneSession)
  <2>1. PICK copy \in copies :
            session' = [DoneSession EXCEPT !.alerted = copy.alerted, !.exhausted = copy.exhausted]
    BY <1>3 DEF SavedOver
  <2>2. copy.alerted \in BOOLEAN /\ copy.exhausted \in BOOLEAN
    BY DEF TypeInv, TypeOK, Copies
  <2> QED
    BY <1>1, <1>3, <2>1, <2>2 DEF TypeInv, TypeOK, SessionType
<1> QED
  BY <1>2, <1>3 DEF ConsumerReturns

LEMMA TypeAuthorize ==
    ASSUME TypeInv, NEW w \in Workers, AuthorizeStep(w)
    PROVE  TypeInv'
<1>1. CASE Authorize(w)
  BY <1>1, FinishType, EnterType DEF TypeInv, TypeOK, Authorize, PCs, AttemptPCs
<1>2. CASE ScheduledRetry(w)
  BY <1>2, EnterType DEF TypeInv, TypeOK, ScheduledRetry, PCs, AttemptPCs
<1>3. CASE ConsumerReturns(w)
  <2>1. session' \in SessionType
    BY <1>3, DoneFields
  <2>2. effects' \in 0 .. 2
    BY <1>3 DEF TypeInv, TypeOK, ConsumerReturns, CountTo2
  <2> QED
    BY <1>3, <2>1, <2>2, FinishType DEF TypeInv, TypeOK, ConsumerReturns, SaveSession
<1>4. ASSUME NEW transient \in BOOLEAN, ConsumerRaises(w, transient) PROVE TypeInv'
  <2>1. session.tries \in 0 .. MaxTries
    BY DEF TypeInv, TypeOK, SessionType
  <2>2. FailedTries \in 0 .. MaxTries
    BY <2>1, MaxTriesAssumption DEF FailedTries
  <2>3. session' \in SessionType
    BY <1>4, <2>2 DEF TypeInv, TypeOK, ConsumerRaises, FailedSession, SessionType,
                      NextAuthorizationRetry
  <2> QED
    BY <1>4, <2>3, FinishType, EnterType
       DEF TypeInv, TypeOK, ConsumerRaises, SaveSession, PCs, AttemptPCs
<1>5. CASE AlertFailure(w)
  <2>1. session' \in SessionType
    BY <1>5 DEF TypeInv, TypeOK, AlertFailure, SessionType
  <2> QED
    BY <1>5, <2>1, FinishType DEF TypeInv, TypeOK, AlertFailure
<1>6. CASE ConsumerCommitsEarly(w)
  <2>1. effects' \in 0 .. 2
    BY <1>6 DEF TypeInv, TypeOK, ConsumerCommitsEarly, CountTo2
  <2>2. copies' \subseteq Copies
    BY <1>6 DEF TypeInv, TypeOK, ConsumerCommitsEarly, Copies, SessionType
  <2> QED
    BY <1>6, <2>1, <2>2, EnterType DEF TypeInv, TypeOK, ConsumerCommitsEarly, PCs, AttemptPCs
<1>7. CASE SelectExhausted(w)
  BY <1>7, EnterType DEF TypeInv, TypeOK, SelectExhausted, PCs, AttemptPCs
<1>8. CASE AlertExhausted(w)
  <2>1. session' \in SessionType
    BY <1>8 DEF TypeInv, TypeOK, AlertExhausted, SessionType
  <2> QED
    BY <1>8, <2>1, FinishType DEF TypeInv, TypeOK, AlertExhausted
<1> QED
  BY <1>1, <1>2, <1>3, <1>4, <1>5, <1>6, <1>7, <1>8
     DEF AuthorizeStep, BeginAuthorize, ManagerRetry

LEMMA TypeAbandon ==
    ASSUME TypeInv, NEW w \in Workers, Abandon(w)
    PROVE  TypeInv'
<1>1. provider' \in [Attempts -> ProviderStates]
  BY DEF TypeInv, TypeOK, Abandon, LoseTrackOf, ProviderStates
<1>2. alerts' \in [Attempts -> {"None", "Sent", "Lost"}]
  BY DEF TypeInv, TypeOK, Abandon
<1> QED
  BY <1>1, <1>2, FinishType DEF TypeInv, TypeOK, Abandon

LEMMA TypeEnvironment ==
    ASSUME TypeInv, NEW a \in Attempts, ProviderStep(a) \/ TimeStep(a)
    PROVE  TypeInv'
<1>1. CASE ProviderStep(a)
  <2>1. provider' \in [Attempts -> ProviderStates]
    BY <1>1, OutcomesAssumption DEF TypeInv, TypeOK, ProviderStep, LateArrival, Decide,
                                    ProviderStates
  <2> QED
    BY <1>1, <2>1 DEF TypeInv, TypeOK, Busy, Attempt, ProviderStep, LateArrival, Decide
<1>2. CASE TimeStep(a)
  <2>1. rows' \in [Attempts -> RowType]
    <3>1. CASE CheckDateComes(a)
      BY <3>1 DEF TypeInv, TypeOK, CheckDateComes, RowType
    <3>2. CASE CheckIntervalPasses(a)
      BY <3>2 DEF TypeInv, TypeOK, CheckIntervalPasses, RowType
    <3>3. CASE DeadlinePasses(a)
      <4>1. PICK age \in Ages : rows' = [rows EXCEPT ![a].age = age]
        BY <3>3 DEF DeadlinePasses, Ages
      <4> QED
        BY <4>1 DEF TypeInv, TypeOK, RowType
    <3> QED
      BY <1>2, <3>1, <3>2, <3>3 DEF TimeStep
  <2> QED
    BY <1>2, <2>1 DEF TypeInv, TypeOK, Busy, Attempt, TimeStep, CheckDateComes,
                      CheckIntervalPasses, DeadlinePasses
<1> QED
  BY <1>1, <1>2

LEMMA TypeSession ==
    ASSUME TypeInv, VoidOpenSession \/ RetryDateComes
    PROVE  TypeInv'
<1>1. session' \in SessionType
  BY DEF TypeInv, TypeOK, VoidOpenSession, RetryDateComes, SessionType, SessionStatuses
<1> QED
  BY <1>1 DEF TypeInv, TypeOK, Busy, Attempt, VoidOpenSession, RetryDateComes, SaveSession

LEMMA TypeNext == TypeInv /\ [Next]_vars => TypeInv'
<1>1. CASE UNCHANGED vars
  BY <1>1 DEF vars, TypeInv, TypeOK, Busy, Attempt
<1>2. CASE Next
  BY <1>2, TypeStart, TypeCheck, TypeAuthorize, TypeAbandon, TypeEnvironment, TypeSession
     DEF Next
<1> QED
  BY <1>1, <1>2

LEMMA TypeInvariant == Spec => []TypeInv
  BY TypeInit, TypeNext, PTL DEF Spec

(* Every reachable state is well typed, whatever the handlers interleave.  *)
THEOREM TypeCorrect == Spec => []TypeOK
<1>1. TypeInv => TypeOK
  BY DEF TypeInv
<1> QED
  BY <1>1, TypeInvariant, PTL

-----------------------------------------------------------------------------
(* What Record may do, in the four ways the proofs tell apart.             *)

SettledMeanwhile(w) ==
    Finish(w) /\ UNCHANGED <<rows, session, repaid>>

(* The parts of a row a record step leaves alone, and those of the others. *)
OnlyRow(w, a) ==
    /\ a = Attempt(w)
    /\ rows[a].status \in CheckableStates
    /\ rows'[a].status \in AttemptInFlightStates => rows[a].status \in AttemptInFlightStates
    /\ \/ rows'[a].status \in AttemptTransitions[rows[a].status]
       \/ rows'[a].status = rows[a].status
    /\ rows'[a].status \in {"Succeeded", "Failed", "Expired"} =>
          rows'[a].status = worker[w].answer.status
    /\ rows'[a].status \notin {"Error", "Absent", "Initiated"}
    /\ rows'[a].checked = rows[a].checked
    /\ rows' = [rows EXCEPT ![a] = rows'[a]]

Pays(w, a) ==
    /\ session.status = "Open"
    /\ worker[w].answer = [status |-> "Succeeded", exact |-> TRUE]
    /\ rows'[a].status = "Succeeded" /\ ~rows'[a].duplicate /\ ~rows'[a].amount_mismatch
    /\ session' = PaidSession(a, worker[w].answer)
    /\ UNCHANGED repaid

PaysAgain(w, a) ==
    /\ session.status = "Paid"
    /\ worker[w].answer.status # "Succeeded"
    /\ rows'[a].status # "Succeeded"
    /\ session' = PaidSession(a, worker[w].answer)
    /\ repaid' = TRUE

OnlyClasses(w, a) ==
    /\ rows'[a].status = "Succeeded" =>
          /\ worker[w].answer.status = "Succeeded"
          /\ session.status = "Paid" => rows'[a].duplicate
          /\ session.status = "Open" => rows'[a].amount_mismatch
    /\ UNCHANGED <<session, repaid>>

(* What a resolution r of an answer for an attempt in state t of a session *)
(* in state s may say.                                                     *)
Decides(s, t, result, r) ==
    /\ r.attempt_status \in AttemptInFlightStates => t \in AttemptInFlightStates
    /\ r.attempt_status \in AttemptTransitions[t] \/ r.attempt_status = t
    /\ r.attempt_status = "Succeeded" <=> result.status = "Succeeded"
    /\ r.attempt_status \in {"Failed", "Expired"} => r.attempt_status = result.status
    /\ r.attempt_status \notin {"Error", "Absent", "Initiated"}
    /\ SessionPaid(r) =>
          \/ /\ s = "Open" /\ result.exact /\ result.status = "Succeeded"
             /\ ~r.duplicate /\ ~r.amount_mismatch
          \/ s = "Paid" /\ result.status # "Succeeded"
    /\ ~SessionPaid(r) => r.session_status = s
    /\ ~SessionPaid(r) /\ result.status = "Succeeded" =>
          /\ s = "Paid" => r.duplicate
          /\ s = "Open" => r.amount_mismatch

LEMMA ResolveCases ==
    ASSUME NEW s \in SessionStatuses, NEW t \in CheckableStates,
           NEW result \in ProviderResults, NEW late \in BOOLEAN
    PROVE  Decides(s, t, result, Resolve(s, t, result, late))
  BY DEF Decides, Resolve, ResolvedStatus, SessionPaid, SessionStatuses, CheckableStates,
         ProviderResults, ProviderStatuses, AttemptStatuses, AttemptTransitions,
         AttemptInFlightStates

LEMMA RecordCases ==
    ASSUME TypeInv, NEW w \in Workers, Record(w)
    PROVE  /\ Attempt(w) \in Attempts
           /\ UNCHANGED <<provider, effects, alerts>>
           /\ \/ SettledMeanwhile(w)
              \/ /\ OnlyRow(w, Attempt(w))
                 /\ \/ Pays(w, Attempt(w))
                    \/ PaysAgain(w, Attempt(w))
                    \/ OnlyClasses(w, Attempt(w))
<1> DEFINE a == Attempt(w)
           late == rows[a].age # "young"
           r == Resolve(session.status, rows[a].status, worker[w].answer, late)
<1>1. a \in Attempts /\ UNCHANGED <<provider, effects, alerts>>
  BY DEF TypeInv, Busy, AttemptPCs, Record, At
<1>2. CASE rows[a].status \notin CheckableStates
  BY <1>1, <1>2 DEF Record, SettledMeanwhile
<1>3. CASE rows[a].status \in CheckableStates
  <2>1. /\ session \in SessionType
        /\ session.status \in SessionStatuses
        /\ worker[w].answer \in ProviderResults
        /\ late \in BOOLEAN
    BY DEF TypeInv, TypeOK, SessionType, WorkerType
  <2>2. Apply(w, a, r)
    BY <1>3 DEF Record
  <2>3. Decides(session.status, rows[a].status, worker[w].answer, r)
    BY <1>3, <2>1, ResolveCases
  <2> HIDE DEF r, late
  <2>4. /\ rows[a] \in RowType
        /\ rows' = [rows EXCEPT ![a] = ResolvedRow(rows[a], r)]
        /\ rows'[a] = ResolvedRow(rows[a], r)
    BY <1>1, <2>2 DEF TypeInv, TypeOK, Apply
  <2>5. /\ rows'[a].status = r.attempt_status
        /\ rows'[a].duplicate = r.duplicate
        /\ rows'[a].amount_mismatch = r.amount_mismatch
        /\ rows'[a].checked = rows[a].checked
    BY <2>4, ResolvedRowFields
  <2>6. OnlyRow(w, a)
    BY <1>3, <2>3, <2>4, <2>5 DEF OnlyRow, Decides
  <2>7. CASE SessionPaid(r) /\ session.status = "Open"
    <3>1. worker[w].answer = [status |-> "Succeeded", exact |-> TRUE]
      BY <2>1, <2>3, <2>7 DEF ProviderResults, Decides
    <3>2. session' = PaidSession(a, worker[w].answer) /\ repaid' = repaid
      BY <2>2, <2>7 DEF Apply, TypeInv, TypeOK
    <3> QED
      BY <1>1, <2>3, <2>5, <2>6, <2>7, <3>1, <3>2 DEF Pays, Decides
  <2>8. CASE SessionPaid(r) /\ session.status # "Open"
    <3>1. session' = PaidSession(a, worker[w].answer) /\ repaid' = TRUE
      BY <2>2, <2>3, <2>8 DEF Apply, Decides
    <3> QED
      BY <1>1, <2>3, <2>5, <2>6, <2>8, <3>1 DEF PaysAgain, Decides
  <2>9. CASE ~SessionPaid(r)
    <3>1. session' = [session EXCEPT !.status = session.status] /\ repaid' = repaid
      BY <2>2, <2>3, <2>9 DEF Apply, Decides
    <3>2. session' = session
      BY <2>1, <3>1 DEF SessionType
    <3> QED
      BY <1>1, <2>3, <2>5, <2>6, <2>9, <3>1, <3>2 DEF OnlyClasses, Decides
  <2> QED
    BY <2>7, <2>8, <2>9
<1> QED
  BY <1>2, <1>3

-----------------------------------------------------------------------------
(* What pays the session: the attempts' statuses and flags, and the        *)
(* session's status.  Most steps leave all of that alone.                  *)

MoneyInv == OneInFlight /\ PaidByOne

SameRow(b) ==
    /\ rows'[b].status = rows[b].status
    /\ rows'[b].duplicate = rows[b].duplicate
    /\ rows'[b].amount_mismatch = rows[b].amount_mismatch

SameMoney ==
    /\ \A b \in Attempts : SameRow(b)
    /\ session'.status = session.status

MoneyNext ==
    \/ \E w \in Workers, a \in Attempts : OpenAttempt(w, a)
    \/ \E w \in Workers : RecordStart(w)
    \/ \E w \in Workers : Record(w)
    \/ VoidOpenSession
    \/ SameMoney

LEMMA ClaimKeepsMoney ==
    ASSUME TypeInv, NEW w \in Workers, NEW a \in Attempts, Claim(w, a)
    PROVE  SameMoney
<1>1. \A b \in Attempts : SameRow(b)
  <2> SUFFICES ASSUME NEW b \in Attempts PROVE SameRow(b)
    OBVIOUS
  <2>1. rows'[b].status = rows[b].status
    BY DEF TypeInv, TypeOK, Claim, RowType
  <2>2. rows'[b].duplicate = rows[b].duplicate
    BY DEF TypeInv, TypeOK, Claim, RowType
  <2>3. rows'[b].amount_mismatch = rows[b].amount_mismatch
    BY DEF TypeInv, TypeOK, Claim, RowType
  <2> QED
    BY <2>1, <2>2, <2>3 DEF SameRow
<1> QED
  BY <1>1 DEF SameMoney, Claim

LEMMA TimeKeepsMoney ==
    ASSUME TypeInv, NEW a \in Attempts, TimeStep(a)
    PROVE  SameMoney
<1>1. \A b \in Attempts : SameRow(b)
  <2> SUFFICES ASSUME NEW b \in Attempts PROVE SameRow(b)
    OBVIOUS
  <2>1. rows \in [Attempts -> RowType]
    BY DEF TypeInv, TypeOK
  <2>2. CASE CheckDateComes(a)
    BY <2>1, <2>2 DEF CheckDateComes, RowType, SameRow
  <2>3. CASE CheckIntervalPasses(a)
    BY <2>1, <2>3 DEF CheckIntervalPasses, RowType, SameRow
  <2>4. CASE DeadlinePasses(a)
    BY <2>1, <2>4 DEF DeadlinePasses, RowType, SameRow
  <2> QED
    BY <2>2, <2>3, <2>4 DEF TimeStep
<1> QED
  BY <1>1 DEF SameMoney, TimeStep, CheckDateComes, CheckIntervalPasses, DeadlinePasses

LEMMA AuthorizingKeepsMoney ==
    ASSUME TypeInv, NEW w \in Workers, AuthorizeStep(w) \/ RetryDateComes
    PROVE  SameMoney
<1>1. rows' = rows
  BY DEF AuthorizeStep, BeginAuthorize, ScheduledRetry, ManagerRetry, Authorize,
         ConsumerCommitsEarly, ConsumerReturns, ConsumerRaises, AlertFailure,
         SelectExhausted, AlertExhausted, RetryDateComes
<1>2. session'.status = session.status
  BY DoneFields
     DEF TypeInv, TypeOK, SessionType, AuthorizeStep, BeginAuthorize, ScheduledRetry,
         ManagerRetry, Authorize, ConsumerCommitsEarly, ConsumerRaises,
         FailedSession, AlertFailure, SelectExhausted, AlertExhausted, RetryDateComes
<1> QED
  BY <1>1, <1>2 DEF SameMoney, SameRow

LEMMA MoneyCases == TypeInv /\ [Next]_vars => MoneyNext
<1> SUFFICES ASSUME TypeInv, [Next]_vars PROVE MoneyNext
  OBVIOUS
<1>1. CASE UNCHANGED vars
  BY <1>1 DEF vars, MoneyNext, SameMoney, SameRow
<1>2. ASSUME NEW w \in Workers, StartStep(w) PROVE MoneyNext
  <2>1. CASE rows' = rows /\ session' = session
    BY <2>1 DEF MoneyNext, SameMoney, SameRow
  <2> QED
    BY <1>2, <2>1 DEF StartStep, RequestArrives, SendAccepted, SendRefused, SendUnanswered,
                      MoneyNext
<1>3. ASSUME NEW w \in Workers, CheckStep(w) PROVE MoneyNext
  <2>1. CASE rows' = rows /\ session' = session
    BY <2>1 DEF MoneyNext, SameMoney, SameRow
  <2> QED
    BY <1>3, <2>1, ClaimKeepsMoney DEF CheckStep, GuestCheck, ScheduledCheck, Hear, Tell,
                                       MoneyNext
<1>4. ASSUME NEW w \in Workers, AuthorizeStep(w) PROVE MoneyNext
  BY <1>4, AuthorizingKeepsMoney DEF MoneyNext
<1>5. ASSUME NEW w \in Workers, Abandon(w) PROVE MoneyNext
  BY <1>5 DEF Abandon, MoneyNext, SameMoney, SameRow
<1>6. ASSUME NEW a \in Attempts, ProviderStep(a) PROVE MoneyNext
  BY <1>6 DEF ProviderStep, LateArrival, Decide, MoneyNext, SameMoney, SameRow
<1>7. ASSUME NEW a \in Attempts, TimeStep(a) PROVE MoneyNext
  BY <1>7, TimeKeepsMoney DEF MoneyNext
<1>8. CASE RetryDateComes
  <2>1. rows' = rows
    BY <1>8 DEF RetryDateComes
  <2>2. session'.status = session.status
    BY <1>8 DEF RetryDateComes, TypeInv, TypeOK, SessionType
  <2> QED
    BY <2>1, <2>2 DEF MoneyNext, SameMoney, SameRow
<1>9. CASE VoidOpenSession
  BY <1>9 DEF MoneyNext
<1> QED
  BY <1>1, <1>2, <1>3, <1>4, <1>5, <1>6, <1>7, <1>8, <1>9 DEF Next

LEMMA MoneyStep == TypeInv /\ MoneyInv /\ [Next]_vars => MoneyInv'
<1> SUFFICES ASSUME TypeInv, MoneyInv, MoneyNext PROVE MoneyInv'
  BY MoneyCases
<1>1. CASE SameMoney
  <2>1. \A b \in Attempts : Paying(b)' <=> Paying(b)
    BY <1>1 DEF SameMoney, SameRow, Paying
  <2>2. OneInFlight'
    BY <1>1 DEF SameMoney, SameRow, MoneyInv, OneInFlight
  <2>3. PaidByOne'
    BY <1>1, <2>1 DEF SameMoney, MoneyInv, PaidByOne
  <2> QED
    BY <2>2, <2>3 DEF MoneyInv
<1>2. ASSUME NEW w \in Workers, NEW a \in Attempts, OpenAttempt(w, a) PROVE MoneyInv'
  <2>1. /\ rows'[a].status = "Initiated" /\ session' = session
        /\ \A b \in Attempts : b # a => rows'[b] = rows[b]
    BY <1>2 DEF OpenAttempt, TypeInv, TypeOK, RowType
  <2>2. \A b \in Attempts : rows[b].status \notin AttemptInFlightStates
    BY <1>2 DEF OpenAttempt, CanStartAttempt
  <2>3. OneInFlight'
    BY <2>1, <2>2 DEF OneInFlight
  <2>4. \A b \in Attempts : Paying(b)' <=> Paying(b)
    BY <1>2, <2>1 DEF Paying, OpenAttempt
  <2> QED
    BY <2>1, <2>3, <2>4 DEF MoneyInv, PaidByOne
<1>3. ASSUME NEW w \in Workers, RecordStart(w) PROVE MoneyInv'
  <2> DEFINE a == Attempt(w)
  <2>1. a \in Attempts
    BY <1>3 DEF TypeInv, Busy, AttemptPCs, RecordStart
  <2>2. /\ rows'[a] = RecordedStart(rows[a], At(w, "refused")) /\ session' = session
        /\ \A b \in Attempts : b # a => rows'[b] = rows[b]
    BY <1>3, <2>1 DEF RecordStart, TypeInv, TypeOK
  <2>3. /\ rows'[a].status = rows[a].status \/ rows'[a].status = "Error"
        /\ rows[a].status # "Initiated" => rows'[a] = rows[a]
    BY <2>1, <2>2 DEF RecordedStart, TypeInv, TypeOK, RowType
  <2>4. OneInFlight'
    BY <2>1, <2>2, <2>3 DEF MoneyInv, OneInFlight, AttemptInFlightStates
  <2>5. \A b \in Attempts : Paying(b)' <=> Paying(b)
    BY <2>1, <2>2, <2>3 DEF Paying
  <2> QED
    BY <2>2, <2>4, <2>5 DEF MoneyInv, PaidByOne
<1>4. ASSUME NEW w \in Workers, Record(w) PROVE MoneyInv'
  <2>1. PICK a \in Attempts :
           \/ SettledMeanwhile(w)
           \/ OnlyRow(w, a) /\ (Pays(w, a) \/ PaysAgain(w, a) \/ OnlyClasses(w, a))
    BY <1>4, RecordCases
  <2>2. CASE SettledMeanwhile(w)
    BY <2>2 DEF SettledMeanwhile, MoneyInv, OneInFlight, PaidByOne, Paying
  <2>3. CASE OnlyRow(w, a) /\ (Pays(w, a) \/ PaysAgain(w, a) \/ OnlyClasses(w, a))
    <3>1. /\ \A b \in Attempts : b # a => rows'[b] = rows[b]
          /\ rows'[a].status \in AttemptInFlightStates =>
                rows[a].status \in AttemptInFlightStates
          /\ rows[a].status # "Succeeded"
      BY <2>1, <2>3 DEF OnlyRow, TypeInv, TypeOK, CheckableStates
    <3>2. OneInFlight'
      BY <2>1, <3>1 DEF MoneyInv, OneInFlight
    <3>3. ~Paying(a) /\ \A b \in Attempts : b # a => (Paying(b)' <=> Paying(b))
      BY <3>1 DEF Paying
    <3>4. CASE Pays(w, a)
      <4>1. session.status = "Open" /\ session'.status = "Paid" /\ Paying(a)'
        BY <3>4 DEF Pays, PaidSession, TypeInv, TypeOK, SessionType, Paying
      <4> QED
        BY <2>1, <3>2, <3>3, <4>1 DEF MoneyInv, PaidByOne
    <3>5. CASE PaysAgain(w, a)
      <4>1. session.status = "Paid" /\ session'.status = "Paid" /\ ~Paying(a)'
        BY <3>5 DEF PaysAgain, PaidSession, TypeInv, TypeOK, SessionType, Paying
      <4> QED
        BY <2>1, <3>2, <3>3, <4>1 DEF MoneyInv, PaidByOne
    <3>6. CASE OnlyClasses(w, a)
      <4>1. session' = session /\ (session.status \in {"Paid", "Open"} => ~Paying(a)')
        BY <3>6 DEF OnlyClasses, Paying
      <4> QED
        BY <2>1, <3>2, <3>3, <4>1 DEF MoneyInv, PaidByOne
    <3> QED
      BY <2>3, <3>4, <3>5, <3>6
  <2> QED
    BY <2>1, <2>2, <2>3
<1>5. CASE VoidOpenSession
  <2>1. rows' = rows /\ session'.status = "Void"
    BY <1>5 DEF VoidOpenSession, TypeInv, TypeOK, SessionType
  <2> QED
    BY <2>1 DEF MoneyInv, OneInFlight, PaidByOne, Paying
<1> QED
  BY <1>1, <1>2, <1>3, <1>4, <1>5 DEF MoneyNext

LEMMA MoneyInvariant == Spec => []MoneyInv
<1>1. Init => MoneyInv
  BY DEF Init, MoneyInv, OneInFlight, PaidByOne, Paying, AttemptInFlightStates
<1> QED
  BY <1>1, MoneyStep, TypeInvariant, PTL DEF Spec

(* However many processes start, check and cancel, at most one attempt of  *)
(* a session is Initiated or Pending.                                      *)
THEOREM OneAttemptAtATime == Spec => []OneInFlight
<1>1. MoneyInv => OneInFlight
  BY DEF MoneyInv
<1> QED
  BY <1>1, MoneyInvariant, PTL

(* A Paid session has exactly one attempt that pays it, an Open one none.  *)
THEOREM OnePaymentPays == Spec => []PaidByOne
<1>1. MoneyInv => PaidByOne
  BY DEF MoneyInv
<1> QED
  BY <1>1, MoneyInvariant, PTL

-----------------------------------------------------------------------------
(* What books the session: its authorization, its tries and the consumer's *)
(* committed effects, under the lock the consuming process holds.          *)

(* Until it is Paid, a session has nothing to authorize.                   *)
NothingToAuthorize ==
    session.status # "Paid" =>
        /\ session.authorization = "None" /\ session.tries = 0
        /\ effects = 0 /\ repaid = FALSE

(* The consumer runs under the row lock, and only for a session that is    *)
(* Paid and not Done.  One that has committed had effects, and it alone    *)
(* lets go of the lock.                                                    *)
ConsumingAlone ==
    /\ \A w \in Workers : At(w, "consuming") =>
          session.status = "Paid" /\ session.authorization # "Done"
    /\ \A v, w \in Workers : At(v, "consuming") /\ At(w, "consuming") => v = w
    /\ \A w \in Workers : At(w, "committed") =>
          ConsumerCommits /\ session.status = "Paid" /\ effects > 0

BookingInv == NothingToAuthorize /\ ConsumingAlone /\ BookedOnce /\ NeverForgotten

SameBooking ==
    /\ UNCHANGED <<session, effects, repaid>>
    /\ \A v \in Workers : worker'[v].pc \in {"consuming", "committed"} =>
                             worker'[v].pc = worker[v].pc

BookingNext ==
    \/ \E w \in Workers :
          \/ Record(w) \/ Authorize(w) \/ ConsumerCommitsEarly(w)
          \/ ConsumerReturns(w) \/ AlertFailure(w) \/ AlertExhausted(w)
    \/ \E w \in Workers, transient \in BOOLEAN : ConsumerRaises(w, transient)
    \/ VoidOpenSession
    \/ RetryDateComes
    \/ SameBooking

LEMMA FinishMoves ==
    ASSUME TypeInv, NEW w \in Workers, Finish(w)
    PROVE  worker'[w] = Idle /\ \A v \in Workers : v # w => worker'[v] = worker[v]
  BY DEF TypeInv, TypeOK, Finish

LEMMA EnterMoves ==
    ASSUME TypeInv, NEW w \in Workers, NEW pc, Enter(w, pc)
    PROVE  /\ worker'[w].pc = pc /\ worker'[w].attempt = NoAttempt
           /\ \A v \in Workers : v # w => worker'[v] = worker[v]
<1>1. worker' = [worker EXCEPT ![w] = [Idle EXCEPT !.pc = pc]]
  BY DEF Enter
<1>2. [Idle EXCEPT !.pc = pc].pc = pc /\ [Idle EXCEPT !.pc = pc].attempt = NoAttempt
  BY DEF Idle
<1> QED
  BY <1>1, <1>2 DEF TypeInv, TypeOK

LEMMA GoMoves ==
    ASSUME TypeInv, NEW w \in Workers, NEW pc, Go(w, pc)
    PROVE  /\ worker'[w].pc = pc /\ worker'[w].attempt = worker[w].attempt
           /\ \A v \in Workers : v # w => worker'[v] = worker[v]
  BY DEF TypeInv, TypeOK, WorkerType, Go

LEMMA BookingCases == TypeInv /\ [Next]_vars => BookingNext
<1> SUFFICES ASSUME TypeInv, [Next]_vars PROVE BookingNext
  OBVIOUS
<1>1. CASE UNCHANGED vars
  BY <1>1 DEF vars, BookingNext, SameBooking
<1>2. ASSUME NEW w \in Workers, StartStep(w) PROVE BookingNext
  <2>1. ASSUME NEW a \in Attempts, OpenAttempt(w, a) PROVE SameBooking
    <3>1. \A v \in Workers : worker'[v].pc \in {"consuming", "committed"} =>
                               worker'[v].pc = worker[v].pc
      BY <2>1 DEF OpenAttempt, TypeInv, TypeOK, WorkerType
    <3> QED
      BY <2>1, <3>1 DEF OpenAttempt, SameBooking
  <2>2. ASSUME RequestArrives(w) PROVE SameBooking
    BY <2>2 DEF RequestArrives, SameBooking
  <2>3. ASSUME SendAccepted(w) \/ SendRefused(w) \/ SendUnanswered(w) PROVE SameBooking
    BY <2>3, GoMoves DEF SendAccepted, SendRefused, SendUnanswered, SameBooking
  <2>4. ASSUME RecordStart(w) PROVE SameBooking
    BY <2>4, FinishMoves, IdleType DEF RecordStart, SameBooking
  <2> QED
    BY <1>2, <2>1, <2>2, <2>3, <2>4 DEF StartStep, BookingNext
<1>3. ASSUME NEW w \in Workers, CheckStep(w) PROVE BookingNext
  <2>1. ASSUME NEW a \in Attempts, Claim(w, a) PROVE SameBooking
    <3>1. \A v \in Workers : worker'[v].pc \in {"consuming", "committed"} =>
                               worker'[v].pc = worker[v].pc
      BY <2>1 DEF Claim, TypeInv, TypeOK, WorkerType
    <3> QED
      BY <2>1, <3>1 DEF Claim, SameBooking
  <2>2. ASSUME Hear(w) PROVE SameBooking
    <3>1. \A v \in Workers : worker'[v].pc \in {"consuming", "committed"} =>
                               worker'[v].pc = worker[v].pc
      BY <2>2 DEF Hear, TypeInv, TypeOK, WorkerType
    <3> QED
      BY <2>2, <3>1 DEF Hear, SameBooking
  <2>3. ASSUME Tell(w) PROVE SameBooking
    BY <2>3, FinishMoves, IdleType DEF Tell, SameBooking
  <2> QED
    BY <1>3, <2>1, <2>2, <2>3 DEF CheckStep, GuestCheck, ScheduledCheck, BookingNext
<1>4. ASSUME NEW w \in Workers, AuthorizeStep(w) PROVE BookingNext
  <2>1. CASE ScheduledRetry(w)
    BY <2>1, EnterMoves DEF ScheduledRetry, SameBooking, BookingNext
  <2>2. CASE SelectExhausted(w)
    BY <2>2, EnterMoves DEF SelectExhausted, SameBooking, BookingNext
  <2> QED
    BY <1>4, <2>1, <2>2 DEF AuthorizeStep, BeginAuthorize, ManagerRetry, BookingNext
<1>5. ASSUME NEW w \in Workers, Abandon(w) PROVE BookingNext
  BY <1>5, FinishMoves, IdleType DEF Abandon, SameBooking, BookingNext
<1>6. ASSUME NEW a \in Attempts, ProviderStep(a) \/ TimeStep(a) PROVE BookingNext
  BY <1>6 DEF ProviderStep, LateArrival, Decide, TimeStep, CheckDateComes,
              CheckIntervalPasses, DeadlinePasses, SameBooking, BookingNext
<1> QED
  BY <1>1, <1>2, <1>3, <1>4, <1>5, <1>6 DEF Next, BookingNext

LEMMA BookingStep == TypeInv /\ BookingInv /\ [Next]_vars => BookingInv'
<1> SUFFICES ASSUME TypeInv, BookingInv, BookingNext PROVE BookingInv'
  BY BookingCases
<1> USE DEF BookingInv
<1>1. CASE SameBooking
  BY <1>1 DEF SameBooking, NothingToAuthorize, ConsumingAlone, BookedOnce, NeverForgotten, At
<1>2. ASSUME NEW w \in Workers, Record(w) PROVE BookingInv'
  <2>1. PICK a \in Attempts :
           /\ effects' = effects
           /\ \/ SettledMeanwhile(w)
              \/ OnlyRow(w, a) /\ (Pays(w, a) \/ PaysAgain(w, a) \/ OnlyClasses(w, a))
    BY <1>2, RecordCases
  <2>2. /\ \A v \in Workers : ~At(v, "consuming")
        /\ \A v \in Workers : ~At(v, "consuming")'
    <3>1. \A v \in Workers : worker[v].pc # "consuming"
      BY <1>2 DEF Record, Unlocked
    <3>2. \/ Finish(w)
          \/ \E x, r : worker' = [worker EXCEPT ![w] = AfterRecord(x, r)]
      BY <1>2 DEF Record, Apply
    <3>3. ASSUME NEW x, NEW r PROVE AfterRecord(x, r).pc # "consuming"
      BY IdleType DEF AfterRecord, WorkerType
    <3>4. \A v \in Workers : worker'[v].pc # "consuming"
      BY <3>1, <3>2, <3>3, FinishMoves, IdleType DEF TypeInv, TypeOK
    <3> QED
      BY <3>1, <3>4 DEF At
  <2>0. \A v \in Workers : At(v, "committed")' => At(v, "committed")
    <3>2. \/ Finish(w)
          \/ \E x, r : worker' = [worker EXCEPT ![w] = AfterRecord(x, r)]
      BY <1>2 DEF Record, Apply
    <3>3. ASSUME NEW x, NEW r PROVE AfterRecord(x, r).pc # "committed"
      BY IdleType DEF AfterRecord, WorkerType
    <3> QED
      BY <3>2, <3>3, FinishMoves, IdleType DEF TypeInv, TypeOK, At
  <2>3. CASE UNCHANGED <<session, repaid>>
    BY <2>1, <2>2, <2>0, <2>3 DEF NothingToAuthorize, ConsumingAlone, BookedOnce, NeverForgotten
  <2>4. CASE Pays(w, a)
    <3>1. /\ session.status = "Open" /\ session'.status = "Paid"
          /\ session'.authorization = "Pending"
          /\ session'.next_retry = NextAuthorizationRetry(session.tries)
          /\ repaid' = repaid
      BY <2>4 DEF Pays, PaidSession, TypeInv, TypeOK, SessionType
    <3>2. session.tries = 0 /\ effects = 0 /\ ~repaid
      BY <3>1 DEF NothingToAuthorize
    <3>3. session'.next_retry = "Later"
      BY <3>1, <3>2, MaxTriesAssumption DEF NextAuthorizationRetry
    <3> QED
      BY <2>1, <2>2, <2>0, <3>1, <3>2, <3>3
         DEF NothingToAuthorize, ConsumingAlone, BookedOnce, NeverForgotten
  <2>5. CASE PaysAgain(w, a)
    <3>1. /\ session.status = "Paid" /\ session'.status = "Paid"
          /\ session'.authorization = "Pending" /\ repaid' = TRUE
      BY <2>5 DEF PaysAgain, PaidSession, TypeInv, TypeOK, SessionType
    <3> QED
      BY <2>1, <2>2, <2>0, <3>1
         DEF NothingToAuthorize, ConsumingAlone, BookedOnce, NeverForgotten
  <2> QED
    BY <2>1, <2>3, <2>4, <2>5 DEF SettledMeanwhile, OnlyClasses
<1>3. ASSUME NEW w \in Workers, Authorize(w) PROVE BookingInv'
  <2>1. \A v \in Workers : v # w => worker'[v].pc # "consuming"
    BY <1>3, FinishMoves, EnterMoves DEF Authorize, Unlocked
  <2>2. worker'[w].pc = "consuming" => CanAuthorize
    BY <1>3, FinishMoves, IdleType DEF Authorize
  <2>4. \A v \in Workers : worker'[v].pc = "committed" => worker[v].pc = "committed"
    BY <1>3, FinishMoves, EnterMoves, IdleType DEF Authorize
  <2>3. ConsumingAlone'
    BY <1>3, <2>1, <2>2, <2>4 DEF ConsumingAlone, Authorize, CanAuthorize, At
  <2> QED
    BY <1>3, <2>3 DEF Authorize, NothingToAuthorize, BookedOnce, NeverForgotten
<1>4. ASSUME NEW w \in Workers, ConsumerReturns(w) PROVE BookingInv'
  <2>1. /\ session'.status = session.status /\ session'.authorization = "Done"
        /\ session'.tries = session.tries /\ repaid' = repaid
    BY <1>4, DoneFields DEF ConsumerReturns
  <2>2. /\ session.status = "Paid"
        /\ session.authorization # "Done" \/ ConsumerCommits
    BY <1>4 DEF ConsumerReturns, ConsumingAlone
  <2>3. \A v \in Workers : worker'[v].pc # "consuming"
    BY <1>4, FinishMoves, IdleType DEF ConsumerReturns, ConsumingAlone, At, Unlocked
  <2>4. \A v \in Workers : worker'[v].pc = "committed" => worker[v].pc = "committed"
    BY <1>4, FinishMoves, IdleType DEF ConsumerReturns
  <2>5. effects' > 0 /\ (~repaid /\ ~ConsumerCommits => effects' = 1)
    <3>1. CASE At(w, "consuming") /\ effects' = CountTo2(effects)
      BY <2>2, <3>1 DEF BookedOnce, CountTo2, TypeInv, TypeOK
    <3>2. CASE At(w, "committed") /\ effects' = effects
      BY <3>2 DEF ConsumingAlone
    <3> QED
      BY <1>4, <3>1, <3>2 DEF ConsumerReturns
  <2>6. ConsumingAlone'
    BY <2>1, <2>2, <2>3, <2>4, <2>5 DEF ConsumingAlone, At
  <2> QED
    BY <2>1, <2>2, <2>5, <2>6 DEF NothingToAuthorize, BookedOnce, NeverForgotten
<1>5. ASSUME NEW w \in Workers, NEW transient \in BOOLEAN, ConsumerRaises(w, transient)
      PROVE BookingInv'
  <2>1. /\ session'.status = session.status /\ session'.authorization = "Failed"
        /\ session'.tries = FailedTries
        /\ session'.next_retry = NextAuthorizationRetry(FailedTries)
        /\ repaid' = repaid /\ effects' = effects
    BY <1>5 DEF ConsumerRaises, FailedSession, TypeInv, TypeOK, SessionType
  <2>2. /\ session.status = "Paid"
        /\ session.authorization # "Done" \/ ConsumerCommits
    BY <1>5 DEF ConsumerRaises, ConsumingAlone
  <2>3. \A v \in Workers : worker'[v].pc # "consuming"
    BY <1>5, FinishMoves, EnterMoves, IdleType
       DEF ConsumerRaises, ConsumingAlone, At, Unlocked
  <2>6. \A v \in Workers : worker'[v].pc = "committed" => worker[v].pc = "committed"
    BY <1>5, FinishMoves, EnterMoves, IdleType DEF ConsumerRaises
  <2>4. FailedTries \in 0 .. MaxTries
    BY MaxTriesAssumption DEF FailedTries, TypeInv, TypeOK, SessionType
  <2>5. session'.next_retry # "None" \/ session'.tries = MaxTries
    BY <2>1, <2>4, MaxTriesAssumption DEF NextAuthorizationRetry
  <2>7. ConsumingAlone'
    BY <2>1, <2>2, <2>3, <2>6 DEF ConsumingAlone, At
  <2> QED
    BY <2>1, <2>2, <2>5, <2>7 DEF NothingToAuthorize, BookedOnce, NeverForgotten
<1>9. ASSUME NEW w \in Workers, ConsumerCommitsEarly(w) PROVE BookingInv'
  <2>1. At(w, "consuming") /\ ConsumerCommits /\ UNCHANGED <<session, repaid>>
    BY <1>9 DEF ConsumerCommitsEarly
  <2>2. effects' > 0
    BY <1>9 DEF ConsumerCommitsEarly, CountTo2, TypeInv, TypeOK
  <2>3. /\ \A v \in Workers : worker'[v].pc # "consuming"
        /\ \A v \in Workers : v # w => worker'[v] = worker[v]
    BY <1>9, EnterMoves DEF ConsumerCommitsEarly, ConsumingAlone, At
  <2>4. ConsumingAlone'
    BY <2>1, <2>2, <2>3 DEF ConsumingAlone, At
  <2> QED
    BY <2>1, <2>2, <2>4 DEF ConsumingAlone, NothingToAuthorize, BookedOnce, NeverForgotten
<1>6. ASSUME NEW w \in Workers, AlertFailure(w) \/ AlertExhausted(w) PROVE BookingInv'
  <2>1. /\ session'.status = session.status
        /\ session'.authorization = session.authorization
        /\ session'.tries = session.tries /\ session'.next_retry = session.next_retry
        /\ repaid' = repaid /\ effects' = effects
    BY <1>6 DEF AlertFailure, AlertExhausted, TypeInv, TypeOK, SessionType
  <2>2. /\ \A v \in Workers : worker'[v].pc # "consuming"
        /\ \A v \in Workers : worker'[v].pc = "committed" => worker[v].pc = "committed"
    BY <1>6, FinishMoves, IdleType DEF AlertFailure, AlertExhausted, Unlocked
  <2> QED
    BY <2>1, <2>2 DEF NothingToAuthorize, ConsumingAlone, BookedOnce, NeverForgotten, At
<1>7. CASE VoidOpenSession
  <2>1. /\ session.status = "Open" /\ session'.status = "Void"
        /\ session'.authorization = session.authorization
        /\ session'.tries = session.tries
        /\ repaid' = repaid /\ effects' = effects /\ worker' = worker
    BY <1>7 DEF VoidOpenSession, TypeInv, TypeOK, SessionType
  <2> QED
    BY <2>1 DEF NothingToAuthorize, ConsumingAlone, BookedOnce, NeverForgotten, At
<1>8. CASE RetryDateComes
  <2>1. /\ session'.status = session.status /\ session'.next_retry = "Due"
        /\ session'.authorization = session.authorization
        /\ session'.tries = session.tries
        /\ repaid' = repaid /\ effects' = effects /\ worker' = worker
    BY <1>8 DEF RetryDateComes, TypeInv, TypeOK, SessionType
  <2> QED
    BY <2>1 DEF NothingToAuthorize, ConsumingAlone, BookedOnce, NeverForgotten, At
<1> QED
  BY <1>1, <1>2, <1>3, <1>4, <1>5, <1>6, <1>7, <1>8, <1>9 DEF BookingNext

LEMMA BookingInvariant == Spec => []BookingInv
<1>1. Init => BookingInv
  BY MaxTriesAssumption DEF Init, BookingInv, NothingToAuthorize, ConsumingAlone,
     BookedOnce, NeverForgotten, Idle, At
<1> QED
  BY <1>1, BookingStep, TypeInvariant, PTL DEF Spec

(* Done and the consumer's effects go together, and the effects are        *)
(* committed once unless a session already Paid was taken as paid again.   *)
THEOREM DoneMeansBooked == Spec => []BookedOnce
<1>1. BookingInv => BookedOnce
  BY DEF BookingInv
<1> QED
  BY <1>1, BookingInvariant, PTL

(* A paid session that is not booked has a retry date, or has failed all   *)
(* its tries, under the same proviso.                                      *)
THEOREM PaidIsNeverForgotten == Spec => []NeverForgotten
<1>1. BookingInv => NeverForgotten
  BY DEF BookingInv
<1> QED
  BY <1>1, BookingInvariant, PTL

-----------------------------------------------------------------------------
(* What the provider knows of an attempt, against what the processes that  *)
(* start and check it believe.                                             *)

Starting == {"sending", "accepted", "refused"}
Checking == {"asking", "heard"}

(* Nobody has heard of an attempt that is not on record yet.               *)
Unheard ==
    \A a \in Attempts : rows[a].status = "Absent" =>
        /\ provider[a] = "Absent" /\ ~rows[a].checked /\ ~rows[a].due
        /\ \A w \in Workers : worker[w].pc \in AttemptPCs => worker[w].attempt # a

(* An attempt that is being sent is still Initiated, never checked and not *)
(* due for it, and a single process is starting it.                        *)
SentByOne ==
    /\ \A w \in Workers : worker[w].pc = "sending" =>
          /\ rows[worker[w].attempt].status = "Initiated"
          /\ ~rows[worker[w].attempt].checked /\ ~rows[worker[w].attempt].due
    /\ \A v, w \in Workers :
          worker[v].pc \in Starting /\ worker[w].pc \in Starting
              /\ worker[v].attempt = worker[w].attempt => v = w

RefusedIsAbsent ==
    \A w \in Workers : worker[w].pc = "refused" => provider[worker[w].attempt] = "Absent"

CheckedBeforeAsked ==
    \A w \in Workers : worker[w].pc \in Checking => rows[worker[w].attempt].checked

NothingLate == ~LateArrivals => \A a \in Attempts : provider[a] # "InTransit"

(* An answer, however long ago it was given, still holds if it is final.   *)
StillTrue(answer, p) ==
    /\ answer.status = "Succeeded" => p \in {"Succeeded", "Mispaid"}
    /\ answer.status = "Succeeded" /\ answer.exact => p = "Succeeded"
    /\ answer.status = "Expired" => p = "Expired"
    /\ answer.status = "Failed" /\ ~LateArrivals => p \in {"Absent", "Failed"}

AnswersHold ==
    \A w \in Workers : worker[w].pc = "heard" =>
        StillTrue(worker[w].answer, provider[worker[w].attempt])

ProviderInv ==
    /\ Unheard /\ SentByOne /\ RefusedIsAbsent /\ CheckedBeforeAsked
    /\ NothingLate /\ AnswersHold /\ AgreesWithProvider

(* Steps after which each process goes on as it was, has no attempt any    *)
(* more, or stops waiting for the answer to a request it sent.             *)
Loosens ==
    \A v \in Workers :
        \/ worker'[v] = worker[v]
        \/ worker'[v].pc \notin AttemptPCs
        \/ /\ worker[v].pc = "sending" /\ worker'[v].pc = "accepted"
           /\ worker'[v].attempt = worker[v].attempt

LEMMA Loosening ==
    ASSUME TypeInv, NEW w \in Workers,
           \/ Tell(w) \/ AuthorizeStep(w) \/ Abandon(w)
           \/ SendAccepted(w) \/ SendUnanswered(w)
    PROVE  Loosens /\ rows' = rows
<1>1. rows' = rows
  BY DEF Tell, AuthorizeStep, BeginAuthorize, ScheduledRetry, ManagerRetry, Authorize,
         ConsumerCommitsEarly, ConsumerReturns, ConsumerRaises, AlertFailure,
         SelectExhausted, AlertExhausted, Abandon, SendAccepted, SendUnanswered
<1>2. CASE SendAccepted(w) \/ SendUnanswered(w)
  BY <1>1, <1>2, GoMoves DEF SendAccepted, SendUnanswered, At, Loosens
<1>3. CASE Finish(w) \/ (\E pc \in PCs \ AttemptPCs : Enter(w, pc))
  BY <1>1, <1>3, FinishMoves, EnterMoves, IdleType DEF Loosens, AttemptPCs
<1> QED
  BY <1>2, <1>3 DEF Tell, AuthorizeStep, BeginAuthorize, ScheduledRetry, ManagerRetry,
         Authorize, ConsumerCommitsEarly, ConsumerReturns, ConsumerRaises, AlertFailure,
         SelectExhausted, AlertExhausted, Abandon, PCs, AttemptPCs

LEMMA LooseningKeepsProvider ==
    ASSUME TypeInv, ProviderInv, Loosens, UNCHANGED <<rows, provider>>
    PROVE  ProviderInv'
<1> USE DEF ProviderInv, Loosens, AttemptPCs, Starting, Checking
<1>1. Unheard'
  BY DEF Unheard
<1>2. SentByOne'
  BY DEF SentByOne
<1>3. RefusedIsAbsent' /\ CheckedBeforeAsked'
  BY DEF RefusedIsAbsent, CheckedBeforeAsked
<1>4. NothingLate' /\ AnswersHold' /\ AgreesWithProvider'
  BY DEF NothingLate, AnswersHold, AgreesWithProvider
<1> QED
  BY <1>1, <1>2, <1>3, <1>4

(* The provider's own steps, a request's arrival or its loss on the way.   *)
Moves(a, p) ==
    /\ provider' = [provider EXCEPT ![a] = p]
    /\ \/ /\ provider[a] = "Absent"
          /\ p = "Waiting" \/ (LateArrivals /\ p = "InTransit")
          /\ \E w \in Workers : worker[w].pc = "sending" /\ worker[w].attempt = a
       \/ provider[a] = "InTransit" /\ p = "Waiting"
       \/ provider[a] = "Waiting" /\ p \in Outcomes

(* What one of these steps does to what is believed of the attempt.        *)
LEMMA MovesKeep ==
    ASSUME TypeInv, ProviderInv, NEW a \in Attempts, NEW p \in ProviderStates, Moves(a, p)
    PROVE  /\ rows[a].status # "Absent"
           /\ \A w \in Workers : worker[w].pc = "refused" /\ worker[w].attempt = a => FALSE
           /\ p = "InTransit" => LateArrivals
           /\ \A w \in Workers : worker[w].pc = "heard" /\ worker[w].attempt = a =>
                 StillTrue(worker[w].answer, p)
           /\ \/ Agrees(rows[a].status, p)
              \/ LateArrivals /\ rows[a].status = "Failed"
<1>1. rows[a].status # "Absent"
  BY DEF Moves, ProviderInv, Unheard, AttemptPCs
<1>2. \A w \in Workers : worker[w].pc = "refused" /\ worker[w].attempt = a => FALSE
  BY DEF Moves, ProviderInv, RefusedIsAbsent, SentByOne, Starting
<1>3. p = "InTransit" => LateArrivals
  BY OutcomesAssumption DEF Moves
<1>4. ASSUME NEW w \in Workers, worker[w].pc = "heard", worker[w].attempt = a
      PROVE  StillTrue(worker[w].answer, p)
  <2>1. StillTrue(worker[w].answer, provider[a]) /\ rows[a].checked
    BY <1>4 DEF ProviderInv, AnswersHold, CheckedBeforeAsked, Checking
  <2>2. provider[a] # "Absent" \/ LateArrivals
    BY <2>1 DEF Moves, ProviderInv, SentByOne
  <2>3. provider[a] \in {"Absent", "InTransit", "Waiting"}
    BY DEF Moves
  <2> QED
    BY <2>1, <2>2, <2>3 DEF StillTrue, Moves, ProviderInv, SentByOne, NothingLate
<1>5. \/ Agrees(rows[a].status, p)
      \/ LateArrivals /\ rows[a].status = "Failed"
  <2>1. \/ Agrees(rows[a].status, provider[a])
        \/ LateArrivals /\ rows[a].status = "Failed"
    BY DEF ProviderInv, AgreesWithProvider
  <2>2. CASE provider[a] = "Absent"
    <3>1. rows[a].status = "Initiated"
      BY <2>2 DEF Moves, ProviderInv, SentByOne
    <3> QED
      BY <3>1 DEF Agrees
  <2>3. CASE provider[a] = "InTransit"
    <3>1. LateArrivals /\ rows[a].status # "Error"
      BY <2>1, <2>3 DEF ProviderInv, NothingLate, Agrees
    <3> QED
      BY <2>1, <2>3, <3>1 DEF Agrees
  <2>4. CASE provider[a] = "Waiting"
    BY <2>1, <2>4 DEF Agrees
  <2> QED
    BY <2>2, <2>3, <2>4 DEF Moves
<1> QED
  BY <1>1, <1>2, <1>3, <1>4, <1>5

LEMMA MovingKeepsProvider ==
    ASSUME TypeInv, ProviderInv, Loosens, UNCHANGED rows,
           NEW a \in Attempts, NEW p \in ProviderStates, Moves(a, p)
    PROVE  ProviderInv'
<1> USE DEF Loosens, AttemptPCs
<1>1. /\ provider'[a] = p /\ \A b \in Attempts : b # a => provider'[b] = provider[b]
      /\ \A w \in Workers : worker[w].pc \in AttemptPCs => worker[w].attempt \in Attempts
  BY DEF Moves, TypeInv, TypeOK, Busy, Attempt
<1>2. Unheard'
  BY <1>1, MovesKeep DEF ProviderInv, Unheard
<1>3. SentByOne' /\ CheckedBeforeAsked'
  <2>1. SentByOne'
    BY DEF ProviderInv, SentByOne, Starting
  <2>2. CheckedBeforeAsked'
    BY DEF ProviderInv, CheckedBeforeAsked, Checking
  <2> QED
    BY <2>1, <2>2
<1>4. RefusedIsAbsent'
  BY <1>1, MovesKeep DEF ProviderInv, RefusedIsAbsent
<1>5. NothingLate'
  BY <1>1, MovesKeep DEF ProviderInv, NothingLate
<1>6. AnswersHold'
  BY <1>1, MovesKeep DEF ProviderInv, AnswersHold
<1>7. AgreesWithProvider'
  BY <1>1, MovesKeep DEF ProviderInv, AgreesWithProvider
<1> QED
  BY <1>2, <1>3, <1>4, <1>5, <1>6, <1>7 DEF ProviderInv

-----------------------------------------------------------------------------
LEMMA ProviderOpen ==
    ASSUME TypeInv, ProviderInv, NEW w \in Workers, NEW a \in Attempts, OpenAttempt(w, a)
    PROVE  ProviderInv'
<1>1. /\ rows[a].status = "Absent" /\ rows'[a].status = "Initiated"
      /\ rows'[a].checked = rows[a].checked /\ rows'[a].due = rows[a].due
      /\ \A b \in Attempts : b # a => rows'[b] = rows[b]
      /\ provider' = provider
  BY DEF OpenAttempt, TypeInv, TypeOK, RowType
<1>2. /\ worker[w].pc = "idle" /\ worker'[w].pc = "sending" /\ worker'[w].attempt = a
      /\ \A v \in Workers : v # w => worker'[v] = worker[v]
  BY DEF OpenAttempt, At, TypeInv, TypeOK, WorkerType
<1>3. /\ ~rows[a].checked /\ ~rows[a].due /\ provider[a] = "Absent"
      /\ \A v \in Workers : worker[v].pc \in AttemptPCs => worker[v].attempt \in Attempts \ {a}
  BY <1>1 DEF ProviderInv, Unheard, TypeInv, Busy, Attempt
<1> USE DEF ProviderInv, AttemptPCs
<1>4. Unheard'
  BY <1>1, <1>2 DEF Unheard
<1>5. SentByOne'
  BY <1>1, <1>2, <1>3 DEF SentByOne, Starting
<1>6. RefusedIsAbsent'
  BY <1>1, <1>2 DEF RefusedIsAbsent
<1>7. CheckedBeforeAsked'
  BY <1>1, <1>2, <1>3 DEF CheckedBeforeAsked, Checking
<1>8. NothingLate' /\ AnswersHold'
  BY <1>1, <1>2 DEF NothingLate, AnswersHold
<1>9. AgreesWithProvider'
  BY <1>1 DEF AgreesWithProvider, Agrees
<1> QED
  BY <1>4, <1>5, <1>6, <1>7, <1>8, <1>9

LEMMA ProviderRefused ==
    ASSUME TypeInv, ProviderInv, NEW w \in Workers, SendRefused(w)
    PROVE  ProviderInv'
<1>1. /\ worker[w].pc = "sending" /\ worker'[w].pc = "refused"
      /\ worker'[w].attempt = worker[w].attempt
      /\ \A v \in Workers : v # w => worker'[v] = worker[v]
      /\ rows' = rows /\ provider' = provider
      /\ provider[worker[w].attempt] = "Absent"
  BY GoMoves DEF SendRefused, At, Attempt
<1> USE <1>1 DEF ProviderInv, AttemptPCs, Starting, Checking
<1>2. Unheard'
  BY DEF Unheard
<1>3. SentByOne'
  BY DEF SentByOne
<1>4. RefusedIsAbsent' /\ CheckedBeforeAsked'
  BY DEF RefusedIsAbsent, CheckedBeforeAsked
<1>5. NothingLate' /\ AnswersHold' /\ AgreesWithProvider'
  BY DEF NothingLate, AnswersHold, AgreesWithProvider
<1> QED
  BY <1>2, <1>3, <1>4, <1>5

LEMMA ProviderRecordStart ==
    ASSUME TypeInv, ProviderInv, NEW w \in Workers, RecordStart(w)
    PROVE  ProviderInv'
<1>1. PICK a \in Attempts : a = worker[w].attempt
  BY DEF TypeInv, Busy, AttemptPCs, RecordStart, Attempt
<1>2. /\ rows'[a] = RecordedStart(rows[a], worker[w].pc = "refused")
      /\ \A b \in Attempts : b # a => rows'[b] = rows[b]
      /\ provider' = provider
      /\ worker[w].pc \in Starting
  BY <1>1 DEF RecordStart, TypeInv, TypeOK, Attempt, At, Starting
<1>3. /\ rows'[a].checked = rows[a].checked
      /\ rows'[a].status = rows[a].status
            \/ (rows'[a].status = "Error" /\ worker[w].pc = "refused")
  BY <1>2 DEF RecordedStart, TypeInv, TypeOK, RowType
<1>4. /\ worker'[w].pc = "idle"
      /\ \A v \in Workers : v # w => worker'[v] = worker[v]
  BY FinishMoves, IdleType DEF RecordStart
<1>5. \A v \in Workers : v # w /\ worker[v].pc \in Starting => worker[v].attempt # a
  BY <1>1, <1>2 DEF ProviderInv, SentByOne
<1>6. \A v \in Workers : worker[v].pc \in AttemptPCs => worker[v].attempt \in Attempts
  BY DEF TypeInv, Busy, Attempt
<1> USE DEF ProviderInv
<1>7. Unheard'
  <2>1. rows'[a].status # "Absent"
    BY <1>1, <1>2, <1>3 DEF Unheard, Starting, AttemptPCs
  <2> QED
    BY <2>1, <1>2, <1>4 DEF Unheard, AttemptPCs
<1>8. SentByOne'
  BY <1>2, <1>4, <1>5, <1>6 DEF SentByOne, Starting, AttemptPCs
<1>9. RefusedIsAbsent' /\ CheckedBeforeAsked'
  BY <1>2, <1>3, <1>4, <1>6 DEF RefusedIsAbsent, CheckedBeforeAsked, Checking, AttemptPCs
<1>10. NothingLate' /\ AnswersHold'
  BY <1>2, <1>4 DEF NothingLate, AnswersHold
<1>11. AgreesWithProvider'
  <2>1. worker[w].pc = "refused" => provider[a] = "Absent"
    BY <1>1 DEF RefusedIsAbsent
  <2> QED
    BY <2>1, <1>2, <1>3 DEF AgreesWithProvider, Agrees
<1> QED
  BY <1>7, <1>8, <1>9, <1>10, <1>11

LEMMA ProviderClaim ==
    ASSUME TypeInv, ProviderInv, NEW w \in Workers, NEW a \in Attempts, Claim(w, a)
    PROVE  ProviderInv'
<1>1. /\ rows[a].status \in CheckableStates /\ rows'[a].status = rows[a].status
      /\ rows'[a].checked /\ (rows[a].checked \/ rows[a].due)
      /\ \A b \in Attempts : b # a => rows'[b] = rows[b]
      /\ provider' = provider
  BY DEF Claim, BeforeFirstCheck, TypeInv, TypeOK, RowType
<1>2. /\ worker[w].pc = "idle" /\ worker'[w].pc = "asking" /\ worker'[w].attempt = a
      /\ \A v \in Workers : v # w => worker'[v] = worker[v]
  BY DEF Claim, At, TypeInv, TypeOK, WorkerType
<1>3. \A v \in Workers : worker[v].pc \in AttemptPCs => worker[v].attempt \in Attempts
  BY DEF TypeInv, Busy, Attempt
<1>4. \A v \in Workers : worker[v].pc = "sending" => worker[v].attempt # a
  BY <1>1 DEF ProviderInv, SentByOne
<1> USE DEF ProviderInv, AttemptPCs
<1>5. Unheard'
  BY <1>1, <1>2 DEF Unheard, CheckableStates
<1>6. SentByOne'
  BY <1>1, <1>2, <1>3, <1>4 DEF SentByOne, Starting
<1>7. RefusedIsAbsent'
  BY <1>1, <1>2 DEF RefusedIsAbsent
<1>8. CheckedBeforeAsked'
  BY <1>1, <1>2, <1>3 DEF CheckedBeforeAsked, Checking
<1>9. NothingLate' /\ AnswersHold'
  BY <1>1, <1>2 DEF NothingLate, AnswersHold
<1>10. AgreesWithProvider'
  BY <1>1 DEF AgreesWithProvider, Agrees
<1> QED
  BY <1>5, <1>6, <1>7, <1>8, <1>9, <1>10

(* An answer holds when it is given.                                       *)
LEMMA AnswerHolds ==
    ASSUME NEW p \in ProviderStates, ~LateArrivals => p # "InTransit"
    PROVE  StillTrue(AnswerFor(p), p)
  BY DEF StillTrue, AnswerFor, ProviderStates

LEMMA ProviderHear ==
    ASSUME TypeInv, ProviderInv, NEW w \in Workers, Hear(w)
    PROVE  ProviderInv'
<1>1. PICK a \in Attempts : a = worker[w].attempt
  BY DEF TypeInv, Busy, AttemptPCs, Hear, At, Attempt
<1>2. /\ worker[w].pc = "asking" /\ worker'[w].pc = "heard" /\ worker'[w].attempt = a
      /\ worker'[w].answer = AnswerFor(provider[a])
      /\ \A v \in Workers : v # w => worker'[v] = worker[v]
      /\ rows' = rows /\ provider' = provider
  BY <1>1 DEF Hear, At, Attempt, TypeInv, TypeOK, WorkerType
<1>3. StillTrue(AnswerFor(provider[a]), provider[a])
  BY AnswerHolds DEF ProviderInv, NothingLate, TypeInv, TypeOK
<1> USE <1>1, <1>2 DEF ProviderInv, AttemptPCs, Starting, Checking
<1>4. Unheard'
  BY DEF Unheard
<1>5. SentByOne'
  BY DEF SentByOne
<1>6. RefusedIsAbsent' /\ CheckedBeforeAsked'
  BY DEF RefusedIsAbsent, CheckedBeforeAsked
<1>7. AnswersHold'
  BY <1>3 DEF AnswersHold
<1>8. NothingLate' /\ AgreesWithProvider'
  BY DEF NothingLate, AgreesWithProvider
<1> QED
  BY <1>4, <1>5, <1>6, <1>7, <1>8

(* Where a process goes once it has recorded an answer.                    *)
LEMMA AfterRecordMoves ==
    ASSUME TypeInv, NEW w \in Workers, Record(w)
    PROVE  /\ worker'[w].pc \in AttemptPCs =>
                 worker'[w].pc = "telling" /\ worker'[w].attempt = Attempt(w)
           /\ \A v \in Workers : v # w => worker'[v] = worker[v]
<1>1. \/ Finish(w)
      \/ \E r : worker' = [worker EXCEPT ![w] = AfterRecord(Attempt(w), r)]
  BY DEF Record, Apply
<1>2. ASSUME NEW r
      PROVE  AfterRecord(Attempt(w), r).pc \in AttemptPCs =>
                /\ AfterRecord(Attempt(w), r).pc = "telling"
                /\ AfterRecord(Attempt(w), r).attempt = Attempt(w)
  BY IdleType DEF AfterRecord, WorkerType, AttemptPCs
<1> QED
  BY <1>1, <1>2, FinishMoves, IdleType DEF TypeInv, TypeOK, AttemptPCs

LEMMA ProviderRecord ==
    ASSUME TypeInv, ProviderInv, NEW w \in Workers, Record(w)
    PROVE  ProviderInv'
<1>1. PICK a \in Attempts :
         /\ a = worker[w].attempt /\ provider' = provider
         /\ SettledMeanwhile(w) \/ OnlyRow(w, a)
  BY RecordCases DEF Attempt
<1>2. /\ worker[w].pc = "heard"
      /\ worker'[w].pc \in AttemptPCs => worker'[w].pc = "telling" /\ worker'[w].attempt = a
      /\ \A v \in Workers : v # w => worker'[v] = worker[v]
  BY <1>1, AfterRecordMoves DEF Record, At, Attempt
<1>3. \A v \in Workers : worker[v].pc \in AttemptPCs => worker[v].attempt \in Attempts
  BY DEF TypeInv, Busy, Attempt
<1>4. CASE SettledMeanwhile(w)
  <2>1. Loosens /\ rows' = rows
    BY <1>4, FinishMoves, IdleType DEF SettledMeanwhile, Loosens, AttemptPCs
  <2> QED
    BY <1>1, <2>1, LooseningKeepsProvider
<1>5. CASE OnlyRow(w, a)
  <2>1. /\ rows'[a].checked = rows[a].checked
        /\ rows'[a].status \notin {"Error", "Absent"}
        /\ rows'[a].status \in {"Succeeded", "Failed", "Expired"} =>
              rows'[a].status = worker[w].answer.status
        /\ rows[a].status \in CheckableStates
        /\ \A b \in Attempts : b # a => rows'[b] = rows[b]
    BY <1>5 DEF OnlyRow, TypeInv, TypeOK
  <2>2. rows[a].checked
    BY <1>1, <1>2 DEF ProviderInv, CheckedBeforeAsked, Checking
  <2>3. \A v \in Workers : worker[v].pc = "sending" => worker[v].attempt # a
    BY <2>2 DEF ProviderInv, SentByOne
  <2>4. StillTrue(worker[w].answer, provider[a])
    BY <1>1, <1>2 DEF ProviderInv, AnswersHold
  <2> USE DEF ProviderInv, AttemptPCs
  <2>5. Unheard'
    BY <1>1, <1>2, <2>1 DEF Unheard
  <2>6. SentByOne'
    BY <1>2, <1>3, <2>1, <2>3 DEF SentByOne, Starting
  <2>7. RefusedIsAbsent' /\ CheckedBeforeAsked'
    BY <1>1, <1>2, <1>3, <2>1 DEF RefusedIsAbsent, CheckedBeforeAsked, Checking
  <2>8. NothingLate' /\ AnswersHold'
    BY <1>1, <1>2 DEF NothingLate, AnswersHold
  <2>9. \/ Agrees(rows'[a].status, provider[a])
        \/ LateArrivals /\ rows'[a].status = "Failed"
    BY <2>1, <2>4 DEF Agrees, StillTrue
  <2>10. AgreesWithProvider'
    BY <1>1, <2>1, <2>9 DEF AgreesWithProvider
  <2> QED
    BY <2>5, <2>6, <2>7, <2>8, <2>10
<1> QED
  BY <1>1, <1>4, <1>5

LEMMA ProviderTime ==
    ASSUME TypeInv, ProviderInv, NEW a \in Attempts, TimeStep(a)
    PROVE  ProviderInv'
<1>1. /\ rows[a].status \in CheckableStates
      /\ rows'[a].status = rows[a].status /\ rows'[a].checked = rows[a].checked
      /\ rows'[a].due = rows[a].due
            \/ rows[a].checked
            \/ ~(\E w \in Workers : worker[w].pc = "sending" /\ worker[w].attempt = a)
      /\ \A b \in Attempts : b # a => rows'[b] = rows[b]
      /\ provider' = provider /\ worker' = worker
  BY DEF TimeStep, CheckDateComes, CheckIntervalPasses, DeadlinePasses, InitiationRuns,
         TypeInv, TypeOK, RowType, At, Attempt
<1>2. \A v \in Workers : worker[v].pc \in AttemptPCs => worker[v].attempt \in Attempts
  BY DEF TypeInv, Busy, Attempt
<1> USE DEF ProviderInv
<1>3. Unheard'
  BY <1>1 DEF Unheard, CheckableStates
<1>4. SentByOne'
  BY <1>1, <1>2 DEF SentByOne, AttemptPCs, Starting
<1>5. RefusedIsAbsent' /\ CheckedBeforeAsked'
  BY <1>1, <1>2 DEF RefusedIsAbsent, CheckedBeforeAsked, AttemptPCs, Checking
<1>6. NothingLate' /\ AnswersHold'
  BY <1>1 DEF NothingLate, AnswersHold
<1>7. AgreesWithProvider'
  BY <1>1 DEF AgreesWithProvider, Agrees
<1> QED
  BY <1>3, <1>4, <1>5, <1>6, <1>7

LEMMA ProviderNext == TypeInv /\ ProviderInv /\ [Next]_vars => ProviderInv'
<1> SUFFICES ASSUME TypeInv, ProviderInv, [Next]_vars PROVE ProviderInv'
  OBVIOUS
<1>1. CASE UNCHANGED <<rows, worker, provider>>
  BY <1>1, LooseningKeepsProvider DEF Loosens
<1>2. ASSUME NEW w \in Workers, NEW a \in Attempts, a = worker[w].attempt,
             worker[w].pc = "sending", LoseTrackOf(a), Loosens, rows' = rows
      PROVE  ProviderInv'
  <2>1. CASE provider' = provider
    BY <1>2, <2>1, LooseningKeepsProvider
  <2>2. CASE provider' # provider
    <3>1. Moves(a, "InTransit")
      BY <1>2, <2>2 DEF Moves, LoseTrackOf
    <3> QED
      BY <1>2, <3>1, MovingKeepsProvider DEF ProviderStates
  <2> QED
    BY <2>1, <2>2
<1>3. ASSUME NEW w \in Workers, worker[w].pc = "sending"
      PROVE  worker[w].attempt \in Attempts
  BY <1>3 DEF TypeInv, Busy, AttemptPCs, Attempt
<1>4. ASSUME NEW w \in Workers, StartStep(w) PROVE ProviderInv'
  <2>1. CASE RequestArrives(w)
    <3>1. PICK a \in Attempts : a = worker[w].attempt
      BY <1>3, <2>1 DEF RequestArrives, At
    <3>2. Moves(a, "Waiting") /\ UNCHANGED <<rows, worker>>
      BY <2>1, <3>1 DEF Moves, RequestArrives, At, Attempt
    <3> QED
      BY <3>2, MovingKeepsProvider DEF ProviderStates, Loosens
  <2>2. CASE SendAccepted(w)
    BY <2>2, Loosening, LooseningKeepsProvider DEF SendAccepted
  <2>3. CASE SendUnanswered(w)
    <3>1. PICK a \in Attempts : a = worker[w].attempt
      BY <1>3, <2>3 DEF SendUnanswered, At
    <3> QED
      BY <1>2, <2>3, <3>1, Loosening DEF SendUnanswered, At, Attempt
  <2> QED
    BY <1>4, <2>1, <2>2, <2>3, ProviderOpen, ProviderRefused, ProviderRecordStart
       DEF StartStep
<1>5. ASSUME NEW w \in Workers, CheckStep(w) PROVE ProviderInv'
  <2>1. CASE Tell(w)
    BY <2>1, Loosening, LooseningKeepsProvider DEF Tell
  <2> QED
    BY <1>5, <2>1, ProviderClaim, ProviderHear, ProviderRecord
       DEF CheckStep, GuestCheck, ScheduledCheck
<1>6. ASSUME NEW w \in Workers, AuthorizeStep(w) PROVE ProviderInv'
  <2>1. provider' = provider
    BY <1>6 DEF AuthorizeStep, BeginAuthorize, ScheduledRetry, ManagerRetry, Authorize,
                ConsumerCommitsEarly, ConsumerReturns, ConsumerRaises, AlertFailure,
                SelectExhausted, AlertExhausted
  <2> QED
    BY <1>6, <2>1, Loosening, LooseningKeepsProvider
<1>7. ASSUME NEW w \in Workers, Abandon(w) PROVE ProviderInv'
  <2>1. CASE worker[w].pc = "sending"
    <3>1. PICK a \in Attempts : a = worker[w].attempt
      BY <1>3, <2>1
    <3> QED
      BY <1>2, <1>7, <2>1, <3>1, Loosening DEF Abandon, At, Attempt
  <2>2. CASE worker[w].pc # "sending"
    BY <1>7, <2>2, Loosening, LooseningKeepsProvider DEF Abandon, At
  <2> QED
    BY <2>1, <2>2
<1>8. ASSUME NEW a \in Attempts, ProviderStep(a) PROVE ProviderInv'
  <2>1. PICK p \in ProviderStates : Moves(a, p) /\ UNCHANGED <<rows, worker>>
    BY <1>8, OutcomesAssumption DEF ProviderStep, LateArrival, Decide, Moves, ProviderStates
  <2> QED
    BY <2>1, MovingKeepsProvider DEF Loosens
<1>9. CASE VoidOpenSession \/ RetryDateComes \/ UNCHANGED vars
  BY <1>1, <1>9 DEF VoidOpenSession, RetryDateComes, vars
<1> QED
  BY <1>4, <1>5, <1>6, <1>7, <1>8, <1>9, ProviderTime DEF Next

LEMMA ProviderInvariant == Spec => []ProviderInv
<1>1. Init => ProviderInv
  BY DEF Init, Idle, ProviderInv, Unheard, SentByOne, RefusedIsAbsent, CheckedBeforeAsked,
         NothingLate, AnswersHold, AgreesWithProvider, Agrees, AttemptPCs, Starting, Checking
<1> QED
  BY <1>1, ProviderNext, TypeInvariant, PTL DEF Spec

(* A settled attempt says what the provider says, unless it is Failed and  *)
(* its request arrived after the sender stopped waiting for the answer.    *)
THEOREM SettledAgrees == Spec => []AgreesWithProvider
<1>1. ProviderInv => AgreesWithProvider
  BY DEF ProviderInv
<1> QED
  BY <1>1, ProviderInvariant, PTL

(* Were no request to arrive after its sender has stopped waiting, none    *)
(* would ever be written off: what the run no_request_written_off shows    *)
(* comes of such requests alone.                                           *)
COROLLARY InTimeNoneIsWrittenOff ==
    ASSUME ~LateArrivals
    PROVE  Spec => []NoRequestWrittenOff
<1>1. AgreesWithProvider => NoRequestWrittenOff
  BY DEF AgreesWithProvider, NoRequestWrittenOff
<1> QED
  BY <1>1, SettledAgrees, PTL

(* No process asks about an attempt whose request is still being sent.     *)
THEOREM SendingIsUnchecked == Spec => []NoCheckWhileSending
<1>1. ProviderInv => NoCheckWhileSending
  BY DEF ProviderInv, SentByOne, CheckedBeforeAsked, Checking, NoCheckWhileSending, At,
         Attempt
<1> QED
  BY <1>1, ProviderInvariant, PTL
=============================================================================
