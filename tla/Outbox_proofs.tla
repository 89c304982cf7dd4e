--------------------------- MODULE Outbox_proofs ---------------------------
(***************************************************************************)
(* Proofs about Outbox, for every set of messages, codes and runs.         *)
(***************************************************************************)
EXTENDS Outbox, TLAPS

\* Type correctness: statuses, jobs and sets stay in their domains through
\* every statement of OutboxRepository (notifications/outbox.repository.ts).
THEOREM OutboxTypeCorrect == Spec => []TypeOK
<1> USE ConstantsAssumption
<1> USE DEF Settled, Live, ProviderStates, Answers, Jobs
<1>1. Init => TypeOK
  BY DEF Init, TypeOK
<1>2. TypeOK /\ [Next]_vars => TypeOK'
  <2> SUFFICES ASSUME TypeOK, [Next]_vars PROVE TypeOK'
    OBVIOUS
  <2>1. ASSUME NEW m \in Messages, Queue(m) PROVE TypeOK'
    BY <2>1 DEF Queue, Superseded, EndLeases, TypeOK, runVars, providerVars
  <2>2. ASSUME NEW m \in Messages, BecomeDue(m) PROVE TypeOK'
    BY <2>2 DEF BecomeDue, TypeOK, runVars, providerVars
  <2>3. ASSUME NEW m \in Messages, Expire(m) PROVE TypeOK'
    BY <2>3 DEF Expire, TypeOK, runVars, providerVars
  <2>4. ASSUME NEW m \in Messages, Decide(m) PROVE TypeOK'
    BY <2>4 DEF Decide, TypeOK, rowVars, runVars
  <2>5. ASSUME NEW m \in Messages, NEW event \in {"retrying"} \cup Settled,
               NEW carriesId \in BOOLEAN, ApplyWebhook(m, event, carriesId)
        PROVE  TypeOK'
    <3>1. StatusAfterEvent(m, event) \in {"absent"} \cup Live \cup Settled
      BY DEF StatusAfterEvent, TypeOK
    <3>2. status' \in [Messages -> {"absent"} \cup Live \cup Settled]
      BY <2>5, <3>1 DEF ApplyWebhook, TypeOK
    <3>3. seen' \subseteq Messages \X ({"retrying"} \cup Settled)
      BY <2>5 DEF ApplyWebhook, TypeOK
    <3> QED
      BY <2>5, <3>2, <3>3 DEF ApplyWebhook, EndLeases, TypeOK, runVars, providerVars
  <2>6. ASSUME NEW r \in Runs, LeaseBatch(r) PROVE TypeOK'
    <3>1. attempts' \in [Messages -> 0..MaxAttempts]
      BY <2>6 DEF LeaseBatch, TypeOK
    <3> QED
      BY <2>6, <3>1 DEF LeaseBatch, TakeLeases, Leasable, TypeOK, providerVars
  <2>7. ASSUME NEW r \in Runs, LeaseReconciliationBatch(r) PROVE TypeOK'
    BY <2>7 DEF LeaseReconciliationBatch, TakeLeases, Reconcilable, TypeOK, providerVars
  <2>8. ASSUME NEW r \in Runs, EndRun(r) PROVE TypeOK'
    BY <2>8 DEF EndRun, TypeOK, rowVars, providerVars
  <2>9. ASSUME NEW r \in Runs, NEW m \in Messages, PrepareDispatch(r, m) PROVE TypeOK'
    BY <2>9 DEF PrepareDispatch, EndLeases, TypeOK, providerVars
  <2>10. ASSUME NEW r \in Runs, NEW m \in Messages, DropDispatch(r, m) PROVE TypeOK'
    BY <2>10 DEF DropDispatch, TypeOK, rowVars, providerVars
  <2>11. ASSUME NEW r \in Runs, NEW m \in Messages, Accepted(r, m) PROVE TypeOK'
    BY <2>11 DEF Accepted, TypeOK, rowVars
  <2>12. ASSUME NEW r \in Runs, NEW m \in Messages, Refused(r, m) PROVE TypeOK'
    BY <2>12 DEF Refused, TypeOK, rowVars, providerVars
  <2>13. ASSUME NEW r \in Runs, NEW m \in Messages, RecordAnswer(r, m) PROVE TypeOK'
    <3>1. PICK new \in Live \cup Settled :
            UNCHANGED status \/ status' = [status EXCEPT ![m] = new]
      <4>1. CASE UNCHANGED status
        BY <4>1
      <4>2. CASE WriteAnswer(m, job[r][m])
        BY <4>2 DEF WriteAnswer, MarkAccepted, MarkTerminal, Retry
      <4> QED BY <2>13, <4>1, <4>2 DEF RecordAnswer
    <3>2. status' \in [Messages -> {"absent"} \cup Live \cup Settled]
      BY <3>1 DEF TypeOK
    <3>3. content' \subseteq Messages /\ referenced' \subseteq Messages /\ due' \subseteq Messages
      BY <2>13 DEF RecordAnswer, WriteAnswer, MarkAccepted, MarkTerminal, Retry, TypeOK
    <3>4. expired' \subseteq Messages /\ lease' \in [Messages -> Runs \cup {NoRun}]
      BY <2>13 DEF RecordAnswer, EndLeases, TypeOK
    <3> QED
      BY <2>13, <3>2, <3>3, <3>4 DEF RecordAnswer, TypeOK, providerVars
  <2>14. ASSUME NEW r \in Runs, NEW m \in Messages, Answered(r, m) \/ Unanswered(r, m)
         PROVE  TypeOK'
    <3>1. PICK answer \in ProviderStates \cup {"none", "ambiguous"} : GetStatus(r, m, answer)
      BY <2>14 DEF Answered, Unanswered, TypeOK
    <3>2. answer \in Jobs
      OBVIOUS
    <3> QED BY <3>1, <3>2 DEF GetStatus, TypeOK, rowVars, providerVars
  <2>15. ASSUME NEW r \in Runs, NEW m \in Messages, MarkReconciled(r, m) PROVE TypeOK'
    BY <2>15 DEF MarkReconciled, EndLeases, TypeOK, providerVars
  <2>16. ASSUME NEW r \in Runs, NEW m \in Messages, ScheduleReconciliation(r, m) PROVE TypeOK'
    BY <2>16 DEF ScheduleReconciliation, EndLeases, TypeOK, providerVars
  <2>17. ASSUME NEW r \in Runs, NEW m \in Messages, DropReconciliation(r, m) PROVE TypeOK'
    BY <2>17 DEF DropReconciliation, TypeOK, rowVars, providerVars
  <2>18. ASSUME NEW r \in Runs, NEW S \in SUBSET Messages, Fail(r, S) PROVE TypeOK'
    BY <2>18 DEF Fail, TypeOK, rowVars, providerVars
  <2>19. ASSUME NEW r \in Runs, NEW m \in Messages, FailWrite(r, m) PROVE TypeOK'
    BY <2>19 DEF FailWrite, TypeOK, rowVars, providerVars
  <2>20. CASE UNCHANGED vars
    BY <2>20 DEF TypeOK, vars, rowVars, runVars, providerVars
  <2> QED
    BY <2>1, <2>2, <2>3, <2>4, <2>5, <2>6, <2>7, <2>8, <2>9, <2>10, <2>11, <2>12, <2>13, <2>14,
       <2>15, <2>16, <2>17, <2>18, <2>19, <2>20 DEF Next, RunStep, JobStep
<1> QED BY <1>1, <1>2, PTL DEF Spec

------------------------------------------------------------------------------
(* The inductive invariant.  A run that has recorded its intent to send holds *)
(* the message alone, and until the provider has taken it nothing else can    *)
(* bring the row back to where a lease is given.                              *)

\* The run has recorded its intent and not yet the answer.
Dispatching(r, m) == phase[r] = "delivering" /\ job[r][m] \in {"sending"} \cup Answers

\* The message may still be leased or dispatched.
Waiting(m) ==
  \/ status[m] \in {"absent", "pending"}
  \/ status[m] = "processing" /\ m \notin referenced

\* The job of a run fits its phase.
JobsFitPhase ==
  \A r \in Runs, m \in Messages :
    /\ phase[r] = "idle" => job[r][m] = "none"
    /\ job[r][m] \in {"leased", "sending"} => phase[r] = "delivering"
    /\ job[r][m] = "asking" => phase[r] = "reconciling"

\* One run at most dispatches a message.
OneDispatcher ==
  \A m \in Messages, r, q \in Runs : Dispatching(r, m) /\ Dispatching(q, m) => r = q

\* A message that is dispatched waits for nothing else.
DispatchedNotWaiting ==
  \A m \in Messages, r \in Runs : Dispatching(r, m) => ~Waiting(m)

\* What waits has not been taken, nor has what is sent without an acceptance.
WaitingNotTaken == \A m \in Messages : Waiting(m) => takes[m] = 0

UnsentNotTaken ==
  \A m \in Messages, r \in Runs :
    phase[r] = "delivering" /\ job[r][m] \in {"sending", "retryable", "terminal"} => takes[m] = 0

\* A row with a reference is under way or settled.
ReferencedStatus ==
  \A m \in Messages : m \in referenced => status[m] \in {"processing"} \cup Settled

DispatchInv ==
  /\ JobsFitPhase /\ OneDispatcher /\ DispatchedNotWaiting
  /\ WaitingNotTaken /\ UnsentNotTaken /\ TakenOnce /\ ReferencedStatus

\* Every step keeps the invariant.
LEMMA DispatchInvStep == TypeOK /\ DispatchInv /\ [Next]_vars => DispatchInv'
<1> SUFFICES ASSUME TypeOK, DispatchInv, [Next]_vars PROVE DispatchInv'
  OBVIOUS
<1> USE ConstantsAssumption
<1> USE DEF Settled, Live, ProviderStates, Answers, Jobs, DispatchInv, JobsFitPhase, OneDispatcher,
            DispatchedNotWaiting, WaitingNotTaken, UnsentNotTaken, TakenOnce, ReferencedStatus,
            Dispatching, Waiting, TypeOK
<1>1. ASSUME NEW m \in Messages, Queue(m) PROVE DispatchInv'
  BY <1>1 DEF Queue, Superseded, EndLeases, runVars, providerVars
<1>2. ASSUME NEW m \in Messages, BecomeDue(m) PROVE DispatchInv'
  BY <1>2 DEF BecomeDue, runVars, providerVars
<1>3. ASSUME NEW m \in Messages, Expire(m) PROVE DispatchInv'
  BY <1>3 DEF Expire, runVars, providerVars
<1>4. ASSUME NEW m \in Messages, Decide(m) PROVE DispatchInv'
  BY <1>4 DEF Decide, rowVars, runVars
<1>5. ASSUME NEW m \in Messages, NEW event \in {"retrying"} \cup Settled,
             NEW carriesId \in BOOLEAN, ApplyWebhook(m, event, carriesId)
      PROVE  DispatchInv'
  BY <1>5 DEF ApplyWebhook, StatusAfterEvent, EndLeases, runVars, providerVars
<1>6. ASSUME NEW r \in Runs, LeaseBatch(r) PROVE DispatchInv'
  BY <1>6 DEF LeaseBatch, TakeLeases, Leasable, providerVars
<1>7. ASSUME NEW r \in Runs, LeaseReconciliationBatch(r) PROVE DispatchInv'
  BY <1>7 DEF LeaseReconciliationBatch, TakeLeases, Reconcilable, Busy, providerVars
<1>8. ASSUME NEW r \in Runs, EndRun(r) PROVE DispatchInv'
  BY <1>8 DEF EndRun, Busy, rowVars, providerVars
<1>9. ASSUME NEW r \in Runs, NEW m \in Messages, PrepareDispatch(r, m) PROVE DispatchInv'
  BY <1>9 DEF PrepareDispatch, HoldsLease, EndLeases, providerVars
<1>10. ASSUME NEW r \in Runs, NEW m \in Messages, DropDispatch(r, m) PROVE DispatchInv'
  BY <1>10 DEF DropDispatch, rowVars, providerVars
<1>11. ASSUME NEW r \in Runs, NEW m \in Messages, Accepted(r, m) PROVE DispatchInv'
  BY <1>11 DEF Accepted, rowVars
<1>12. ASSUME NEW r \in Runs, NEW m \in Messages, Refused(r, m) PROVE DispatchInv'
  BY <1>12 DEF Refused, rowVars, providerVars
<1>13. ASSUME NEW r \in Runs, NEW m \in Messages, RecordAnswer(r, m) PROVE DispatchInv'
  <2>1. /\ phase[r] = "delivering" /\ job[r][m] \in Answers
        /\ job' = [job EXCEPT ![r][m] = "none"]
        /\ UNCHANGED <<phase, takes>>
    BY <1>13 DEF RecordAnswer, providerVars
  <2>2. CASE UNCHANGED <<status, referenced>>
    BY <2>1, <2>2
  <2>3. CASE /\ Writable(m)
             /\ \/ MarkAccepted(m)
                \/ \E outcome \in Settled, references \in {{}, {m}} :
                     MarkTerminal(m, outcome, references)
    <3>1. PICK new \in {"processing"} \cup Settled :
            /\ status' = [status EXCEPT ![m] = new]
            /\ new = "processing" => m \in referenced'
      BY <2>3 DEF MarkAccepted, MarkTerminal
    <3>2. referenced \subseteq referenced' /\ referenced' \subseteq referenced \cup {m}
      BY <2>3 DEF MarkAccepted, MarkTerminal
    <3>3. status[m] = "unknown" /\ m \notin referenced
      BY <2>3 DEF Writable
    <3> QED BY <2>1, <3>1, <3>2, <3>3
  <2>4. CASE job[r][m] = "retryable" /\ Writable(m) /\ Retry(m)
    <3>1. \A q \in Runs : ~Dispatching(q, m)'
      BY <2>1
    <3>2. takes[m] = 0
      BY <2>1, <2>4
    <3> QED BY <2>1, <2>4, <3>1, <3>2 DEF Writable, Retry
  <2>5. \/ UNCHANGED <<status, referenced>>
        \/ Writable(m) /\ WriteAnswer(m, job[r][m])
    BY <1>13 DEF RecordAnswer
  <2>6. WriteAnswer(m, job[r][m]) =>
          \/ MarkAccepted(m)
          \/ \E outcome \in Settled, references \in {{}, {m}} : MarkTerminal(m, outcome, references)
          \/ job[r][m] = "retryable" /\ Retry(m)
    BY DEF WriteAnswer, Retries
  <2> QED BY <2>2, <2>3, <2>4, <2>5, <2>6
<1>14. ASSUME NEW r \in Runs, NEW m \in Messages,
              NEW answer \in ProviderStates \cup {"none", "ambiguous"}, GetStatus(r, m, answer)
       PROVE  DispatchInv'
  BY <1>14 DEF GetStatus, rowVars, providerVars
<1>15. ASSUME NEW r \in Runs, NEW m \in Messages, MarkReconciled(r, m) PROVE DispatchInv'
  BY <1>15 DEF MarkReconciled, AsksFor, EndLeases, providerVars
<1>16. ASSUME NEW r \in Runs, NEW m \in Messages, ScheduleReconciliation(r, m) PROVE DispatchInv'
  BY <1>16 DEF ScheduleReconciliation, AsksFor, EndLeases, providerVars
<1>17. ASSUME NEW r \in Runs, NEW m \in Messages, DropReconciliation(r, m) PROVE DispatchInv'
  BY <1>17 DEF DropReconciliation, rowVars, providerVars
<1>18. ASSUME NEW r \in Runs, NEW S \in SUBSET Messages, Fail(r, S) PROVE DispatchInv'
  BY <1>18 DEF Fail, rowVars, providerVars
<1>19. ASSUME NEW r \in Runs, NEW m \in Messages, FailWrite(r, m) PROVE DispatchInv'
  BY <1>19 DEF FailWrite, rowVars, providerVars
<1>20. CASE UNCHANGED vars
  BY <1>20 DEF vars, rowVars, runVars, providerVars
<1>21. ASSUME NEW r \in Runs, NEW m \in Messages, JobStep(r, m) PROVE DispatchInv'
  <2>1. Answered(r, m) \/ Unanswered(r, m) => DispatchInv'
    <3>1. fate[m] \in ProviderStates \cup {"none"}
      OBVIOUS
    <3> QED BY <1>14, <3>1 DEF Answered, Unanswered
  <2> HIDE DEF DispatchInv
  <2> QED
    BY <1>9, <1>10, <1>11, <1>12, <1>13, <1>15, <1>16, <1>17, <1>21, <2>1 DEF JobStep
<1> HIDE DEF DispatchInv
<1> QED
  BY <1>1, <1>2, <1>3, <1>4, <1>5, <1>6, <1>7, <1>8, <1>18, <1>19, <1>20, <1>21 DEF Next, RunStep

------------------------------------------------------------------------------
\* A run that has recorded its intent to send keeps the message to itself
\* (OutboxRepository.prepareDispatch).
THEOREM DispatchInvariant == Spec => []DispatchInv
<1> USE ConstantsAssumption
<1>1. Init => DispatchInv
  BY DEF Init, DispatchInv, JobsFitPhase, OneDispatcher, DispatchedNotWaiting, WaitingNotTaken,
         UnsentNotTaken, TakenOnce, ReferencedStatus, Dispatching, Answers, ProviderStates, Settled
<1> QED BY <1>1, DispatchInvStep, OutboxTypeCorrect, PTL DEF Spec

\* The provider takes a message at most once, whatever leases ran out, runs
\* failed, answers got lost and retries followed (OutboxRepository.prepareDispatch
\* and OutboxWorker.deliver).
THEOREM MessagesAreTakenOnce == Spec => []TakenOnce
<1>1. DispatchInv => TakenOnce
  BY DEF DispatchInv
<1> QED BY <1>1, DispatchInvariant, PTL

------------------------------------------------------------------------------
\* Apart from queueing, a step changes only the status of rows that are live.
LEMMA StatusMoves ==
  ASSUME TypeOK, DispatchInv, [Next]_vars, \A m \in Messages : ~Queue(m)
  PROVE  \A n \in Messages :
           status'[n] = status[n] \/ (status[n] \in Live /\ status'[n] \in Live \cup Settled)
<1> USE ConstantsAssumption
<1> USE DEF Settled, Live, ProviderStates, Answers, Jobs, TypeOK, DispatchInv, WaitingNotTaken,
            Waiting
<1> DEFINE Goal == \A n \in Messages :
             status'[n] = status[n] \/ (status[n] \in Live /\ status'[n] \in Live \cup Settled)
<1>1. ASSUME NEW m \in Messages, BecomeDue(m)
      PROVE  Goal
  BY <1>1 DEF BecomeDue, runVars, providerVars
<1>2. ASSUME NEW m \in Messages, Expire(m)
      PROVE  Goal
  BY <1>2 DEF Expire, runVars, providerVars
<1>3. ASSUME NEW m \in Messages, Decide(m)
      PROVE  Goal
  BY <1>3 DEF Decide, rowVars, runVars
<1>4. ASSUME NEW m \in Messages, NEW event \in {"retrying"} \cup Settled,
     NEW carriesId \in BOOLEAN, ApplyWebhook(m, event, carriesId)
      PROVE  Goal
  BY <1>4 DEF ApplyWebhook, StatusAfterEvent, EndLeases, runVars, providerVars
<1>5. ASSUME NEW r \in Runs, LeaseBatch(r)
      PROVE  Goal
  BY <1>5 DEF LeaseBatch, TakeLeases, Leasable, providerVars
<1>6. ASSUME NEW r \in Runs, LeaseReconciliationBatch(r)
      PROVE  Goal
  BY <1>6 DEF LeaseReconciliationBatch, TakeLeases, Reconcilable, Busy, providerVars
<1>7. ASSUME NEW r \in Runs, EndRun(r)
      PROVE  Goal
  BY <1>7 DEF EndRun, Busy, rowVars, providerVars
<1>8. ASSUME NEW r \in Runs, NEW m \in Messages, PrepareDispatch(r, m)
      PROVE  Goal
  BY <1>8 DEF PrepareDispatch, HoldsLease, EndLeases, providerVars
<1>9. ASSUME NEW r \in Runs, NEW m \in Messages, DropDispatch(r, m)
      PROVE  Goal
  BY <1>9 DEF DropDispatch, rowVars, providerVars
<1>10. ASSUME NEW r \in Runs, NEW m \in Messages, Accepted(r, m)
      PROVE  Goal
  BY <1>10 DEF Accepted, rowVars
<1>11. ASSUME NEW r \in Runs, NEW m \in Messages, Refused(r, m)
      PROVE  Goal
  BY <1>11 DEF Refused, rowVars, providerVars
<1>12. ASSUME NEW r \in Runs, NEW m \in Messages, RecordAnswer(r, m)
      PROVE  Goal
  BY <1>12 DEF RecordAnswer, WriteAnswer, Writable, Retries, Fails, MarkAccepted, MarkTerminal,
       Retry, EndLeases, providerVars
<1>13. ASSUME NEW r \in Runs, NEW m \in Messages, Answered(r, m) \/ Unanswered(r, m)
      PROVE  Goal
  BY <1>13 DEF Answered, Unanswered, GetStatus, rowVars, providerVars
<1>14. ASSUME NEW r \in Runs, NEW m \in Messages, MarkReconciled(r, m)
      PROVE  Goal
  BY <1>14 DEF MarkReconciled, AsksFor, EndLeases, providerVars
<1>15. ASSUME NEW r \in Runs, NEW m \in Messages, ScheduleReconciliation(r, m)
      PROVE  Goal
  BY <1>15 DEF ScheduleReconciliation, AsksFor, EndLeases, providerVars
<1>16. ASSUME NEW r \in Runs, NEW m \in Messages, DropReconciliation(r, m)
      PROVE  Goal
  BY <1>16 DEF DropReconciliation, rowVars, providerVars
<1>17. ASSUME NEW r \in Runs, NEW S \in SUBSET Messages, Fail(r, S)
      PROVE  Goal
  BY <1>17 DEF Fail, rowVars, providerVars
<1>18. ASSUME NEW r \in Runs, NEW m \in Messages, FailWrite(r, m)
      PROVE  Goal
  BY <1>18 DEF FailWrite, rowVars, providerVars
<1>19. CASE UNCHANGED vars
  BY <1>19 DEF vars, rowVars, runVars, providerVars
<1> HIDE DEF TypeOK, DispatchInv
<1>20. ASSUME NEW r \in Runs, NEW m \in Messages, JobStep(r, m)
       PROVE  Goal
  BY <1>8, <1>9, <1>10, <1>11, <1>12, <1>13, <1>14, <1>15, <1>16, <1>20 DEF JobStep
<1>21. ASSUME NEW m \in Messages, Queue(m) PROVE Goal
  BY <1>21
<1>22. Goal
  BY <1>1, <1>2, <1>3, <1>4, <1>5, <1>6, <1>7, <1>17, <1>18, <1>19, <1>20, <1>21 DEF Next, RunStep
<1> QED BY <1>22 DEF Goal

\* A row that is sent or failed stays so: late answers, webhooks, retries and
\* newer codes do not change it (OutboxRepository, OtpService.terminalizeOutbox).
THEOREM SettledRowsAreFinal == Spec => SettledIsFinal
<1>1. TypeOK /\ DispatchInv /\ [Next]_vars =>
        [\A m \in Messages : status[m] \in Settled => status'[m] = status[m]]_vars
  <2> SUFFICES ASSUME TypeOK, DispatchInv, [Next]_vars, NEW m \in Messages, status[m] \in Settled
               PROVE  status'[m] = status[m]
    OBVIOUS
  <2>1. ASSUME NEW n \in Messages, Queue(n) PROVE status'[m] = status[m]
    BY <2>1 DEF Queue, Superseded, TypeOK, Settled, Live
  <2> QED BY <2>1, StatusMoves DEF Settled, Live
<1> QED BY <1>1, OutboxTypeCorrect, DispatchInvariant, PTL DEF Spec, SettledIsFinal

\* At most the newest code of a partner is under way
\* (OtpService.supersedePending, OtpService.resend).
THEOREM OnlyNewestCode == Spec => []OnlyNewestCodeLive
<1>1. Init => OnlyNewestCodeLive
  BY ConstantsAssumption DEF Init, OnlyNewestCodeLive, Live
<1>2. TypeOK /\ DispatchInv /\ OnlyNewestCodeLive /\ [Next]_vars => OnlyNewestCodeLive'
  <2> SUFFICES ASSUME TypeOK, DispatchInv, OnlyNewestCodeLive, [Next]_vars,
                      NEW m \in Codes, NEW n \in Codes,
                      status'[m] \in Live, status'[n] \in Live
               PROVE  m = n
    BY DEF OnlyNewestCodeLive
  <2> USE ConstantsAssumption
  <2>1. ASSUME NEW q \in Messages, Queue(q) PROVE m = n
    BY <2>1 DEF Queue, Superseded, TypeOK, Settled, Live, OnlyNewestCodeLive
  <2>2. CASE \A q \in Messages : ~Queue(q)
    <3>1. status[m] \in Live /\ status[n] \in Live
      BY <2>2, StatusMoves
    <3> QED BY <3>1 DEF OnlyNewestCodeLive
  <2> QED BY <2>1, <2>2
<1> QED BY <1>1, <1>2, OutboxTypeCorrect, DispatchInvariant, PTL DEF Spec

------------------------------------------------------------------------------
\* Every step keeps the text of exactly the messages that may have to be sent.
LEMMA ContentStep == TypeOK /\ DispatchInv /\ ContentExact /\ [Next]_vars => ContentExact'
<1> SUFFICES ASSUME TypeOK, DispatchInv, ContentExact, [Next]_vars PROVE ContentExact'
  OBVIOUS
<1> USE ConstantsAssumption
<1> USE DEF Settled, Live, ProviderStates, Answers, Jobs, TypeOK, DispatchInv, WaitingNotTaken,
            Waiting, ReferencedStatus, ContentExact
<1>1. ASSUME NEW m \in Messages, Queue(m)
      PROVE  ContentExact'
  BY <1>1 DEF Queue, Superseded, EndLeases, runVars, providerVars
<1>2. ASSUME NEW m \in Messages, BecomeDue(m)
      PROVE  ContentExact'
  BY <1>2 DEF BecomeDue, runVars, providerVars
<1>3. ASSUME NEW m \in Messages, Expire(m)
      PROVE  ContentExact'
  BY <1>3 DEF Expire, runVars, providerVars
<1>4. ASSUME NEW m \in Messages, Decide(m)
      PROVE  ContentExact'
  BY <1>4 DEF Decide, rowVars, runVars
<1>5. ASSUME NEW m \in Messages, NEW event \in {"retrying"} \cup Settled,
     NEW carriesId \in BOOLEAN, ApplyWebhook(m, event, carriesId)
      PROVE  ContentExact'
  BY <1>5 DEF ApplyWebhook, StatusAfterEvent, EndLeases, runVars, providerVars
<1>6. ASSUME NEW r \in Runs, LeaseBatch(r)
      PROVE  ContentExact'
  BY <1>6 DEF LeaseBatch, TakeLeases, Leasable, providerVars
<1>7. ASSUME NEW r \in Runs, LeaseReconciliationBatch(r)
      PROVE  ContentExact'
  BY <1>7 DEF LeaseReconciliationBatch, TakeLeases, Reconcilable, Busy, providerVars
<1>8. ASSUME NEW r \in Runs, EndRun(r)
      PROVE  ContentExact'
  BY <1>8 DEF EndRun, Busy, rowVars, providerVars
<1>9. ASSUME NEW r \in Runs, NEW m \in Messages, PrepareDispatch(r, m)
      PROVE  ContentExact'
  BY <1>9 DEF PrepareDispatch, HoldsLease, EndLeases, providerVars
<1>10. ASSUME NEW r \in Runs, NEW m \in Messages, DropDispatch(r, m)
      PROVE  ContentExact'
  BY <1>10 DEF DropDispatch, rowVars, providerVars
<1>11. ASSUME NEW r \in Runs, NEW m \in Messages, Accepted(r, m)
      PROVE  ContentExact'
  BY <1>11 DEF Accepted, rowVars
<1>12. ASSUME NEW r \in Runs, NEW m \in Messages, Refused(r, m)
      PROVE  ContentExact'
  BY <1>12 DEF Refused, rowVars, providerVars
<1>13. ASSUME NEW r \in Runs, NEW m \in Messages, RecordAnswer(r, m)
      PROVE  ContentExact'
  BY <1>13 DEF RecordAnswer, WriteAnswer, Writable, Retries, Fails, MarkAccepted, MarkTerminal,
       Retry, EndLeases, providerVars
<1>14. ASSUME NEW r \in Runs, NEW m \in Messages, Answered(r, m) \/ Unanswered(r, m)
      PROVE  ContentExact'
  BY <1>14 DEF Answered, Unanswered, GetStatus, rowVars, providerVars
<1>15. ASSUME NEW r \in Runs, NEW m \in Messages, MarkReconciled(r, m)
      PROVE  ContentExact'
  BY <1>15 DEF MarkReconciled, AsksFor, EndLeases, providerVars
<1>16. ASSUME NEW r \in Runs, NEW m \in Messages, ScheduleReconciliation(r, m)
      PROVE  ContentExact'
  BY <1>16 DEF ScheduleReconciliation, AsksFor, EndLeases, providerVars
<1>17. ASSUME NEW r \in Runs, NEW m \in Messages, DropReconciliation(r, m)
      PROVE  ContentExact'
  BY <1>17 DEF DropReconciliation, rowVars, providerVars
<1>18. ASSUME NEW r \in Runs, NEW S \in SUBSET Messages, Fail(r, S)
      PROVE  ContentExact'
  BY <1>18 DEF Fail, rowVars, providerVars
<1>19. ASSUME NEW r \in Runs, NEW m \in Messages, FailWrite(r, m)
      PROVE  ContentExact'
  BY <1>19 DEF FailWrite, rowVars, providerVars
<1>20. CASE UNCHANGED vars
  BY <1>20 DEF vars, rowVars, runVars, providerVars
<1> HIDE DEF ContentExact
<1> QED
  BY <1>1, <1>2, <1>3, <1>4, <1>5, <1>6, <1>7, <1>8, <1>9, <1>10, <1>11, <1>12, <1>13, <1>14,
       <1>15, <1>16, <1>17, <1>18, <1>19, <1>20 DEF Next, RunStep, JobStep

\* The text of a message is stored exactly while it may still have to be sent
\* (OutboxRepository.prepareDispatch and retry).
THEOREM TextIsKeptExactly == Spec => []ContentExact
<1>1. Init => ContentExact
  BY DEF Init, ContentExact
<1> QED BY <1>1, ContentStep, OutboxTypeCorrect, DispatchInvariant, PTL DEF Spec

------------------------------------------------------------------------------
(* Leases.  Only a row that is processing carries one.                       *)

LeasedIsProcessing == \A m \in Messages : lease[m] # NoRun => status[m] = "processing"

LEMMA LeaseStep == TypeOK /\ DispatchInv /\ LeasedIsProcessing /\ [Next]_vars => LeasedIsProcessing'
<1> SUFFICES ASSUME TypeOK, DispatchInv, LeasedIsProcessing, [Next]_vars
             PROVE  LeasedIsProcessing'
  OBVIOUS
<1> USE ConstantsAssumption
<1> USE DEF Settled, Live, ProviderStates, Answers, Jobs, TypeOK, LeasedIsProcessing
<1>1. ASSUME NEW m \in Messages, Queue(m)
      PROVE  LeasedIsProcessing'
  BY <1>1 DEF Queue, Superseded, EndLeases, runVars, providerVars
<1>2. ASSUME NEW m \in Messages, BecomeDue(m)
      PROVE  LeasedIsProcessing'
  BY <1>2 DEF BecomeDue, runVars, providerVars
<1>3. ASSUME NEW m \in Messages, Expire(m)
      PROVE  LeasedIsProcessing'
  BY <1>3 DEF Expire, runVars, providerVars
<1>4. ASSUME NEW m \in Messages, Decide(m)
      PROVE  LeasedIsProcessing'
  BY <1>4 DEF Decide, rowVars, runVars
<1>5. ASSUME NEW m \in Messages, NEW event \in {"retrying"} \cup Settled,
     NEW carriesId \in BOOLEAN, ApplyWebhook(m, event, carriesId)
      PROVE  LeasedIsProcessing'
  BY <1>5 DEF ApplyWebhook, StatusAfterEvent, EndLeases, runVars, providerVars
<1>6. ASSUME NEW r \in Runs, LeaseBatch(r)
      PROVE  LeasedIsProcessing'
  BY <1>6 DEF LeaseBatch, TakeLeases, Leasable, providerVars
<1>7. ASSUME NEW r \in Runs, LeaseReconciliationBatch(r)
      PROVE  LeasedIsProcessing'
  BY <1>7 DEF LeaseReconciliationBatch, TakeLeases, Reconcilable, Busy, providerVars
<1>8. ASSUME NEW r \in Runs, EndRun(r)
      PROVE  LeasedIsProcessing'
  BY <1>8 DEF EndRun, Busy, rowVars, providerVars
<1>9. ASSUME NEW r \in Runs, NEW m \in Messages, PrepareDispatch(r, m)
      PROVE  LeasedIsProcessing'
  BY <1>9 DEF PrepareDispatch, HoldsLease, EndLeases, providerVars
<1>10. ASSUME NEW r \in Runs, NEW m \in Messages, DropDispatch(r, m)
      PROVE  LeasedIsProcessing'
  BY <1>10 DEF DropDispatch, rowVars, providerVars
<1>11. ASSUME NEW r \in Runs, NEW m \in Messages, Accepted(r, m)
      PROVE  LeasedIsProcessing'
  BY <1>11 DEF Accepted, rowVars
<1>12. ASSUME NEW r \in Runs, NEW m \in Messages, Refused(r, m)
      PROVE  LeasedIsProcessing'
  BY <1>12 DEF Refused, rowVars, providerVars
<1>13. ASSUME NEW r \in Runs, NEW m \in Messages, RecordAnswer(r, m)
      PROVE  LeasedIsProcessing'
  BY <1>13 DEF RecordAnswer, WriteAnswer, Writable, Retries, Fails, MarkAccepted, MarkTerminal,
       Retry, EndLeases, providerVars
<1>14. ASSUME NEW r \in Runs, NEW m \in Messages, Answered(r, m) \/ Unanswered(r, m)
      PROVE  LeasedIsProcessing'
  BY <1>14 DEF Answered, Unanswered, GetStatus, rowVars, providerVars
<1>15. ASSUME NEW r \in Runs, NEW m \in Messages, MarkReconciled(r, m)
      PROVE  LeasedIsProcessing'
  BY <1>15 DEF MarkReconciled, AsksFor, EndLeases, providerVars
<1>16. ASSUME NEW r \in Runs, NEW m \in Messages, ScheduleReconciliation(r, m)
      PROVE  LeasedIsProcessing'
  BY <1>16 DEF ScheduleReconciliation, AsksFor, EndLeases, providerVars
<1>17. ASSUME NEW r \in Runs, NEW m \in Messages, DropReconciliation(r, m)
      PROVE  LeasedIsProcessing'
  BY <1>17 DEF DropReconciliation, rowVars, providerVars
<1>18. ASSUME NEW r \in Runs, NEW S \in SUBSET Messages, Fail(r, S)
      PROVE  LeasedIsProcessing'
  BY <1>18 DEF Fail, rowVars, providerVars
<1>19. ASSUME NEW r \in Runs, NEW m \in Messages, FailWrite(r, m)
      PROVE  LeasedIsProcessing'
  BY <1>19 DEF FailWrite, rowVars, providerVars
<1>20. CASE UNCHANGED vars
  BY <1>20 DEF vars, rowVars, runVars, providerVars
<1> HIDE DEF TypeOK, LeasedIsProcessing
<1> QED
  BY <1>1, <1>2, <1>3, <1>4, <1>5, <1>6, <1>7, <1>8, <1>9, <1>10, <1>11, <1>12, <1>13, <1>14,
       <1>15, <1>16, <1>17, <1>18, <1>19, <1>20 DEF Next, RunStep, JobStep

\* A lease that has not run out is ended only by its own run, by a webhook or by
\* a newer code (OutboxRepository: the lease compared by every statement).
THEOREM LeasesAreExclusive == Spec => LeaseIsExclusive
<1>1. Init => LeasedIsProcessing
  BY DEF Init, LeasedIsProcessing
<1>2. ASSUME TypeOK, DispatchInv, LeasedIsProcessing, [Next]_vars
      PROVE  [\A m \in Messages : LeaseKept(m)]_vars
  <2> SUFFICES ASSUME NEW p \in Messages PROVE LeaseKept(p)
    OBVIOUS
  <2> USE ConstantsAssumption, <1>2
  <2> USE DEF Settled, Live, ProviderStates, Answers, Jobs, TypeOK, LeasedIsProcessing, LeaseKept
  <2>1. ASSUME NEW m \in Messages, Queue(m)
        PROVE  LeaseKept(p)
    BY <2>1 DEF Queue, Superseded, EndLeases, runVars, providerVars
  <2>2. ASSUME NEW m \in Messages, BecomeDue(m)
        PROVE  LeaseKept(p)
    BY <2>2 DEF BecomeDue, runVars, providerVars
  <2>3. ASSUME NEW m \in Messages, Expire(m)
        PROVE  LeaseKept(p)
    BY <2>3 DEF Expire, runVars, providerVars
  <2>4. ASSUME NEW m \in Messages, Decide(m)
        PROVE  LeaseKept(p)
    BY <2>4 DEF Decide, rowVars, runVars
  <2>5. ASSUME NEW m \in Messages, NEW event \in {"retrying"} \cup Settled,
       NEW carriesId \in BOOLEAN, ApplyWebhook(m, event, carriesId)
        PROVE  LeaseKept(p)
    BY <2>5 DEF ApplyWebhook, StatusAfterEvent, EndLeases, runVars, providerVars
  <2>6. ASSUME NEW r \in Runs, LeaseBatch(r)
        PROVE  LeaseKept(p)
    BY <2>6 DEF LeaseBatch, TakeLeases, Leasable, providerVars
  <2>7. ASSUME NEW r \in Runs, LeaseReconciliationBatch(r)
        PROVE  LeaseKept(p)
    BY <2>7 DEF LeaseReconciliationBatch, TakeLeases, Reconcilable, Busy, providerVars
  <2>8. ASSUME NEW r \in Runs, EndRun(r)
        PROVE  LeaseKept(p)
    BY <2>8 DEF EndRun, Busy, rowVars, providerVars
  <2>9. ASSUME NEW r \in Runs, NEW m \in Messages, PrepareDispatch(r, m)
        PROVE  LeaseKept(p)
    BY <2>9 DEF PrepareDispatch, HoldsLease, EndLeases, providerVars
  <2>10. ASSUME NEW r \in Runs, NEW m \in Messages, DropDispatch(r, m)
        PROVE  LeaseKept(p)
    BY <2>10 DEF DropDispatch, rowVars, providerVars
  <2>11. ASSUME NEW r \in Runs, NEW m \in Messages, Accepted(r, m)
        PROVE  LeaseKept(p)
    BY <2>11 DEF Accepted, rowVars
  <2>12. ASSUME NEW r \in Runs, NEW m \in Messages, Refused(r, m)
        PROVE  LeaseKept(p)
    BY <2>12 DEF Refused, rowVars, providerVars
  <2>13. ASSUME NEW r \in Runs, NEW m \in Messages, RecordAnswer(r, m)
        PROVE  LeaseKept(p)
    BY <2>13 DEF RecordAnswer, WriteAnswer, Writable, Retries, Fails, MarkAccepted, MarkTerminal,
         Retry, EndLeases, providerVars
  <2>14. ASSUME NEW r \in Runs, NEW m \in Messages, Answered(r, m) \/ Unanswered(r, m)
        PROVE  LeaseKept(p)
    BY <2>14 DEF Answered, Unanswered, GetStatus, rowVars, providerVars
  <2>15. ASSUME NEW r \in Runs, NEW m \in Messages, MarkReconciled(r, m)
        PROVE  LeaseKept(p)
    BY <2>15 DEF MarkReconciled, AsksFor, EndLeases, providerVars
  <2>16. ASSUME NEW r \in Runs, NEW m \in Messages, ScheduleReconciliation(r, m)
        PROVE  LeaseKept(p)
    BY <2>16 DEF ScheduleReconciliation, AsksFor, EndLeases, providerVars
  <2>17. ASSUME NEW r \in Runs, NEW m \in Messages, DropReconciliation(r, m)
        PROVE  LeaseKept(p)
    BY <2>17 DEF DropReconciliation, rowVars, providerVars
  <2>18. ASSUME NEW r \in Runs, NEW S \in SUBSET Messages, Fail(r, S)
        PROVE  LeaseKept(p)
    BY <2>18 DEF Fail, rowVars, providerVars
  <2>19. ASSUME NEW r \in Runs, NEW m \in Messages, FailWrite(r, m)
        PROVE  LeaseKept(p)
    BY <2>19 DEF FailWrite, rowVars, providerVars
  <2>20. CASE UNCHANGED vars
    BY <2>20 DEF vars, rowVars, runVars, providerVars
  <2> HIDE DEF TypeOK, LeasedIsProcessing, LeaseKept
  <2> QED
    BY <2>1, <2>2, <2>3, <2>4, <2>5, <2>6, <2>7, <2>8, <2>9, <2>10, <2>11, <2>12, <2>13, <2>14,
         <2>15, <2>16, <2>17, <2>18, <2>19, <2>20 DEF Next, RunStep, JobStep
<1> QED
  BY <1>1, <1>2, LeaseStep, OutboxTypeCorrect, DispatchInvariant, PTL DEF Spec, LeaseIsExclusive

------------------------------------------------------------------------------
(* Outcomes.  A message that is being sent and no code waits for its answer,  *)
(* and answers are those of the provider.                                     *)

FateFitsTakes == \A m \in Messages : takes[m] = 0 <=> fate[m] = "none"

AnswersAreTrue ==
  \A r \in Runs, m \in Messages : job[r][m] \in Settled => fate[m] = job[r][m]

SendingIsUnknown ==
  \A r \in Runs, m \in Messages \ Codes : job[r][m] = "sending" => status[m] = "unknown"

OutcomeInv == FateFitsTakes /\ AnswersAreTrue /\ SendingIsUnknown /\ OutcomeIsTrue

LEMMA OutcomeStep == TypeOK /\ DispatchInv /\ OutcomeInv /\ [Next]_vars => OutcomeInv'
<1> SUFFICES ASSUME TypeOK, DispatchInv, OutcomeInv, [Next]_vars PROVE OutcomeInv'
  OBVIOUS
<1> USE ConstantsAssumption
<1> USE DEF Settled, Live, ProviderStates, Answers, Jobs, TypeOK, DispatchInv, JobsFitPhase,
            OneDispatcher, DispatchedNotWaiting, WaitingNotTaken, UnsentNotTaken, TakenOnce,
            Dispatching, Waiting, OutcomeInv, FateFitsTakes, AnswersAreTrue, SendingIsUnknown,
            OutcomeIsTrue
<1>1. ASSUME NEW m \in Messages, Queue(m)
      PROVE  OutcomeInv'
  BY <1>1 DEF Queue, Superseded, EndLeases, runVars, providerVars
<1>2. ASSUME NEW m \in Messages, BecomeDue(m)
      PROVE  OutcomeInv'
  BY <1>2 DEF BecomeDue, runVars, providerVars
<1>3. ASSUME NEW m \in Messages, Expire(m)
      PROVE  OutcomeInv'
  BY <1>3 DEF Expire, runVars, providerVars
<1>4. ASSUME NEW m \in Messages, Decide(m)
      PROVE  OutcomeInv'
  BY <1>4 DEF Decide, rowVars, runVars
<1>5. ASSUME NEW m \in Messages, NEW event \in {"retrying"} \cup Settled,
     NEW carriesId \in BOOLEAN, ApplyWebhook(m, event, carriesId)
      PROVE  OutcomeInv'
  BY <1>5 DEF ApplyWebhook, StatusAfterEvent, EndLeases, runVars, providerVars
<1>6. ASSUME NEW r \in Runs, LeaseBatch(r)
      PROVE  OutcomeInv'
  BY <1>6 DEF LeaseBatch, TakeLeases, Leasable, providerVars
<1>7. ASSUME NEW r \in Runs, LeaseReconciliationBatch(r)
      PROVE  OutcomeInv'
  BY <1>7 DEF LeaseReconciliationBatch, TakeLeases, Reconcilable, Busy, providerVars
<1>8. ASSUME NEW r \in Runs, EndRun(r)
      PROVE  OutcomeInv'
  BY <1>8 DEF EndRun, Busy, rowVars, providerVars
<1>9. ASSUME NEW r \in Runs, NEW m \in Messages, PrepareDispatch(r, m)
      PROVE  OutcomeInv'
  BY <1>9 DEF PrepareDispatch, HoldsLease, EndLeases, providerVars
<1>10. ASSUME NEW r \in Runs, NEW m \in Messages, DropDispatch(r, m)
      PROVE  OutcomeInv'
  BY <1>10 DEF DropDispatch, rowVars, providerVars
<1>11. ASSUME NEW r \in Runs, NEW m \in Messages, Accepted(r, m)
      PROVE  OutcomeInv'
  BY <1>11 DEF Accepted, rowVars
<1>12. ASSUME NEW r \in Runs, NEW m \in Messages, Refused(r, m)
      PROVE  OutcomeInv'
  BY <1>12 DEF Refused, rowVars, providerVars
<1>13. ASSUME NEW r \in Runs, NEW m \in Messages, RecordAnswer(r, m)
      PROVE  OutcomeInv'
  <2>1. /\ phase[r] = "delivering" /\ job[r][m] \in Answers
        /\ job' = [job EXCEPT ![r][m] = "none"]
        /\ UNCHANGED <<phase, takes, fate>>
    BY <1>13 DEF RecordAnswer, providerVars
  <2>2. \A q \in Runs : job'[q][m] # "sending"
    BY <2>1
  <2>3. CASE UNCHANGED status
    BY <2>1, <2>3
  <2>4. CASE WriteAnswer(m, job[r][m])
    <3>1. \/ status' = [status EXCEPT ![m] = "processing"]
          \/ status' = [status EXCEPT ![m] = "pending"]
          \/ job[r][m] \in Settled /\ status' = [status EXCEPT ![m] = job[r][m]]
          \/ job[r][m] \in {"terminal", "retryable"} /\ status' = [status EXCEPT ![m] = "failed"]
      BY <2>4 DEF WriteAnswer, Fails, MarkAccepted, MarkTerminal, Retry
    <3>2. job[r][m] \in {"terminal", "retryable"} => fate[m] = "none"
      BY <2>1
    <3>3. OutcomeIsTrue'
      BY <2>1, <3>1, <3>2
    <3>4. SendingIsUnknown'
      BY <2>1, <2>2, <3>1
    <3> QED BY <2>1, <3>3, <3>4
  <2> QED BY <1>13, <2>3, <2>4 DEF RecordAnswer
<1>14. ASSUME NEW r \in Runs, NEW m \in Messages, Answered(r, m) \/ Unanswered(r, m)
      PROVE  OutcomeInv'
  <2>1. PICK answer \in {fate[m], "ambiguous"} : GetStatus(r, m, answer)
    BY <1>14 DEF Answered, Unanswered
  <2>2. /\ job' = [job EXCEPT ![r][m] = answer]
        /\ UNCHANGED <<status, phase, takes, fate>>
    BY <2>1 DEF GetStatus, rowVars, providerVars
  <2>3. answer # "sending"
    BY <2>1
  <2>4. AnswersAreTrue'
    BY <2>1, <2>2
  <2>5. SendingIsUnknown'
    BY <2>2, <2>3
  <2> QED BY <2>2, <2>4, <2>5
<1>15. ASSUME NEW r \in Runs, NEW m \in Messages, MarkReconciled(r, m)
      PROVE  OutcomeInv'
  BY <1>15 DEF MarkReconciled, AsksFor, EndLeases, providerVars
<1>16. ASSUME NEW r \in Runs, NEW m \in Messages, ScheduleReconciliation(r, m)
      PROVE  OutcomeInv'
  BY <1>16 DEF ScheduleReconciliation, AsksFor, EndLeases, providerVars
<1>17. ASSUME NEW r \in Runs, NEW m \in Messages, DropReconciliation(r, m)
      PROVE  OutcomeInv'
  BY <1>17 DEF DropReconciliation, rowVars, providerVars
<1>18. ASSUME NEW r \in Runs, NEW S \in SUBSET Messages, Fail(r, S)
      PROVE  OutcomeInv'
  BY <1>18 DEF Fail, rowVars, providerVars
<1>19. ASSUME NEW r \in Runs, NEW m \in Messages, FailWrite(r, m)
      PROVE  OutcomeInv'
  BY <1>19 DEF FailWrite, rowVars, providerVars
<1>20. CASE UNCHANGED vars
  BY <1>20 DEF vars, rowVars, runVars, providerVars
<1> HIDE DEF TypeOK, DispatchInv, OutcomeInv
<1> QED
  BY <1>1, <1>2, <1>3, <1>4, <1>5, <1>6, <1>7, <1>8, <1>9, <1>10, <1>11, <1>12, <1>13, <1>14,
       <1>15, <1>16, <1>17, <1>18, <1>19, <1>20 DEF Next, RunStep, JobStep

\* A row says sent only of a message the provider has sent, and failed only of one
\* it did not take, has failed or that is superseded (OutboxWorker.deliver and
\* reconcile, OutboxRepository.applyWebhook).
THEOREM OutcomesAreTrue == Spec => []OutcomeIsTrue
<1>1. Init => OutcomeInv
  BY DEF Init, OutcomeInv, FateFitsTakes, AnswersAreTrue, SendingIsUnknown, OutcomeIsTrue, Settled
<1>2. OutcomeInv => OutcomeIsTrue
  BY DEF OutcomeInv
<1> QED BY <1>1, <1>2, OutcomeStep, OutboxTypeCorrect, DispatchInvariant, PTL DEF Spec
=============================================================================
