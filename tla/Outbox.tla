------------------------------- MODULE Outbox -------------------------------
(***************************************************************************)
(* Notifications on their way to a provider that has no idempotency key:   *)
(* the outbox rows, the runs of the worker (OutboxWorker.runOnce) that     *)
(* lease and dispatch them, the provider and its webhook, and the one-time *)
(* codes that supersede each other.                                        *)
(*                                                                         *)
(* A run is one invocation of runOnce.  Several overlap: processes may run *)
(* in parallel, and a process polls again as soon as a run has failed while*)
(* its other deliveries go on.  Every statement on a row is one action;    *)
(* calls to the provider lie between them.  Time is abstracted: a row      *)
(* becomes due, and a lease runs out, at some moment.  The rows of interest*)
(* fit in one batch.                                                       *)
(***************************************************************************)
EXTENDS Naturals

CONSTANTS
  Messages,
  Codes,         \* the messages that carry one-time codes of one partner
  Runs,
  NoRun,
  MaxAttempts,   \* OutboxWorkerOptions.maxAttempts
  MaxFailures    \* bounds the crashes and database errors of a behaviour

ASSUME ConstantsAssumption ==
  /\ Codes \subseteq Messages
  /\ NoRun \notin Runs
  /\ MaxAttempts \in Nat \ {0}
  /\ MaxFailures \in Nat

VARIABLES
  status,      \* per message: the status of its row
  content,     \* messages whose text is stored in the row
  referenced,  \* messages whose row has the provider's reference
  attempts,    \* per message: leases taken, counted up to MaxAttempts
  due,         \* messages whose available_at has passed
  lease,       \* per message: the run whose lease the row carries
  expired,     \* messages whose lease_expires_at has passed
  seen,        \* webhook events in notification_webhook_events
  phase,       \* per run: idle, delivering or reconciling
  job,         \* per run and message: where its handling stands
  abandoned,   \* runs that failed and only finish what is under way
  takes,       \* per message: how often the provider has taken it
  fate,        \* per message: what the provider says of it
  failures     \* failures so far

rowVars == <<status, content, referenced, attempts, due, lease, expired>>
runVars == <<phase, job, abandoned>>
providerVars == <<takes, fate>>
vars == <<rowVars, seen, runVars, providerVars, failures>>

Settled == {"sent", "failed"}
Live == {"pending", "processing", "unknown"}

\* What delivery.send and delivery.reconcile answer: a neutral state or the
\* disposition of an error.
ProviderStates == {"processing"} \cup Settled
Answers == ProviderStates \cup {"retryable", "terminal", "ambiguous"}
Jobs == {"none", "leased", "sending", "asking"} \cup Answers

Busy(r) == \E m \in Messages : job[r][m] # "none"

Init ==
  /\ status = [m \in Messages |-> "absent"]
  /\ content = {} /\ referenced = {} /\ due = {} /\ expired = {}
  /\ attempts = [m \in Messages |-> 0]
  /\ lease = [m \in Messages |-> NoRun]
  /\ seen = {}
  /\ phase = [r \in Runs |-> "idle"]
  /\ job = [r \in Runs |-> [m \in Messages |-> "none"]]
  /\ abandoned = {}
  /\ takes = [m \in Messages |-> 0]
  /\ fate = [m \in Messages |-> "none"]
  /\ failures = 0

------------------------------------------------------------------------------
(* Producers.  A new code ends the delivery of the partner's older codes.   *)

EndLeases(S) ==
  /\ lease' = [m \in Messages |-> IF m \in S THEN NoRun ELSE lease[m]]
  /\ expired' = expired \ S

Superseded(m) == IF m \in Codes THEN {n \in Codes : status[n] \in Live} ELSE {}

Queue(m) ==
  /\ status[m] = "absent"
  /\ status' = [n \in Messages |-> IF n = m THEN "pending"
                                   ELSE IF n \in Superseded(m) THEN "failed" ELSE status[n]]
  /\ content' = (content \ Superseded(m)) \cup {m}
  /\ due' = due \cup {m}
  /\ EndLeases(Superseded(m))
  /\ UNCHANGED <<referenced, attempts, seen, runVars, providerVars, failures>>

------------------------------------------------------------------------------
(* Delivery: lease the batch, record the intent to send, send, record the   *)
(* answer.                                                                  *)

Leasable ==
  {m \in content : \/ status[m] = "pending" /\ m \in due
                   \/ status[m] = "processing" /\ m \notin referenced /\ m \in expired}

TakeLeases(r, S, step) ==
  /\ lease' = [m \in Messages |-> IF m \in S THEN r ELSE lease[m]]
  /\ expired' = expired \ S
  /\ job' = [job EXCEPT ![r] = [m \in Messages |-> IF m \in S THEN step ELSE "none"]]

LeaseBatch(r) ==
  /\ phase[r] = "idle"
  /\ phase' = [phase EXCEPT ![r] = "delivering"]
  /\ status' = [m \in Messages |-> IF m \in Leasable THEN "processing" ELSE status[m]]
  /\ attempts' = [m \in Messages |-> IF m \in Leasable /\ attempts[m] < MaxAttempts
                                     THEN attempts[m] + 1 ELSE attempts[m]]
  /\ TakeLeases(r, Leasable, "leased")
  /\ UNCHANGED <<content, referenced, due, seen, abandoned, providerVars, failures>>

\* Mutant: the lease is not compared with the row's.
HoldsAnyLease(r, m) == status[m] = "processing" /\ m \notin referenced

HoldsLease(r, m) == status[m] = "processing" /\ m \notin referenced /\ lease[m] = r

PrepareDispatch(r, m) ==
  /\ job[r][m] = "leased"
  /\ HoldsLease(r, m)
  /\ status' = [status EXCEPT ![m] = "unknown"]
  /\ content' = content \ {m}
  /\ EndLeases({m})
  /\ job' = [job EXCEPT ![r][m] = "sending"]
  /\ UNCHANGED <<referenced, attempts, due, seen, phase, abandoned, providerVars, failures>>

\* The update of prepareDispatch finds no row: the message is another's now.
DropDispatch(r, m) ==
  /\ job[r][m] = "leased"
  /\ ~HoldsLease(r, m)
  /\ job' = [job EXCEPT ![r][m] = "none"]
  /\ UNCHANGED <<rowVars, seen, phase, abandoned, providerVars, failures>>

\* The provider takes the message; its answer may get lost.
Accepted(r, m) ==
  /\ job[r][m] = "sending"
  /\ takes[m] < 2
  /\ takes' = [takes EXCEPT ![m] = @ + 1]
  /\ \E state \in ProviderStates :
       /\ fate' = [fate EXCEPT ![m] = state]
       /\ \E answer \in {state, "ambiguous"} : job' = [job EXCEPT ![r][m] = answer]
  /\ UNCHANGED <<rowVars, seen, phase, abandoned, failures>>

\* The provider does not take the message: it refuses, or it is not reached.
Refused(r, m) ==
  /\ job[r][m] = "sending"
  /\ \E answer \in {"retryable", "terminal", "ambiguous"} : job' = [job EXCEPT ![r][m] = answer]
  /\ UNCHANGED <<rowVars, seen, phase, abandoned, providerVars, failures>>

\* Mutant: the answer is written whatever became of the row.
AlwaysWritable(m) == TRUE

\* An answer is written only to a row that still waits for one.
Writable(m) == status[m] = "unknown" /\ m \notin referenced

\* Mutant: an answer that got lost is taken for a refusal.
RetriesWhenUnsure(m, answer) ==
  answer \in {"retryable", "ambiguous"} /\ attempts[m] < MaxAttempts

\* Mutant: the attempts are not counted.
RetriesForever(m, answer) == answer = "retryable"

\* The run compares the count it read with the lease; it is the row's as long
\* as the row is writable.
Retries(m, answer) == answer = "retryable" /\ attempts[m] < MaxAttempts

\* Mutant: a message whose answer got lost is given up.
FailsWhenUnsure(m, answer) ==
  answer \in {"terminal", "retryable", "ambiguous"} /\ ~Retries(m, answer)

Fails(m, answer) == answer \in {"terminal", "retryable"} /\ ~Retries(m, answer)

MarkAccepted(m) ==
  /\ status' = [status EXCEPT ![m] = "processing"]
  /\ referenced' = referenced \cup {m}
  /\ due' = due \ {m}
  /\ UNCHANGED content

MarkTerminal(m, outcome, references) ==
  /\ status' = [status EXCEPT ![m] = outcome]
  /\ referenced' = referenced \cup references
  /\ content' = content \ {m}
  /\ UNCHANGED due

\* Mutant: the text is not restored.
RetryWithoutContent(m) ==
  /\ status' = [status EXCEPT ![m] = "pending"]
  /\ due' = due \ {m}
  /\ UNCHANGED <<referenced, content>>

Retry(m) ==
  /\ status' = [status EXCEPT ![m] = "pending"]
  /\ content' = content \cup {m}
  /\ due' = due \ {m}
  /\ UNCHANGED referenced

WriteAnswer(m, answer) ==
  \/ answer = "processing" /\ MarkAccepted(m)
  \/ answer \in Settled /\ MarkTerminal(m, answer, {m})
  \/ Retries(m, answer) /\ Retry(m)
  \/ Fails(m, answer) /\ MarkTerminal(m, "failed", {})

RecordAnswer(r, m) ==
  /\ phase[r] = "delivering"
  /\ job[r][m] \in Answers
  /\ IF Writable(m) /\ (job[r][m] \in ProviderStates \/ Retries(m, job[r][m])
                                                     \/ Fails(m, job[r][m]))
     THEN WriteAnswer(m, job[r][m]) /\ EndLeases({m})
     ELSE UNCHANGED <<status, content, referenced, due, lease, expired>>
  /\ job' = [job EXCEPT ![r][m] = "none"]
  /\ UNCHANGED <<attempts, seen, phase, abandoned, providerVars, failures>>

------------------------------------------------------------------------------
(* Reconciliation: ask the provider about the messages it has taken.        *)

\* Mutant: a lease is never taken over.
ReconcilableOnce ==
  {m \in referenced : status[m] = "processing" /\ m \in due /\ lease[m] = NoRun}

Reconcilable ==
  {m \in referenced : /\ status[m] = "processing"
                      /\ m \in due
                      /\ lease[m] = NoRun \/ m \in expired}

LeaseReconciliationBatch(r) ==
  /\ phase[r] = "delivering" /\ r \notin abandoned
  /\ ~Busy(r)
  /\ phase' = [phase EXCEPT ![r] = "reconciling"]
  /\ TakeLeases(r, Reconcilable, "asking")
  /\ UNCHANGED <<status, content, referenced, attempts, due, seen, abandoned,
                 providerVars, failures>>

GetStatus(r, m, answer) ==
  /\ job[r][m] = "asking"
  /\ job' = [job EXCEPT ![r][m] = answer]
  /\ UNCHANGED <<rowVars, seen, phase, abandoned, providerVars, failures>>

Answered(r, m) == GetStatus(r, m, fate[m])

Unanswered(r, m) == GetStatus(r, m, "ambiguous")

AsksFor(r, m) == status[m] = "processing" /\ m \in referenced /\ lease[m] = r

MarkReconciled(r, m) ==
  /\ phase[r] = "reconciling"
  /\ job[r][m] \in Settled
  /\ AsksFor(r, m)
  /\ status' = [status EXCEPT ![m] = job[r][m]]
  /\ content' = content \ {m}
  /\ EndLeases({m})
  /\ job' = [job EXCEPT ![r][m] = "none"]
  /\ UNCHANGED <<referenced, attempts, due, seen, phase, abandoned, providerVars, failures>>

\* An answer that settles nothing puts the next question off.
ScheduleReconciliation(r, m) ==
  /\ phase[r] = "reconciling"
  /\ job[r][m] \in Answers \ Settled
  /\ AsksFor(r, m)
  /\ due' = due \ {m}
  /\ EndLeases({m})
  /\ job' = [job EXCEPT ![r][m] = "none"]
  /\ UNCHANGED <<status, content, referenced, attempts, seen, phase, abandoned, providerVars,
                 failures>>

DropReconciliation(r, m) ==
  /\ phase[r] = "reconciling"
  /\ job[r][m] \in Answers
  /\ ~AsksFor(r, m)
  /\ job' = [job EXCEPT ![r][m] = "none"]
  /\ UNCHANGED <<rowVars, seen, phase, abandoned, providerVars, failures>>

EndRun(r) ==
  /\ phase[r] = "reconciling" \/ r \in abandoned
  /\ ~Busy(r)
  /\ phase' = [phase EXCEPT ![r] = "idle"]
  /\ abandoned' = abandoned \ {r}
  /\ UNCHANGED <<rowVars, seen, job, providerVars, failures>>

\* Some of a run's jobs end without a further write: its process stops, or a
\* statement fails, and the others go on.
Fail(r, S) ==
  /\ failures < MaxFailures
  /\ phase[r] # "idle"
  /\ \A m \in S : job[r][m] # "none"
  /\ job' = [job EXCEPT ![r] = [m \in Messages |-> IF m \in S THEN "none" ELSE @[m]]]
  /\ abandoned' = abandoned \cup {r}
  /\ failures' = failures + 1
  /\ UNCHANGED <<rowVars, seen, phase, providerVars>>

\* The failures the run handles: an acceptance that cannot be written leaves the
\* row unknown, an outcome that cannot be written becomes a further question.
FailWrite(r, m) ==
  /\ failures < MaxFailures
  /\ job[r][m] \in ProviderStates
  /\ job' = [job EXCEPT ![r][m] = IF phase[r] = "delivering" THEN "none" ELSE "ambiguous"]
  /\ failures' = failures + 1
  /\ UNCHANGED <<rowVars, seen, phase, abandoned, providerVars>>

------------------------------------------------------------------------------
(* The provider and its webhook.  A message has one reference because it is *)
(* taken once (TakenOnce).  Events may be late, repeated, overtaken or lost; *)
(* of each kind one per message is new, and repetitions carry its id.  Only  *)
(* an event that carries the id of the row finds a row without reference.   *)

Decide(m) ==
  /\ fate[m] = "processing"
  /\ \E outcome \in Settled : fate' = [fate EXCEPT ![m] = outcome]
  /\ UNCHANGED <<rowVars, seen, runVars, takes, failures>>

\* Mutant: a settled row follows the event.
StatusFollowsEvent(m, event) == IF event = "retrying" THEN "processing" ELSE event

\* Mutant: the event's name becomes the status.
StatusIsEvent(m, event) == IF status[m] \in Settled THEN status[m] ELSE event

StatusAfterEvent(m, event) ==
  IF status[m] \in Settled THEN status[m]
  ELSE IF event = "retrying" THEN "processing" ELSE event

ApplyWebhook(m, event, carriesId) ==
  /\ takes[m] > 0
  /\ event \in {"retrying", fate[m]} \ {"processing"}
  /\ <<m, event>> \notin seen
  /\ m \in referenced \/ carriesId
  /\ seen' = seen \cup {<<m, event>>}
  /\ status' = [status EXCEPT ![m] = StatusAfterEvent(m, event)]
  /\ referenced' = referenced \cup {m}
  /\ content' = content \ {m}
  /\ due' = IF event = "retrying" THEN due \cup {m} ELSE due
  /\ EndLeases({m})
  /\ UNCHANGED <<attempts, runVars, providerVars, failures>>

------------------------------------------------------------------------------
(* Time.                                                                   *)

BecomeDue(m) ==
  /\ status[m] # "absent" /\ m \notin due
  /\ due' = due \cup {m}
  /\ UNCHANGED <<status, content, referenced, attempts, lease, expired, seen, runVars,
                 providerVars, failures>>

Expire(m) ==
  /\ lease[m] # NoRun /\ m \notin expired
  /\ expired' = expired \cup {m}
  /\ UNCHANGED <<status, content, referenced, attempts, due, lease, seen, runVars,
                 providerVars, failures>>

------------------------------------------------------------------------------
JobStep(r, m) ==
  \/ PrepareDispatch(r, m) \/ DropDispatch(r, m)
  \/ Accepted(r, m) \/ Refused(r, m) \/ RecordAnswer(r, m)
  \/ Answered(r, m) \/ Unanswered(r, m)
  \/ MarkReconciled(r, m) \/ ScheduleReconciliation(r, m) \/ DropReconciliation(r, m)

RunStep(r) == LeaseBatch(r) \/ LeaseReconciliationBatch(r) \/ EndRun(r)

Next ==
  \/ \E m \in Messages : Queue(m) \/ BecomeDue(m) \/ Expire(m) \/ Decide(m)
  \/ \E m \in Messages, event \in {"retrying"} \cup Settled, carriesId \in BOOLEAN :
       ApplyWebhook(m, event, carriesId)
  \/ \E r \in Runs : RunStep(r) \/ \E m \in Messages : JobStep(r, m)
  \/ \E r \in Runs, S \in SUBSET Messages : Fail(r, S)
  \/ \E r \in Runs, m \in Messages : FailWrite(r, m)

Spec == Init /\ [][Next]_vars

\* Runs are polled by a timer, every call to the provider ends at its timeout,
\* delays and leases run out and the provider decides in the end.  A lease lasts
\* 30 seconds, one statement or one call (10 seconds at most) less, so leases do
\* not run out before each dispatch and each outcome is written; and the
\* provider does not leave every question of a run with a lease unanswered.
\* Nothing obliges anyone to queue a message, or the provider to take it or to
\* send its webhook.
Fairness ==
  /\ \A r \in Runs : WF_vars(RunStep(r)) /\ \A m \in Messages : WF_vars(JobStep(r, m))
  /\ \A m \in Messages :
       /\ WF_vars(BecomeDue(m)) /\ WF_vars(Expire(m)) /\ WF_vars(Decide(m))
       /\ SF_vars(\E r \in Runs : PrepareDispatch(r, m))
       /\ SF_vars(\E r \in Runs : AsksFor(r, m) /\ Answered(r, m))
       /\ SF_vars(\E r \in Runs : MarkReconciled(r, m))

FairSpec == Spec /\ Fairness

------------------------------------------------------------------------------
\* Type invariant: statuses, jobs and sets stay in their domains.
TypeOK ==
  /\ status \in [Messages -> {"absent"} \cup Live \cup Settled]
  /\ content \subseteq Messages /\ referenced \subseteq Messages
  /\ due \subseteq Messages /\ expired \subseteq Messages
  /\ attempts \in [Messages -> 0..MaxAttempts]
  /\ lease \in [Messages -> Runs \cup {NoRun}]
  /\ seen \subseteq Messages \X ({"retrying"} \cup Settled)
  /\ phase \in [Runs -> {"idle", "delivering", "reconciling"}]
  /\ job \in [Runs -> [Messages -> Jobs]]
  /\ abandoned \subseteq Runs
  /\ takes \in [Messages -> 0..2]
  /\ fate \in [Messages -> ProviderStates \cup {"none"}]
  /\ failures \in 0..MaxFailures

\* The provider takes a message at most once, whatever leases ran out, runs
\* failed, answers got lost and retries followed.
TakenOnce == \A m \in Messages : takes[m] <= 1

\* A row says sent only of a message the provider has sent, and failed only of
\* one it did not take, has failed or that is superseded.
OutcomeIsTrue ==
  \A m \in Messages :
    /\ status[m] = "sent" => fate[m] = "sent"
    /\ status[m] = "failed" /\ m \notin Codes => fate[m] \in {"none", "failed"}

\* The text of a message is stored exactly while it may still have to be sent:
\* until its dispatch is recorded, and again when the provider has refused it.
ContentExact ==
  content = {m \in Messages : \/ status[m] = "pending"
                              \/ status[m] = "processing" /\ m \notin referenced}

\* No answer, retry or webhook revives the delivery of a superseded code: at
\* most the newest code is under way.
OnlyNewestCodeLive ==
  \A m, n \in Codes : status[m] \in Live /\ status[n] \in Live => m = n

\* A row that is sent or failed stays so, whatever arrives late.
SettledIsFinal ==
  [][\A m \in Messages : status[m] \in Settled => status'[m] = status[m]]_vars

\* A lease that has not run out is ended only by its own run, by a webhook or by
\* a newer code.
LeaseKept(m) ==
  lease[m] # NoRun /\ m \notin expired /\ lease'[m] # lease[m] =>
    \/ job'[lease[m]][m] # job[lease[m]][m]
    \/ seen' # seen
    \/ m \in Codes /\ \E n \in Codes : status[n] = "absent" /\ status'[n] = "pending"

LeaseIsExclusive == [][\A m \in Messages : LeaseKept(m)]_vars

\* Every message comes to rest: no lease, retry or reconciliation goes round
\* forever.  (unknown is a resting place: nothing but a webhook leaves it.)
ComesToRest ==
  \A m \in Messages : <>[](status[m] \in {"absent", "unknown"} \cup Settled)

\* A message known to be taken ends with an outcome although runs fail.
KnownOutcome ==
  \A m \in Messages : m \in referenced ~> status[m] \in Settled
=============================================================================
