---------------------------- MODULE BookingsPage -----------------------------
(***************************************************************************)
(* The owner's page of bookings and events, composed with BookingEvents    *)
(* over a network that loses requests and answers.  The form and the event *)
(* buttons work independently of each other; each runs one request at a    *)
(* time and then refreshes what the page shows.  Lists of events that the  *)
(* owner asks for meanwhile may arrive in any order.                       *)
(***************************************************************************)
EXTENDS BookingEvents

CONSTANTS
  MaxMishaps,  \* bounds lost messages, changes of the form and lists under way
  NoRequest

\* What the event buttons ask for.
WorkRequests == [op : {"deliver"}, id : Refs] \cup [op : {"retry"}, id : Events]

ASSUME PageAssumption == MaxMishaps \in Nat /\ NoRequest \notin WorkRequests

VARIABLES
  form,         \* the fields of the form
  key,          \* the idempotency key of the next submission
  submitted,    \* the last submission
  creating,     \* what the form waits for
  alert,        \* what the form tells the owner
  working,      \* the event request of the buttons, or NoRequest
  workingPhase, \* what the buttons wait for
  shownBookings,\* the bookings shown as awaiting completion
  shownEvents,  \* the status shown for each listed event
  lists,        \* lists of events under way to the page
  mishaps       \* bound: mishaps so far

formVars == <<form, key, submitted, creating, alert>>
workVars == <<working, workingPhase>>
shownVars == <<shownBookings, shownEvents, lists>>
pageVars == <<vars, formVars, workVars, shownVars, mishaps>>

Mishap == mishaps < MaxMishaps /\ mishaps' = mishaps + 1

Scheduled == {r \in Refs : booking[r].status = "scheduled"}
History == [e \in Events |-> IF e \in Listed THEN event[e].status ELSE "none"]

PageInit ==
  /\ Init
  /\ form \in Forms
  /\ key \in Keys
  /\ submitted = [key |-> NoKey, form |-> NoForm]
  /\ creating = "idle"
  /\ alert = "none"
  /\ working = NoRequest
  /\ workingPhase = "idle"
  /\ shownBookings = {}
  /\ shownEvents = History
  /\ lists = {}
  /\ mishaps = 0

------------------------------------------------------------------------------
(* The form.                                                               *)

ChangeForm ==
  /\ creating = "idle"
  /\ \E f \in Forms \ {form} : form' = f
  /\ Mishap
  /\ UNCHANGED <<vars, key, submitted, creating, alert, workVars, shownVars>>

Submit ==
  /\ creating = "idle"
  /\ key # NoKey
  /\ submitted' = [key |-> key, form |-> form]
  /\ creating' = "sent"
  /\ alert' = "none"
  /\ UNCHANGED <<vars, form, key, workVars, shownVars, mishaps>>

\* The server serves the request, also one whose answer will not arrive.
ServeCreate ==
  /\ creating = "sent"
  /\ \E reply \in Replies :
       /\ CreateBooking(submitted.key, submitted.form, reply)
       /\ \/ creating' = reply /\ UNCHANGED mishaps
          \/ creating' = "lost" /\ Mishap
  /\ UNCHANGED <<form, key, submitted, alert, workVars, shownVars>>

LoseSubmission ==
  /\ creating = "sent"
  /\ creating' = "lost"
  /\ Mishap
  /\ UNCHANGED <<vars, form, key, submitted, alert, workVars, shownVars>>

\* After a failure the key is kept for the next submission.
ReportFailure(text) == alert' = text /\ UNCHANGED key

CreationFails ==
  /\ creating \in {"lost", "idempotency_conflict", "reference_conflict"}
  /\ ReportFailure(IF creating = "lost" THEN "not_created" ELSE creating)
  /\ creating' = "idle"
  /\ UNCHANGED <<vars, form, submitted, workVars, shownVars, mishaps>>

\* A key is a fresh random UUID. Keys bounds them: the last one leaves the page
\* without another submission.
FreshKeys ==
  LET unused == {k \in Keys : record[k] = NoForm /\ k # submitted.key}
  IN  IF unused = {} THEN {NoKey} ELSE unused

CreationSucceeds ==
  /\ creating = "done"
  /\ \E k \in FreshKeys : key' = k
  /\ creating' = "refreshing"
  /\ UNCHANGED <<vars, form, submitted, alert, workVars, shownVars, mishaps>>

\* refreshRecords after a creation; when the workspace cannot be read, the page
\* takes the same way as when the creation failed.
RefreshAfterCreation ==
  /\ creating = "refreshing"
  /\ creating' = "idle"
  /\ \/ /\ shownBookings' = Scheduled
        /\ shownEvents' = History
        /\ alert' = "created"
        /\ UNCHANGED mishaps
     \/ alert' = "not_created" /\ Mishap /\ UNCHANGED <<shownBookings, shownEvents>>
  /\ UNCHANGED <<vars, form, key, submitted, workVars, lists>>

------------------------------------------------------------------------------
(* The event buttons.                                                      *)

Press(request) ==
  /\ working = NoRequest
  /\ working' = request
  /\ workingPhase' = "sent"
  /\ UNCHANGED <<vars, formVars, shownVars, mishaps>>

PressDeliver(r) == r \in shownBookings /\ Press([op |-> "deliver", id |-> r])
PressRetry(e) == shownEvents[e] = "failed" /\ Press([op |-> "retry", id |-> e])

Serve(request, reply) ==
  IF request.op = "deliver" THEN DeliverDemo(request.id, reply) ELSE RetryEvent(request.id, reply)

ServeWork ==
  /\ workingPhase = "sent"
  /\ \E reply \in Replies :
       /\ Serve(working, reply)
       /\ \/ /\ workingPhase' = IF reply = "not_retryable" THEN "failed" ELSE "refreshing"
             /\ UNCHANGED mishaps
          \/ workingPhase' = "failed" /\ Mishap
  /\ UNCHANGED <<formVars, working, shownVars>>

\* The request fails; so does a delivery beyond the bound on events.
LoseWork ==
  /\ workingPhase = "sent"
  /\ workingPhase' = "failed"
  /\ IF working.op = "deliver" /\ Unseen = {} THEN UNCHANGED mishaps ELSE Mishap
  /\ UNCHANGED <<vars, formVars, working, shownVars>>

\* Mutant: the buttons stay disabled when a request has failed.
StayBusy == UNCHANGED working /\ workingPhase' = "stuck"

StopWorking == working' = NoRequest /\ workingPhase' = "idle"

WorkFails ==
  /\ workingPhase = "failed"
  /\ StopWorking
  /\ UNCHANGED <<vars, formVars, shownVars, mishaps>>

RefreshAfterWork ==
  /\ workingPhase = "refreshing"
  /\ working' = NoRequest
  /\ workingPhase' = "idle"
  /\ \/ shownBookings' = Scheduled /\ shownEvents' = History /\ UNCHANGED mishaps
     \/ Mishap /\ UNCHANGED <<shownBookings, shownEvents>>
  /\ UNCHANGED <<vars, formVars, lists>>

\* "Refresh event history": the list is read now and arrives at any time.
RefreshHistory ==
  /\ lists = {} \/ mishaps < MaxMishaps
  /\ lists' = lists \cup {History}
  /\ mishaps' = IF lists = {} THEN mishaps ELSE mishaps + 1
  /\ UNCHANGED <<vars, formVars, workVars, shownBookings, shownEvents>>

ShowHistory ==
  /\ \E list \in lists : shownEvents' = list /\ lists' = lists \ {list}
  /\ UNCHANGED <<vars, formVars, workVars, shownBookings, mishaps>>

\* Others: the provider's events, and the owner at another page.
Elsewhere ==
  /\ \/ \E e \in Events, r \in Refs, reply \in Replies : ReceiveEvent(e, r, reply)
     \/ \E r \in Refs, status \in {"completed", "cancelled"} : MoveBooking(r, status)
  /\ UNCHANGED <<formVars, workVars, shownVars, mishaps>>

Creation ==
  ServeCreate \/ LoseSubmission \/ CreationFails \/ CreationSucceeds \/ RefreshAfterCreation
Work == ServeWork \/ LoseWork \/ WorkFails \/ RefreshAfterWork

PageNext ==
  \/ ChangeForm \/ Submit \/ Creation
  \/ \E r \in Refs : PressDeliver(r)
  \/ \E e \in Events : PressRetry(e)
  \/ Work
  \/ RefreshHistory \/ ShowHistory
  \/ Elsewhere

PageSpec == PageInit /\ [][PageNext]_pageVars

\* Requests come to an end, lists arrive, and the owner looks at the history and
\* presses the retry button of each event it shows as failed.
Fairness ==
  /\ WF_pageVars(Work)
  /\ WF_pageVars(RefreshHistory)
  /\ SF_pageVars(ShowHistory)
  /\ \A e \in Events : SF_pageVars(PressRetry(e))

FairSpec == PageSpec /\ Fairness

------------------------------------------------------------------------------
Histories == [Events -> EventStatus \cup {"none"}]

\* Type invariant: the form submits a complete booking under a key, and a button
\* is pressed exactly while its request runs.
PageTypeOK ==
  /\ TypeOK
  /\ form \in Forms /\ key \in Keys \cup {NoKey}
  /\ creating = "sent" => submitted \in [key : Keys, form : Forms]
  /\ creating \in {"idle", "sent", "done", "lost", "refreshing",
                    "idempotency_conflict", "reference_conflict"}
  /\ alert \in {"none", "created", "not_created", "idempotency_conflict", "reference_conflict"}
  /\ workingPhase \in {"idle", "sent", "failed", "refreshing"}
  /\ working \in WorkRequests \cup {NoRequest}
  /\ (working = NoRequest) = (workingPhase = "idle")
  /\ shownBookings \subseteq Refs
  /\ shownEvents \in Histories /\ lists \subseteq Histories

(* "Booking could not be created": the submission has created none.         *)
NotCreatedIsTrue ==
  alert = "not_created" => \A r \in Refs : Exists(r) => booking[r].key # submitted.key

(* "Check the fields and try again": a submission for a free reference is   *)
(* not refused on account of an earlier one.                                *)
FreeReferenceIsTaken ==
  alert = "idempotency_conflict" => Exists(submitted.form.ref)

(* An event that failed because its booking was missing does not stay       *)
(* failed once the booking is there: the page shows it and its retry works. *)
FailedEventGetsThrough ==
  \A e \in Events :
    (event[e].status = "failed" /\ Exists(event[e].ref)) ~> event[e].status \in Settled
==============================================================================
