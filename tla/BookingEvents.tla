---------------------------- MODULE BookingEvents ----------------------------
(***************************************************************************)
(* Bookings and the provider's completion events, as the API keeps them.   *)
(* An event may come before its booking, twice, with another content under *)
(* the same id, or after the owner has completed or cancelled the booking. *)
(* Every operation is one transaction; the row of the event and the        *)
(* reservation lock keep those of one event or booking apart.              *)
(*                                                                         *)
(* What a completion does to the earnings is ClaimLedger's Complete.       *)
(***************************************************************************)
EXTENDS Lifecycle, Naturals, Sequences, FiniteSets

CONSTANTS
  Refs,       \* booking references
  Values,     \* service values
  Events,     \* ids of events, the provider's and those of the demo button
  Keys,       \* idempotency keys
  ListLimit,  \* how many events the history shows, the newest first
  NoKey

ASSUME ListLimitAssumption == ListLimit \in Nat \ {0}
ASSUME RefsAssumption == "none" \notin Refs

VARIABLES
  booking,       \* the conversion of each reference
  record,        \* the stored request of each idempotency key
  event,         \* the row of each event
  arrivals,      \* the order the rows were inserted in
  confirmations  \* the events a confirmation was queued for

vars == <<booking, record, event, arrivals, confirmations>>

Forms == [ref : Refs, value : Values]
NoForm == [ref |-> "none", value |-> "none"]
NoBooking == [status |-> "none", value |-> "none", key |-> NoKey]
NoEvent == [status |-> "none", ref |-> "none"]
Settled == {"processed", "ignored"}

Init ==
  /\ booking = [r \in Refs |-> NoBooking]
  /\ record = [k \in Keys |-> NoForm]
  /\ event = [e \in Events |-> NoEvent]
  /\ arrivals = <<>>
  /\ confirmations = {}

Exists(r) == booking[r] # NoBooking

------------------------------------------------------------------------------
(* Creating a booking under an idempotency key.                            *)

\* A key replays its answer to the same request only.
Replays(k, form) == record[k] = form

\* Mutant: the key is recorded by a later transaction, which a crash prevents.
CreateUnrecorded(k, form, reply) ==
  /\ record[k] = NoForm /\ ~Exists(form.ref)
  /\ booking' = [booking EXCEPT ![form.ref] =
                   [status |-> "scheduled", value |-> form.value, key |-> k]]
  /\ reply = "done"
  /\ UNCHANGED <<record, event, arrivals, confirmations>>

CreateBooking(k, form, reply) ==
  \/ /\ record[k] = NoForm /\ ~Exists(form.ref)
     /\ booking' = [booking EXCEPT ![form.ref] =
                      [status |-> "scheduled", value |-> form.value, key |-> k]]
     /\ record' = [record EXCEPT ![k] = form]
     /\ reply = "done"
     /\ UNCHANGED <<event, arrivals, confirmations>>
  \/ /\ \/ record[k] # NoForm /\ Replays(k, form) /\ reply = "done"
        \/ record[k] # NoForm /\ ~Replays(k, form) /\ reply = "idempotency_conflict"
        \/ record[k] = NoForm /\ Exists(form.ref) /\ reply = "reference_conflict"
     /\ UNCHANGED vars

\* The owner moves a booking on without an event: completes, cancels, refunds it.
MoveBooking(r, status) ==
  /\ Exists(r)
  /\ status \in ConversionTransitions[booking[r].status]
  /\ booking' = [booking EXCEPT ![r].status = status]
  /\ UNCHANGED <<record, event, arrivals, confirmations>>

------------------------------------------------------------------------------
(* Events.                                                                 *)

\* Mutant: a completion does not ask whether the booking is still scheduled.
OutcomeIfBooked(r) == IF Exists(r) THEN "processed" ELSE "failed"

Outcome(r) ==
  CASE ~Exists(r) -> "failed"
    [] Exists(r) /\ booking[r].status # "scheduled" -> "ignored"
    [] Exists(r) /\ booking[r].status = "scheduled" -> "processed"

\* applyEvent: the row's new state, and what follows when it completes the booking.
ApplyEvent(e, r, reply) ==
  /\ reply = Outcome(r)
  /\ event' = [event EXCEPT ![e] = [status |-> reply, ref |-> r]]
  /\ IF reply = "processed"
       THEN /\ booking' = [booking EXCEPT ![r].status = "completed"]
            /\ confirmations' = confirmations \cup {e}
       ELSE UNCHANGED <<booking, confirmations>>
  /\ UNCHANGED record

\* An event is applied when it is new, or when it has failed so far.
Applies(e, r) == event[e] = NoEvent \/ event[e] = [status |-> "failed", ref |-> r]

ReceiveEvent(e, r, reply) ==
  \/ /\ Applies(e, r)
     /\ ApplyEvent(e, r, reply)
     /\ arrivals' = IF event[e] = NoEvent THEN Append(arrivals, e) ELSE arrivals
  \/ /\ ~Applies(e, r)
     /\ reply = IF event[e].ref = r THEN "duplicate" ELSE "identity_conflict"
     /\ UNCHANGED vars

RetryEvent(e, reply) ==
  \/ /\ event[e].status = "failed"
     /\ ApplyEvent(e, event[e].ref, reply)
     /\ UNCHANGED arrivals
  \/ event[e].status # "failed" /\ reply = "not_retryable" /\ UNCHANGED vars

\* The demo button signs an event of its own, with a random id.
Unseen == {e \in Events : event[e] = NoEvent}
DeliverDemo(r, reply) ==
  /\ Exists(r)
  /\ \E e \in Unseen : ReceiveEvent(e, r, reply)

\* list: the newest events only.
Listed ==
  {arrivals[i] : i \in {j \in DOMAIN arrivals : j > Len(arrivals) - ListLimit}}

Replies ==
  {"done", "idempotency_conflict", "reference_conflict", "processed", "ignored", "failed",
   "duplicate", "identity_conflict", "not_retryable"}

Next ==
  \/ \E k \in Keys, form \in Forms, reply \in Replies : CreateBooking(k, form, reply)
  \/ \E r \in Refs, status \in ConversionStatus : MoveBooking(r, status)
  \/ \E e \in Events, r \in Refs, reply \in Replies : ReceiveEvent(e, r, reply)
  \/ \E e \in Events, reply \in Replies : event[e] # NoEvent /\ RetryEvent(e, reply)
  \/ \E r \in Refs, reply \in Replies : DeliverDemo(r, reply)

Spec == Init /\ [][Next]_vars

------------------------------------------------------------------------------
EventStatus == {"failed", "processed", "ignored"}

TypeOK ==
  /\ booking \in [Refs -> [status : ConversionStatus, value : Values, key : Keys] \cup {NoBooking}]
  /\ record \in [Keys -> Forms \cup {NoForm}]
  /\ event \in [Events -> [status : EventStatus, ref : Refs] \cup {NoEvent}]
  /\ {arrivals[i] : i \in DOMAIN arrivals} = Events \ Unseen
  /\ Len(arrivals) = Cardinality(Events \ Unseen)
  /\ confirmations \subseteq Events

Completions(r) == {e \in Events : event[e] = [status |-> "processed", ref |-> r]}

(* However often and in whatever order events, retries and the owner's own  *)
(* steps come, a booking is completed by one event at most, the partner is  *)
(* told once, and only about a booking that did complete.                   *)
CompletedOnce ==
  /\ \A r \in Refs : Cardinality(Completions(r)) <= 1
  /\ \A r \in Refs : Completions(r) # {} => booking[r].status \in Delivered
  /\ confirmations = {e \in Events : event[e].status = "processed"}

(* A submission books once: what a key has created is the one booking of    *)
(* the request stored under it, however often the request is sent.          *)
SubmissionBooksOnce ==
  \A r \in Refs : Exists(r) =>
    /\ record[booking[r].key] = [ref |-> r, value |-> booking[r].value]
    /\ \A other \in Refs \ {r} : Exists(other) => booking[other].key # booking[r].key

(* The outcome of an event is final: redelivery, a retry, another content   *)
(* under its id or a later change of the booking leave it as it is.         *)
OutcomesAreFinal ==
  [][\A e \in Events :
       /\ event[e].status \in Settled => event'[e] = event[e]
       /\ event[e] # NoEvent => event'[e].ref = event[e].ref]_vars

(* "Failed events remain visible for retry": the history lists each of them. *)
FailedEventsAreListed ==
  \A e \in Events : event[e].status = "failed" => e \in Listed
==============================================================================
