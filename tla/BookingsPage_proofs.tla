------------------------ MODULE BookingsPage_proofs -------------------------
(***************************************************************************)
(* Proofs about BookingEvents and the page over it, for any number of      *)
(* bookings, events and idempotency keys and any order of deliveries.      *)
(***************************************************************************)
EXTENDS BookingsPage, FiniteSetTheorems, TLAPS

Bookings == [status : ConversionStatus, value : Values, key : Keys]

Types ==
  /\ booking \in [Refs -> Bookings \cup {NoBooking}]
  /\ record \in [Keys -> Forms \cup {NoForm}]
  /\ event \in [Events -> [status : EventStatus, ref : Refs] \cup {NoEvent}]

\* CompletedOnce, without a cardinality: the booking an event has completed was
\* completed by no other, and cannot be scheduled again.
Completed(e, r) == event[e] = [status |-> "processed", ref |-> r]
OneCompletion ==
  \A r \in Refs, e \in Events : Completed(e, r) =>
    /\ Exists(r) /\ booking[r].status \in Delivered
    /\ \A f \in Events : Completed(f, r) => e = f

ConfirmedIsProcessed == confirmations = {e \in Events : event[e].status = "processed"}

IInv == Types /\ OneCompletion /\ ConfirmedIsProcessed /\ SubmissionBooksOnce

\* A booking that exists has a status, a value and the key it was made under.
LEMMA ExistsIsBooking ==
  ASSUME Types, NEW r \in Refs
  PROVE  Exists(r) <=> booking[r] \in Bookings
BY DEF Types, Exists, Bookings, NoBooking, ConversionStatus

LEMMA InitIInv == Init => IInv
<1> SUFFICES ASSUME Init PROVE IInv
  OBVIOUS
<1> USE DEF Init
<1>1. Types
  BY DEF Types
<1>2. OneCompletion /\ ConfirmedIsProcessed
  BY DEF OneCompletion, ConfirmedIsProcessed, Completed, NoEvent
<1>3. SubmissionBooksOnce
  BY DEF SubmissionBooksOnce, Exists
<1> QED BY <1>1, <1>2, <1>3 DEF IInv

\* A key that has no request has made no booking, so a new booking has its own.
LEMMA CreateStep ==
  ASSUME IInv, NEW k \in Keys, NEW asked \in Forms, NEW reply, CreateBooking(k, asked, reply)
  PROVE  IInv'
<1> USE DEF IInv
<1>1. CASE UNCHANGED vars
  BY <1>1 DEF vars, Types, OneCompletion, ConfirmedIsProcessed, SubmissionBooksOnce, Exists, Completed
<1>2. CASE ~UNCHANGED vars
  <2> DEFINE new == [status |-> "scheduled", value |-> asked.value, key |-> k]
  <2>1. /\ record[k] = NoForm /\ ~Exists(asked.ref)
        /\ booking' = [booking EXCEPT ![asked.ref] = new]
        /\ record' = [record EXCEPT ![k] = asked]
        /\ UNCHANGED <<event, confirmations>>
    BY <1>2 DEF CreateBooking
  <2>2. /\ asked.ref \in Refs /\ asked.value \in Values /\ new \in Bookings
        /\ asked = [ref |-> asked.ref, value |-> asked.value]
    BY DEF Forms, Bookings, ConversionStatus
  <2>3. Types'
    BY <2>1, <2>2 DEF Types
  <2>4. /\ booking'[asked.ref] = new /\ record'[k] = asked
        /\ \A r \in Refs \ {asked.ref} : booking'[r] = booking[r]
        /\ \A l \in Keys \ {k} : record'[l] = record[l]
    BY <2>1, <2>2 DEF Types
  <2>5. OneCompletion'
    <3>1. \A e \in Events : ~Completed(e, asked.ref)
      BY <2>1, <2>2 DEF OneCompletion
    <3>2. \A e \in Events, r \in Refs : Completed(e, r)' = Completed(e, r)
      BY <2>1 DEF Completed
    <3>3. \A r \in Refs \ {asked.ref} : Exists(r)' = Exists(r)
      BY <2>4 DEF Exists
    <3> QED BY <2>4, <3>1, <3>2, <3>3 DEF OneCompletion
  <2>6. ConfirmedIsProcessed'
    BY <2>1 DEF ConfirmedIsProcessed
  <2>7. asked # NoForm
    BY <2>2, RefsAssumption DEF NoForm
  <2>8. \A r \in Refs : Exists(r) => booking[r].key \in Keys \ {k}
    <3> SUFFICES ASSUME NEW r \in Refs, Exists(r) PROVE booking[r].key \in Keys \ {k}
      OBVIOUS
    <3>1. booking[r].key \in Keys
      BY ExistsIsBooking DEF Bookings
    <3>2. record[booking[r].key] = [ref |-> r, value |-> booking[r].value]
      BY DEF SubmissionBooksOnce
    <3>3. [ref |-> r, value |-> booking[r].value] # NoForm
      BY RefsAssumption DEF NoForm
    <3> QED BY <3>1, <3>2, <3>3, <2>1
  <2>9. \A r \in Refs \ {asked.ref} : Exists(r)' = Exists(r)
    BY <2>4 DEF Exists
  <2>10. SubmissionBooksOnce'
    <3> SUFFICES ASSUME NEW r \in Refs, Exists(r)'
                 PROVE  /\ record'[booking'[r].key] = [ref |-> r, value |-> booking'[r].value]
                        /\ \A other \in Refs \ {r} :
                             Exists(other)' => booking'[other].key # booking'[r].key
      BY DEF SubmissionBooksOnce
    <3>1. CASE r = asked.ref
      BY <3>1, <2>2, <2>4, <2>8, <2>9
    <3>2. CASE r # asked.ref
      <4>1. Exists(r) /\ booking'[r] = booking[r] /\ booking[r].key \in Keys \ {k}
        BY <3>2, <2>4, <2>8, <2>9
      <4>2. record'[booking[r].key] = record[booking[r].key]
        BY <4>1, <2>4
      <4>3. ASSUME NEW other \in Refs \ {r}, Exists(other)'
            PROVE  booking'[other].key # booking'[r].key
        <5>1. CASE other = asked.ref
          BY <5>1, <4>1, <2>4
        <5>2. CASE other # asked.ref
          <6>1. Exists(other) /\ booking'[other] = booking[other]
            BY <5>2, <4>3, <2>4, <2>9
          <6> QED BY <6>1, <4>1 DEF SubmissionBooksOnce
        <5> QED BY <5>1, <5>2
      <4> QED BY <4>1, <4>2, <4>3 DEF SubmissionBooksOnce
    <3> QED BY <3>1, <3>2
  <2> QED BY <2>3, <2>5, <2>6, <2>10
<1> QED BY <1>1, <1>2

\* A booking keeps its key and value as it moves on, and what is delivered stays so.
LEMMA MoveStep ==
  ASSUME IInv, NEW r \in Refs, NEW status \in ConversionStatus, MoveBooking(r, status)
  PROVE  IInv'
<1> USE DEF IInv
<1>1. /\ Exists(r) /\ status \in ConversionTransitions[booking[r].status]
      /\ booking' = [booking EXCEPT ![r].status = status]
      /\ UNCHANGED <<record, event, confirmations>>
  BY DEF MoveBooking
<1>2. booking[r] \in Bookings
  BY <1>1, ExistsIsBooking
<1>3. /\ booking'[r] \in Bookings
      /\ booking'[r].status = status
      /\ booking'[r].value = booking[r].value /\ booking'[r].key = booking[r].key
      /\ \A s \in Refs \ {r} : booking'[s] = booking[s]
  BY <1>1, <1>2 DEF Bookings, Types
<1>4. Types'
  BY <1>1, <1>3 DEF Types
<1>5. booking[r].status \in Delivered => status \in Delivered
  BY <1>1 DEF ConversionTransitions, Delivered
<1>6. \A s \in Refs : Exists(s)' = Exists(s)
  BY <1>1, <1>3 DEF Exists, Bookings, NoBooking, ConversionStatus
<1>7. OneCompletion' /\ ConfirmedIsProcessed'
  BY <1>1, <1>3, <1>5, <1>6 DEF OneCompletion, Completed, ConfirmedIsProcessed
<1>8. SubmissionBooksOnce'
  BY <1>1, <1>3, <1>6 DEF SubmissionBooksOnce
<1> QED BY <1>4, <1>7, <1>8

\* Only a scheduled booking is completed, which no event has completed before.
LEMMA ApplyStep ==
  ASSUME IInv, NEW e \in Events, NEW r \in Refs, NEW reply, ApplyEvent(e, r, reply),
         event[e].status \notin Settled
  PROVE  IInv'
<1> USE DEF IInv
<1>1. /\ reply = Outcome(r) /\ reply \in EventStatus
      /\ event' = [event EXCEPT ![e] = [status |-> reply, ref |-> r]]
      /\ record' = record
  BY DEF ApplyEvent, Outcome, EventStatus
<1>2. /\ event'[e] = [status |-> reply, ref |-> r]
      /\ \A f \in Events \ {e} : event'[f] = event[f]
  BY <1>1 DEF Types
<1>3. \A s \in Refs : ~Completed(e, s)
  BY DEF Completed, Settled
<1>4. CASE reply = "processed"
  <2>1. /\ booking' = [booking EXCEPT ![r].status = "completed"]
        /\ confirmations' = confirmations \cup {e}
        /\ Exists(r) /\ booking[r].status = "scheduled"
    BY <1>4, <1>1 DEF ApplyEvent, Outcome
  <2>2. booking[r] \in Bookings
    BY <2>1, ExistsIsBooking
  <2>3. /\ booking'[r] \in Bookings
        /\ booking'[r].status = "completed"
        /\ booking'[r].value = booking[r].value /\ booking'[r].key = booking[r].key
        /\ \A s \in Refs \ {r} : booking'[s] = booking[s]
    BY <2>1, <2>2 DEF Bookings, Types, ConversionStatus
  <2>4. Types'
    BY <1>1, <1>2, <2>1, <2>3 DEF Types
  <2>5. \A s \in Refs : Exists(s)' = Exists(s)
    BY <2>1, <2>3 DEF Exists, Bookings, NoBooking, ConversionStatus
  <2>6. \A f \in Events : ~Completed(f, r)
    BY <2>1 DEF OneCompletion, Delivered
  <2>7. OneCompletion'
    <3>1. \A s \in Refs : Completed(e, s)' <=> s = r
      BY <1>2, <1>4 DEF Completed
    <3>2. \A f \in Events \ {e}, s \in Refs : Completed(f, s)' <=> Completed(f, s)
      BY <1>2 DEF Completed
    <3> QED BY <1>3, <2>1, <2>3, <2>5, <2>6, <3>1, <3>2 DEF OneCompletion, Delivered
  <2>8. ConfirmedIsProcessed'
    BY <1>2, <1>4, <2>1 DEF ConfirmedIsProcessed
  <2>9. SubmissionBooksOnce'
    BY <1>1, <2>3, <2>5 DEF SubmissionBooksOnce
  <2> QED BY <2>4, <2>7, <2>8, <2>9
<1>5. CASE reply # "processed"
  <2>1. UNCHANGED <<booking, confirmations>>
    BY <1>5 DEF ApplyEvent
  <2>2. Types'
    BY <1>1, <2>1 DEF Types
  <2>3. \A f \in Events, s \in Refs : Completed(f, s)' <=> Completed(f, s)
    <3>1. \A s \in Refs : ~Completed(e, s)'
      BY <1>2, <1>5 DEF Completed
    <3>2. \A f \in Events \ {e}, s \in Refs : Completed(f, s)' <=> Completed(f, s)
      BY <1>2 DEF Completed
    <3> QED BY <1>3, <3>1, <3>2
  <2>4. OneCompletion'
    BY <2>1, <2>3 DEF OneCompletion, Exists
  <2>5. ConfirmedIsProcessed'
    BY <1>2, <1>5, <2>1 DEF ConfirmedIsProcessed, Settled
  <2>6. SubmissionBooksOnce'
    BY <1>1, <2>1 DEF SubmissionBooksOnce, Exists
  <2> QED BY <2>2, <2>4, <2>5, <2>6
<1> QED BY <1>4, <1>5

LEMMA UnchangedStep ==
  ASSUME IInv, UNCHANGED <<booking, record, event, confirmations>>
  PROVE  IInv'
BY DEF IInv, Types, OneCompletion, Completed, ConfirmedIsProcessed, SubmissionBooksOnce, Exists

LEMMA ReceiveStep ==
  ASSUME IInv, NEW e \in Events, NEW r \in Refs, NEW reply, ReceiveEvent(e, r, reply)
  PROVE  IInv'
<1>1. CASE UNCHANGED vars
  BY <1>1, UnchangedStep DEF vars
<1>2. CASE Applies(e, r) /\ ApplyEvent(e, r, reply)
  <2>1. event[e].status \notin Settled
    BY <1>2 DEF Applies, NoEvent, Settled
  <2> QED BY <1>2, <2>1, ApplyStep
<1> QED BY <1>1, <1>2 DEF ReceiveEvent

LEMMA RetryStep ==
  ASSUME IInv, NEW e \in Events, NEW reply, event[e] # NoEvent, RetryEvent(e, reply)
  PROVE  IInv'
<1>1. CASE UNCHANGED vars
  BY <1>1, UnchangedStep DEF vars
<1>2. CASE event[e].status = "failed" /\ ApplyEvent(e, event[e].ref, reply)
  <2>1. event[e].status \notin Settled /\ event[e].ref \in Refs
    BY <1>2 DEF Settled, IInv, Types
  <2> QED BY <1>2, <2>1, ApplyStep
<1> QED BY <1>1, <1>2 DEF RetryEvent

LEMMA NextIInv == IInv /\ [Next]_vars => IInv'
<1> SUFFICES ASSUME IInv, [Next]_vars PROVE IInv'
  OBVIOUS
<1>1. ASSUME NEW r \in Refs, NEW reply \in Replies, DeliverDemo(r, reply) PROVE IInv'
  BY <1>1, ReceiveStep DEF DeliverDemo, Unseen
<1>2. CASE UNCHANGED vars
  BY <1>2, UnchangedStep DEF vars
<1> QED BY <1>1, <1>2, CreateStep, MoveStep, ReceiveStep, RetryStep DEF Next

\* The invariant holds throughout.
LEMMA EventsInvariant == Spec => []IInv
BY InitIInv, NextIInv, PTL DEF Spec

------------------------------------------------------------------------------
(* The results.                                                            *)

(* A booking is completed by one event at most, the partner is told once,   *)
(* and only about a booking that did complete.                              *)
THEOREM EventsCompleteOnce == Spec => []CompletedOnce
<1>1. ASSUME IInv, NEW r \in Refs PROVE Cardinality(Completions(r)) <= 1
  <2>1. \A e, f \in Completions(r) : e = f
    BY <1>1 DEF IInv, OneCompletion, Completed, Completions
  <2>2. Completions(r) = {} \/ \E e \in Events : Completions(r) = {e}
    BY <2>1 DEF Completions
  <2>3. CASE Completions(r) = {}
    BY <2>3, FS_EmptySet
  <2>4. ASSUME NEW e \in Events, Completions(r) = {e} PROVE Cardinality(Completions(r)) <= 1
    BY <2>4, FS_Singleton
  <2> QED BY <2>2, <2>3, <2>4
<1>2. ASSUME IInv, NEW r \in Refs, Completions(r) # {} PROVE booking[r].status \in Delivered
  BY <1>2 DEF IInv, OneCompletion, Completed, Completions
<1>3. IInv => CompletedOnce
  BY <1>1, <1>2 DEF IInv, ConfirmedIsProcessed, CompletedOnce
<1> QED BY <1>3, EventsInvariant, PTL

(* What a key has created is the one booking of the request stored under    *)
(* it.                                                                      *)
THEOREM SubmissionsBookOnce == Spec => []SubmissionBooksOnce
<1>1. IInv => SubmissionBooksOnce
  BY DEF IInv
<1> QED BY <1>1, EventsInvariant, PTL

\* A step applies an event that is new or has failed, and keeps its booking.
LEMMA OutcomeStep ==
  ASSUME [Next]_vars, NEW e \in Events, IInv
  PROVE  /\ event[e].status \in Settled => event'[e] = event[e]
         /\ event[e] # NoEvent => event'[e].ref = event[e].ref
<1> DEFINE Stays == /\ event[e].status \in Settled => event'[e] = event[e]
                    /\ event[e] # NoEvent => event'[e].ref = event[e].ref
<1>1. CASE event' = event
  BY <1>1
<1>2. ASSUME NEW f \in Events, NEW r \in Refs, NEW reply, ApplyEvent(f, r, reply),
             event[f].status \notin Settled, event[f] # NoEvent => event[f].ref = r
      PROVE  Stays
  BY <1>2 DEF ApplyEvent, IInv, Types
<1>3. ASSUME NEW f \in Events, NEW r \in Refs, NEW reply, ReceiveEvent(f, r, reply)
      PROVE  Stays
  <2>1. CASE UNCHANGED vars
    BY <1>1, <2>1 DEF vars
  <2>2. CASE Applies(f, r) /\ ApplyEvent(f, r, reply)
    <3>1. event[f].status \notin Settled /\ (event[f] # NoEvent => event[f].ref = r)
      BY <2>2 DEF Applies, NoEvent, Settled
    <3> QED BY <1>2, <2>2, <3>1
  <2> QED BY <1>3, <2>1, <2>2 DEF ReceiveEvent
<1>4. ASSUME NEW f \in Events, NEW reply, event[f] # NoEvent, RetryEvent(f, reply)
      PROVE  Stays
  <2>1. CASE UNCHANGED vars
    BY <1>1, <2>1 DEF vars
  <2>2. CASE event[f].status = "failed" /\ ApplyEvent(f, event[f].ref, reply)
    <3>1. event[f].status \notin Settled /\ event[f].ref \in Refs
      BY <1>4, <2>2 DEF Settled, IInv, Types
    <3> QED BY <1>2, <2>2, <3>1
  <2> QED BY <1>4, <2>1, <2>2 DEF RetryEvent
<1>5. ASSUME NEW r \in Refs, NEW reply, DeliverDemo(r, reply) PROVE Stays
  BY <1>3, <1>5 DEF DeliverDemo, Unseen
<1>6. ASSUME NEW k, NEW asked, NEW reply, CreateBooking(k, asked, reply) PROVE event' = event
  BY <1>6 DEF CreateBooking, vars
<1>7. ASSUME NEW r, NEW status, MoveBooking(r, status) PROVE event' = event
  BY <1>7 DEF MoveBooking
<1>8. CASE UNCHANGED vars
  BY <1>1, <1>8 DEF vars
<1> QED BY <1>1, <1>3, <1>4, <1>5, <1>6, <1>7, <1>8 DEF Next

(* The outcome of an event is final: redelivery, a retry, another content   *)
(* under its id or a later change of the booking leave it as it is.         *)
THEOREM OutcomesStayFinal == Spec => OutcomesAreFinal
<1>1. IInv /\ [Next]_vars =>
        [\A e \in Events :
           /\ event[e].status \in Settled => event'[e] = event[e]
           /\ event[e] # NoEvent => event'[e].ref = event[e].ref]_vars
  BY OutcomeStep
<1> QED BY <1>1, EventsInvariant, PTL DEF Spec, OutcomesAreFinal

------------------------------------------------------------------------------
(* The rows of events and the order they came in.                           *)

Arrivals ==
  /\ arrivals \in Seq(Events)
  /\ {arrivals[i] : i \in DOMAIN arrivals} = Events \ Unseen
  /\ Len(arrivals) = Cardinality(Events \ Unseen)
  /\ IsFiniteSet(Events \ Unseen)
  /\ confirmations \subseteq Events

\* An event that has a row keeps one.
LEMMA ApplyArrives ==
  ASSUME Types, Arrivals, NEW e \in Events, NEW r \in Refs, NEW reply, ApplyEvent(e, r, reply)
  PROVE  Unseen' = Unseen \ {e} /\ confirmations' \subseteq Events
<1>1. event' = [event EXCEPT ![e] = [status |-> reply, ref |-> r]] /\ reply = Outcome(r)
  BY DEF ApplyEvent
<1>2. reply # "none"
  BY <1>1 DEF Outcome
<1>3. event'[e] # NoEvent /\ \A f \in Events \ {e} : event'[f] = event[f]
  BY <1>1, <1>2 DEF Types, NoEvent
<1>4. Unseen' = Unseen \ {e}
  BY <1>3 DEF Unseen
<1>5. confirmations' \subseteq Events
  BY DEF ApplyEvent, Arrivals
<1> QED BY <1>4, <1>5

LEMMA ReceiveArrives ==
  ASSUME Types, Arrivals, NEW e \in Events, NEW r \in Refs, NEW reply, ReceiveEvent(e, r, reply)
  PROVE  Arrivals'
<1>1. CASE UNCHANGED vars
  BY <1>1 DEF vars, Arrivals, Unseen
<1>2. CASE /\ Applies(e, r) /\ ApplyEvent(e, r, reply)
           /\ arrivals' = IF event[e] = NoEvent THEN Append(arrivals, e) ELSE arrivals
  <2>1. Unseen' = Unseen \ {e} /\ confirmations' \subseteq Events
    BY <1>2, ApplyArrives
  <2>2. CASE event[e] # NoEvent
    <3>1. Unseen' = Unseen /\ arrivals' = arrivals
      BY <1>2, <2>1, <2>2 DEF Unseen
    <3> QED BY <2>1, <3>1 DEF Arrivals
  <2>3. CASE event[e] = NoEvent
    <3> DEFINE seen == Events \ Unseen
    <3>1. e \in Unseen /\ e \notin seen /\ (Events \ Unseen)' = seen \cup {e}
      BY <2>1, <2>3 DEF Unseen
    <3>2. arrivals' = Append(arrivals, e) /\ arrivals \in Seq(Events)
      BY <1>2, <2>3 DEF Arrivals
    <3>3. IsFiniteSet(seen \cup {e}) /\ Cardinality(seen \cup {e}) = Cardinality(seen) + 1
      BY <3>1, FS_AddElement DEF Arrivals
    <3>4. /\ arrivals' \in Seq(Events) /\ Len(arrivals') = Len(arrivals) + 1
          /\ DOMAIN arrivals = 1..Len(arrivals) /\ DOMAIN arrivals' = 1..(Len(arrivals) + 1)
          /\ arrivals'[Len(arrivals) + 1] = e
          /\ \A i \in 1..Len(arrivals) : arrivals'[i] = arrivals[i]
          /\ Len(arrivals) \in Nat
      BY <3>2
    <3>5. {arrivals'[i] : i \in DOMAIN arrivals'} = {arrivals[i] : i \in DOMAIN arrivals} \cup {e}
      BY <3>4
    <3> HIDE DEF seen
    <3>6. Len(arrivals') = Cardinality(seen \cup {e})
      BY <3>3, <3>4 DEF Arrivals, seen
    <3>7. {arrivals'[i] : i \in DOMAIN arrivals'} = seen \cup {e}
      BY <3>5 DEF Arrivals, seen
    <3> QED BY <2>1, <3>1, <3>3, <3>4, <3>6, <3>7 DEF Arrivals
  <2> QED BY <2>2, <2>3
<1> QED BY <1>1, <1>2 DEF ReceiveEvent

LEMMA ArrivalsStep ==
  ASSUME IInv, Arrivals, [Next]_vars
  PROVE  Arrivals'
<1>1. CASE UNCHANGED vars
  BY <1>1 DEF vars, Arrivals, Unseen
<1>2. CASE UNCHANGED <<event, arrivals, confirmations>>
  BY <1>2 DEF Arrivals, Unseen
<1>3. ASSUME NEW e \in Events, NEW r \in Refs, NEW reply, ReceiveEvent(e, r, reply)
      PROVE  Arrivals'
  BY <1>3, ReceiveArrives DEF IInv
<1>4. ASSUME NEW e \in Events, NEW reply, event[e].status = "failed",
             ApplyEvent(e, event[e].ref, reply), UNCHANGED arrivals
      PROVE  Arrivals'
  <2>1. event[e].ref \in Refs /\ event[e] # NoEvent
    BY <1>4 DEF IInv, Types, NoEvent
  <2>2. Unseen' = Unseen \ {e} /\ confirmations' \subseteq Events
    BY <1>4, <2>1, ApplyArrives DEF IInv
  <2>3. Unseen' = Unseen
    BY <2>1, <2>2 DEF Unseen
  <2> QED BY <1>4, <2>2, <2>3 DEF Arrivals
<1>5. ASSUME NEW r \in Refs, NEW reply, DeliverDemo(r, reply)
      PROVE  Arrivals'
  BY <1>3, <1>5 DEF DeliverDemo, Unseen
<1>6. ASSUME NEW k \in Keys, NEW form2 \in Forms, NEW reply, CreateBooking(k, form2, reply)
      PROVE  Arrivals'
  BY <1>1, <1>2, <1>6 DEF CreateBooking
<1>7. ASSUME NEW r \in Refs, NEW status, MoveBooking(r, status)
      PROVE  Arrivals'
  BY <1>2, <1>7 DEF MoveBooking
<1>8. ASSUME NEW e \in Events, NEW reply, RetryEvent(e, reply)
      PROVE  Arrivals'
  BY <1>1, <1>4, <1>8 DEF RetryEvent
<1> QED BY <1>1, <1>3, <1>5, <1>6, <1>7, <1>8 DEF Next

LEMMA InitArrivals == Init => Arrivals
<1> SUFFICES ASSUME Init PROVE Arrivals
  OBVIOUS
<1>1. Events \ Unseen = {}
  BY DEF Init, Unseen
<1>2. arrivals = <<>> /\ confirmations = {}
  BY DEF Init
<1>3. {arrivals[i] : i \in DOMAIN arrivals} = {} /\ Len(arrivals) = 0 /\ arrivals \in Seq(Events)
  BY <1>2
<1> QED BY <1>1, <1>2, <1>3, FS_EmptySet DEF Arrivals

LEMMA RowsAreTyped == IInv /\ Arrivals => TypeOK
BY DEF IInv, Types, Bookings, Arrivals, TypeOK

------------------------------------------------------------------------------
(* The page.                                                               *)

Outcomes == {"idle", "sent", "done", "lost", "refreshing",
             "idempotency_conflict", "reference_conflict"}
Alerts == {"none", "created", "not_created", "idempotency_conflict", "reference_conflict"}

FormTypes ==
  /\ form \in Forms /\ key \in Keys \cup {NoKey}
  /\ creating = "sent" => submitted \in [key : Keys, form : Forms]
  /\ creating \in Outcomes /\ alert \in Alerts

WorkTypes ==
  /\ workingPhase \in {"idle", "sent", "failed", "refreshing"}
  /\ working \in WorkRequests \cup {NoRequest}
  /\ (working = NoRequest) = (workingPhase = "idle")

ShownTypes ==
  /\ shownBookings \subseteq Refs
  /\ shownEvents \in Histories /\ lists \subseteq Histories

PageIInv == IInv /\ Arrivals /\ FormTypes /\ WorkTypes /\ ShownTypes

LEMMA PageTypes == PageIInv => PageTypeOK
BY RowsAreTyped DEF PageIInv, FormTypes, WorkTypes, ShownTypes, Outcomes, Alerts, PageTypeOK

LEMMA HistoryIsTyped ==
  ASSUME IInv
  PROVE  History \in Histories /\ Scheduled \subseteq Refs
<1>1. \A e \in Events : event[e].status \in EventStatus \cup {"none"}
  BY DEF IInv, Types, NoEvent
<1> QED BY <1>1 DEF History, Histories, Scheduled

LEMMA InitPage == PageInit => PageIInv
<1> SUFFICES ASSUME PageInit PROVE PageIInv
  OBVIOUS
<1>1. IInv /\ Arrivals
  BY InitIInv, InitArrivals DEF PageInit
<1>2. FormTypes /\ WorkTypes
  BY DEF PageInit, FormTypes, WorkTypes, Outcomes, Alerts
<1>3. ShownTypes
  BY <1>1, HistoryIsTyped DEF PageInit, ShownTypes
<1> QED BY <1>1, <1>2, <1>3 DEF PageIInv

\* The form's submission is a step of the bookings; its answer is one the form
\* knows.
LEMMA FormSteps ==
  ASSUME PageIInv, ChangeForm \/ Submit \/ Creation
  PROVE  [Next]_vars /\ FormTypes' /\ UNCHANGED workVars /\ UNCHANGED lists
         /\ \/ UNCHANGED <<shownBookings, shownEvents>>
            \/ shownBookings' = Scheduled /\ shownEvents' = History
<1> USE DEF PageIInv, FormTypes
<1>1. CASE ChangeForm
  BY <1>1 DEF ChangeForm, shownVars
<1>2. CASE Submit
  <2>1. creating' = "sent" /\ alert' = "none" /\ UNCHANGED <<vars, form, key, workVars, shownVars>>
    BY <1>2 DEF Submit
  <2>2. submitted' \in [key : Keys, form : Forms]
    BY <1>2 DEF Submit
  <2> QED BY <2>1, <2>2 DEF Outcomes, Alerts, shownVars
<1>3. CASE ServeCreate
  <2>1. PICK reply \in Replies :
          /\ CreateBooking(submitted.key, submitted.form, reply)
          /\ creating' = reply \/ creating' = "lost"
    BY <1>3 DEF ServeCreate
  <2>2. /\ creating = "sent" /\ UNCHANGED <<form, key, submitted, alert, workVars, shownVars>>
    BY <1>3 DEF ServeCreate
  <2>3. submitted.key \in Keys /\ submitted.form \in Forms
    BY <2>2
  <2>4. Next
    BY <2>1, <2>3 DEF Next
  <2>5. reply \in {"done", "idempotency_conflict", "reference_conflict"}
    BY <2>1 DEF CreateBooking
  <2> QED BY <2>1, <2>2, <2>4, <2>5 DEF Outcomes, shownVars
<1>4. CASE LoseSubmission
  BY <1>4 DEF LoseSubmission, Outcomes, shownVars
<1>5. CASE CreationFails
  BY <1>5 DEF CreationFails, ReportFailure, Outcomes, Alerts, shownVars
<1>6. CASE CreationSucceeds
  <2>1. key' \in Keys \cup {NoKey}
    BY <1>6 DEF CreationSucceeds, FreshKeys
  <2> QED BY <1>6, <2>1 DEF CreationSucceeds, Outcomes, shownVars
<1>7. CASE RefreshAfterCreation
  BY <1>7 DEF RefreshAfterCreation, Outcomes, Alerts
<1> QED BY <1>1, <1>2, <1>3, <1>4, <1>5, <1>6, <1>7 DEF Creation

\* A button's request is a step of the bookings, or refused there.
LEMMA ServeWorkStep ==
  ASSUME IInv, NEW request \in WorkRequests, NEW reply \in Replies, Serve(request, reply)
  PROVE  [Next]_vars
<1>1. CASE request.op = "deliver"
  <2>1. request.id \in Refs /\ DeliverDemo(request.id, reply)
    BY <1>1 DEF WorkRequests, Serve
  <2> QED BY <2>1 DEF Next
<1>2. CASE request.op # "deliver"
  <2>1. request.id \in Events /\ RetryEvent(request.id, reply)
    BY <1>2 DEF WorkRequests, Serve
  <2>2. event[request.id].status = "failed" => event[request.id] # NoEvent
    BY DEF NoEvent
  <2> QED BY <2>1, <2>2 DEF Next, RetryEvent
<1> QED BY <1>1, <1>2

LEMMA WorkSteps ==
  ASSUME PageIInv,
         Work \/ (\E r \in Refs : PressDeliver(r)) \/ (\E e \in Events : PressRetry(e))
  PROVE  [Next]_vars /\ WorkTypes' /\ UNCHANGED formVars /\ UNCHANGED lists
         /\ \/ UNCHANGED <<shownBookings, shownEvents>>
            \/ shownBookings' = Scheduled /\ shownEvents' = History
<1> USE PageAssumption DEF PageIInv, WorkTypes
<1>1. ASSUME NEW request \in WorkRequests, Press(request)
      PROVE  [Next]_vars /\ WorkTypes' /\ UNCHANGED formVars /\ UNCHANGED shownVars
  BY <1>1 DEF Press
<1>2. CASE \E r \in Refs : PressDeliver(r)
  <2>1. PICK r \in Refs : Press([op |-> "deliver", id |-> r])
    BY <1>2 DEF PressDeliver
  <2>2. [op |-> "deliver", id |-> r] \in WorkRequests
    BY DEF WorkRequests
  <2> QED BY <2>1, <2>2, <1>1 DEF shownVars
<1>3. CASE \E e \in Events : PressRetry(e)
  <2>1. PICK e \in Events : Press([op |-> "retry", id |-> e])
    BY <1>3 DEF PressRetry
  <2>2. [op |-> "retry", id |-> e] \in WorkRequests
    BY DEF WorkRequests
  <2> QED BY <2>1, <2>2, <1>1 DEF shownVars
<1>4. CASE ServeWork
  <2>1. /\ workingPhase = "sent" /\ workingPhase' \in {"failed", "refreshing"}
        /\ UNCHANGED <<formVars, working, shownVars>>
    BY <1>4 DEF ServeWork
  <2>2. working \in WorkRequests
    BY <2>1
  <2>3. [Next]_vars
    BY <1>4, <2>2, ServeWorkStep DEF ServeWork
  <2> QED BY <2>1, <2>2, <2>3 DEF shownVars
<1>5. CASE LoseWork
  BY <1>5 DEF LoseWork, shownVars
<1>6. CASE WorkFails
  BY <1>6 DEF WorkFails, StopWorking, shownVars
<1>7. CASE RefreshAfterWork
  BY <1>7 DEF RefreshAfterWork
<1> QED BY <1>2, <1>3, <1>4, <1>5, <1>6, <1>7 DEF Work

LEMMA ElsewhereSteps ==
  ASSUME PageIInv, Elsewhere
  PROVE  [Next]_vars /\ UNCHANGED <<formVars, workVars, shownVars>>
<1>1. {"completed", "cancelled"} \subseteq ConversionStatus
  BY DEF ConversionStatus
<1> QED BY <1>1 DEF Elsewhere, Next

LEMMA PageSteps == PageIInv /\ [PageNext]_pageVars => PageIInv' /\ [Next]_vars
<1> SUFFICES ASSUME PageIInv, [PageNext]_pageVars PROVE PageIInv' /\ [Next]_vars
  OBVIOUS
<1>1. History \in Histories /\ Scheduled \subseteq Refs
  BY HistoryIsTyped DEF PageIInv
<1>2. [Next]_vars /\ FormTypes' /\ WorkTypes' /\ ShownTypes'
  <2>1. UNCHANGED formVars => FormTypes'
    BY DEF formVars, PageIInv, FormTypes
  <2>2. UNCHANGED workVars => WorkTypes'
    BY DEF workVars, PageIInv, WorkTypes
  <2>3. ASSUME UNCHANGED lists,
               \/ UNCHANGED <<shownBookings, shownEvents>>
               \/ shownBookings' = Scheduled /\ shownEvents' = History
        PROVE  ShownTypes'
    BY <2>3, <1>1 DEF PageIInv, ShownTypes
  <2>4. CASE ChangeForm \/ Submit \/ Creation
    BY <2>4, <2>2, <2>3, FormSteps
  <2>5. CASE Work \/ (\E r \in Refs : PressDeliver(r)) \/ (\E e \in Events : PressRetry(e))
    BY <2>5, <2>1, <2>3, WorkSteps
  <2>6. CASE RefreshHistory \/ ShowHistory
    <3>1. UNCHANGED vars /\ UNCHANGED formVars /\ UNCHANGED workVars
      BY <2>6 DEF RefreshHistory, ShowHistory
    <3>2. ShownTypes'
      BY <2>6, <1>1 DEF RefreshHistory, ShowHistory, PageIInv, ShownTypes
    <3> QED BY <3>1, <3>2, <2>1, <2>2
  <2>7. CASE Elsewhere
    BY <2>7, <2>1, <2>2, <2>3, ElsewhereSteps DEF shownVars
  <2>8. CASE UNCHANGED pageVars
    BY <2>8, <2>1, <2>2, <2>3 DEF pageVars, shownVars
  <2> QED BY <2>4, <2>5, <2>6, <2>7, <2>8 DEF PageNext
<1>3. IInv' /\ Arrivals'
  BY <1>2, NextIInv, ArrivalsStep DEF PageIInv
<1> QED BY <1>2, <1>3 DEF PageIInv

LEMMA PageInvariant == PageSpec => []PageIInv
BY InitPage, PageSteps, PTL DEF PageSpec

(* Whatever the page sends, gets lost or arrives late, its form, its buttons  *)
(* and its lists stay in the states the page is made for, and the history has *)
(* each event once.                                                           *)
THEOREM PageStatesAreKnown == PageSpec => []PageTypeOK
BY PageInvariant, PageTypes, PTL

(* Behind the page the server goes through steps of BookingEvents only.       *)
THEOREM PageImplementsBookings == PageSpec => Spec
<1>1. PageInit => Init
  BY DEF PageInit
<1> QED BY <1>1, PageInvariant, PageSteps, PTL DEF PageSpec, Spec
==============================================================================
