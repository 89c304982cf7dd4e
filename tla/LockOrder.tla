------------------------------ MODULE LockOrder ------------------------------
(***************************************************************************)
(* The locks that the API's transactions take in PostgreSQL, in the order  *)
(* of their statements: explicit row locks, the locks of UPDATE, the key   *)
(* share lock an insert takes on the rows it references, the wait of an    *)
(* insert for one with the same unique key, and the two advisory locks of  *)
(* an organisation.  A lock is kept to the end of its transaction.         *)
(*                                                                         *)
(* All transactions concern the same organisation and the same row of each *)
(* table, except that there are two claims, because several can be locked  *)
(* together and the statements do not agree on their order.  The items of  *)
(* a claim, which every statement locks in the same order, are one row.    *)
(* Left out are rows that only their own transaction can reach, and the    *)
(* user rows of owners, which are never locked but in share modes.         *)
(***************************************************************************)
EXTENDS Naturals, Sequences, FiniteSets

CONSTANTS
  Sessions,    \* database sessions, each runs one transaction at a time
  Handlers,    \* the transactions under study, among DOMAIN Plans
  NewestFirst  \* the claims by created_at desc; their ids have the order a, b

VARIABLES
  plan,        \* the locks of what the session runs, or none
  taken        \* how many of them it has

vars == <<plan, taken>>

Claims == {"a", "b"}
ASSUME NewestAssumption == NewestFirst \in {<<"a", "b">>, <<"b", "a">>}

ClaimRow == [a |-> "claim_a", b |-> "claim_b"]
ItemsRow == [a |-> "items_a", b |-> "items_b"]

KeyShare(row) == <<row, "key_share">>
Share(row) == <<row, "share">>
NoKeyUpdate(row) == <<row, "no_key_update">>
Update(row) == <<row, "update">>

\* PostgreSQL's row-lock modes: those that each of them cannot share a row with.
Excludes ==
  [mode \in {"key_share", "share", "no_key_update", "update"} |->
     CASE mode = "key_share" -> {"update"}
       [] mode = "share" -> {"no_key_update", "update"}
       [] mode = "no_key_update" -> {"share", "no_key_update", "update"}
       [] mode = "update" -> {"key_share", "share", "no_key_update", "update"}]

Reservations == Update("claim_reservations_lock")
Sandbox == Update("sandbox_lock")
Audit == <<KeyShare("organization")>>

Claim(c) == Update(ClaimRow[c])
Items(c) == Update(ItemsRow[c])
Partner == <<Reservations, Update("partner"), Update("user")>>

CreateConversion ==
  <<Update("create_record"), KeyShare("organization"), Share("organization"),
    Update("code"), Update("program"), Update("partner")>>

CompleteConversion ==
  <<Reservations, Update("complete_record"), KeyShare("organization"),
    Update("conversion"), NoKeyUpdate("earning")>>

\* The open claims that the targets are in, which may be none; then all their
\* items; then the earnings of these.
FailAffected ==
  {<<>>,
   <<Claim("a"), Items("a"), Update("earning")>>,
   <<Claim("b"), Items("b"), Update("earning")>>,
   <<Claim("a"), Claim("b"), Items("a"), Items("b"), Update("earning")>>}

CancelConversion(failed) ==
  <<Reservations, Update("conversion"), Update("earning")>> \o failed
    \o <<Update("holds")>> \o Audit

HoldEarning(failed) ==
  <<Reservations, Update("earning"), Update("conversion_item"), Update("conversion"),
    Update("holds")>> \o failed \o Audit

VoidEarning(failed) ==
  <<Reservations, Update("earning"), Update("conversion_item"), Update("conversion")>>
    \o failed \o <<Update("holds")>> \o Audit

SuspendPartner(failed) ==
  <<Reservations, Update("partner"), Update("earning")>> \o failed \o Audit

CreateChallenge ==
  Partner \o <<Update("earning"), NoKeyUpdate("challenge"), Update("outbox")>> \o Audit

AnswerChallenge ==
  Partner \o <<Update("challenge"), Update("outbox")>> \o Audit

\* A claim it inserts is nobody else's to lock yet.
CreateClaim == Partner \o <<Update("challenge"), Update("earning")>> \o Audit
ReplayClaim(c) == Partner \o <<Claim(c), Items(c), Update("earning")>>

SimulateClaim(c) ==
  <<Reservations, Claim(c), Update("partner"), Update("user"), Items(c), Update("earning")>>
    \o Audit

RetryClaim(c) ==
  <<Reservations, Claim(c), Update("retry_record"), KeyShare("organization"),
    Update("partner"), Items(c), Update("earning")>>

RefundConversion(failed) ==
  <<Reservations, Update("refund_record"), KeyShare("organization"), Share("organization"),
    Update("conversion"), Update("conversion_item"), Update("earning"), Update("ledger")>>
    \o failed \o <<Update("holds"), KeyShare("partner")>>

PartnerClaims ==
  Partner \o <<Claim(NewestFirst[1]), Claim(NewestFirst[2]), Items("a"), Items("b")>>

PartnerClaim(c) == Partner \o <<Claim(c), Items(c)>>

\* The owner's reads do without the reservation lock; the list takes the items
\* claim by claim, and the claims themselves not at all.
OwnerClaims == <<Items(NewestFirst[1]), Items(NewestFirst[2])>>
OwnerClaim(c) == <<Claim(c), Items(c)>>

ReceiveEvent ==
  <<KeyShare("program"), Update("event"), KeyShare("organization"), Reservations,
    Update("conversion"), NoKeyUpdate("earning")>>

\* Mutant: a retried event is reserved before it is locked.
RetryReservesFirst ==
  <<Reservations, Update("event"), Update("conversion"), NoKeyUpdate("earning")>> \o Audit

RetryEvent ==
  <<Update("event"), Reservations, Update("conversion"), NoKeyUpdate("earning")>> \o Audit

CreateRule == <<Update("program"), KeyShare("partner")>> \o Audit
SetProgramState == <<Update("program")>> \o Audit
CreateCode == <<KeyShare("program"), KeyShare("partner"), Update("new_code")>> \o Audit
Dispatch == <<Update("outbox")>>
ApplyWebhook == <<Update("outbox"), Update("webhook_event")>> \o Audit
ReadWorkspace == <<Share("organization")>>

AdvanceGuide ==
  {<<Sandbox, Update("organization"), Update("advance_record"),
     KeyShare("program"), KeyShare("partner"), KeyShare("code")>>,
   <<Sandbox, Update("organization"), Update("advance_record"),
     Update("conversion"), Update("earning")>>}

ResetSandbox ==
  <<Sandbox, Update("organization"), Update("partner"), Update("user"), Update("program"),
    Update("code"), Update("conversion_item"), Update("conversion"), Update("holds"),
    Update("earning"), Items("a"), Items("b"), Claim("a"), Claim("b"), Update("ledger"),
    Update("challenge"), Update("outbox"), Update("event")>>

\* What a handler may lock, by the claims it concerns.
Plans ==
  [create_conversion |-> {CreateConversion},
   complete          |-> {CompleteConversion},
   cancel            |-> {CancelConversion(failed) : failed \in FailAffected},
   hold              |-> {HoldEarning(failed) : failed \in FailAffected},
   void              |-> {VoidEarning(failed) : failed \in FailAffected},
   suspend           |-> {SuspendPartner(failed) : failed \in FailAffected},
   create_challenge  |-> {CreateChallenge},
   answer_challenge  |-> {AnswerChallenge},
   create_claim      |-> {CreateClaim} \cup {ReplayClaim(c) : c \in Claims},
   simulate          |-> {SimulateClaim(c) : c \in Claims},
   retry_claim       |-> {RetryClaim(c) : c \in Claims},
   refund            |-> {RefundConversion(failed) : failed \in FailAffected},
   partner_claims    |-> {PartnerClaims},
   partner_claim     |-> {PartnerClaim(c) : c \in Claims},
   owner_claims      |-> {OwnerClaims},
   owner_claim       |-> {OwnerClaim(c) : c \in Claims},
   receive_event     |-> {ReceiveEvent},
   retry_event       |-> {RetryEvent},
   create_rule       |-> {CreateRule},
   program_state     |-> {SetProgramState},
   create_code       |-> {CreateCode},
   dispatch          |-> {Dispatch},
   webhook           |-> {ApplyWebhook},
   workspace         |-> {ReadWorkspace},
   advance           |-> AdvanceGuide,
   reset             |-> {ResetSandbox}]

ASSUME HandlersAssumption == Handlers \subseteq DOMAIN Plans

Init == plan = [s \in Sessions |-> <<>>] /\ taken = [s \in Sessions |-> 0]

Running(s) == plan[s] # <<>>
Finished(s) == Running(s) /\ taken[s] = Len(plan[s])
Waiting(s) == Running(s) /\ ~Finished(s)
Wanted(s) == plan[s][taken[s] + 1]
Held(s) == {plan[s][i] : i \in 1..taken[s]}

Conflict(a, b) == a[1] = b[1] /\ a[2] \in Excludes[b[2]]

\* The sessions that hold what s waits for.
Blockers(s) ==
  {t \in Sessions \ {s} : \E lock \in Held(t) : Conflict(lock, Wanted(s))}

Begin(s) ==
  /\ ~Running(s)
  /\ \E name \in Handlers : \E locks \in Plans[name] : plan' = [plan EXCEPT ![s] = locks]
  /\ UNCHANGED taken

Acquire(s) ==
  /\ Waiting(s)
  /\ Blockers(s) = {}
  /\ taken' = [taken EXCEPT ![s] = @ + 1]
  /\ UNCHANGED plan

End(s) ==
  /\ plan' = [plan EXCEPT ![s] = <<>>]
  /\ taken' = [taken EXCEPT ![s] = 0]

Commit(s) == Finished(s) /\ End(s)

\* A check after one of the statements fails, and the transaction rolls back.
Refuse(s) == Waiting(s) /\ Blockers(s) = {} /\ End(s)

Next == \E s \in Sessions : Begin(s) \/ Acquire(s) \/ Commit(s) \/ Refuse(s)

Spec == Init /\ [][Next]_vars

------------------------------------------------------------------------------
(* No sessions wait for one another: whichever aggregates and claims the    *)
(* operations start from, the reservation lock, the claim rows above their  *)
(* items and the order of the locks taken outside prevent a cycle.          *)
NoDeadlock ==
  ~ \E cycle \in (SUBSET Sessions) \ {{}} :
      \A s \in cycle : Waiting(s) /\ Blockers(s) \cap cycle # {}
==============================================================================
