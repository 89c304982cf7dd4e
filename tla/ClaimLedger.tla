----------------------------- MODULE ClaimLedger -----------------------------
(***************************************************************************)
(* Conversions, their earnings, the claims that reserve earnings and the   *)
(* recovery ledger.  Every operation is one database transaction that first*)
(* takes the organisation's claim-reservation lock (creation of a conversion*)
(* and the guided tour lock the rows they touch instead), so an operation  *)
(* is one action.                                                          *)
(*                                                                         *)
(* One organisation, one currency.  Every conversion item has exactly one  *)
(* earning, so items are named by their earnings; earnings are numbered in *)
(* the order of their row ids, the order in which debt is absorbed.        *)
(***************************************************************************)
EXTENDS Lifecycle, Commission, FiniteSetsExt

CONSTANTS
  Partners,
  Conversions,
  Earnings,       \* numbered in the order of their ids
  Claims,         \* claims that may be created: bounds their number
  ConversionOf,   \* the conversion of an earning's item
  PartnerOf,      \* the partner whose code referred the conversion
  Gross,          \* the gross amount of an earning's item
  RuleChoices     \* the rules that may apply when an earning is created

ASSUME ConstantsAssumption ==
  /\ Earnings \subseteq Nat
  /\ IsFiniteSet(Earnings)
  /\ ConversionOf \in [Earnings -> Conversions]
  /\ PartnerOf \in [Conversions -> Partners]
  /\ Gross \in [Earnings -> Nat]
  /\ RuleChoices \in [Earnings -> SUBSET (Rule \cup {NoRule})]

VARIABLES
  partnerStatus,  \* per partner: active or suspended
  convStatus,     \* per conversion: its status
  refunded,       \* per item: the cumulative refunded base
  status,         \* per earning: its status
  snapshot,       \* per earning: the rule snapshot taken when it was created
  reversed,       \* per earning: the cumulative reversed amount
  activeHold,     \* earnings with a hold row that is not released
  claimStatus,    \* per claim: its status
  items,          \* per claim: the earnings its items select
  payout,         \* per claim and earning: the amount the item pays out
  retried,        \* claims with a claim.retried audit event
  ledger          \* per earning: its ledger rows, totalled by entry type

conversionVars == <<partnerStatus, convStatus, refunded>>
earningVars == <<status, snapshot, reversed, activeHold>>
claimVars == <<claimStatus, items, payout, retried>>
vars == <<conversionVars, earningVars, claimVars, ledger>>

ItemsOf(k) == {e \in Earnings : ConversionOf[e] = k}
EarnedBy(e) == PartnerOf[ConversionOf[e]]

\* The amount computed from the item's gross amount when the earning was
\* created; the snapshot and the amount are never written again.
Amount(e) == CalculateCommission(snapshot[e], Gross[e])

OpenStatuses == {"created", "processing"}
IsOpen(c) == claimStatus[c] \in OpenStatuses

Init ==
  /\ partnerStatus = [p \in Partners |-> "active"]
  /\ convStatus = [k \in Conversions |-> "absent"]
  /\ refunded = [e \in Earnings |-> 0]
  /\ status = [e \in Earnings |-> "absent"]
  /\ snapshot = [e \in Earnings |-> NoRule]
  /\ reversed = [e \in Earnings |-> 0]
  /\ activeHold = {}
  /\ claimStatus = [c \in Claims |-> "absent"]
  /\ items = [c \in Claims |-> {}]
  /\ payout = [c \in Claims |-> [e \in Earnings |-> 0]]
  /\ retried = {}
  /\ ledger = [e \in Earnings |-> [accrual |-> 0, payout |-> 0, reversal |-> 0]]

------------------------------------------------------------------------------
(* Withdrawing earnings from the open claims that reserved them.           *)

\* Mutant: every open claim of the organisation is taken for affected.
AllAffected(targets) == {c \in Claims : IsOpen(c)}

Affected(targets) == {c \in Claims : IsOpen(c) /\ items[c] \cap targets # {}}

\* Mutant: the claims stay open although an earning of theirs is withdrawn.
FailNothing(targets) == UNCHANGED claimStatus

\* The claims touched by the targets fail; the other earnings those claims
\* reserved go back to the status their conversion gives them.  The targets'
\* own next status is the caller's.
FailAffected(targets) ==
  claimStatus' = [c \in Claims |-> IF c \in Affected(targets) THEN "failed"
                                                              ELSE claimStatus[c]]

StatusAfterFail(targets, e) ==
  IF /\ status[e] = "reserved"
     /\ e \notin targets
     /\ \E c \in Affected(targets) : e \in items[c]
  THEN StatusAfterHoldRelease(convStatus[ConversionOf[e]])
  ELSE status[e]

Withdraw(targets, newStatus) ==
  /\ FailAffected(targets)
  /\ status' = [e \in Earnings |-> IF e \in targets THEN newStatus
                                                    ELSE StatusAfterFail(targets, e)]
  /\ UNCHANGED <<items, payout, retried>>

\* Mutant: the hold rows of withdrawn earnings are left unreleased.
KeepActiveHolds(targets) == UNCHANGED activeHold

CloseActiveHolds(targets) == activeHold' = activeHold \ targets

------------------------------------------------------------------------------
(* Conversions.                                                            *)

\* A referral: the partner must be active.  An item without an applicable
\* rule gets an earning of amount zero that waits for a rule.
CreateConversion(k) ==
  /\ convStatus[k] = "absent"
  /\ partnerStatus[PartnerOf[k]] = "active"
  /\ convStatus' = [convStatus EXCEPT ![k] = "scheduled"]
  /\ \E rule \in [ItemsOf(k) -> UNION {RuleChoices[e] : e \in ItemsOf(k)}] :
       /\ \A e \in ItemsOf(k) : rule[e] \in RuleChoices[e]
       /\ snapshot' = [e \in Earnings |-> IF e \in ItemsOf(k) THEN rule[e]
                                                              ELSE snapshot[e]]
       /\ status' = [e \in Earnings |->
            IF e \notin ItemsOf(k) THEN status[e]
            ELSE IF rule[e] = NoRule THEN "needs_rule" ELSE "pending"]
  /\ UNCHANGED <<partnerStatus, refunded, reversed, activeHold, claimVars, ledger>>

\* The owner's completion and an accepted booking event have the same effect.
Complete(k) ==
  /\ convStatus[k] = "scheduled"
  /\ convStatus' = [convStatus EXCEPT ![k] = "completed"]
  /\ status' = [e \in Earnings |-> IF e \in ItemsOf(k) /\ status[e] = "pending"
                                   THEN "eligible" ELSE status[e]]
  /\ UNCHANGED <<partnerStatus, refunded, snapshot, reversed, activeHold, claimVars, ledger>>

Cancel(k, outcome) ==
  LET targets == {e \in ItemsOf(k) : status[e] \in Unpaid}
  IN  /\ convStatus[k] = "scheduled"
      /\ convStatus' = [convStatus EXCEPT ![k] = outcome]
      /\ Withdraw(targets, "voided")
      /\ CloseActiveHolds(targets)
      /\ UNCHANGED <<partnerStatus, refunded, snapshot, reversed, ledger>>

------------------------------------------------------------------------------
(* Owner decisions on one earning, and on a partner.                       *)

Hold(e) ==
  /\ status[e] # "absent"
  /\ CanTransition(EarningTransitions, status[e], "held")
  /\ e \notin activeHold
  /\ Withdraw({e}, "held")
  /\ activeHold' = activeHold \cup {e}
  /\ UNCHANGED <<conversionVars, snapshot, reversed, ledger>>

\* Release ignores the status the earning was held from.
Release(e) ==
  LET next == StatusAfterHoldRelease(convStatus[ConversionOf[e]])
  IN  /\ status[e] = "held"
      /\ e \in activeHold
      /\ CanTransition(EarningTransitions, "held", next)
      /\ status' = [status EXCEPT ![e] = next]
      /\ activeHold' = activeHold \ {e}
      /\ UNCHANGED <<conversionVars, snapshot, reversed, claimVars, ledger>>

Void(e) ==
  /\ status[e] \notin PaidOut \cup {"absent"}
  /\ CanTransition(EarningTransitions, status[e], "voided")
  /\ Withdraw({e}, "voided")
  /\ CloseActiveHolds({e})
  /\ UNCHANGED <<conversionVars, snapshot, reversed, ledger>>

Suspend(p) ==
  LET targets == {e \in Earnings : EarnedBy(e) = p
                                   /\ status[e] \in {"pending", "eligible", "reserved"}}
  IN  /\ partnerStatus[p] = "active"
      /\ partnerStatus' = [partnerStatus EXCEPT ![p] = "suspended"]
      /\ Withdraw(targets, "held")
      /\ activeHold' = activeHold \cup targets
      /\ UNCHANGED <<convStatus, refunded, snapshot, reversed, ledger>>

\* Reactivation releases no hold.
Reactivate(p) ==
  /\ partnerStatus[p] = "suspended"
  /\ partnerStatus' = [partnerStatus EXCEPT ![p] = "active"]
  /\ UNCHANGED <<convStatus, refunded, earningVars, claimVars, ledger>>

------------------------------------------------------------------------------
(* The recovery ledger: what a partner's rows add up to, and how a claim    *)
(* absorbs a debt.                                                          *)

LedgerBalance(p) ==
  SumFunctionOnSet([e \in Earnings |-> ledger[e].accrual - ledger[e].payout - ledger[e].reversal],
                   {e \in Earnings : EarnedBy(e) = p})

\* What a claim holds back of a partner's earnings.
HeldBack(c, p) ==
  SumFunctionOnSet([e \in Earnings |-> Amount(e) - payout[c][e]],
                   {e \in items[c] : EarnedBy(e) = p})

\* Mutant: open claims are forgotten.
NoReservedRecovery(p) == 0

\* What the open claims of a partner already hold back.
ReservedRecovery(p) ==
  SumFunctionOnSet([c \in Claims |-> HeldBack(c, p)], {c \in Claims : IsOpen(c)})

ProjectedBalance(p) == LedgerBalance(p) + ReservedRecovery(p)

\* Mutant: debt is left to later claims.
PayInFull(p, selected) == [e \in Earnings |-> IF e \in selected THEN Amount(e) ELSE 0]

\* The selected earnings absorb the debt in the order of their ids; each pays
\* out what is left of it.
Allocate(p, selected) ==
  LET debt == Larger(0, -ProjectedBalance(p))
      absorbedBefore(e) == SumFunctionOnSet([f \in Earnings |-> Amount(f)],
                                            {f \in selected : f < e})
      recovery(e) == Smaller(Amount(e), Larger(0, debt - absorbedBefore(e)))
  IN  [e \in Earnings |-> IF e \in selected THEN Amount(e) - recovery(e) ELSE 0]

------------------------------------------------------------------------------
(* Claims.                                                                 *)

\* The partner part of creating a claim; the one-time code that authorises
\* it is the subject of OtpClaims.  The bounds on an item's payout are the
\* CHECK constraints of the claim_items table.
CreateClaim(c, p, selected) ==
  LET allocation == Allocate(p, selected)
  IN  /\ claimStatus[c] = "absent"
      /\ partnerStatus[p] = "active"
      /\ selected # {}
      /\ \A e \in selected : /\ EarnedBy(e) = p
                             /\ status[e] = "eligible"
                             /\ e \notin activeHold
                             /\ allocation[e] \in 0..Amount(e)
      /\ claimStatus' = [claimStatus EXCEPT ![c] = "created"]
      /\ items' = [items EXCEPT ![c] = selected]
      /\ payout' = [payout EXCEPT ![c] = allocation]
      /\ status' = [e \in Earnings |-> IF e \in selected THEN "reserved" ELSE status[e]]
      /\ UNCHANGED <<conversionVars, snapshot, reversed, activeHold, retried, ledger>>

\* The claim's own partner must be active.
ClaimantActive(c) == \A e \in items[c] : partnerStatus[EarnedBy(e)] = "active"

\* Simulated payout: created, processing and the outcome in one transaction.
Simulatable(c) ==
  /\ claimStatus[c] = "created"
  /\ items[c] # {}
  /\ ClaimantActive(c)
  /\ \A e \in items[c] : status[e] = "reserved" /\ e \notin activeHold

\* An accrual row is inserted only for an earning that has none.
SimulateSuccess(c) ==
  /\ Simulatable(c)
  /\ claimStatus' = [claimStatus EXCEPT ![c] = "settled"]
  /\ status' = [e \in Earnings |-> IF e \in items[c] THEN "settled" ELSE status[e]]
  /\ ledger' = [e \in Earnings |->
       IF e \in items[c]
       THEN [accrual  |-> IF ledger[e].accrual = 0 THEN Amount(e) ELSE ledger[e].accrual,
             payout   |-> ledger[e].payout + payout[c][e],
             reversal |-> ledger[e].reversal]
       ELSE ledger[e]]
  /\ UNCHANGED <<conversionVars, snapshot, reversed, activeHold, items, payout, retried>>

SimulateFailure(c) ==
  /\ Simulatable(c)
  /\ claimStatus' = [claimStatus EXCEPT ![c] = "failed"]
  /\ status' = [e \in Earnings |-> IF e \in items[c] THEN "eligible" ELSE status[e]]
  /\ UNCHANGED <<conversionVars, snapshot, reversed, activeHold, items, payout, retried, ledger>>

\* Mutant: what became of the earnings since the claim failed is not checked.
RetryableBlindly(c) ==
  /\ claimStatus[c] = "failed"
  /\ items[c] # {}
  /\ ClaimantActive(c)

Retryable(c) ==
  /\ claimStatus[c] = "failed"
  /\ items[c] # {}
  /\ ClaimantActive(c)
  /\ \A e \in items[c] : status[e] = "eligible" /\ e \notin activeHold

\* A retried claim keeps the payouts allocated when it was created.
RetryClaim(c) ==
  /\ Retryable(c)
  /\ status' = [e \in Earnings |-> IF e \in items[c] THEN "reserved" ELSE status[e]]
  /\ claimStatus' = [claimStatus EXCEPT ![c] = "created"]
  /\ retried' = retried \cup {c}
  /\ UNCHANGED <<conversionVars, snapshot, reversed, activeHold, items, payout, ledger>>

------------------------------------------------------------------------------
(* Refunds.  The input names items and their new cumulative refunded base.  *)

\* What an earning's reversals must add up to for a refunded base.
DesiredReversal(e, base) ==
  Smaller(CalculateCommission(snapshot[e], base), Amount(e))

\* The input's base replaces the refunded base of the items it names.
RefundedAfter(base) == [e \in Earnings |-> IF e \in DOMAIN base THEN base[e] ELSE refunded[e]]

\* Mutant: only the items named by this refund are looked at.
StatusAfterNamedRefund(k, base) ==
  IF \A e \in DOMAIN base : base[e] = Gross[e] THEN "refunded" ELSE "partially_refunded"

StatusAfterRefund(k, base) ==
  IF \A e \in ItemsOf(k) : RefundedAfter(base)[e] = Gross[e]
  THEN "refunded" ELSE "partially_refunded"

\* Mutant: an earning is reversed by its first refund only.
ReversingOnce(base) ==
  {e \in DOMAIN base : status[e] = "settled" /\ DesiredReversal(e, base[e]) > reversed[e]}

\* A paid earning is reversed by the difference to what was reversed already,
\* if there is one.
Reversing(base) ==
  {e \in DOMAIN base : status[e] \in PaidOut /\ DesiredReversal(e, base[e]) > reversed[e]}

\* Unpaid earnings are voided whatever part was refunded.
Refund(k, base) ==
  LET unpaid == {e \in DOMAIN base : status[e] \in Unpaid}
      next == StatusAfterRefund(k, base)
  IN  /\ convStatus[k] \in Delivered
      /\ \A e \in DOMAIN base : refunded[e] <= base[e] /\ base[e] <= Gross[e]
      /\ convStatus[k] # next => CanTransition(ConversionTransitions, convStatus[k], next)
      /\ refunded' = RefundedAfter(base)
      /\ convStatus' = [convStatus EXCEPT ![k] = next]
      /\ FailAffected(unpaid)
      /\ CloseActiveHolds(unpaid)
      /\ status' = [e \in Earnings |-> IF e \in unpaid THEN "voided"
                                       ELSE IF e \in Reversing(base) THEN "reversed"
                                       ELSE StatusAfterFail(unpaid, e)]
      /\ reversed' = [e \in Earnings |-> IF e \in Reversing(base)
                                         THEN DesiredReversal(e, base[e]) ELSE reversed[e]]
      /\ ledger' = [e \in Earnings |->
           IF e \in Reversing(base)
           THEN [ledger[e] EXCEPT !.reversal = @ + (DesiredReversal(e, base[e]) - reversed[e])]
           ELSE ledger[e]]
      /\ UNCHANGED <<partnerStatus, snapshot, items, payout, retried>>

RefundInputs(k) ==
  UNION {[targets -> UNION {1..Gross[e] : e \in targets}] :
           targets \in (SUBSET ItemsOf(k)) \ {{}}}

------------------------------------------------------------------------------
ConversionStep(k) ==
  \/ CreateConversion(k)
  \/ Complete(k)
  \/ \E outcome \in {"cancelled", "no_show"} : Cancel(k, outcome)
  \/ \E base \in RefundInputs(k) : Refund(k, base)

EarningStep(e) == Hold(e) \/ Release(e) \/ Void(e)

PartnerStep(p) == Suspend(p) \/ Reactivate(p)

ClaimStep(c) ==
  \/ \E p \in Partners, selected \in SUBSET Earnings : CreateClaim(c, p, selected)
  \/ SimulateSuccess(c)
  \/ SimulateFailure(c)
  \/ RetryClaim(c)

Next ==
  \/ \E k \in Conversions : ConversionStep(k)
  \/ \E e \in Earnings : EarningStep(e)
  \/ \E p \in Partners : PartnerStep(p)
  \/ \E c \in Claims : ClaimStep(c)

Spec == Init /\ [][Next]_vars

------------------------------------------------------------------------------
\* Type invariant: statuses stay in the enumerations of the database and every
\* amount of money is a natural number of minor units.
TypeOK ==
  /\ partnerStatus \in [Partners -> {"active", "suspended"}]
  /\ convStatus \in [Conversions -> ConversionStatus \cup {"absent"}]
  /\ refunded \in [Earnings -> Nat]
  /\ status \in [Earnings -> EarningStatus \cup {"absent"}]
  /\ snapshot \in [Earnings -> Rule \cup {NoRule}]
  /\ reversed \in [Earnings -> Nat]
  /\ activeHold \in SUBSET Earnings
  /\ claimStatus \in [Claims -> ClaimStatus \cup {"absent"}]
  /\ items \in [Claims -> SUBSET Earnings]
  /\ payout \in [Claims -> [Earnings -> Nat]]
  /\ retried \in SUBSET Claims
  /\ ledger \in [Earnings -> [accrual : Nat, payout : Nat, reversal : Nat]]

------------------------------------------------------------------------------
(* Safety invariants.                                                      *)

\* Reservations are exclusive and complete: an open claim holds every one of
\* its earnings reserved and belongs to an active partner, a reserved earning
\* is in an open claim, and no two open claims share an earning, whatever
\* holds, voids, suspensions, cancellations, refunds and retries intervened.
ReservationsExact ==
  /\ \A c \in Claims : IsOpen(c) =>
       /\ items[c] # {}
       /\ \A e \in items[c] : status[e] = "reserved" /\ partnerStatus[EarnedBy(e)] = "active"
  /\ \A e \in Earnings : status[e] = "reserved" => \E c \in Claims : IsOpen(c) /\ e \in items[c]
  /\ \A c, d \in Claims : IsOpen(c) /\ IsOpen(d) /\ c # d => items[c] \cap items[d] = {}

\* An earning is held exactly while a hold row of it is unreleased: no path out
\* of a hold (release, void, cancellation, refund) leaves the row behind.
HoldsExact == activeHold = {e \in Earnings : status[e] = "held"}

\* What an earning may be depends on its conversion: waiting earnings belong to
\* scheduled conversions, claimable and paid ones to delivered conversions, and
\* a cancelled conversion has nothing left but voided earnings.
StatusFitsConversion ==
  \A e \in Earnings :
    LET conversion == convStatus[ConversionOf[e]]
    IN  /\ status[e] = "absent" <=> conversion = "absent"
        /\ status[e] = "pending" => conversion = "scheduled"
        /\ status[e] \in {"eligible", "reserved"} \cup PaidOut => conversion \in Delivered
        /\ conversion \in {"cancelled", "no_show"} => status[e] = "voided"

NoRows == [accrual |-> 0, payout |-> 0, reversal |-> 0]

\* An earning is paid by exactly one settled claim, with one accrual of its
\* amount and the payout that claim allocated; every other earning has no
\* ledger rows and is in no settled claim.
PaidOnce ==
  \A e \in Earnings :
    LET payers == {c \in Claims : claimStatus[c] = "settled" /\ e \in items[c]}
    IN  /\ status[e] \notin PaidOut => payers = {} /\ ledger[e] = NoRows
        /\ status[e] \in PaidOut =>
             \E c \in payers : /\ payers = {c}
                               /\ ledger[e].accrual = Amount(e)
                               /\ ledger[e].payout = payout[c][e]
                               /\ payout[c][e] <= Amount(e)

\* The reversals of a paid earning add up to the commission its snapshot gives
\* on the cumulative refunded base, capped at the earning's amount, however
\* many partial refunds led there; an earning that is not paid is never
\* reversed, and no earning with a refunded base can be claimed any more.
ReversalMatchesRefund ==
  \A e \in Earnings :
    /\ ledger[e].reversal = reversed[e]
    /\ status[e] = "reversed" <=> reversed[e] > 0
    /\ status[e] \in PaidOut =>
         reversed[e] = IF refunded[e] = 0 THEN 0 ELSE DesiredReversal(e, refunded[e])
    /\ refunded[e] > 0 => status[e] \in PaidOut \cup {"voided"}

\* A conversion's status tells how much of its items was refunded: nothing,
\* some or all of the gross amounts.
ConversionTellsRefunds ==
  \A k \in Conversions :
    LET full == \A e \in ItemsOf(k) : refunded[e] = Gross[e]
        none == \A e \in ItemsOf(k) : refunded[e] = 0
    IN  /\ convStatus[k] = "refunded" => full
        /\ convStatus[k] = "partially_refunded" => ~full /\ ~none
        /\ convStatus[k] \notin {"partially_refunded", "refunded"} => none

------------------------------------------------------------------------------
(* Recovery of debt.                                                       *)

\* What the standing claims that were retried hold back.
RetriedRecovery(p) ==
  SumFunctionOnSet([c \in Claims |-> HeldBack(c, p)],
                   {c \in retried : claimStatus[c] \in OpenStatuses \cup {"settled"}})

\* Claims never hold back more than the debt there is, counting the open
\* claims, unless a retried claim does.
RecoveryBoundedByDebt ==
  \A p \in Partners : ProjectedBalance(p) <= RetriedRecovery(p)

\* domain-lifecycle.md: adding the reserved recovery to the balance "prevents
\* the same debt from reducing another claim a second time".  Retrying a failed
\* claim restores its old allocation, so this does not hold.
DebtRecoveredOnce == \A p \in Partners : ProjectedBalance(p) <= 0

\* A claim that starts paying out while its partner remains in debt pays nothing.
AbsorbsDebt(c) ==
  \A p \in Partners : ProjectedBalance(p)' < 0 =>
    \A e \in items'[c] : EarnedBy(e) = p => payout'[c][e] = 0

\* A new claim pays out only what remains after the partner's whole debt,
\* including the debt left by claims that failed, is absorbed.
NewClaimAbsorbsDebt ==
  [][\A c \in Claims : claimStatus[c] = "absent" /\ claimStatus'[c] = "created"
                       => AbsorbsDebt(c)]_vars

\* domain-lifecycle.md: "Future eligible earnings first absorb that recovery
\* before any payout becomes available".  A retried claim reserves its earnings
\* again with the payouts of its first attempt, so this does not hold.
EveryOpeningAbsorbsDebt ==
  [][\A c \in Claims : claimStatus[c] \notin OpenStatuses /\ claimStatus'[c] \in OpenStatuses
                       => AbsorbsDebt(c)]_vars

------------------------------------------------------------------------------
(* Action properties.                                                      *)

Moves(table, from, to) == from = to \/ from = "absent" \/ CanTransition(table, from, to)

ClaimTransitions ==
  [created |-> {"settled", "failed"}, processing |-> {}, settled |-> {}, failed |-> {"created"}]

\* Also where the services update rows without consulting the tables, no step
\* moves an earning, a conversion or a claim along an edge its table lacks.
LegalTransitions ==
  [][/\ \A e \in Earnings : Moves(EarningTransitions, status[e], status'[e])
     /\ \A k \in Conversions : Moves(ConversionTransitions, convStatus[k], convStatus'[k])
     /\ \A c \in Claims : Moves(ClaimTransitions, claimStatus[c], claimStatus'[c])]_vars

\* The payment of an earning is history: once it has ledger rows, no refund, retry
\* or other claim adds an accrual or a payout, and its reversals only grow.
PaymentsAreHistory ==
  [][\A e \in Earnings : ledger[e] # NoRows =>
       /\ ledger'[e].accrual = ledger[e].accrual
       /\ ledger'[e].payout = ledger[e].payout
       /\ ledger'[e].reversal >= ledger[e].reversal]_vars

\* A suspension takes reservations and earnings of the suspended partner only.
SuspensionIsLocal ==
  [][\A p \in Partners : partnerStatus'[p] # partnerStatus[p] =>
       /\ \A e \in Earnings : EarnedBy(e) # p => status'[e] = status[e]
       /\ \A c \in Claims : claimStatus'[c] # claimStatus[c] =>
            \A e \in items[c] : EarnedBy(e) = p]_vars

------------------------------------------------------------------------------
(* Claims implement exclusive, all-or-nothing reservations: an open claim   *)
(* holds its items, and an earning is spent when it has been paid out.      *)

Lock == INSTANCE Reservation WITH
  selection <- items,
  holding   <- [c \in Claims |-> IF IsOpen(c) THEN items[c] ELSE {}],
  spent     <- {e \in Earnings : status[e] \in PaidOut}

ImplementsReservation == Lock!Spec
==============================================================================
