------------------------- MODULE ClaimLedger_proofs -------------------------
(***************************************************************************)
(* Proofs about ClaimLedger, for every set of partners, conversions,       *)
(* earnings and claims.                                                    *)
(***************************************************************************)
EXTENDS ClaimLedger, FiniteSetTheorems, TLAPS

\* Rounding half up keeps amounts natural.
LEMMA PercentageIsNat ==
  ASSUME NEW base \in Nat, NEW basisPoints \in Nat
  PROVE  CalculatePercentage(base, basisPoints) \in Nat
<1>1. base * basisPoints \in Nat
  OBVIOUS
<1>2. ASSUME NEW product \in Nat PROVE (product + 5000) \div 10000 \in Nat
  OBVIOUS
<1> QED BY <1>1, <1>2 DEF CalculatePercentage

\* A rule's figure is a natural number.
LEMMA RuleValueIsNat ==
  ASSUME NEW rule \in Rule
  PROVE  rule.value \in Nat
BY ZenonT(60) DEF Rule

\* A commission is a natural number, also for the empty snapshot.
LEMMA CommissionIsNat ==
  ASSUME NEW rule \in Rule \cup {NoRule}, NEW base \in Nat
  PROVE  CalculateCommission(rule, base) \in Nat
<1>1. CASE rule \in Rule
  BY <1>1, RuleValueIsNat, PercentageIsNat DEF CalculateCommission
<1>2. CASE rule = NoRule
  BY <1>2, PercentageIsNat DEF CalculateCommission, NoRule
<1> QED BY <1>1, <1>2

\* So is the amount of an earning.
LEMMA AmountIsNat ==
  ASSUME TypeOK, NEW e \in Earnings
  PROVE  Amount(e) \in Nat
BY ConstantsAssumption, CommissionIsNat DEF TypeOK, Amount

\* Nothing is allocated to earnings outside the selection.
LEMMA AllocateOutside ==
  ASSUME NEW p \in Partners, NEW selected \in SUBSET Earnings
  PROVE  /\ Allocate(p, selected) = [e \in Earnings |-> Allocate(p, selected)[e]]
         /\ \A e \in Earnings \ selected : Allocate(p, selected)[e] = 0
BY DEF Allocate

\* Failing the affected claims changes statuses within the status sets only.
LEMMA StatusAfterFailType ==
  ASSUME TypeOK, NEW targets \in SUBSET Earnings, NEW e \in Earnings
  PROVE  /\ StatusAfterFail(targets, e) \in EarningStatus \cup {"absent"}
         /\ StatusAfterFail(targets, e) \in {status[e], "pending", "eligible", "voided"}
BY DEF TypeOK, StatusAfterFail, StatusAfterHoldRelease, EarningStatus

\* The input of a refund names items of the conversion with natural bases.
LEMMA RefundInputType ==
  ASSUME NEW k \in Conversions, NEW base \in RefundInputs(k)
  PROVE  /\ DOMAIN base \subseteq ItemsOf(k)
         /\ \A e \in DOMAIN base : base[e] \in Nat
<1>1. PICK targets \in SUBSET ItemsOf(k) :
        base \in [targets -> UNION {1..Gross[e] : e \in targets}]
  BY DEF RefundInputs
<1>2. \A e \in targets : Gross[e] \in Nat
  BY ConstantsAssumption DEF ItemsOf
<1>3. \A n \in UNION {1..Gross[e] : e \in targets} : n \in Nat
  BY <1>2
<1>4. \A e \in targets : base[e] \in UNION {1..Gross[f] : f \in targets}
  BY <1>1
<1>5. DOMAIN base = targets
  BY <1>1
<1> QED BY <1>3, <1>4, <1>5

\* A reversal is a natural number capped at the earning's amount.
LEMMA DesiredReversalIsNat ==
  ASSUME TypeOK, NEW e \in Earnings, NEW base \in Nat
  PROVE  DesiredReversal(e, base) \in Nat /\ DesiredReversal(e, base) <= Amount(e)
<1>1. CalculateCommission(snapshot[e], base) \in Nat
  BY CommissionIsNat DEF TypeOK
<1> QED BY <1>1, AmountIsNat DEF DesiredReversal, Smaller

\* Withdrawing earnings fails claims and changes statuses, nothing else of a claim.
LEMMA WithdrawType ==
  ASSUME TypeOK, NEW targets \in SUBSET Earnings, NEW new \in EarningStatus,
         Withdraw(targets, new)
  PROVE  /\ status' \in [Earnings -> EarningStatus \cup {"absent"}]
         /\ claimStatus' \in [Claims -> ClaimStatus \cup {"absent"}]
         /\ UNCHANGED <<items, payout, retried>>
BY StatusAfterFailType DEF TypeOK, Withdraw, FailAffected, ClaimStatus

------------------------------------------------------------------------------
\* Type correctness: whatever happens, statuses stay in their sets and money
\* stays in natural numbers (domain/lifecycle.ts, domain/money.ts).
THEOREM TypeCorrect == Spec => []TypeOK
<1>1. Init => TypeOK
  BY DEF Init, TypeOK
<1>2. TypeOK /\ [Next]_vars => TypeOK'
  <2> SUFFICES ASSUME TypeOK, [Next]_vars PROVE TypeOK'
    OBVIOUS
  <2> USE ConstantsAssumption
  <2>1. ASSUME NEW k \in Conversions, CreateConversion(k) PROVE TypeOK'
    BY <2>1 DEF CreateConversion, TypeOK, ItemsOf, ConversionStatus, EarningStatus, claimVars
  <2>2. ASSUME NEW k \in Conversions, Complete(k) PROVE TypeOK'
    BY <2>2 DEF Complete, TypeOK, ConversionStatus, EarningStatus, claimVars
  <2>3. ASSUME NEW k \in Conversions, NEW outcome \in {"cancelled", "no_show"},
               Cancel(k, outcome)
        PROVE  TypeOK'
    BY <2>3, WithdrawType DEF Cancel, CloseActiveHolds, TypeOK, ConversionStatus, EarningStatus, ItemsOf
  <2>4. ASSUME NEW k \in Conversions, NEW base \in RefundInputs(k), Refund(k, base)
        PROVE  TypeOK'
    <3> DEFINE unpaid == {e \in DOMAIN base : status[e] \in Unpaid}
    <3>1. DOMAIN base \subseteq Earnings /\ \A e \in DOMAIN base : base[e] \in Nat
      BY RefundInputType DEF ItemsOf
    <3>2. \A e \in DOMAIN base : DesiredReversal(e, base[e]) \in Nat
      BY <3>1, DesiredReversalIsNat
    <3>3. unpaid \in SUBSET Earnings
      BY <3>1
    <3>4. refunded' \in [Earnings -> Nat]
      BY <2>4, <3>1 DEF Refund, RefundedAfter, TypeOK
    <3>5. convStatus' \in [Conversions -> ConversionStatus \cup {"absent"}]
      BY <2>4 DEF Refund, StatusAfterRefund, TypeOK, ConversionStatus
    <3>6. status' \in [Earnings -> EarningStatus \cup {"absent"}]
      BY <2>4, <3>3, StatusAfterFailType DEF Refund, EarningStatus
    <3>7. claimStatus' \in [Claims -> ClaimStatus \cup {"absent"}]
      BY <2>4 DEF Refund, FailAffected, TypeOK, ClaimStatus
    <3>8. reversed' \in [Earnings -> Nat]
      BY <2>4, <3>2 DEF Refund, Reversing, TypeOK
    <3>9. ASSUME NEW e \in Reversing(base)
          PROVE  ledger[e].reversal + (DesiredReversal(e, base[e]) - reversed[e]) \in Nat
      <4>1. ledger[e].reversal \in Nat /\ reversed[e] \in Nat
        BY <3>1 DEF Reversing, TypeOK
      <4>2. DesiredReversal(e, base[e]) \in Nat /\ DesiredReversal(e, base[e]) > reversed[e]
        BY <3>2 DEF Reversing
      <4> QED BY <4>1, <4>2
    <3>10. ledger' \in [Earnings -> [accrual : Nat, payout : Nat, reversal : Nat]]
      <4>1. ledger' = [e \in Earnings |-> IF e \in Reversing(base)
               THEN [ledger[e] EXCEPT !.reversal =
                       @ + (DesiredReversal(e, base[e]) - reversed[e])]
               ELSE ledger[e]]
        BY <2>4 DEF Refund
      <4>2. ASSUME NEW e \in Earnings
            PROVE  ledger'[e] \in [accrual : Nat, payout : Nat, reversal : Nat]
        <5>1. ledger[e] \in [accrual : Nat, payout : Nat, reversal : Nat]
          BY DEF TypeOK
        <5> QED BY <4>1, <5>1, <3>9
      <4> QED BY <4>1, <4>2
    <3> QED
      BY <2>4, <3>4, <3>5, <3>6, <3>7, <3>8, <3>10 DEF Refund, CloseActiveHolds, TypeOK
  <2>5. ASSUME NEW e \in Earnings, Hold(e) PROVE TypeOK'
    BY <2>5, WithdrawType DEF Hold, TypeOK, EarningStatus, conversionVars
  <2>6. ASSUME NEW e \in Earnings, Release(e) PROVE TypeOK'
    BY <2>6 DEF Release, TypeOK, EarningStatus, StatusAfterHoldRelease, conversionVars, claimVars
  <2>7. ASSUME NEW e \in Earnings, Void(e) PROVE TypeOK'
    BY <2>7, WithdrawType DEF Void, CloseActiveHolds, TypeOK, EarningStatus, conversionVars
  <2>8. ASSUME NEW p \in Partners, Suspend(p) PROVE TypeOK'
    BY <2>8, WithdrawType DEF Suspend, TypeOK, EarningStatus
  <2>9. ASSUME NEW p \in Partners, Reactivate(p) PROVE TypeOK'
    BY <2>9 DEF Reactivate, TypeOK, earningVars, claimVars
  <2>10. ASSUME NEW c \in Claims, NEW p \in Partners, NEW selected \in SUBSET Earnings,
                CreateClaim(c, p, selected)
         PROVE  TypeOK'
    <3>1. Allocate(p, selected) \in [Earnings -> Nat]
      BY <2>10, AllocateOutside, AmountIsNat DEF CreateClaim
    <3> QED BY <2>10, <3>1 DEF CreateClaim, TypeOK, EarningStatus, ClaimStatus, conversionVars
  <2>11. ASSUME NEW c \in Claims, SimulateSuccess(c) PROVE TypeOK'
    BY <2>11, AmountIsNat DEF SimulateSuccess, TypeOK, EarningStatus, ClaimStatus, conversionVars
  <2>12. ASSUME NEW c \in Claims, SimulateFailure(c) PROVE TypeOK'
    BY <2>12 DEF SimulateFailure, TypeOK, EarningStatus, ClaimStatus, conversionVars
  <2>13. ASSUME NEW c \in Claims, RetryClaim(c) PROVE TypeOK'
    BY <2>13 DEF RetryClaim, TypeOK, EarningStatus, ClaimStatus, conversionVars
  <2>14. CASE UNCHANGED vars
    BY <2>14 DEF vars, conversionVars, earningVars, claimVars, TypeOK
  <2> QED
    BY <2>1, <2>2, <2>3, <2>4, <2>5, <2>6, <2>7, <2>8, <2>9, <2>10, <2>11, <2>12, <2>13, <2>14
       DEF Next, ConversionStep, EarningStep, PartnerStep, ClaimStep
<1> QED BY <1>1, <1>2, PTL DEF Spec

------------------------------------------------------------------------------
(* Statuses of conversions and of their earnings.                          *)

\* No code path leaves a conversion attributed: creation schedules it at once.
FitInv == StatusFitsConversion /\ \A k \in Conversions : convStatus[k] # "attributed"

\* An earning that a failing claim gives back fits its conversion: it was
\* reserved, so the conversion is delivered and the earning becomes eligible.
LEMMA GivenBackFits ==
  ASSUME TypeOK, FitInv, NEW targets \in SUBSET Earnings, NEW e \in Earnings
  PROVE  \/ StatusAfterFail(targets, e) = status[e]
         \/ /\ StatusAfterFail(targets, e) = "eligible"
            /\ status[e] = "reserved"
            /\ convStatus[ConversionOf[e]] \in Delivered
BY DEF StatusAfterFail, StatusAfterHoldRelease, FitInv, StatusFitsConversion, Delivered

\* Withdrawing unpaid earnings while the conversions stay as they are; only
\* earnings of a conversion that is not closed may become held.
LEMMA WithdrawFits ==
  ASSUME TypeOK, FitInv, NEW targets \in SUBSET Earnings, NEW new \in {"held", "voided"},
         Withdraw(targets, new), UNCHANGED convStatus,
         \A e \in targets : status[e] \in Unpaid \cup {"voided"},
         \A e \in targets : status[e] = "voided" => new = "voided"
  PROVE  FitInv'
<1>1. ASSUME NEW e \in Earnings
      PROVE  LET conversion == convStatus'[ConversionOf[e]]
             IN  /\ status'[e] = "absent" <=> conversion = "absent"
                 /\ status'[e] = "pending" => conversion = "scheduled"
                 /\ status'[e] \in {"eligible", "reserved"} \cup PaidOut => conversion \in Delivered
                 /\ conversion \in {"cancelled", "no_show"} => status'[e] = "voided"
  <2>1. CASE e \in targets
    BY <2>1 DEF Withdraw, FitInv, StatusFitsConversion, PaidOut, Unpaid
  <2>2. CASE e \notin targets
    <3>1. status'[e] = StatusAfterFail(targets, e)
      BY <2>2 DEF Withdraw
    <3> QED BY <3>1, GivenBackFits DEF FitInv, StatusFitsConversion, PaidOut, Delivered
  <2> QED BY <2>1, <2>2
<1> QED BY <1>1 DEF FitInv, StatusFitsConversion

\* Changing the status of some earnings to one that fits.
LEMMA MovedEarningsFit ==
  ASSUME FitInv, UNCHANGED convStatus, NEW moved \in SUBSET Earnings,
         \A e \in Earnings \ moved : status'[e] = status[e],
         \A e \in moved : /\ convStatus[ConversionOf[e]] \in Delivered
                          /\ status'[e] \in {"eligible", "reserved", "settled"}
  PROVE  FitInv'
BY DEF FitInv, StatusFitsConversion, Delivered, PaidOut

\* The status of an earning always fits its conversion, although holds, releases
\* and failing claims move earnings without looking at each other
\* (statusAfterHoldRelease in domain/lifecycle.ts).
THEOREM EarningsFitConversions == Spec => []StatusFitsConversion
<1>1. Init => FitInv
  BY ConstantsAssumption DEF Init, FitInv, StatusFitsConversion, PaidOut
<1>2. TypeOK /\ FitInv /\ [Next]_vars => FitInv'
  <2> SUFFICES ASSUME TypeOK, FitInv, [Next]_vars PROVE FitInv'
    OBVIOUS
  <2> USE ConstantsAssumption
  <2>1. ASSUME NEW k \in Conversions, CreateConversion(k) PROVE FitInv'
    BY <2>1 DEF CreateConversion, ItemsOf, TypeOK, FitInv, StatusFitsConversion, PaidOut, Delivered
  <2>2. ASSUME NEW k \in Conversions, Complete(k) PROVE FitInv'
    BY <2>2 DEF Complete, ItemsOf, TypeOK, FitInv, StatusFitsConversion, PaidOut, Delivered
  <2>3. ASSUME NEW k \in Conversions, NEW outcome \in {"cancelled", "no_show"},
               Cancel(k, outcome)
        PROVE  FitInv'
    <3> DEFINE targets == {e \in ItemsOf(k) : status[e] \in Unpaid}
    <3>1. convStatus[k] = "scheduled" /\ convStatus' = [convStatus EXCEPT ![k] = outcome]
      BY <2>3 DEF Cancel
    <3>2. ASSUME NEW e \in ItemsOf(k) PROVE status'[e] = "voided" /\ e \in Earnings
      <4>1. status[e] \in Unpaid \cup {"voided"}
        BY <3>1 DEF TypeOK, EarningStatus, FitInv, StatusFitsConversion, ItemsOf,
                    Unpaid, PaidOut, Delivered
      <4>2. StatusAfterFail(targets, e) = status[e] \/ status[e] = "reserved"
        BY DEF StatusAfterFail
      <4> QED BY <2>3, <4>1, <4>2 DEF Cancel, Withdraw, ItemsOf, Unpaid
    <3>3. ASSUME NEW e \in Earnings \ ItemsOf(k)
          PROVE  status'[e] = StatusAfterFail(targets, e)
                 /\ convStatus'[ConversionOf[e]] = convStatus[ConversionOf[e]]
      BY <2>3, <3>1 DEF Cancel, Withdraw, ItemsOf, TypeOK
    <3>4. targets \in SUBSET Earnings
      BY DEF ItemsOf
    <3> HIDE DEF targets
    <3>5. ASSUME NEW e \in Earnings
          PROVE  LET conversion == convStatus'[ConversionOf[e]]
                 IN  /\ status'[e] = "absent" <=> conversion = "absent"
                     /\ status'[e] = "pending" => conversion = "scheduled"
                     /\ status'[e] \in {"eligible", "reserved"} \cup PaidOut
                          => conversion \in Delivered
                     /\ conversion \in {"cancelled", "no_show"} => status'[e] = "voided"
      <4>1. CASE e \in ItemsOf(k)
        BY <3>1, <3>2, <4>1 DEF ItemsOf, TypeOK, PaidOut
      <4>2. CASE e \notin ItemsOf(k)
        BY <3>3, <3>4, <4>2, GivenBackFits DEF FitInv, StatusFitsConversion, Delivered, PaidOut
      <4> QED BY <4>1, <4>2
    <3> QED BY <3>1, <3>5 DEF FitInv, StatusFitsConversion, TypeOK
  <2>4. ASSUME NEW k \in Conversions, NEW base \in RefundInputs(k), Refund(k, base)
        PROVE  FitInv'
    <3> DEFINE unpaid == {e \in DOMAIN base : status[e] \in Unpaid}
    <3>1. DOMAIN base \subseteq ItemsOf(k) /\ unpaid \in SUBSET Earnings
      BY RefundInputType DEF ItemsOf
    <3>2. /\ convStatus[k] \in Delivered
          /\ convStatus' = [convStatus EXCEPT ![k] = StatusAfterRefund(k, base)]
          /\ StatusAfterRefund(k, base) \in {"refunded", "partially_refunded"}
      BY <2>4 DEF Refund, StatusAfterRefund
    <3>3. ASSUME NEW e \in Earnings
          PROVE  \/ status'[e] = StatusAfterFail(unpaid, e)
                 \/ e \in ItemsOf(k) /\ status'[e] \in {"voided", "reversed"}
      BY <2>4, <3>1 DEF Refund, Reversing
    <3>4. \A e \in ItemsOf(k) : e \in Earnings /\ ConversionOf[e] = k
      BY DEF ItemsOf
    <3> HIDE DEF unpaid
    <3>5. ASSUME NEW e \in Earnings
          PROVE  LET conversion == convStatus'[ConversionOf[e]]
                 IN  /\ status'[e] = "absent" <=> conversion = "absent"
                     /\ status'[e] = "pending" => conversion = "scheduled"
                     /\ status'[e] \in {"eligible", "reserved"} \cup PaidOut
                          => conversion \in Delivered
                     /\ conversion \in {"cancelled", "no_show"} => status'[e] = "voided"
      <4>1. \/ convStatus'[ConversionOf[e]] = convStatus[ConversionOf[e]]
            \/ /\ convStatus[ConversionOf[e]] \in Delivered
               /\ convStatus'[ConversionOf[e]] \in {"refunded", "partially_refunded"}
        BY <3>2 DEF TypeOK
      <4>2. CASE status'[e] = StatusAfterFail(unpaid, e)
        BY <3>1, <4>1, <4>2, GivenBackFits DEF FitInv, StatusFitsConversion, Delivered, PaidOut
      <4>3. CASE e \in ItemsOf(k) /\ status'[e] \in {"voided", "reversed"}
        BY <3>2, <3>4, <4>3 DEF TypeOK, Delivered, PaidOut
      <4> QED BY <3>3, <4>2, <4>3
    <3> QED BY <3>2, <3>5 DEF FitInv, StatusFitsConversion, TypeOK
  <2>5. ASSUME NEW e \in Earnings, Hold(e) PROVE FitInv'
    BY <2>5, WithdrawFits
       DEF Hold, CanTransition, EarningTransitions, TypeOK, EarningStatus, Unpaid, conversionVars
  <2>6. ASSUME NEW e \in Earnings, Release(e) PROVE FitInv'
    BY <2>6 DEF Release, StatusAfterHoldRelease, conversionVars, claimVars, TypeOK,
                ConversionStatus, FitInv, StatusFitsConversion, PaidOut, Delivered
  <2>7. ASSUME NEW e \in Earnings, Void(e) PROVE FitInv'
    BY <2>7, WithdrawFits DEF Void, TypeOK, EarningStatus, Unpaid, PaidOut, conversionVars
  <2>8. ASSUME NEW p \in Partners, Suspend(p) PROVE FitInv'
    BY <2>8, WithdrawFits DEF Suspend, Unpaid
  <2>9. ASSUME NEW p \in Partners, Reactivate(p) PROVE FitInv'
    BY <2>9 DEF Reactivate, earningVars, claimVars, FitInv, StatusFitsConversion
  <2>10. ASSUME NEW c \in Claims, NEW p \in Partners, NEW selected \in SUBSET Earnings,
                CreateClaim(c, p, selected)
         PROVE  FitInv'
    <3>1. \A e \in selected : convStatus[ConversionOf[e]] \in Delivered
      BY <2>10 DEF CreateClaim, FitInv, StatusFitsConversion
    <3> QED BY <2>10, <3>1, MovedEarningsFit DEF CreateClaim, conversionVars
  <2>11. ASSUME NEW c \in Claims, SimulateSuccess(c) PROVE FitInv'
    <3>1. items[c] \in SUBSET Earnings
      BY DEF TypeOK
    <3>2. \A e \in items[c] : convStatus[ConversionOf[e]] \in Delivered
      BY <2>11, <3>1 DEF SimulateSuccess, Simulatable, FitInv, StatusFitsConversion
    <3> QED BY <2>11, <3>1, <3>2, MovedEarningsFit DEF SimulateSuccess, conversionVars
  <2>12. ASSUME NEW c \in Claims, SimulateFailure(c) PROVE FitInv'
    <3>1. items[c] \in SUBSET Earnings
      BY DEF TypeOK
    <3>2. \A e \in items[c] : convStatus[ConversionOf[e]] \in Delivered
      BY <2>12, <3>1 DEF SimulateFailure, Simulatable, FitInv, StatusFitsConversion
    <3> QED BY <2>12, <3>1, <3>2, MovedEarningsFit DEF SimulateFailure, conversionVars
  <2>13. ASSUME NEW c \in Claims, RetryClaim(c) PROVE FitInv'
    <3>1. items[c] \in SUBSET Earnings
      BY DEF TypeOK
    <3>2. \A e \in items[c] : convStatus[ConversionOf[e]] \in Delivered
      BY <2>13, <3>1 DEF RetryClaim, Retryable, FitInv, StatusFitsConversion
    <3> QED BY <2>13, <3>1, <3>2, MovedEarningsFit DEF RetryClaim, conversionVars
  <2>14. CASE UNCHANGED vars
    BY <2>14 DEF vars, conversionVars, earningVars, FitInv, StatusFitsConversion
  <2> QED
    BY <2>1, <2>2, <2>3, <2>4, <2>5, <2>6, <2>7, <2>8, <2>9, <2>10, <2>11, <2>12, <2>13, <2>14
       DEF Next, ConversionStep, EarningStep, PartnerStep, ClaimStep
<1>3. FitInv => StatusFitsConversion
  BY DEF FitInv
<1> QED BY <1>1, <1>2, <1>3, TypeCorrect, PTL DEF Spec

------------------------------------------------------------------------------
(* Reservations.                                                           *)

\* A claim that is not affected shares no earning with the targets, so failing
\* the affected ones keeps reservations exact if the targets and nothing else
\* stop being reserved.
LEMMA FailKeepsReservations ==
  ASSUME TypeOK, ReservationsExact,
         NEW targets \in SUBSET Earnings, FailAffected(targets), UNCHANGED items,
         \A e \in targets : status'[e] # "reserved",
         \A e \in Earnings \ targets :
           status'[e] = "reserved" <=> StatusAfterFail(targets, e) = "reserved",
         \A e \in Earnings : /\ status[e] = "reserved"
                             /\ e \notin targets
                             /\ partnerStatus[EarnedBy(e)] = "active"
                             => partnerStatus'[EarnedBy(e)] = "active"
  PROVE  ReservationsExact'
<1>1. ASSUME NEW c \in Claims, IsOpen(c)'
      PROVE  IsOpen(c) /\ c \notin Affected(targets)
  BY <1>1 DEF FailAffected, IsOpen, OpenStatuses, TypeOK
<1>2. ASSUME NEW c \in Claims, IsOpen(c), c \notin Affected(targets) PROVE IsOpen(c)'
  BY <1>2 DEF FailAffected, IsOpen, TypeOK
<1>3. ASSUME NEW e \in Earnings
      PROVE  status'[e] = "reserved" <=>
               /\ status[e] = "reserved"
               /\ e \notin targets
               /\ \A c \in Affected(targets) : e \notin items[c]
  BY DEF StatusAfterFail, StatusAfterHoldRelease
<1>4. ASSUME NEW c \in Claims, IsOpen(c)'
      PROVE  /\ items'[c] # {}
             /\ \A e \in items'[c] : status'[e] = "reserved"
                                     /\ partnerStatus'[EarnedBy(e)] = "active"
  <2>1. IsOpen(c) /\ c \notin Affected(targets)
    BY <1>1, <1>4
  <2>2. items[c] # {} /\ items[c] \subseteq Earnings /\ items[c] \cap targets = {}
    BY <2>1 DEF ReservationsExact, Affected, TypeOK
  <2>3. ASSUME NEW e \in items[c]
        PROVE  status'[e] = "reserved" /\ partnerStatus'[EarnedBy(e)] = "active"
    <3>1. status[e] = "reserved" /\ partnerStatus[EarnedBy(e)] = "active"
      BY <2>1 DEF ReservationsExact
    <3>2. \A d \in Affected(targets) : e \notin items[d]
      BY <2>1 DEF ReservationsExact, Affected
    <3> QED BY <3>1, <3>2, <2>2, <1>3
  <2> QED BY <2>2, <2>3
<1>5. ASSUME NEW e \in Earnings, status'[e] = "reserved"
      PROVE  \E c \in Claims : IsOpen(c)' /\ e \in items'[c]
  <2>1. PICK c \in Claims : IsOpen(c) /\ e \in items[c]
    BY <1>3, <1>5 DEF ReservationsExact
  <2>2. c \notin Affected(targets)
    BY <1>3, <1>5, <2>1
  <2> QED BY <1>2, <2>1, <2>2
<1>6. ASSUME NEW c \in Claims, NEW d \in Claims, IsOpen(c)', IsOpen(d)', c # d
      PROVE  items'[c] \cap items'[d] = {}
  BY <1>1, <1>6 DEF ReservationsExact
<1> QED BY <1>4, <1>5, <1>6 DEF ReservationsExact

\* Withdrawing earnings from claims, as the owner's decisions and cancellations do.
LEMMA WithdrawKeepsReservations ==
  ASSUME TypeOK, ReservationsExact,
         NEW targets \in SUBSET Earnings, NEW new \in EarningStatus \ {"reserved"},
         Withdraw(targets, new),
         \A e \in Earnings : /\ status[e] = "reserved"
                             /\ e \notin targets
                             /\ partnerStatus[EarnedBy(e)] = "active"
                             => partnerStatus'[EarnedBy(e)] = "active"
  PROVE  ReservationsExact'
BY FailKeepsReservations DEF Withdraw

\* Operations that leave reserved earnings, claims and partners alone.
LEMMA UntouchedReservations ==
  ASSUME TypeOK, ReservationsExact, UNCHANGED <<claimStatus, items>>,
         \A e \in Earnings : status'[e] = "reserved" <=> status[e] = "reserved",
         \A e \in Earnings : partnerStatus[EarnedBy(e)] = "active"
                             => partnerStatus'[EarnedBy(e)] = "active"
  PROVE  ReservationsExact'
BY DEF ReservationsExact, IsOpen, TypeOK

\* Opening a claim on earnings that are all claimable, be it new or retried.
LEMMA OpeningKeepsReservations ==
  ASSUME TypeOK, ReservationsExact, NEW c \in Claims, NEW selected \in SUBSET Earnings,
         claimStatus' = [claimStatus EXCEPT ![c] = "created"],
         items' = [items EXCEPT ![c] = selected],
         status' = [e \in Earnings |-> IF e \in selected THEN "reserved" ELSE status[e]],
         ~IsOpen(c), selected # {}, UNCHANGED partnerStatus,
         \A e \in selected : status[e] = "eligible"
                             /\ partnerStatus[EarnedBy(e)] = "active"
  PROVE  ReservationsExact'
<1>1. ASSUME NEW d \in Claims PROVE IsOpen(d)' <=> d = c \/ IsOpen(d)
  BY DEF IsOpen, OpenStatuses, TypeOK
<1>2. items'[c] = selected /\ \A d \in Claims \ {c} : items'[d] = items[d]
  BY DEF TypeOK
<1>3. ASSUME NEW d \in Claims, IsOpen(d) PROVE items[d] \cap selected = {}
  BY <1>3 DEF ReservationsExact
<1>4. \A d \in Claims : items[d] \subseteq Earnings
  BY DEF TypeOK
<1>5. ASSUME NEW d \in Claims, IsOpen(d)'
      PROVE  /\ items'[d] # {}
             /\ \A e \in items'[d] : status'[e] = "reserved"
                                     /\ partnerStatus'[EarnedBy(e)] = "active"
  BY <1>1, <1>2, <1>4, <1>5 DEF ReservationsExact, EarnedBy
<1>6. ASSUME NEW e \in Earnings, status'[e] = "reserved"
      PROVE  \E d \in Claims : IsOpen(d)' /\ e \in items'[d]
  BY <1>1, <1>2, <1>6 DEF ReservationsExact
<1>7. ASSUME NEW d \in Claims, NEW f \in Claims, IsOpen(d)', IsOpen(f)', d # f
      PROVE  items'[d] \cap items'[f] = {}
  BY <1>1, <1>2, <1>3, <1>7 DEF ReservationsExact
<1> QED BY <1>5, <1>6, <1>7 DEF ReservationsExact

\* Closing an open claim: all its earnings leave the reserved status together.
LEMMA ClosingKeepsReservations ==
  ASSUME TypeOK, ReservationsExact, NEW c \in Claims,
         NEW outcome \in {"settled", "failed"}, NEW new \in EarningStatus \ {"reserved"},
         claimStatus' = [claimStatus EXCEPT ![c] = outcome],
         status' = [e \in Earnings |-> IF e \in items[c] THEN new ELSE status[e]],
         IsOpen(c), UNCHANGED <<items, partnerStatus>>
  PROVE  ReservationsExact'
<1>1. ASSUME NEW d \in Claims PROVE IsOpen(d)' <=> d # c /\ IsOpen(d)
  BY DEF IsOpen, OpenStatuses, TypeOK
<1>2. ASSUME NEW d \in Claims, IsOpen(d)' PROVE items[d] \cap items[c] = {}
  BY <1>1, <1>2 DEF ReservationsExact
<1>3. \A d \in Claims : items[d] \subseteq Earnings
  BY DEF TypeOK
<1>4. ASSUME NEW d \in Claims, IsOpen(d)'
      PROVE  /\ items'[d] # {}
             /\ \A e \in items'[d] : status'[e] = "reserved"
                                     /\ partnerStatus'[EarnedBy(e)] = "active"
  BY <1>1, <1>2, <1>3, <1>4 DEF ReservationsExact, EarnedBy
<1>5. ASSUME NEW e \in Earnings, status'[e] = "reserved"
      PROVE  \E d \in Claims : IsOpen(d)' /\ e \in items'[d]
  BY <1>1, <1>5 DEF ReservationsExact
<1>6. ASSUME NEW d \in Claims, NEW f \in Claims, IsOpen(d)', IsOpen(f)', d # f
      PROVE  items'[d] \cap items'[f] = {}
  BY <1>1, <1>6 DEF ReservationsExact
<1> QED BY <1>4, <1>5, <1>6 DEF ReservationsExact

\* Reservations are exclusive and complete in every reachable state: the services
\* that reserve, withdraw and settle earnings (claims.service.ts,
\* claim-reservations.service.ts) never leave half a claim behind.
THEOREM ReservationsAreExact == Spec => []ReservationsExact
<1>1. Init => ReservationsExact
  BY DEF Init, ReservationsExact, IsOpen, OpenStatuses
<1>2. TypeOK /\ StatusFitsConversion /\ ReservationsExact /\ [Next]_vars => ReservationsExact'
  <2> SUFFICES ASSUME TypeOK, StatusFitsConversion, ReservationsExact, [Next]_vars PROVE  ReservationsExact'
    OBVIOUS
  <2> USE ConstantsAssumption
  <2>1. ASSUME NEW k \in Conversions, CreateConversion(k) PROVE ReservationsExact'
    <3>1. \A e \in ItemsOf(k) : status[e] = "absent" /\ status'[e] # "reserved"
      BY <2>1 DEF CreateConversion, ItemsOf, StatusFitsConversion
    <3>2. \A e \in Earnings \ ItemsOf(k) : status'[e] = status[e]
      BY <2>1 DEF CreateConversion
    <3> QED BY <2>1, <3>1, <3>2, UntouchedReservations DEF CreateConversion, claimVars
  <2>2. ASSUME NEW k \in Conversions, Complete(k) PROVE ReservationsExact'
    BY <2>2, UntouchedReservations DEF Complete, claimVars
  <2>3. ASSUME NEW k \in Conversions, NEW outcome \in {"cancelled", "no_show"},
               Cancel(k, outcome)
        PROVE  ReservationsExact'
    BY <2>3, WithdrawKeepsReservations DEF Cancel, ItemsOf, EarningStatus
  <2>4. ASSUME NEW k \in Conversions, NEW base \in RefundInputs(k), Refund(k, base)
        PROVE  ReservationsExact'
    <3> DEFINE unpaid == {e \in DOMAIN base : status[e] \in Unpaid}
    <3>1. unpaid \in SUBSET Earnings
      BY RefundInputType DEF ItemsOf
    <3>2. \A e \in unpaid : status'[e] # "reserved"
      BY <2>4, <3>1 DEF Refund
    <3>3. ASSUME NEW e \in Earnings \ unpaid
          PROVE  status'[e] = "reserved" <=> StatusAfterFail(unpaid, e) = "reserved"
      <4>1. CASE e \in Reversing(base)
        BY <2>4, <3>1, <4>1 DEF Refund, Reversing, StatusAfterFail, PaidOut
      <4>2. CASE e \notin Reversing(base)
        BY <2>4, <3>1, <4>2 DEF Refund
      <4> QED BY <4>1, <4>2
    <3>4. FailAffected(unpaid) /\ UNCHANGED <<items, partnerStatus>>
      BY <2>4 DEF Refund
    <3> HIDE DEF unpaid
    <3> QED BY <3>1, <3>2, <3>3, <3>4, FailKeepsReservations
  <2>5. ASSUME NEW e \in Earnings, Hold(e) PROVE ReservationsExact'
    BY <2>5, WithdrawKeepsReservations DEF Hold, EarningStatus, conversionVars
  <2>6. ASSUME NEW e \in Earnings, Release(e) PROVE ReservationsExact'
    BY <2>6, UntouchedReservations
       DEF Release, StatusAfterHoldRelease, conversionVars, claimVars, TypeOK
  <2>7. ASSUME NEW e \in Earnings, Void(e) PROVE ReservationsExact'
    BY <2>7, WithdrawKeepsReservations DEF Void, EarningStatus, conversionVars
  <2>8. ASSUME NEW p \in Partners, Suspend(p) PROVE ReservationsExact'
    <3> DEFINE targets == {e \in Earnings : EarnedBy(e) = p
                              /\ status[e] \in {"pending", "eligible", "reserved"}}
    <3>1. ASSUME NEW e \in Earnings, status[e] = "reserved", e \notin targets
          PROVE  EarnedBy(e) # p
      BY <3>1
    <3>2. \A e \in Earnings : EarnedBy(e) # p
              => partnerStatus'[EarnedBy(e)] = partnerStatus[EarnedBy(e)]
      BY <2>8 DEF Suspend, TypeOK, EarnedBy
    <3>3. Withdraw(targets, "held")
      BY <2>8 DEF Suspend
    <3> QED BY <3>1, <3>2, <3>3, WithdrawKeepsReservations DEF EarningStatus
  <2>9. ASSUME NEW p \in Partners, Reactivate(p) PROVE ReservationsExact'
    BY <2>9, UntouchedReservations DEF Reactivate, earningVars, claimVars, TypeOK, EarnedBy
  <2>10. ASSUME NEW c \in Claims, NEW p \in Partners, NEW selected \in SUBSET Earnings,
                CreateClaim(c, p, selected)
         PROVE  ReservationsExact'
    BY <2>10, OpeningKeepsReservations DEF CreateClaim, IsOpen, OpenStatuses, conversionVars
  <2>11. ASSUME NEW c \in Claims, SimulateSuccess(c) PROVE ReservationsExact'
    BY <2>11, ClosingKeepsReservations
       DEF SimulateSuccess, Simulatable, EarningStatus, IsOpen, OpenStatuses, conversionVars
  <2>12. ASSUME NEW c \in Claims, SimulateFailure(c) PROVE ReservationsExact'
    BY <2>12, ClosingKeepsReservations
       DEF SimulateFailure, Simulatable, EarningStatus, IsOpen, OpenStatuses, conversionVars
  <2>13. ASSUME NEW c \in Claims, RetryClaim(c) PROVE ReservationsExact'
    <3>1. items' = [items EXCEPT ![c] = items[c]] /\ items[c] \in SUBSET Earnings
      BY <2>13 DEF RetryClaim, TypeOK
    <3> QED
      BY <2>13, <3>1, OpeningKeepsReservations
         DEF RetryClaim, Retryable, ClaimantActive, IsOpen, OpenStatuses, conversionVars
  <2>14. CASE UNCHANGED vars
    BY <2>14, UntouchedReservations DEF vars, conversionVars, earningVars, claimVars
  <2> QED
    BY <2>1, <2>2, <2>3, <2>4, <2>5, <2>6, <2>7, <2>8, <2>9, <2>10, <2>11, <2>12, <2>13, <2>14
       DEF Next, ConversionStep, EarningStep, PartnerStep, ClaimStep
<1> QED BY <1>1, <1>2, TypeCorrect, EarningsFitConversions, PTL DEF Spec

------------------------------------------------------------------------------
(* Holds.                                                                  *)

\* A failing claim neither holds an earning nor releases one.
LEMMA HeldAfterFail ==
  ASSUME NEW targets \in SUBSET Earnings, NEW e \in Earnings
  PROVE  StatusAfterFail(targets, e) = "held" <=> status[e] = "held"
BY DEF StatusAfterFail, StatusAfterHoldRelease

\* The hold rows of withdrawn earnings are opened or closed with them.
LEMMA WithdrawKeepsHolds ==
  ASSUME HoldsExact, NEW targets \in SUBSET Earnings, NEW new, Withdraw(targets, new),
         activeHold' = IF new = "held" THEN activeHold \cup targets ELSE activeHold \ targets
  PROVE  HoldsExact'
BY HeldAfterFail DEF HoldsExact, Withdraw

\* Operations that neither hold nor release.
LEMMA UntouchedHolds ==
  ASSUME HoldsExact, UNCHANGED activeHold,
         \A e \in Earnings : status'[e] = "held" <=> status[e] = "held"
  PROVE  HoldsExact'
BY DEF HoldsExact

\* An earning is held exactly while a hold row of it is unreleased
\* (closeActiveHolds in claim-reservations.service.ts, release and void in
\* earnings.service.ts).
THEOREM HoldsAreExact == Spec => []HoldsExact
<1>1. Init => HoldsExact
  BY DEF Init, HoldsExact
<1>2. TypeOK /\ StatusFitsConversion /\ HoldsExact /\ [Next]_vars => HoldsExact'
  <2> SUFFICES ASSUME TypeOK, StatusFitsConversion, HoldsExact, [Next]_vars
               PROVE  HoldsExact'
    OBVIOUS
  <2> USE ConstantsAssumption
  <2>1. ASSUME NEW k \in Conversions, CreateConversion(k) PROVE HoldsExact'
    <3>1. \A e \in ItemsOf(k) : status[e] = "absent" /\ status'[e] # "held"
      BY <2>1 DEF CreateConversion, ItemsOf, StatusFitsConversion
    <3>2. \A e \in Earnings \ ItemsOf(k) : status'[e] = status[e]
      BY <2>1 DEF CreateConversion
    <3> QED BY <2>1, <3>1, <3>2, UntouchedHolds DEF CreateConversion
  <2>2. ASSUME NEW k \in Conversions, Complete(k) PROVE HoldsExact'
    BY <2>2, UntouchedHolds DEF Complete
  <2>3. ASSUME NEW k \in Conversions, NEW outcome \in {"cancelled", "no_show"},
               Cancel(k, outcome)
        PROVE  HoldsExact'
    BY <2>3, WithdrawKeepsHolds DEF Cancel, CloseActiveHolds, ItemsOf
  <2>4. ASSUME NEW k \in Conversions, NEW base \in RefundInputs(k), Refund(k, base)
        PROVE  HoldsExact'
    <3> DEFINE unpaid == {e \in DOMAIN base : status[e] \in Unpaid}
    <3>1. unpaid \in SUBSET Earnings
      BY RefundInputType DEF ItemsOf
    <3>2. \A e \in unpaid : status'[e] # "held"
      BY <2>4, <3>1 DEF Refund
    <3>3. ASSUME NEW e \in Earnings \ unpaid
          PROVE  status'[e] = "held" <=> status[e] = "held"
      <4>1. CASE e \in Reversing(base)
        BY <2>4, <3>1, <4>1 DEF Refund, Reversing, PaidOut
      <4>2. CASE e \notin Reversing(base)
        BY <2>4, <3>1, <4>2, HeldAfterFail DEF Refund
      <4> QED BY <4>1, <4>2
    <3>4. activeHold' = activeHold \ unpaid
      BY <2>4 DEF Refund, CloseActiveHolds
    <3> HIDE DEF unpaid
    <3> QED BY <3>1, <3>2, <3>3, <3>4 DEF HoldsExact
  <2>5. ASSUME NEW e \in Earnings, Hold(e) PROVE HoldsExact'
    BY <2>5, WithdrawKeepsHolds DEF Hold
  <2>6. ASSUME NEW e \in Earnings, Release(e) PROVE HoldsExact'
    BY <2>6 DEF Release, StatusAfterHoldRelease, HoldsExact, TypeOK
  <2>7. ASSUME NEW e \in Earnings, Void(e) PROVE HoldsExact'
    BY <2>7, WithdrawKeepsHolds DEF Void, CloseActiveHolds
  <2>8. ASSUME NEW p \in Partners, Suspend(p) PROVE HoldsExact'
    BY <2>8, WithdrawKeepsHolds DEF Suspend
  <2>9. ASSUME NEW p \in Partners, Reactivate(p) PROVE HoldsExact'
    BY <2>9 DEF Reactivate, earningVars, HoldsExact
  <2>10. ASSUME NEW c \in Claims, NEW p \in Partners, NEW selected \in SUBSET Earnings,
                CreateClaim(c, p, selected)
         PROVE  HoldsExact'
    BY <2>10, UntouchedHolds DEF CreateClaim
  <2>11. ASSUME NEW c \in Claims, SimulateSuccess(c) PROVE HoldsExact'
    BY <2>11, UntouchedHolds DEF SimulateSuccess, Simulatable
  <2>12. ASSUME NEW c \in Claims, SimulateFailure(c) PROVE HoldsExact'
    BY <2>12, UntouchedHolds DEF SimulateFailure, Simulatable
  <2>13. ASSUME NEW c \in Claims, RetryClaim(c) PROVE HoldsExact'
    BY <2>13, UntouchedHolds DEF RetryClaim, Retryable
  <2>14. CASE UNCHANGED vars
    BY <2>14 DEF vars, earningVars, HoldsExact
  <2> QED
    BY <2>1, <2>2, <2>3, <2>4, <2>5, <2>6, <2>7, <2>8, <2>9, <2>10, <2>11, <2>12, <2>13, <2>14
       DEF Next, ConversionStep, EarningStep, PartnerStep, ClaimStep
<1> QED BY <1>1, <1>2, TypeCorrect, EarningsFitConversions, PTL DEF Spec

------------------------------------------------------------------------------
(* Payments.                                                               *)

\* PaidOnce is inductive once it is known that claims select earnings that
\* exist, so that their amounts no longer change, and allocate at most that.
PaidInv ==
  /\ PaidOnce
  /\ \A c \in Claims : \A e \in items[c] : status[e] # "absent" /\ payout[c][e] <= Amount(e)

\* Operations that settle no claim and write no accrual or payout.
LEMMA UntouchedPayments ==
  ASSUME TypeOK, PaidInv, TypeOK', UNCHANGED <<items, payout>>,
         \A c \in Claims : claimStatus'[c] = "settled" <=> claimStatus[c] = "settled",
         \A e \in Earnings :
           /\ status[e] # "absent" => status'[e] # "absent" /\ snapshot'[e] = snapshot[e]
           /\ status'[e] \in PaidOut <=> status[e] \in PaidOut
           /\ status[e] \notin PaidOut => ledger'[e] = ledger[e]
           /\ ledger'[e].accrual = ledger[e].accrual
           /\ ledger'[e].payout = ledger[e].payout
  PROVE  PaidInv'
<1>1. ASSUME NEW e \in Earnings, status[e] # "absent" PROVE Amount(e)' = Amount(e)
  BY <1>1 DEF Amount
<1>2. ASSUME NEW c \in Claims, NEW e \in items'[c]
      PROVE  status'[e] # "absent" /\ payout'[c][e] <= Amount(e)'
  <2>1. e \in Earnings /\ e \in items[c]
    BY <1>2 DEF TypeOK
  <2> QED BY <2>1, <1>1 DEF PaidInv
<1>3. ASSUME NEW e \in Earnings
      PROVE  {c \in Claims : claimStatus'[c] = "settled" /\ e \in items'[c]}
               = {c \in Claims : claimStatus[c] = "settled" /\ e \in items[c]}
  OBVIOUS
<1>4. ASSUME NEW e \in Earnings, status'[e] \notin PaidOut
      PROVE  /\ {c \in Claims : claimStatus'[c] = "settled" /\ e \in items'[c]} = {}
             /\ ledger'[e] = NoRows
  BY <1>3, <1>4 DEF PaidInv, PaidOnce
<1>5. ASSUME NEW e \in Earnings, status'[e] \in PaidOut
      PROVE  \E c \in {c \in Claims : claimStatus'[c] = "settled" /\ e \in items'[c]} :
               /\ {d \in Claims : claimStatus'[d] = "settled" /\ e \in items'[d]} = {c}
               /\ ledger'[e].accrual = Amount(e)'
               /\ ledger'[e].payout = payout'[c][e]
               /\ payout'[c][e] <= Amount(e)'
  <2>1. PICK c \in Claims :
          /\ claimStatus[c] = "settled" /\ e \in items[c]
          /\ {d \in Claims : claimStatus[d] = "settled" /\ e \in items[d]} = {c}
          /\ ledger[e].accrual = Amount(e)
          /\ ledger[e].payout = payout[c][e]
          /\ payout[c][e] <= Amount(e)
    BY <1>5 DEF PaidInv, PaidOnce
  <2>2. Amount(e)' = Amount(e)
    BY <1>1, <1>5 DEF PaidOut
  <2> QED BY <2>1, <2>2, <1>3
<1> QED BY <1>2, <1>4, <1>5 DEF PaidInv, PaidOnce

\* Withdrawing earnings settles nothing and touches no paid earning.
LEMMA WithdrawKeepsPayments ==
  ASSUME TypeOK, PaidInv, TypeOK',
         NEW targets \in SUBSET Earnings, NEW new \in {"held", "voided"},
         Withdraw(targets, new), UNCHANGED <<snapshot, ledger>>,
         \A e \in targets : status[e] \notin PaidOut
  PROVE  PaidInv'
<1>1. \A c \in Claims : claimStatus'[c] = "settled" <=> claimStatus[c] = "settled"
  BY DEF Withdraw, FailAffected, Affected, IsOpen, OpenStatuses
<1>2. ASSUME NEW e \in Earnings
      PROVE  /\ status[e] # "absent" => status'[e] # "absent"
             /\ status'[e] \in PaidOut <=> status[e] \in PaidOut
  BY DEF Withdraw, StatusAfterFail, StatusAfterHoldRelease, PaidOut
<1> QED BY <1>1, <1>2, UntouchedPayments DEF Withdraw

\* Settling a claim whose earnings are all reserved pays each of them once.
LEMMA SettlingPaysOnce ==
  ASSUME TypeOK, PaidInv, TypeOK', NEW c \in Claims, SimulateSuccess(c)
  PROVE  PaidInv'
<1>1. /\ items[c] \in SUBSET Earnings
      /\ \A e \in items[c] : status[e] = "reserved"
      /\ UNCHANGED <<items, payout, snapshot>>
  BY DEF SimulateSuccess, Simulatable, TypeOK
<1>2. \A d \in Claims : claimStatus'[d] = "settled" <=> d = c \/ claimStatus[d] = "settled"
  BY DEF SimulateSuccess, TypeOK
<1>3. \A e \in Earnings : Amount(e)' = Amount(e) /\ Amount(e) \in Nat
  BY <1>1, AmountIsNat DEF Amount
<1>4. ASSUME NEW d \in Claims, NEW e \in items'[d]
      PROVE  status'[e] # "absent" /\ payout'[d][e] <= Amount(e)'
  <2>1. e \in Earnings /\ e \in items[d]
    BY <1>1, <1>4 DEF TypeOK
  <2>2. status[e] # "absent" /\ payout[d][e] <= Amount(e)
    BY <2>1 DEF PaidInv
  <2> QED BY <1>1, <1>3, <2>1, <2>2 DEF SimulateSuccess
<1>5. ASSUME NEW e \in Earnings \ items[c]
      PROVE  /\ {d \in Claims : claimStatus'[d] = "settled" /\ e \in items'[d]}
                  = {d \in Claims : claimStatus[d] = "settled" /\ e \in items[d]}
             /\ status'[e] = status[e] /\ ledger'[e] = ledger[e]
  BY <1>1, <1>2, <1>5 DEF SimulateSuccess
<1>6. ASSUME NEW e \in items[c]
      PROVE  /\ {d \in Claims : claimStatus'[d] = "settled" /\ e \in items'[d]} = {c}
             /\ status'[e] = "settled"
             /\ ledger'[e].accrual = Amount(e)
             /\ ledger'[e].payout = payout[c][e]
             /\ payout[c][e] <= Amount(e)
  <2>1. /\ {d \in Claims : claimStatus[d] = "settled" /\ e \in items[d]} = {}
        /\ ledger[e] = NoRows
    BY <1>1, <1>6 DEF PaidInv, PaidOnce, PaidOut
  <2>2. e \in Earnings /\ payout[c][e] \in Nat
    BY <1>1, <1>6 DEF TypeOK
  <2>3. ledger'[e] = [accrual |-> Amount(e), payout |-> payout[c][e], reversal |-> 0]
    BY <1>6, <2>1, <2>2 DEF SimulateSuccess, NoRows
  <2>4. payout[c][e] <= Amount(e)
    BY <1>6 DEF PaidInv
  <2>5. status'[e] = "settled"
    BY <1>6, <2>2 DEF SimulateSuccess
  <2> QED BY <1>1, <1>2, <1>6, <2>1, <2>3, <2>4, <2>5
<1>7. ASSUME NEW e \in Earnings, status'[e] \notin PaidOut
      PROVE  /\ {d \in Claims : claimStatus'[d] = "settled" /\ e \in items'[d]} = {}
             /\ ledger'[e] = NoRows
  BY <1>5, <1>6, <1>7 DEF PaidInv, PaidOnce, PaidOut
<1>8. ASSUME NEW e \in Earnings, status'[e] \in PaidOut
      PROVE  \E d \in {d \in Claims : claimStatus'[d] = "settled" /\ e \in items'[d]} :
               /\ {f \in Claims : claimStatus'[f] = "settled" /\ e \in items'[f]} = {d}
               /\ ledger'[e].accrual = Amount(e)'
               /\ ledger'[e].payout = payout'[d][e]
               /\ payout'[d][e] <= Amount(e)'
  <2>1. CASE e \in items[c]
    BY <1>1, <1>2, <1>3, <1>6, <2>1
  <2>2. CASE e \notin items[c]
    BY <1>1, <1>3, <1>5, <1>8, <2>2 DEF PaidInv, PaidOnce
  <2> QED BY <2>1, <2>2
<1> QED BY <1>4, <1>7, <1>8 DEF PaidInv, PaidOnce

LEMMA PaymentsAreExact == Spec => []PaidInv
<1>1. Init => PaidInv
  BY DEF Init, PaidInv, PaidOnce, PaidOut, NoRows
<1>2. TypeOK /\ TypeOK' /\ StatusFitsConversion /\ PaidInv /\ [Next]_vars => PaidInv'
  <2> SUFFICES ASSUME TypeOK, TypeOK', StatusFitsConversion, PaidInv, [Next]_vars
               PROVE  PaidInv'
    OBVIOUS
  <2> USE ConstantsAssumption
  <2>1. ASSUME NEW k \in Conversions, CreateConversion(k) PROVE PaidInv'
    <3>1. \A e \in ItemsOf(k) :
            status[e] = "absent" /\ status'[e] \in {"needs_rule", "pending"}
      BY <2>1 DEF CreateConversion, ItemsOf, StatusFitsConversion
    <3>2. \A e \in Earnings \ ItemsOf(k) :
            status'[e] = status[e] /\ snapshot'[e] = snapshot[e]
      BY <2>1 DEF CreateConversion
    <3>3. UNCHANGED <<items, payout, claimStatus, ledger>>
      BY <2>1 DEF CreateConversion, claimVars
    <3> QED BY <3>1, <3>2, <3>3, UntouchedPayments DEF PaidOut
  <2>2. ASSUME NEW k \in Conversions, Complete(k) PROVE PaidInv'
    BY <2>2, UntouchedPayments DEF Complete, claimVars, PaidOut
  <2>3. ASSUME NEW k \in Conversions, NEW outcome \in {"cancelled", "no_show"},
               Cancel(k, outcome)
        PROVE  PaidInv'
    BY <2>3, WithdrawKeepsPayments DEF Cancel, ItemsOf, Unpaid, PaidOut
  <2>4. ASSUME NEW k \in Conversions, NEW base \in RefundInputs(k), Refund(k, base)
        PROVE  PaidInv'
    <3> DEFINE unpaid == {e \in DOMAIN base : status[e] \in Unpaid}
    <3>1. DOMAIN base \subseteq Earnings
      BY RefundInputType DEF ItemsOf
    <3>2. \A c \in Claims : claimStatus'[c] = "settled" <=> claimStatus[c] = "settled"
      BY <2>4 DEF Refund, FailAffected, Affected, IsOpen, OpenStatuses
    <3>3. ASSUME NEW e \in Earnings
          PROVE  /\ status[e] # "absent" => status'[e] # "absent"
                 /\ status'[e] \in PaidOut <=> status[e] \in PaidOut
      BY <2>4 DEF Refund, Reversing, StatusAfterFail, StatusAfterHoldRelease, PaidOut, Unpaid
    <3>4. ASSUME NEW e \in Earnings
          PROVE  /\ status[e] \notin PaidOut => ledger'[e] = ledger[e]
                 /\ ledger'[e].accrual = ledger[e].accrual
                 /\ ledger'[e].payout = ledger[e].payout
      <4>1. CASE e \in Reversing(base)
        <5>1. ledger[e] \in [accrual : Nat, payout : Nat, reversal : Nat]
          BY DEF TypeOK
        <5>2. ledger'[e] = [ledger[e] EXCEPT !.reversal =
                              @ + (DesiredReversal(e, base[e]) - reversed[e])]
          BY <2>4, <4>1 DEF Refund
        <5>3. status[e] \in PaidOut
          BY <4>1 DEF Reversing
        <5> QED BY <5>1, <5>2, <5>3
      <4>2. CASE e \notin Reversing(base)
        BY <2>4, <4>2 DEF Refund
      <4> QED BY <4>1, <4>2
    <3>5. UNCHANGED <<items, payout, snapshot>>
      BY <2>4 DEF Refund
    <3> QED BY <3>2, <3>3, <3>4, <3>5, UntouchedPayments
  <2>5. ASSUME NEW e \in Earnings, Hold(e) PROVE PaidInv'
    BY <2>5, WithdrawKeepsPayments
       DEF Hold, CanTransition, EarningTransitions, PaidOut, conversionVars
  <2>6. ASSUME NEW e \in Earnings, Release(e) PROVE PaidInv'
    BY <2>6, UntouchedPayments
       DEF Release, StatusAfterHoldRelease, PaidOut, TypeOK, claimVars, conversionVars
  <2>7. ASSUME NEW e \in Earnings, Void(e) PROVE PaidInv'
    BY <2>7, WithdrawKeepsPayments DEF Void
  <2>8. ASSUME NEW p \in Partners, Suspend(p) PROVE PaidInv'
    BY <2>8, WithdrawKeepsPayments DEF Suspend, PaidOut
  <2>9. ASSUME NEW p \in Partners, Reactivate(p) PROVE PaidInv'
    BY <2>9, UntouchedPayments DEF Reactivate, earningVars, claimVars
  <2>10. ASSUME NEW c \in Claims, NEW p \in Partners, NEW selected \in SUBSET Earnings,
                CreateClaim(c, p, selected)
         PROVE  PaidInv'
    <3>1. /\ claimStatus[c] = "absent" /\ claimStatus' = [claimStatus EXCEPT ![c] = "created"]
          /\ items' = [items EXCEPT ![c] = selected]
          /\ UNCHANGED <<snapshot, ledger>>
          /\ \A e \in selected : status[e] = "eligible"
          /\ status' = [e \in Earnings |-> IF e \in selected THEN "reserved" ELSE status[e]]
      BY <2>10 DEF CreateClaim
    <3>2. \A e \in selected : payout'[c][e] <= Amount(e)
      BY <2>10, AmountIsNat DEF CreateClaim, TypeOK
    <3>3. \A d \in Claims \ {c} : items'[d] = items[d] /\ payout'[d] = payout[d]
      BY <2>10 DEF CreateClaim, TypeOK
    <3>4. \A d \in Claims : /\ claimStatus'[d] = "settled" <=> claimStatus[d] = "settled"
                            /\ claimStatus[d] = "settled" => d # c
      BY <3>1 DEF TypeOK
    <3>5. \A e \in Earnings : Amount(e)' = Amount(e)
      BY <3>1 DEF Amount
    <3>6. ASSUME NEW d \in Claims, NEW e \in items'[d]
          PROVE  status'[e] # "absent" /\ payout'[d][e] <= Amount(e)'
      <4>1. CASE d = c
        <5>1. e \in selected
          BY <3>1, <3>6, <4>1 DEF TypeOK
        <5>2. status'[e] # "absent" /\ Amount(e)' = Amount(e)
          BY <3>1, <3>5, <5>1
        <5> QED BY <3>2, <4>1, <5>1, <5>2
      <4>2. CASE d # c
        <5>1. e \in Earnings /\ e \in items[d]
          BY <3>3, <3>6, <4>2 DEF TypeOK
        <5> QED BY <3>1, <3>3, <3>5, <4>2, <5>1 DEF PaidInv
      <4> QED BY <4>1, <4>2
    <3>7. ASSUME NEW e \in Earnings
          PROVE  {d \in Claims : claimStatus'[d] = "settled" /\ e \in items'[d]}
                   = {d \in Claims : claimStatus[d] = "settled" /\ e \in items[d]}
      BY <3>3, <3>4
    <3>8. \A e \in Earnings : status'[e] \in PaidOut <=> status[e] \in PaidOut
      BY <3>1 DEF PaidOut
    <3>9. ASSUME NEW e \in Earnings, status'[e] \in PaidOut
          PROVE  \E d \in {d \in Claims : claimStatus'[d] = "settled" /\ e \in items'[d]} :
                   /\ {f \in Claims : claimStatus'[f] = "settled" /\ e \in items'[f]} = {d}
                   /\ ledger'[e].accrual = Amount(e)'
                   /\ ledger'[e].payout = payout'[d][e]
                   /\ payout'[d][e] <= Amount(e)'
      <4>1. PICK d \in Claims :
              /\ claimStatus[d] = "settled" /\ e \in items[d]
              /\ {f \in Claims : claimStatus[f] = "settled" /\ e \in items[f]} = {d}
              /\ ledger[e].accrual = Amount(e)
              /\ ledger[e].payout = payout[d][e]
              /\ payout[d][e] <= Amount(e)
        BY <3>8, <3>9 DEF PaidInv, PaidOnce
      <4> QED BY <3>1, <3>3, <3>4, <3>5, <3>7, <4>1
    <3>10. ASSUME NEW e \in Earnings, status'[e] \notin PaidOut
           PROVE  /\ {d \in Claims : claimStatus'[d] = "settled" /\ e \in items'[d]} = {}
                  /\ ledger'[e] = NoRows
      BY <3>1, <3>7, <3>8, <3>10 DEF PaidInv, PaidOnce
    <3> QED BY <3>6, <3>9, <3>10 DEF PaidInv, PaidOnce
  <2>11. ASSUME NEW c \in Claims, SimulateSuccess(c) PROVE PaidInv'
    BY <2>11, SettlingPaysOnce
  <2>12. ASSUME NEW c \in Claims, SimulateFailure(c) PROVE PaidInv'
    BY <2>12, UntouchedPayments DEF SimulateFailure, Simulatable, PaidOut, TypeOK
  <2>13. ASSUME NEW c \in Claims, RetryClaim(c) PROVE PaidInv'
    BY <2>13, UntouchedPayments DEF RetryClaim, Retryable, PaidOut, TypeOK
  <2>14. CASE UNCHANGED vars
    BY <2>14, UntouchedPayments DEF vars, earningVars, claimVars
  <2> QED
    BY <2>1, <2>2, <2>3, <2>4, <2>5, <2>6, <2>7, <2>8, <2>9, <2>10, <2>11, <2>12, <2>13, <2>14
       DEF Next, ConversionStep, EarningStep, PartnerStep, ClaimStep
<1> QED BY <1>1, <1>2, TypeCorrect, EarningsFitConversions, PTL DEF Spec

\* Every earning is paid at most once, by the one settled claim that selects it,
\* with one accrual of its amount and the payout that claim allocated
\* (simulate in claims.service.ts), for every number of claims and retries.
THEOREM EarningsArePaidOnce == Spec => []PaidOnce
<1>1. PaidInv => PaidOnce
  BY DEF PaidInv
<1> QED BY <1>1, PaymentsAreExact, PTL

\* No step rewrites the payment of an earning: the reversals of a refund are the
\* only rows that are added after it, and they only grow.
THEOREM PaymentsStayHistory == Spec => PaymentsAreHistory
<1> DEFINE Kept(e) == ledger[e] # NoRows =>
                        /\ ledger'[e].accrual = ledger[e].accrual
                        /\ ledger'[e].payout = ledger[e].payout
                        /\ ledger'[e].reversal >= ledger[e].reversal
<1>1. TypeOK /\ PaidOnce /\ [Next]_vars => \A e \in Earnings : Kept(e)
  <2> SUFFICES ASSUME TypeOK, PaidOnce, [Next]_vars, NEW e \in Earnings PROVE Kept(e)
    OBVIOUS
  <2>1. ledger[e] \in [accrual : Nat, payout : Nat, reversal : Nat] /\ reversed[e] \in Nat
    BY DEF TypeOK
  <2>2. CASE ledger'[e] = ledger[e]
    BY <2>1, <2>2
  <2>3. ASSUME NEW k \in Conversions, NEW base \in RefundInputs(k), Refund(k, base)
        PROVE  Kept(e)
    <3>1. CASE e \in Reversing(base)
      <4>1. ledger'[e] = [ledger[e] EXCEPT !.reversal =
                            @ + (DesiredReversal(e, base[e]) - reversed[e])]
        BY <2>3, <3>1 DEF Refund
      <4>2. base[e] \in Nat
        BY <3>1, RefundInputType DEF Reversing
      <4>3. DesiredReversal(e, base[e]) \in Nat
        BY <4>2, DesiredReversalIsNat
      <4>4. DesiredReversal(e, base[e]) > reversed[e]
        BY <3>1 DEF Reversing
      <4>5. /\ ledger'[e].accrual = ledger[e].accrual
            /\ ledger'[e].payout = ledger[e].payout
            /\ ledger'[e].reversal
                 = ledger[e].reversal + (DesiredReversal(e, base[e]) - reversed[e])
        BY <2>1, <4>1
      <4>6. ASSUME NEW r \in Nat, NEW d \in Nat, NEW old \in Nat, d > old
            PROVE  r + (d - old) >= r
        BY <4>6
      <4> QED BY <2>1, <4>3, <4>4, <4>5, <4>6
    <3>2. CASE e \notin Reversing(base)
      BY <2>2, <2>3, <3>2 DEF Refund
    <3> QED BY <3>1, <3>2
  <2>4. ASSUME NEW c \in Claims, SimulateSuccess(c) PROVE Kept(e)
    <3>1. CASE e \in items[c]
      BY <2>4, <3>1 DEF SimulateSuccess, Simulatable, PaidOnce, PaidOut
    <3>2. CASE e \notin items[c]
      BY <2>2, <2>4, <3>2 DEF SimulateSuccess
    <3> QED BY <3>1, <3>2
  <2>5. CASE UNCHANGED ledger
    BY <2>2, <2>5
  <2> QED
    BY <2>3, <2>4, <2>5
       DEF Next, ConversionStep, EarningStep, PartnerStep, ClaimStep, CreateConversion,
           Complete, Cancel, Hold, Release, Void, Suspend, Reactivate, CreateClaim,
           SimulateFailure, RetryClaim, vars
<1> QED BY <1>1, TypeCorrect, EarningsArePaidOnce, PTL DEF Spec, PaymentsAreHistory

------------------------------------------------------------------------------
(* Claims implement the abstract reservation.                               *)

\* A claim that does not exist yet has no items, and no claim stays processing.
FreshClaims == \A c \in Claims : /\ claimStatus[c] = "absent" => items[c] = {}
                                 /\ claimStatus[c] # "processing"

\* Only creating a claim writes items, no claim becomes absent again, and the
\* processing status does not outlive the transaction of a simulated payout.
THEOREM ClaimsStartFresh == Spec => []FreshClaims
<1>1. Init => FreshClaims
  BY DEF Init, FreshClaims
<1>2. TypeOK /\ FreshClaims /\ [Next]_vars => FreshClaims'
  <2> SUFFICES ASSUME TypeOK, FreshClaims, [Next]_vars PROVE FreshClaims'
    OBVIOUS
  <2>1. CASE UNCHANGED items /\ \A c \in Claims :
                claimStatus'[c] \in {claimStatus[c], "created", "settled", "failed"}
    BY <2>1 DEF FreshClaims
  <2>2. ASSUME NEW targets, FailAffected(targets), NEW c \in Claims
        PROVE  claimStatus'[c] \in {claimStatus[c], "failed"}
    BY <2>2 DEF FailAffected
  <2>3. ASSUME NEW c \in Claims, NEW p \in Partners, NEW selected \in SUBSET Earnings,
               CreateClaim(c, p, selected)
        PROVE  FreshClaims'
    BY <2>3 DEF CreateClaim, FreshClaims, TypeOK
  <2>4. ASSUME NEW c \in Claims, SimulateSuccess(c) \/ SimulateFailure(c) \/ RetryClaim(c)
        PROVE  FreshClaims'
    BY <2>1, <2>4 DEF SimulateSuccess, SimulateFailure, RetryClaim, TypeOK
  <2>5. ASSUME NEW k \in Conversions, ConversionStep(k) PROVE FreshClaims'
    BY <2>1, <2>2, <2>5
       DEF ConversionStep, CreateConversion, Complete, Cancel, Refund, Withdraw, claimVars
  <2>6. ASSUME NEW e \in Earnings, EarningStep(e) PROVE FreshClaims'
    BY <2>1, <2>2, <2>6 DEF EarningStep, Hold, Release, Void, Withdraw, claimVars
  <2>7. ASSUME NEW p \in Partners, PartnerStep(p) PROVE FreshClaims'
    BY <2>1, <2>2, <2>7 DEF PartnerStep, Suspend, Reactivate, Withdraw, claimVars
  <2>8. CASE UNCHANGED vars
    BY <2>1, <2>8 DEF vars, claimVars
  <2> QED BY <2>3, <2>4, <2>5, <2>6, <2>7, <2>8 DEF Next, ClaimStep
<1> QED BY <1>1, <1>2, TypeCorrect, PTL DEF Spec

\* The refinement mapping's view of a state.
Holding == [c \in Claims |-> IF IsOpen(c) THEN items[c] ELSE {}]
Spent == {e \in Earnings : status[e] \in PaidOut}

\* Failing the affected claims gives their reservations back, all at once.
LEMMA FailIsGiveBack ==
  ASSUME TypeOK, ReservationsExact, NEW targets \in SUBSET Earnings, FailAffected(targets),
         UNCHANGED items, Spent' = Spent
  PROVE  Lock!Next \/ UNCHANGED Lock!vars
<1>1. PICK lost \in SUBSET Claims : lost = Affected(targets)
  BY DEF Affected
<1>2. \A c \in Claims : IsOpen(c)' <=> IsOpen(c) /\ c \notin lost
  BY <1>1 DEF FailAffected, IsOpen, OpenStatuses, TypeOK
<1>3. Holding' = [c \in Claims |-> IF c \in lost THEN {} ELSE Holding[c]]
  BY <1>2 DEF Holding
<1>4. \A c \in lost : Holding[c] # {}
  BY <1>1 DEF Holding, Affected, ReservationsExact
<1>5. CASE lost = {}
  <2>1. Holding' = Holding
    BY <1>3, <1>5 DEF Holding
  <2> QED BY <2>1 DEF Lock!vars, Holding, Spent
<1>6. CASE lost # {}
  <2>1. Lock!GiveBack(lost)
    BY <1>3, <1>4, <1>6 DEF Lock!GiveBack, Holding, Spent
  <2> QED BY <2>1 DEF Lock!Next
<1> QED BY <1>5, <1>6

\* Opening a claim takes its whole selection, all of which is free.
LEMMA OpeningIsTake ==
  ASSUME TypeOK, ReservationsExact, NEW c \in Claims, NEW selected \in SUBSET Earnings,
         claimStatus' = [claimStatus EXCEPT ![c] = "created"],
         items' = [items EXCEPT ![c] = selected],
         status' = [e \in Earnings |-> IF e \in selected THEN "reserved" ELSE status[e]],
         ~IsOpen(c), selected # {}, items[c] \in {{}, selected},
         \A e \in selected : status[e] = "eligible"
  PROVE  Lock!Next
<1>1. \A d \in Claims : IsOpen(d)' <=> d = c \/ IsOpen(d)
  BY DEF IsOpen, OpenStatuses, TypeOK
<1>2. \A d \in Claims : items'[d] = IF d = c THEN selected ELSE items[d]
  BY DEF TypeOK
<1>3. Holding' = [Holding EXCEPT ![c] = selected]
  BY <1>1, <1>2 DEF Holding
<1>4. Spent' = Spent
  BY DEF Spent, PaidOut
<1>5. ASSUME NEW e \in selected PROVE e \notin Spent /\ \A d \in Claims : e \notin Holding[d]
  BY DEF Spent, PaidOut, Holding, ReservationsExact
<1>6. selected \subseteq Lock!Free
  BY <1>5 DEF Lock!Free, Holding, Spent
<1>7. Holding[c] = {}
  BY DEF Holding
<1>8. Lock!Take(c, selected)
  BY <1>3, <1>4, <1>6, <1>7 DEF Lock!Take, Holding, Spent
<1> QED BY <1>8 DEF Lock!Next

\* Steps that concern no claim.
LEMMA OtherStepsStutter ==
  ASSUME UNCHANGED <<claimStatus, items>>, Spent' = Spent
  PROVE  UNCHANGED Lock!vars
BY DEF Lock!vars, Spent, IsOpen

\* ClaimLedger implements Reservation: holds, voids, suspensions, cancellations,
\* refunds, failed payouts and retries only ever take, give back or spend whole
\* selections, and an earning that was spent is never taken again.
THEOREM ClaimsImplementReservation == Spec => ImplementsReservation
<1>1. Init => Lock!Init
  BY DEF Init, Lock!Init, IsOpen, OpenStatuses, PaidOut
<1>2. /\ TypeOK /\ StatusFitsConversion /\ ReservationsExact /\ FreshClaims
      /\ [Next]_vars
      => Lock!Next \/ UNCHANGED Lock!vars
  <2> SUFFICES ASSUME TypeOK, StatusFitsConversion, ReservationsExact, FreshClaims, [Next]_vars
               PROVE  Lock!Next \/ UNCHANGED Lock!vars
    OBVIOUS
  <2> USE ConstantsAssumption
  <2>1. ASSUME NEW k \in Conversions, CreateConversion(k) PROVE UNCHANGED Lock!vars
    <3>1. \A e \in ItemsOf(k) : status[e] = "absent" /\ status'[e] \in {"needs_rule", "pending"}
      BY <2>1 DEF CreateConversion, ItemsOf, StatusFitsConversion
    <3>2. \A e \in Earnings \ ItemsOf(k) : status'[e] = status[e]
      BY <2>1 DEF CreateConversion
    <3>3. Spent' = Spent
      BY <3>1, <3>2 DEF Spent, PaidOut
    <3> QED BY <2>1, <3>3, OtherStepsStutter DEF CreateConversion, claimVars
  <2>2. ASSUME NEW k \in Conversions, Complete(k) PROVE UNCHANGED Lock!vars
    <3>1. Spent' = Spent
      BY <2>2 DEF Complete, Spent, PaidOut
    <3> QED BY <2>2, <3>1, OtherStepsStutter DEF Complete, claimVars
  <2>3. ASSUME NEW k \in Conversions, NEW base \in RefundInputs(k), Refund(k, base)
        PROVE  Lock!Next \/ UNCHANGED Lock!vars
    <3> DEFINE unpaid == {e \in DOMAIN base : status[e] \in Unpaid}
    <3>1. unpaid \in SUBSET Earnings
      BY RefundInputType DEF ItemsOf
    <3>2. Spent' = Spent
      BY <2>3 DEF Spent, Refund, Reversing, StatusAfterFail, StatusAfterHoldRelease,
                  PaidOut, Unpaid
    <3>3. FailAffected(unpaid) /\ UNCHANGED items
      BY <2>3 DEF Refund
    <3> HIDE DEF unpaid
    <3> QED BY <3>1, <3>2, <3>3, FailIsGiveBack
  <2>4. ASSUME NEW targets \in SUBSET Earnings, NEW new \in {"held", "voided"},
               Withdraw(targets, new), \A e \in targets : status[e] \notin PaidOut
        PROVE  Lock!Next \/ UNCHANGED Lock!vars
    <3>1. Spent' = Spent
      BY <2>4 DEF Spent, Withdraw, StatusAfterFail, StatusAfterHoldRelease, PaidOut
    <3> QED BY <2>4, <3>1, FailIsGiveBack DEF Withdraw
  <2>5. ASSUME NEW k \in Conversions, NEW outcome \in {"cancelled", "no_show"},
               Cancel(k, outcome)
        PROVE  Lock!Next \/ UNCHANGED Lock!vars
    BY <2>4, <2>5 DEF Cancel, ItemsOf, Unpaid, PaidOut
  <2>6. ASSUME NEW e \in Earnings, Hold(e) PROVE Lock!Next \/ UNCHANGED Lock!vars
    BY <2>4, <2>6 DEF Hold, CanTransition, EarningTransitions, PaidOut
  <2>7. ASSUME NEW e \in Earnings, Void(e) PROVE Lock!Next \/ UNCHANGED Lock!vars
    BY <2>4, <2>7 DEF Void
  <2>8. ASSUME NEW p \in Partners, Suspend(p) PROVE Lock!Next \/ UNCHANGED Lock!vars
    BY <2>4, <2>8 DEF Suspend, PaidOut
  <2>9. ASSUME NEW e \in Earnings, Release(e) PROVE UNCHANGED Lock!vars
    <3>1. Spent' = Spent
      BY <2>9 DEF Release, StatusAfterHoldRelease, Spent, PaidOut, TypeOK
    <3> QED BY <2>9, <3>1, OtherStepsStutter DEF Release, claimVars
  <2>10. ASSUME NEW p \in Partners, Reactivate(p) PROVE UNCHANGED Lock!vars
    BY <2>10, OtherStepsStutter DEF Reactivate, earningVars, claimVars, Spent
  <2>11. ASSUME NEW c \in Claims, NEW p \in Partners, NEW selected \in SUBSET Earnings,
                CreateClaim(c, p, selected)
         PROVE  Lock!Next
    BY <2>11, OpeningIsTake DEF CreateClaim, FreshClaims, IsOpen, OpenStatuses
  <2>12. ASSUME NEW c \in Claims, RetryClaim(c) PROVE Lock!Next
    <3>1. items' = [items EXCEPT ![c] = items[c]] /\ items[c] \in SUBSET Earnings
      BY <2>12 DEF RetryClaim, TypeOK
    <3> QED BY <2>12, <3>1, OpeningIsTake DEF RetryClaim, Retryable, IsOpen, OpenStatuses
  <2>13. ASSUME NEW c \in Claims, SimulateSuccess(c) PROVE Lock!Next
    <3>1. /\ items[c] \in SUBSET Earnings /\ items[c] # {} /\ IsOpen(c)
          /\ UNCHANGED items
      BY <2>13 DEF SimulateSuccess, Simulatable, IsOpen, OpenStatuses, TypeOK
    <3>2. \A d \in Claims : IsOpen(d)' <=> IsOpen(d) /\ d # c
      BY <2>13 DEF SimulateSuccess, IsOpen, OpenStatuses, TypeOK
    <3>3. Holding' = [Holding EXCEPT ![c] = {}] /\ Holding[c] = items[c]
      BY <3>1, <3>2 DEF Holding
    <3>4. Spent' = Spent \cup items[c]
      BY <2>13, <3>1 DEF SimulateSuccess, Spent, PaidOut
    <3>5. Lock!Spend(c)
      BY <3>1, <3>3, <3>4 DEF Lock!Spend, Holding, Spent
    <3> QED BY <3>5 DEF Lock!Next
  <2>14. ASSUME NEW c \in Claims, SimulateFailure(c) PROVE Lock!Next
    <3>1. items[c] # {} /\ IsOpen(c) /\ UNCHANGED items
      BY <2>14 DEF SimulateFailure, Simulatable, IsOpen, OpenStatuses
    <3>2. \A d \in Claims : IsOpen(d)' <=> IsOpen(d) /\ d # c
      BY <2>14 DEF SimulateFailure, IsOpen, OpenStatuses, TypeOK
    <3>3. /\ Holding' = [d \in Claims |-> IF d \in {c} THEN {} ELSE Holding[d]]
          /\ Holding[c] = items[c]
      BY <3>1, <3>2 DEF Holding
    <3>4. Spent' = Spent
      BY <2>14 DEF SimulateFailure, Simulatable, Spent, PaidOut, TypeOK
    <3>5. Lock!GiveBack({c})
      BY <3>1, <3>3, <3>4 DEF Lock!GiveBack, Holding, Spent
    <3> QED BY <3>5 DEF Lock!Next
  <2>15. CASE UNCHANGED vars
    BY <2>15, OtherStepsStutter DEF vars, earningVars, claimVars, Spent
  <2> QED
    BY <2>1, <2>2, <2>3, <2>5, <2>6, <2>7, <2>8, <2>9, <2>10, <2>11, <2>12, <2>13, <2>14, <2>15
       DEF Next, ConversionStep, EarningStep, PartnerStep, ClaimStep
<1> QED
  BY <1>1, <1>2, TypeCorrect, EarningsFitConversions, ReservationsAreExact, ClaimsStartFresh, PTL
     DEF Spec, ImplementsReservation, Lock!Spec

------------------------------------------------------------------------------
(* Transition tables.                                                       *)

\* Failing claims only moves open claims, and other earnings only out of reserved.
LEMMA FailIsLegal ==
  ASSUME TypeOK, FreshClaims, NEW targets \in SUBSET Earnings
  PROVE  /\ FailAffected(targets) =>
              \A c \in Claims : Moves(ClaimTransitions, claimStatus[c], claimStatus'[c])
         /\ \A e \in Earnings : Moves(EarningTransitions, status[e], StatusAfterFail(targets, e))
<1>1. ASSUME FailAffected(targets), NEW c \in Claims
      PROVE  Moves(ClaimTransitions, claimStatus[c], claimStatus'[c])
  BY <1>1 DEF FailAffected, Affected, IsOpen, OpenStatuses, FreshClaims,
              Moves, CanTransition, ClaimTransitions
<1>2. ASSUME NEW e \in Earnings
      PROVE  Moves(EarningTransitions, status[e], StatusAfterFail(targets, e))
  <2>1. CASE StatusAfterFail(targets, e) = status[e]
    BY <2>1 DEF Moves
  <2>2. CASE status[e] = "reserved" /\ StatusAfterFail(targets, e) \in {"pending", "eligible", "voided"}
    BY <2>2 DEF Moves, CanTransition, EarningTransitions
  <2> QED BY <2>1, <2>2 DEF StatusAfterFail, StatusAfterHoldRelease
<1> QED BY <1>1, <1>2

\* Every status is unpaid, paid out, voided or absent, so each earning can be
\* voided or reversed as far as its table allows.
LEMMA LegalMoves ==
  /\ \A s \in Unpaid : Moves(EarningTransitions, s, "voided")
  /\ \A s \in PaidOut : Moves(EarningTransitions, s, "reversed")
  /\ \A s \in {"pending", "eligible", "reserved"} : Moves(EarningTransitions, s, "held")
  /\ \A s : Moves(EarningTransitions, s, s) /\ Moves(ConversionTransitions, s, s)
            /\ Moves(ClaimTransitions, s, s)
BY DEF Unpaid, PaidOut, Moves, CanTransition, EarningTransitions

\* Services that update rows without consulting the tables of domain/lifecycle.ts
\* (suspension, cancellation, refund, failing claims) still follow them.
THEOREM TransitionsAreLegal == Spec => LegalTransitions
<1> DEFINE EarningsLegal == \A e \in Earnings : Moves(EarningTransitions, status[e], status'[e])
           ConversionsLegal ==
             \A k \in Conversions : Moves(ConversionTransitions, convStatus[k], convStatus'[k])
           ClaimsLegal == \A c \in Claims : Moves(ClaimTransitions, claimStatus[c], claimStatus'[c])
           Legal == EarningsLegal /\ ConversionsLegal /\ ClaimsLegal
<1>1. TypeOK /\ StatusFitsConversion /\ FreshClaims /\ [Next]_vars => Legal
  <2> SUFFICES ASSUME TypeOK, StatusFitsConversion, FreshClaims, [Next]_vars PROVE Legal
    OBVIOUS
  <2> USE ConstantsAssumption
  <2>1. ASSUME UNCHANGED status PROVE EarningsLegal
    BY <2>1, LegalMoves
  <2>2. ASSUME UNCHANGED convStatus PROVE ConversionsLegal
    BY <2>2, LegalMoves
  <2>3. ASSUME UNCHANGED claimStatus PROVE ClaimsLegal
    BY <2>3, LegalMoves
  <2>4. ASSUME NEW k \in Conversions, NEW to,
               convStatus' = [convStatus EXCEPT ![k] = to],
               Moves(ConversionTransitions, convStatus[k], to)
        PROVE  ConversionsLegal
    BY <2>4, LegalMoves DEF TypeOK
  <2>5. ASSUME NEW c \in Claims, NEW to,
               claimStatus' = [claimStatus EXCEPT ![c] = to],
               Moves(ClaimTransitions, claimStatus[c], to)
        PROVE  ClaimsLegal
    BY <2>5, LegalMoves DEF TypeOK
  <2>6. ASSUME NEW targets \in SUBSET Earnings, NEW new, Withdraw(targets, new),
               \A e \in targets : Moves(EarningTransitions, status[e], new)
        PROVE  EarningsLegal /\ ClaimsLegal
    BY <2>6, FailIsLegal DEF Withdraw
  <2>7. ASSUME NEW k \in Conversions, CreateConversion(k) PROVE Legal
    <3>1. ASSUME NEW e \in Earnings
          PROVE  status[e] = "absent" \/ status'[e] = status[e]
      BY <2>7 DEF CreateConversion, ItemsOf, StatusFitsConversion
    <3>2. EarningsLegal
      BY <3>1 DEF Moves
    <3>3. ConversionsLegal
      BY <2>4, <2>7 DEF CreateConversion, Moves
    <3> QED BY <2>3, <2>7, <3>2, <3>3 DEF CreateConversion, claimVars
  <2>8. ASSUME NEW k \in Conversions, Complete(k) PROVE Legal
    <3>1. EarningsLegal
      BY <2>8 DEF Complete, Moves, CanTransition, EarningTransitions
    <3>2. ConversionsLegal
      BY <2>4, <2>8 DEF Complete, Moves, CanTransition, ConversionTransitions
    <3> QED BY <2>3, <2>8, <3>1, <3>2 DEF Complete, claimVars
  <2>9. ASSUME NEW k \in Conversions, NEW outcome \in {"cancelled", "no_show"},
               Cancel(k, outcome)
        PROVE  Legal
    <3>1. ConversionsLegal
      BY <2>4, <2>9 DEF Cancel, Moves, CanTransition, ConversionTransitions
    <3> QED BY <2>6, <2>9, <3>1, LegalMoves DEF Cancel, ItemsOf
  <2>10. ASSUME NEW k \in Conversions, NEW base \in RefundInputs(k), Refund(k, base)
         PROVE  Legal
    <3> DEFINE unpaid == {e \in DOMAIN base : status[e] \in Unpaid}
    <3>1. unpaid \in SUBSET Earnings
      BY RefundInputType DEF ItemsOf
    <3>2. ASSUME NEW e \in Earnings PROVE Moves(EarningTransitions, status[e], status'[e])
      <4>1. CASE e \in unpaid
        BY <2>10, <4>1, LegalMoves DEF Refund
      <4>2. CASE e \in Reversing(base) /\ e \notin unpaid
        BY <2>10, <4>2, LegalMoves DEF Refund, Reversing
      <4>3. CASE e \notin Reversing(base) /\ e \notin unpaid
        BY <2>10, <3>1, <4>3, FailIsLegal DEF Refund
      <4> QED BY <4>1, <4>2, <4>3
    <3>3. ClaimsLegal
      BY <2>10, <3>1, FailIsLegal DEF Refund
    <3>4. Moves(ConversionTransitions, convStatus[k], StatusAfterRefund(k, base))
      BY <2>10 DEF Refund, Moves
    <3>5. ConversionsLegal
      BY <2>4, <2>10, <3>4 DEF Refund
    <3> QED BY <3>2, <3>3, <3>5
  <2>11. ASSUME NEW e \in Earnings, Hold(e) PROVE Legal
    BY <2>2, <2>6, <2>11 DEF Hold, Moves, conversionVars
  <2>12. ASSUME NEW e \in Earnings, Release(e) PROVE Legal
    <3>1. EarningsLegal
      BY <2>12 DEF Release, TypeOK, Moves
    <3> QED BY <2>2, <2>3, <2>12, <3>1 DEF Release, conversionVars, claimVars
  <2>13. ASSUME NEW e \in Earnings, Void(e) PROVE Legal
    BY <2>2, <2>6, <2>13 DEF Void, Moves, conversionVars
  <2>14. ASSUME NEW p \in Partners, Suspend(p) PROVE Legal
    <3>1. PICK targets \in SUBSET Earnings :
            /\ Withdraw(targets, "held")
            /\ \A e \in targets : status[e] \in {"pending", "eligible", "reserved"}
      BY <2>14 DEF Suspend
    <3>2. EarningsLegal /\ ClaimsLegal
      BY <2>6, <3>1, LegalMoves
    <3> QED BY <2>2, <2>14, <3>2 DEF Suspend
  <2>15. ASSUME NEW p \in Partners, Reactivate(p) PROVE Legal
    BY <2>1, <2>2, <2>3, <2>15 DEF Reactivate, earningVars, claimVars
  <2>16. ASSUME NEW c \in Claims, NEW p \in Partners, NEW selected \in SUBSET Earnings,
                CreateClaim(c, p, selected)
         PROVE  Legal
    <3>1. EarningsLegal
      BY <2>16 DEF CreateClaim, Moves, CanTransition, EarningTransitions
    <3>2. ClaimsLegal
      BY <2>5, <2>16 DEF CreateClaim, Moves
    <3> QED BY <2>2, <2>16, <3>1, <3>2 DEF CreateClaim, conversionVars
  <2>17. ASSUME NEW c \in Claims, SimulateSuccess(c) \/ SimulateFailure(c) PROVE Legal
    <3>1. EarningsLegal
      BY <2>17 DEF SimulateSuccess, SimulateFailure, Simulatable, Moves, CanTransition,
                   EarningTransitions
    <3>2. ClaimsLegal
      <4>1. /\ Moves(ClaimTransitions, claimStatus[c], "settled")
            /\ Moves(ClaimTransitions, claimStatus[c], "failed")
        BY <2>17 DEF SimulateSuccess, SimulateFailure, Simulatable, Moves, CanTransition,
                     ClaimTransitions
      <4> QED BY <2>5, <2>17, <4>1 DEF SimulateSuccess, SimulateFailure
    <3> QED BY <2>2, <2>17, <3>1, <3>2 DEF SimulateSuccess, SimulateFailure, conversionVars
  <2>18. ASSUME NEW c \in Claims, RetryClaim(c) PROVE Legal
    <3>1. EarningsLegal
      BY <2>18 DEF RetryClaim, Retryable, Moves, CanTransition, EarningTransitions
    <3>2. ClaimsLegal
      BY <2>5, <2>18 DEF RetryClaim, Retryable, Moves, CanTransition, ClaimTransitions
    <3> QED BY <2>2, <2>18, <3>1, <3>2 DEF RetryClaim, conversionVars
  <2>19. CASE UNCHANGED vars
    BY <2>1, <2>2, <2>3, <2>19 DEF vars, conversionVars, earningVars, claimVars
  <2> QED
    BY <2>7, <2>8, <2>9, <2>10, <2>11, <2>12, <2>13, <2>14, <2>15, <2>16, <2>17, <2>18, <2>19
       DEF Next, ConversionStep, EarningStep, PartnerStep, ClaimStep
<1> QED
  BY <1>1, TypeCorrect, EarningsFitConversions, ClaimsStartFresh, PTL DEF Spec, LegalTransitions

------------------------------------------------------------------------------
(* Refunds.                                                                *)

\* Rounding half up keeps the order of the bases.
LEMMA PercentageGrows ==
  ASSUME NEW a \in Nat, NEW b \in Nat, a <= b, NEW basisPoints \in Nat
  PROVE  CalculatePercentage(a, basisPoints) <= CalculatePercentage(b, basisPoints)
<1>1. PICK d \in Nat : b = a + d
  <2>1. b - a \in Nat /\ b = a + (b - a)
    OBVIOUS
  <2> QED BY <2>1
<1>2. a * basisPoints \in Nat /\ d * basisPoints \in Nat
  OBVIOUS
<1>3. b * basisPoints = a * basisPoints + d * basisPoints
  BY <1>1
<1>4. ASSUME NEW m \in Nat, NEW n \in Nat
      PROVE  (m + 5000) \div 10000 <= (m + n + 5000) \div 10000
  OBVIOUS
<1> QED BY <1>2, <1>3, <1>4 DEF CalculatePercentage

\* A larger refunded base never asks for less to be reversed.
LEMMA DesiredReversalGrows ==
  ASSUME TypeOK, NEW e \in Earnings, NEW a \in Nat, NEW b \in Nat, a <= b
  PROVE  DesiredReversal(e, a) <= DesiredReversal(e, b)
<1>1. CalculateCommission(snapshot[e], a) \in Nat /\ CalculateCommission(snapshot[e], b) \in Nat
  BY CommissionIsNat DEF TypeOK
<1>2. CalculateCommission(snapshot[e], a) <= CalculateCommission(snapshot[e], b)
  <2>1. snapshot[e] \in Rule \/ snapshot[e] = NoRule
    BY DEF TypeOK
  <2>2. snapshot[e].value \in Nat
    BY <2>1, RuleValueIsNat DEF NoRule
  <2> QED BY <1>1, <2>2, PercentageGrows DEF CalculateCommission
<1> QED BY <1>1, <1>2, AmountIsNat DEF DesiredReversal, Smaller

\* The bases of a refund's input are positive.
LEMMA RefundIsPositive ==
  ASSUME NEW k \in Conversions, NEW base \in RefundInputs(k)
  PROVE  /\ DOMAIN base # {}
         /\ \A e \in DOMAIN base : base[e] > 0
<1>1. PICK targets \in (SUBSET ItemsOf(k)) \ {{}} :
        base \in [targets -> UNION {1..Gross[e] : e \in targets}]
  BY DEF RefundInputs
<1>2. \A e \in targets : Gross[e] \in Nat
  BY ConstantsAssumption DEF ItemsOf
<1>3. \A n \in UNION {1..Gross[e] : e \in targets} : n > 0
  BY <1>2
<1> QED BY <1>1, <1>3

\* Operations that refund nothing: what is paid or voided stays as it is, and no
\* earning becomes reversed.
LEMMA UntouchedReversals ==
  ASSUME TypeOK, ReversalMatchesRefund, UNCHANGED <<refunded, reversed>>,
         \A e \in Earnings :
           /\ ledger'[e].reversal = ledger[e].reversal
           /\ status[e] \in PaidOut \cup {"voided"} =>
                status'[e] = status[e] /\ snapshot'[e] = snapshot[e]
           /\ status[e] \notin PaidOut => status'[e] # "reversed"
  PROVE  ReversalMatchesRefund'
<1> SUFFICES ASSUME NEW e \in Earnings
             PROVE  /\ ledger'[e].reversal = reversed'[e]
                    /\ status'[e] = "reversed" <=> reversed'[e] > 0
                    /\ status'[e] \in PaidOut =>
                         reversed'[e] = IF refunded'[e] = 0
                                        THEN 0 ELSE DesiredReversal(e, refunded[e])'
                    /\ refunded'[e] > 0 => status'[e] \in PaidOut \cup {"voided"}
  BY DEF ReversalMatchesRefund
<1>1. CASE status[e] \in PaidOut \cup {"voided"}
  <2>1. DesiredReversal(e, refunded[e])' = DesiredReversal(e, refunded[e])
    BY <1>1 DEF DesiredReversal, Amount
  <2> QED BY <1>1, <2>1 DEF ReversalMatchesRefund, PaidOut
<1>2. CASE status[e] \notin PaidOut \cup {"voided"}
  <2>1. ledger[e].reversal = reversed[e] /\ reversed[e] = 0 /\ refunded[e] = 0
    BY <1>2 DEF TypeOK, ReversalMatchesRefund, PaidOut
  <2> QED BY <1>2, <2>1 DEF ReversalMatchesRefund, PaidOut
<1> QED BY <1>1, <1>2

\* Withdrawing unpaid earnings reverses nothing.
LEMMA WithdrawKeepsReversals ==
  ASSUME TypeOK, ReversalMatchesRefund,
         NEW targets \in SUBSET Earnings, NEW new \in {"held", "voided"},
         Withdraw(targets, new), UNCHANGED <<refunded, reversed, snapshot, ledger>>,
         \A e \in targets : status[e] \in Unpaid
  PROVE  ReversalMatchesRefund'
<1>1. ASSUME NEW e \in Earnings
      PROVE  /\ status[e] \in PaidOut \cup {"voided"} => status'[e] = status[e]
             /\ status[e] \notin PaidOut => status'[e] # "reversed"
  BY DEF Withdraw, StatusAfterFail, StatusAfterHoldRelease, PaidOut, Unpaid
<1> QED BY <1>1, UntouchedReversals

\* A refund reverses paid earnings up to the commission on the refunded base and
\* voids the others.
LEMMA RefundMatches ==
  ASSUME TypeOK, StatusFitsConversion, ReversalMatchesRefund,
         NEW k \in Conversions, NEW base \in RefundInputs(k), Refund(k, base)
  PROVE  ReversalMatchesRefund'
<1> DEFINE unpaid == {e \in DOMAIN base : status[e] \in Unpaid}
<1>1. /\ DOMAIN base \subseteq Earnings
      /\ \A e \in DOMAIN base : ConversionOf[e] = k /\ base[e] \in Nat /\ base[e] > 0
  BY RefundInputType, RefundIsPositive DEF ItemsOf
<1>2. ASSUME NEW e \in Earnings, NEW b \in Nat
      PROVE  DesiredReversal(e, b)' = DesiredReversal(e, b)
  BY DEF Refund, DesiredReversal, Amount
<1>3. ASSUME NEW e \in Earnings
      PROVE  /\ refunded'[e] = IF e \in DOMAIN base THEN base[e] ELSE refunded[e]
             /\ reversed'[e] = IF e \in Reversing(base) THEN DesiredReversal(e, base[e])
                                                         ELSE reversed[e]
             /\ refunded[e] \in Nat /\ reversed[e] \in Nat
  BY DEF Refund, RefundedAfter, TypeOK
<1>4. ASSUME NEW e \in Earnings PROVE ledger'[e].reversal = reversed'[e]
  <2>1. ledger[e].reversal = reversed[e]
    BY DEF ReversalMatchesRefund
  <2>2. CASE e \in Reversing(base)
    <3>1. ledger'[e] = [ledger[e] EXCEPT !.reversal =
                          @ + (DesiredReversal(e, base[e]) - reversed[e])]
      BY <2>2 DEF Refund
    <3>2. DesiredReversal(e, base[e]) \in Nat
      BY <1>1, <2>2, DesiredReversalIsNat DEF Reversing
    <3>3. ledger[e] \in [accrual : Nat, payout : Nat, reversal : Nat]
      BY DEF TypeOK
    <3> QED BY <1>3, <2>1, <2>2, <3>1, <3>2, <3>3
  <2>3. CASE e \notin Reversing(base)
    BY <1>3, <2>1, <2>3 DEF Refund
  <2> QED BY <2>2, <2>3
<1>5. ASSUME NEW e \in Earnings, status[e] \in PaidOut
      PROVE  /\ status'[e] = IF e \in Reversing(base) THEN "reversed" ELSE status[e]
             /\ reversed[e] = IF refunded[e] = 0 THEN 0 ELSE DesiredReversal(e, refunded[e])
             /\ status[e] = "reversed" <=> reversed[e] > 0
  BY <1>5 DEF Refund, PaidOut, Unpaid, StatusAfterFail, ReversalMatchesRefund
<1>6. ASSUME NEW e \in Earnings, status[e] \notin PaidOut
      PROVE  /\ status'[e] \notin PaidOut /\ e \notin Reversing(base)
             /\ refunded'[e] > 0 => status'[e] = "voided"
             /\ reversed[e] = 0
  <2>1. e \notin Reversing(base) /\ reversed[e] = 0
    BY <1>3, <1>6 DEF Reversing, ReversalMatchesRefund, PaidOut
  <2>2. CASE e \in DOMAIN base
    <3>1. status[e] # "absent"
      BY <1>1, <2>2 DEF Refund, StatusFitsConversion, Delivered
    <3>2. status[e] \in Unpaid \cup {"voided"}
      BY <1>6, <3>1 DEF TypeOK, EarningStatus, PaidOut, Unpaid
    <3>3. status'[e] = "voided"
      BY <2>1, <2>2, <3>2 DEF Refund, StatusAfterFail, Unpaid
    <3> QED BY <2>1, <3>3 DEF PaidOut
  <2>3. CASE e \notin DOMAIN base
    <3>1. status'[e] = StatusAfterFail(unpaid, e)
      BY <2>1, <2>3 DEF Refund
    <3>2. refunded'[e] > 0 => status[e] = "voided"
      BY <1>3, <1>6, <2>3 DEF ReversalMatchesRefund
    <3> QED BY <1>6, <2>1, <3>1, <3>2 DEF StatusAfterFail, StatusAfterHoldRelease, PaidOut
  <2> QED BY <2>2, <2>3
<1>7. ASSUME NEW e \in Earnings, status[e] \in PaidOut
      PROVE  /\ status'[e] = "reversed" <=> reversed'[e] > 0
             /\ status'[e] \in PaidOut
             /\ reversed'[e] = IF refunded'[e] = 0 THEN 0 ELSE DesiredReversal(e, refunded'[e])
  <2>1. CASE e \in Reversing(base)
    <3>1. /\ e \in DOMAIN base /\ DesiredReversal(e, base[e]) > reversed[e]
          /\ DesiredReversal(e, base[e]) \in Nat
      BY <1>1, <2>1, DesiredReversalIsNat DEF Reversing
    <3> QED BY <1>1, <1>3, <1>5, <1>7, <2>1, <3>1 DEF PaidOut
  <2>2. CASE e \notin Reversing(base)
    <3>1. status'[e] = status[e] /\ reversed'[e] = reversed[e]
      BY <1>3, <1>5, <1>7, <2>2
    <3>2. ASSUME e \in DOMAIN base PROVE reversed[e] = DesiredReversal(e, base[e])
      <4>1. /\ DesiredReversal(e, base[e]) \in Nat
            /\ ~(DesiredReversal(e, base[e]) > reversed[e])
        BY <1>1, <1>7, <2>2, <3>2, DesiredReversalIsNat DEF Reversing
      <4>2. CASE refunded[e] = 0
        BY <1>3, <1>5, <1>7, <4>1, <4>2
      <4>3. CASE refunded[e] # 0
        <5>1. refunded[e] <= base[e]
          BY <3>2 DEF Refund
        <5>2. DesiredReversal(e, refunded[e]) <= DesiredReversal(e, base[e])
          BY <1>1, <1>3, <3>2, <5>1, DesiredReversalGrows
        <5> QED BY <1>3, <1>5, <1>7, <4>1, <4>3, <5>2
      <4> QED BY <4>2, <4>3
    <3> QED BY <1>1, <1>3, <1>5, <1>7, <3>1, <3>2
  <2> QED BY <2>1, <2>2
<1>8. ASSUME NEW e \in Earnings
      PROVE  /\ ledger'[e].reversal = reversed'[e]
             /\ status'[e] = "reversed" <=> reversed'[e] > 0
             /\ status'[e] \in PaidOut =>
                  reversed'[e] = IF refunded'[e] = 0
                                 THEN 0 ELSE DesiredReversal(e, refunded[e])'
             /\ refunded'[e] > 0 => status'[e] \in PaidOut \cup {"voided"}
  <2>1. refunded'[e] \in Nat
    BY <1>1, <1>3
  <2>2. DesiredReversal(e, refunded[e])' = DesiredReversal(e, refunded'[e])
    BY DEF Refund, DesiredReversal, Amount
  <2>3. CASE status[e] \in PaidOut
    BY <1>4, <1>7, <2>2, <2>3
  <2>4. CASE status[e] \notin PaidOut
    <3>1. reversed'[e] = 0 /\ status'[e] # "reversed"
      BY <1>3, <1>6, <2>4 DEF PaidOut
    <3> QED BY <1>4, <1>6, <2>4, <3>1
  <2> QED BY <2>3, <2>4
<1> QED BY <1>8 DEF ReversalMatchesRefund

\* However many partial refunds there are, the reversals of a paid earning add up
\* to the commission on its cumulative refunded base (refund in
\* conversions.service.ts).
THEOREM ReversalsMatchRefunds == Spec => []ReversalMatchesRefund
<1>1. Init => ReversalMatchesRefund
  BY DEF Init, ReversalMatchesRefund, PaidOut
<1>2. TypeOK /\ StatusFitsConversion /\ ReversalMatchesRefund /\ [Next]_vars
        => ReversalMatchesRefund'
  <2> SUFFICES ASSUME TypeOK, StatusFitsConversion, ReversalMatchesRefund, [Next]_vars
               PROVE  ReversalMatchesRefund'
    OBVIOUS
  <2>1. ASSUME NEW k \in Conversions, CreateConversion(k) PROVE ReversalMatchesRefund'
    <3>1. \A e \in ItemsOf(k) : status[e] = "absent" /\ status'[e] \in {"needs_rule", "pending"}
      BY <2>1, ConstantsAssumption DEF CreateConversion, ItemsOf, StatusFitsConversion
    <3>2. \A e \in Earnings \ ItemsOf(k) : status'[e] = status[e] /\ snapshot'[e] = snapshot[e]
      BY <2>1 DEF CreateConversion
    <3> QED BY <2>1, <3>1, <3>2, UntouchedReversals DEF CreateConversion, PaidOut
  <2>2. ASSUME NEW k \in Conversions, Complete(k) PROVE ReversalMatchesRefund'
    BY <2>2, UntouchedReversals DEF Complete, PaidOut
  <2>3. ASSUME NEW k \in Conversions, NEW outcome \in {"cancelled", "no_show"},
               Cancel(k, outcome)
        PROVE  ReversalMatchesRefund'
    BY <2>3, WithdrawKeepsReversals DEF Cancel, ItemsOf
  <2>4. ASSUME NEW k \in Conversions, NEW base \in RefundInputs(k), Refund(k, base)
        PROVE  ReversalMatchesRefund'
    BY <2>4, RefundMatches
  <2>5. ASSUME NEW e \in Earnings, Hold(e) PROVE ReversalMatchesRefund'
    <3>1. status[e] \in Unpaid
      BY <2>5 DEF Hold, CanTransition, EarningTransitions, TypeOK, EarningStatus, Unpaid
    <3> QED BY <2>5, <3>1, WithdrawKeepsReversals DEF Hold, conversionVars
  <2>6. ASSUME NEW e \in Earnings, Release(e) PROVE ReversalMatchesRefund'
    BY <2>6, UntouchedReversals
       DEF Release, StatusAfterHoldRelease, PaidOut, TypeOK, claimVars, conversionVars
  <2>7. ASSUME NEW e \in Earnings, Void(e) PROVE ReversalMatchesRefund'
    <3>1. status[e] \in Unpaid
      BY <2>7 DEF Void, CanTransition, EarningTransitions, TypeOK, EarningStatus, Unpaid, PaidOut
    <3> QED BY <2>7, <3>1, WithdrawKeepsReversals DEF Void, conversionVars
  <2>8. ASSUME NEW p \in Partners, Suspend(p) PROVE ReversalMatchesRefund'
    BY <2>8, WithdrawKeepsReversals DEF Suspend, Unpaid
  <2>9. ASSUME NEW p \in Partners, Reactivate(p) PROVE ReversalMatchesRefund'
    BY <2>9, UntouchedReversals DEF Reactivate, earningVars, PaidOut
  <2>10. ASSUME NEW c \in Claims, NEW p \in Partners, NEW selected \in SUBSET Earnings,
                CreateClaim(c, p, selected)
         PROVE  ReversalMatchesRefund'
    BY <2>10, UntouchedReversals DEF CreateClaim, conversionVars, PaidOut
  <2>11. ASSUME NEW c \in Claims, SimulateSuccess(c) PROVE ReversalMatchesRefund'
    <3>1. ASSUME NEW e \in Earnings
          PROVE  ledger'[e].reversal = ledger[e].reversal
      BY <2>11 DEF SimulateSuccess
    <3> QED
      BY <2>11, <3>1, UntouchedReversals DEF SimulateSuccess, Simulatable, conversionVars, PaidOut
  <2>12. ASSUME NEW c \in Claims, SimulateFailure(c) PROVE ReversalMatchesRefund'
    BY <2>12, UntouchedReversals DEF SimulateFailure, Simulatable, conversionVars, PaidOut
  <2>13. ASSUME NEW c \in Claims, RetryClaim(c) PROVE ReversalMatchesRefund'
    BY <2>13, UntouchedReversals DEF RetryClaim, Retryable, conversionVars, PaidOut
  <2>14. CASE UNCHANGED vars
    BY <2>14, UntouchedReversals DEF vars, conversionVars, earningVars, PaidOut
  <2> QED
    BY <2>1, <2>2, <2>3, <2>4, <2>5, <2>6, <2>7, <2>8, <2>9, <2>10, <2>11, <2>12, <2>13, <2>14
       DEF Next, ConversionStep, EarningStep, PartnerStep, ClaimStep
<1> QED BY <1>1, <1>2, TypeCorrect, EarningsFitConversions, PTL DEF Spec

\* What the status of one conversion tells about its items.
TellsRefunds(k) ==
  LET full == \A e \in ItemsOf(k) : refunded[e] = Gross[e]
      none == \A e \in ItemsOf(k) : refunded[e] = 0
  IN  /\ convStatus[k] = "refunded" => full
      /\ convStatus[k] = "partially_refunded" => ~full /\ ~none
      /\ convStatus[k] \notin {"partially_refunded", "refunded"} => none

\* Conversions that are not refunded by a step, and reach no refunded status.
LEMMA UntouchedRefunds ==
  ASSUME NEW k \in Conversions, TellsRefunds(k),
         \A e \in ItemsOf(k) : refunded'[e] = refunded[e],
         \/ convStatus'[k] = convStatus[k]
         \/ /\ convStatus[k] \notin {"partially_refunded", "refunded"}
            /\ convStatus'[k] \notin {"partially_refunded", "refunded"}
  PROVE  TellsRefunds(k)'
BY DEF TellsRefunds, ItemsOf

\* A conversion is refunded when all of its items are, whichever refunds named
\* them, and partially refunded when some are (refund in conversions.service.ts).
THEOREM ConversionsTellRefunds == Spec => []ConversionTellsRefunds
<1> DEFINE Told == \A k \in Conversions : TellsRefunds(k)
<1>1. Init => Told
  BY DEF Init, TellsRefunds, ItemsOf
<1>2. TypeOK /\ Told /\ [Next]_vars => Told'
  <2> SUFFICES ASSUME TypeOK, Told, [Next]_vars, NEW q \in Conversions
               PROVE  TellsRefunds(q)'
    OBVIOUS
  <2>1. TellsRefunds(q)
    OBVIOUS
  <2> HIDE DEF Told
  <2>2. CASE UNCHANGED <<convStatus, refunded>>
    BY <2>1, <2>2, UntouchedRefunds
  <2>3. ASSUME NEW k \in Conversions, NEW to, UNCHANGED refunded,
               convStatus' = [convStatus EXCEPT ![k] = to],
               {convStatus[k], to} \cap {"partially_refunded", "refunded"} = {}
        PROVE  TellsRefunds(q)'
    BY <2>1, <2>3, UntouchedRefunds DEF TypeOK
  <2>4. ASSUME NEW k \in Conversions, NEW base \in RefundInputs(k), Refund(k, base)
        PROVE  TellsRefunds(q)'
    <3>1. /\ DOMAIN base \subseteq ItemsOf(k) /\ DOMAIN base # {}
          /\ \A e \in DOMAIN base : base[e] > 0 /\ base[e] \in Nat
      BY RefundInputType, RefundIsPositive
    <3>2. /\ refunded' = RefundedAfter(base)
          /\ convStatus' = [convStatus EXCEPT ![k] = StatusAfterRefund(k, base)]
      BY <2>4 DEF Refund
    <3>3. CASE q = k
      <4>1. convStatus'[k] = StatusAfterRefund(k, base)
        BY <3>2 DEF TypeOK
      <4>2. ~ \A e \in ItemsOf(k) : refunded'[e] = 0
        BY <3>1, <3>2 DEF RefundedAfter, ItemsOf
      <4> QED BY <3>2, <3>3, <4>1, <4>2 DEF StatusAfterRefund, TellsRefunds, ItemsOf
    <3>4. CASE q # k
      <4>1. convStatus'[q] = convStatus[q]
        BY <3>2, <3>4 DEF TypeOK
      <4>2. \A e \in ItemsOf(q) : refunded'[e] = refunded[e]
        BY <3>1, <3>2, <3>4 DEF RefundedAfter, ItemsOf
      <4> QED BY <2>1, <4>1, <4>2, UntouchedRefunds
    <3> QED BY <3>3, <3>4
  <2>5. ASSUME NEW k \in Conversions, ConversionStep(k) PROVE TellsRefunds(q)'
    <3>1. CASE CreateConversion(k)
      BY <2>3, <3>1 DEF CreateConversion
    <3>2. CASE Complete(k)
      BY <2>3, <3>2 DEF Complete
    <3>3. ASSUME NEW outcome \in {"cancelled", "no_show"}, Cancel(k, outcome)
          PROVE  TellsRefunds(q)'
      BY <2>3, <3>3 DEF Cancel
    <3> QED BY <2>4, <2>5, <3>1, <3>2, <3>3 DEF ConversionStep
  <2>6. CASE \E e \in Earnings : EarningStep(e)
    BY <2>2, <2>6 DEF EarningStep, Hold, Release, Void, conversionVars
  <2>7. CASE \E p \in Partners : PartnerStep(p)
    BY <2>2, <2>7 DEF PartnerStep, Suspend, Reactivate
  <2>8. CASE \E c \in Claims : ClaimStep(c)
    BY <2>2, <2>8 DEF ClaimStep, CreateClaim, SimulateSuccess, SimulateFailure, RetryClaim,
                      conversionVars
  <2>9. CASE UNCHANGED vars
    BY <2>2, <2>9 DEF vars, conversionVars
  <2> QED BY <2>5, <2>6, <2>7, <2>8, <2>9 DEF Next
<1>3. Told => ConversionTellsRefunds
  BY DEF TellsRefunds, ConversionTellsRefunds
<1> QED BY <1>1, <1>2, <1>3, TypeCorrect, PTL DEF Spec

------------------------------------------------------------------------------
(* Suspensions.                                                            *)

\* Every claim selects earnings of one partner.
OnePartnerClaims == \A c \in Claims : \A e, f \in items[c] : EarnedBy(e) = EarnedBy(f)

LEMMA ClaimsHaveOnePartner == Spec => []OnePartnerClaims
<1>1. Init => OnePartnerClaims
  BY DEF Init, OnePartnerClaims
<1>2. TypeOK /\ OnePartnerClaims /\ [Next]_vars => OnePartnerClaims'
  <2> SUFFICES ASSUME TypeOK, OnePartnerClaims, [Next]_vars PROVE OnePartnerClaims'
    OBVIOUS
  <2>1. CASE UNCHANGED items
    BY <2>1 DEF OnePartnerClaims, EarnedBy
  <2>2. ASSUME NEW c \in Claims, NEW p \in Partners, NEW selected \in SUBSET Earnings,
               CreateClaim(c, p, selected)
        PROVE  OnePartnerClaims'
    <3>1. \A d \in Claims : items'[d] = IF d = c THEN selected ELSE items[d]
      BY <2>2 DEF CreateClaim, TypeOK
    <3>2. \A e \in selected : EarnedBy(e) = p
      BY <2>2 DEF CreateClaim
    <3> QED BY <3>1, <3>2 DEF OnePartnerClaims, EarnedBy
  <2>3. CASE \E k \in Conversions : ConversionStep(k)
    BY <2>1, <2>3 DEF ConversionStep, CreateConversion, Complete, Cancel, Refund, Withdraw, claimVars
  <2>4. CASE \E e \in Earnings : EarningStep(e)
    BY <2>1, <2>4 DEF EarningStep, Hold, Release, Void, Withdraw, claimVars
  <2>5. CASE \E p \in Partners : PartnerStep(p)
    BY <2>1, <2>5 DEF PartnerStep, Suspend, Reactivate, Withdraw, claimVars
  <2>6. ASSUME NEW c \in Claims, SimulateSuccess(c) \/ SimulateFailure(c) \/ RetryClaim(c)
        PROVE  OnePartnerClaims'
    BY <2>1, <2>6 DEF SimulateSuccess, SimulateFailure, RetryClaim
  <2>7. CASE UNCHANGED vars
    BY <2>1, <2>7 DEF vars, claimVars
  <2> QED BY <2>2, <2>3, <2>4, <2>5, <2>6, <2>7 DEF Next, ClaimStep
<1> QED BY <1>1, <1>2, TypeCorrect, PTL DEF Spec

\* A suspension fails the claims of the suspended partner only, and takes no
\* earning of another partner (suspend in partners.service.ts).
THEOREM SuspensionsAreLocal == Spec => SuspensionIsLocal
<1> DEFINE Local(p) == partnerStatus'[p] # partnerStatus[p] =>
             /\ \A e \in Earnings : EarnedBy(e) # p => status'[e] = status[e]
             /\ \A c \in Claims : claimStatus'[c] # claimStatus[c] =>
                  \A e \in items[c] : EarnedBy(e) = p
<1>1. TypeOK /\ OnePartnerClaims /\ [Next]_vars => \A p \in Partners : Local(p)
  <2> SUFFICES ASSUME TypeOK, OnePartnerClaims, [Next]_vars, NEW p \in Partners,
                      partnerStatus'[p] # partnerStatus[p]
               PROVE  Local(p)
    OBVIOUS
  <2>1. PICK q \in Partners : PartnerStep(q)
    BY DEF Next, ConversionStep, CreateConversion, Complete, Cancel, Refund,
           EarningStep, Hold, Release, Void, ClaimStep, CreateClaim, SimulateSuccess,
           SimulateFailure, RetryClaim, vars, conversionVars
  <2>2. CASE Suspend(q)
    <3> DEFINE targets == {e \in Earnings : EarnedBy(e) = q
                              /\ status[e] \in {"pending", "eligible", "reserved"}}
    <3>1. p = q /\ Withdraw(targets, "held")
      BY <2>2 DEF Suspend, TypeOK
    <3>2. ASSUME NEW c \in Affected(targets) PROVE \A e \in items[c] : EarnedBy(e) = p
      <4>1. PICK f \in items[c] : f \in targets
        BY <3>2 DEF Affected
      <4> QED BY <3>1, <4>1 DEF OnePartnerClaims, Affected
    <3>3. \A c \in Claims : claimStatus'[c] # claimStatus[c] => c \in Affected(targets)
      BY <3>1 DEF Withdraw, FailAffected
    <3>4. ASSUME NEW e \in Earnings, EarnedBy(e) # p PROVE status'[e] = status[e]
      <4>1. StatusAfterFail(targets, e) = status[e]
        BY <3>2, <3>4 DEF StatusAfterFail
      <4> QED BY <3>1, <3>4, <4>1 DEF Withdraw
    <3> HIDE DEF targets
    <3> QED BY <3>2, <3>3, <3>4
  <2>3. CASE Reactivate(q)
    BY <2>3 DEF Reactivate, earningVars, claimVars
  <2> QED BY <2>1, <2>2, <2>3 DEF PartnerStep
<1> QED BY <1>1, TypeCorrect, ClaimsHaveOnePartner, PTL DEF Spec, SuspensionIsLocal

------------------------------------------------------------------------------
(* Sums over finite sets.                                                  *)

\* Induction on the subsets of a finite set, stated for the set of those that
\* have the property.
LEMMA SubsetInduction ==
  ASSUME NEW S, IsFiniteSet(S), NEW Good,
         \A T \in SUBSET S : (\A x \in T : T \ {x} \in Good) => T \in Good
  PROVE  S \in Good
<1> SUFFICES ASSUME S \notin Good PROVE FALSE
  OBVIOUS
<1> DEFINE Bad == {T \in SUBSET S : T \notin Good}
<1>1. IsWellFoundedOn(StrictSubsetOrdering(S), FiniteSubsetsOf(S))
  BY FS_StrictSubsetOrderingWellFounded
<1>2. FiniteSubsetsOf(S) = SUBSET S
  BY FS_FiniteSubsetsOfFinite
<1>3. Bad \subseteq SUBSET S /\ Bad # {}
  OBVIOUS
<1>4. \E T \in Bad : \A U \in Bad : <<U, T>> \notin StrictSubsetOrdering(S)
  <2> HIDE DEF Bad
  <2> QED BY <1>1, <1>2, <1>3, WFMin
<1>5. PICK T \in Bad : \A U \in Bad : <<U, T>> \notin StrictSubsetOrdering(S)
  BY <1>4
<1>6. PICK x \in T : T \ {x} \notin Good
  OBVIOUS
<1>7. T \ {x} \in Bad
  BY <1>6
<1>8. <<T \ {x}, T>> \in StrictSubsetOrdering(S)
  BY <1>6 DEF StrictSubsetOrdering
<1> QED BY <1>5, <1>7, <1>8

\* What SumFunctionOnSet is defined by: the function that adds up every subset,
\* one element at a time.
Pick(s) == CHOOSE x \in s : TRUE

AddsUp(f, g, S) ==
  g = [s \in SUBSET S |-> IF s = {} THEN 0 ELSE f[Pick(s)] + g[s \ {Pick(s)}]]

LEMMA SumIsFold ==
  ASSUME NEW f, NEW S
  PROVE  SumFunctionOnSet(f, S) = (CHOOSE g : AddsUp(f, g, S))[S]
BY Zenon DEF SumFunctionOnSet, FoldFunctionOnSet, MapThenFoldSet, AddsUp, Pick

LEMMA PickIsIn == ASSUME NEW s, s # {} PROVE Pick(s) \in s
BY Zenon DEF Pick

LEMMA AddsUpUnfolds ==
  ASSUME NEW f, NEW g, NEW S, AddsUp(f, g, S), NEW s \in SUBSET S
  PROVE  g[s] = IF s = {} THEN 0 ELSE f[Pick(s)] + g[s \ {Pick(s)}]
BY Zenon DEF AddsUp

\* Two such functions agree on the sets that both add up.
LEMMA AddsUpAgree ==
  ASSUME NEW f, NEW g, NEW S, AddsUp(f, g, S), NEW h, NEW T, AddsUp(f, h, T),
         NEW V, IsFiniteSet(V), V \subseteq S, V \subseteq T
  PROVE  g[V] = h[V]
<1> DEFINE Good == {U \in SUBSET V : g[U] = h[U]}
<1>1. ASSUME NEW U \in SUBSET V, \A x \in U : U \ {x} \in Good
      PROVE  U \in Good
  <2>1. U \in SUBSET S /\ U \in SUBSET T
    OBVIOUS
  <2>2. /\ g[U] = IF U = {} THEN 0 ELSE f[Pick(U)] + g[U \ {Pick(U)}]
        /\ h[U] = IF U = {} THEN 0 ELSE f[Pick(U)] + h[U \ {Pick(U)}]
    BY <2>1, AddsUpUnfolds
  <2>3. CASE U = {}
    BY <2>2, <2>3
  <2>4. CASE U # {}
    <3>1. U \ {Pick(U)} \in Good
      BY <1>1, <2>4, PickIsIn
    <3> QED BY <2>2, <2>4, <3>1
  <2> QED BY <2>3, <2>4
<1>2. V \in Good
  <2> HIDE DEF Good
  <2> QED BY <1>1, SubsetInduction
<1> QED BY <1>2

\* Every finite set is added up by some function.
LEMMA AddsUpExists ==
  ASSUME NEW f, NEW S, IsFiniteSet(S)
  PROVE  \E g : AddsUp(f, g, S)
<1> DEFINE Good == {T \in SUBSET S : \E g : AddsUp(f, g, T)}
<1>1. ASSUME NEW T \in SUBSET S, \A x \in T : T \ {x} \in Good
      PROVE  T \in Good
  <2> DEFINE Sum(V) == (CHOOSE g : AddsUp(f, g, V))[V]
             total == [s \in SUBSET T |-> IF s = {} THEN 0 ELSE f[Pick(s)] + Sum(s \ {Pick(s)})]
  <2>1. ASSUME NEW V \in SUBSET T, V # T
        PROVE  \E g : AddsUp(f, g, V)
    <3>1. PICK x \in T : V \subseteq T \ {x}
      BY <2>1
    <3>2. PICK g : AddsUp(f, g, T \ {x})
      BY <1>1
    <3>3. g = [s \in SUBSET (T \ {x}) |-> IF s = {} THEN 0 ELSE f[Pick(s)] + g[s \ {Pick(s)}]]
      BY <3>2 DEF AddsUp
    <3> DEFINE r == [s \in SUBSET V |-> g[s]]
    <3>4. \A s \in SUBSET V : s \ {Pick(s)} \in SUBSET V /\ s \in SUBSET (T \ {x})
      BY <3>1
    <3>5. ASSUME NEW s \in SUBSET V
          PROVE  g[s] = IF s = {} THEN 0 ELSE f[Pick(s)] + r[s \ {Pick(s)}]
      <4>1. g[s] = IF s = {} THEN 0 ELSE f[Pick(s)] + g[s \ {Pick(s)}]
        BY <3>2, <3>4, AddsUpUnfolds
      <4>2. r[s \ {Pick(s)}] = g[s \ {Pick(s)}]
        BY <3>4
      <4> HIDE DEF r
      <4> QED BY <4>1, <4>2
    <3>6. r = [s \in SUBSET V |-> IF s = {} THEN 0 ELSE f[Pick(s)] + r[s \ {Pick(s)}]]
      BY <3>5
    <3>7. AddsUp(f, r, V)
      BY <3>6 DEF AddsUp
    <3> QED BY <3>7
  <2>2. ASSUME NEW V \in SUBSET T, V # T
        PROVE  Sum(V) = IF V = {} THEN 0 ELSE f[Pick(V)] + Sum(V \ {Pick(V)})
    <3> DEFINE g == CHOOSE g : AddsUp(f, g, V)
               W == V \ {Pick(V)}
               h == CHOOSE h : AddsUp(f, h, W)
    <3>1. AddsUp(f, g, V)
      BY <2>1, <2>2
    <3>2. V = {} \/ (W \in SUBSET V /\ W # T /\ AddsUp(f, h, W))
      BY <2>1, <2>2, PickIsIn
    <3>3. IsFiniteSet(W)
      BY FS_Subset
    <3>4. g[V] = IF V = {} THEN 0 ELSE f[Pick(V)] + g[W]
      BY <3>1, AddsUpUnfolds
    <3>5. V = {} \/ g[W] = h[W]
      <4> HIDE DEF g, h, W
      <4> QED BY <3>1, <3>2, <3>3, AddsUpAgree
    <3>6. Sum(V) = g[V] /\ Sum(V \ {Pick(V)}) = h[W]
      OBVIOUS
    <3> HIDE DEF Sum, g, h
    <3> QED BY <3>4, <3>5, <3>6
  <2>3. ASSUME NEW s \in SUBSET T, s # {}
        PROVE  Sum(s \ {Pick(s)}) = total[s \ {Pick(s)}]
    <3>1. s \ {Pick(s)} \in SUBSET T /\ s \ {Pick(s)} # T
      BY <2>3, PickIsIn
    <3> HIDE DEF Sum
    <3> QED BY <2>2, <3>1, Zenon
  <2>4. total = [s \in SUBSET T |-> IF s = {} THEN 0 ELSE f[Pick(s)] + total[s \ {Pick(s)}]]
    <3> HIDE DEF Sum
    <3> QED BY <2>3
  <2>5. AddsUp(f, total, T)
    BY <2>4 DEF AddsUp
  <2> QED BY <2>5
<1>2. S \in Good
  <2> HIDE DEF Good
  <2> QED BY <1>1, SubsetInduction
<1> QED BY <1>2

\* The sum over a finite set, one element at a time.
LEMMA SumUnfolds ==
  ASSUME NEW f, NEW S, IsFiniteSet(S)
  PROVE  SumFunctionOnSet(f, S)
           = IF S = {} THEN 0 ELSE f[Pick(S)] + SumFunctionOnSet(f, S \ {Pick(S)})
<1> DEFINE g == CHOOSE g : AddsUp(f, g, S)
           W == S \ {Pick(S)}
           h == CHOOSE h : AddsUp(f, h, W)
<1>1. IsFiniteSet(W)
  BY FS_Subset
<1>2. AddsUp(f, g, S) /\ AddsUp(f, h, W)
  BY <1>1, AddsUpExists
<1>3. g[S] = IF S = {} THEN 0 ELSE f[Pick(S)] + g[W]
  BY <1>2, AddsUpUnfolds
<1>4. g[W] = h[W]
  <2> HIDE DEF g, h
  <2> QED BY <1>1, <1>2, AddsUpAgree
<1>5. SumFunctionOnSet(f, S) = g[S] /\ SumFunctionOnSet(f, W) = h[W]
  BY SumIsFold, Zenon
<1> HIDE DEF g, h
<1> QED BY <1>3, <1>4, <1>5

\* Nothing adds up to zero.
LEMMA SumOfNone == \A f : SumFunctionOnSet(f, {}) = 0
BY SumUnfolds, FS_EmptySet

\* A sum of integers is an integer.
LEMMA SumIsInt ==
  ASSUME NEW f, NEW S, IsFiniteSet(S), \A x \in S : f[x] \in Int
  PROVE  SumFunctionOnSet(f, S) \in Int
<1> DEFINE Good == {T \in SUBSET S : SumFunctionOnSet(f, T) \in Int}
<1>1. ASSUME NEW T \in SUBSET S, \A x \in T : T \ {x} \in Good
      PROVE  T \in Good
  <2>1. IsFiniteSet(T)
    BY FS_Subset
  <2>2. CASE T = {}
    BY <2>2, SumOfNone
  <2>3. CASE T # {}
    <3>1. Pick(T) \in T /\ T \ {Pick(T)} \in Good
      BY <1>1, <2>3, PickIsIn
    <3> QED BY <2>1, <2>3, <3>1, SumUnfolds
  <2> QED BY <2>2, <2>3
<1>2. S \in Good
  <2> HIDE DEF Good
  <2> QED BY <1>1, SubsetInduction
<1> QED BY <1>2

\* Any element may be taken out of a sum.
LEMMA SumRemoves ==
  ASSUME NEW f, NEW S, IsFiniteSet(S), \A x \in S : f[x] \in Int, NEW y \in S
  PROVE  SumFunctionOnSet(f, S) = f[y] + SumFunctionOnSet(f, S \ {y})
<1> DEFINE Sum(T) == SumFunctionOnSet(f, T)
           Good == {T \in SUBSET S : \A x \in T : Sum(T) = f[x] + Sum(T \ {x})}
<1>1. ASSUME NEW T \in SUBSET S, \A x \in T : T \ {x} \in Good
      PROVE  T \in Good
  <2> SUFFICES ASSUME NEW x \in T PROVE Sum(T) = f[x] + Sum(T \ {x})
    OBVIOUS
  <2> DEFINE p == Pick(T)
             W == (T \ {p}) \ {x}
  <2>1. p \in T
    BY PickIsIn
  <2>2. Sum(T) = f[p] + Sum(T \ {p})
    <3>1. IsFiniteSet(T)
      BY FS_Subset
    <3> QED BY <3>1, SumUnfolds
  <2>3. CASE x = p
    BY <2>2, <2>3
  <2>4. CASE x # p
    <3>1. x \in T \ {p} /\ p \in T \ {x} /\ W = (T \ {x}) \ {p}
      BY <2>1, <2>4
    <3>2. Sum(T \ {p}) = f[x] + Sum(W)
      BY <1>1, <2>1, <3>1
    <3>3. Sum(T \ {x}) = f[p] + Sum(W)
      BY <1>1, <3>1
    <3>4. f[x] \in Int /\ f[p] \in Int /\ Sum(W) \in Int
      <4>1. IsFiniteSet(W) /\ W \in SUBSET S
        BY FS_Subset
      <4> QED BY <2>1, <4>1, SumIsInt
    <3> HIDE DEF Sum, p, W
    <3> QED BY <2>2, <3>2, <3>3, <3>4
  <2> QED BY <2>3, <2>4
<1>2. S \in Good
  <2> HIDE DEF Good
  <2> QED BY <1>1, SubsetInduction
<1> QED BY <1>2

\* Sums grow with what they add up.
LEMMA SumGrows ==
  ASSUME NEW f, NEW g, NEW S, IsFiniteSet(S),
         \A x \in S : f[x] \in Int /\ g[x] \in Int /\ f[x] <= g[x]
  PROVE  SumFunctionOnSet(f, S) <= SumFunctionOnSet(g, S)
<1> DEFINE Good == {T \in SUBSET S : SumFunctionOnSet(f, T) <= SumFunctionOnSet(g, T)}
<1>1. ASSUME NEW T \in SUBSET S, \A x \in T : T \ {x} \in Good
      PROVE  T \in Good
  <2>1. IsFiniteSet(T)
    BY FS_Subset
  <2>2. CASE T = {}
    BY <2>2, SumOfNone
  <2>3. CASE T # {}
    <3> DEFINE p == Pick(T)
               W == T \ {p}
    <3>1. p \in T /\ W \in SUBSET S /\ IsFiniteSet(W)
      BY <2>3, PickIsIn, FS_Subset
    <3>2. /\ SumFunctionOnSet(f, T) = f[p] + SumFunctionOnSet(f, W)
          /\ SumFunctionOnSet(g, T) = g[p] + SumFunctionOnSet(g, W)
      BY <2>1, <2>3, SumUnfolds
    <3>3. SumFunctionOnSet(f, W) <= SumFunctionOnSet(g, W)
      BY <1>1, <3>1
    <3>4. SumFunctionOnSet(f, W) \in Int /\ SumFunctionOnSet(g, W) \in Int
      BY <3>1, SumIsInt
    <3> HIDE DEF p, W
    <3> QED BY <3>1, <3>2, <3>3, <3>4
  <2> QED BY <2>2, <2>3
<1>2. S \in Good
  <2> HIDE DEF Good
  <2> QED BY <1>1, SubsetInduction
<1> QED BY <1>2

\* Only the values at the elements count.
LEMMA SumSame ==
  ASSUME NEW f, NEW g, NEW S, IsFiniteSet(S), \A x \in S : f[x] \in Int /\ g[x] = f[x]
  PROVE  SumFunctionOnSet(g, S) = SumFunctionOnSet(f, S)
<1>1. SumFunctionOnSet(f, S) <= SumFunctionOnSet(g, S)
  BY SumGrows
<1>2. SumFunctionOnSet(g, S) <= SumFunctionOnSet(f, S)
  BY SumGrows
<1>3. SumFunctionOnSet(f, S) \in Int /\ SumFunctionOnSet(g, S) \in Int
  BY SumIsInt
<1> QED BY <1>1, <1>2, <1>3

\* A set is added up part by part.
LEMMA SumSplits ==
  ASSUME NEW f, NEW S, IsFiniteSet(S), \A x \in S : f[x] \in Int, NEW T \in SUBSET S
  PROVE  SumFunctionOnSet(f, S) = SumFunctionOnSet(f, T) + SumFunctionOnSet(f, S \ T)
<1> DEFINE Sum(U) == SumFunctionOnSet(f, U)
           Good == {U \in SUBSET T : Sum(S) = Sum(U) + Sum(S \ U)}
<1>1. ASSUME NEW U \in SUBSET T, \A x \in U : U \ {x} \in Good
      PROVE  U \in Good
  <2>1. CASE U = {}
    <3>1. Sum({}) = 0 /\ S \ U = S /\ Sum(S) \in Int
      BY <2>1, SumOfNone, SumIsInt
    <3> HIDE DEF Sum
    <3> QED BY <2>1, <3>1
  <2>2. ASSUME NEW x \in U PROVE U \in Good
    <3> DEFINE V == U \ {x}
               W == S \ V
    <3>1. Sum(S) = Sum(V) + Sum(W)
      BY <1>1
    <3>2. /\ IsFiniteSet(U) /\ IsFiniteSet(V) /\ IsFiniteSet(W) /\ IsFiniteSet(S \ U)
          /\ x \in W /\ W \ {x} = S \ U
      BY FS_Subset
    <3>3. \A y \in U \cup V \cup W \cup (S \ U) : f[y] \in Int
      OBVIOUS
    <3>4. Sum(U) = f[x] + Sum(V) /\ Sum(W) = f[x] + Sum(S \ U)
      BY <3>2, <3>3, SumRemoves
    <3>5. /\ f[x] \in Int /\ Sum(V) \in Int /\ Sum(S \ U) \in Int
      BY <3>2, <3>3, SumIsInt
    <3>6. Sum(S) = Sum(U) + Sum(S \ U)
      <4> HIDE DEF Sum, V, W
      <4> QED BY <3>1, <3>4, <3>5
    <3> QED BY <3>6
  <2> QED BY <2>1, <2>2
<1>2. T \in Good
  <2>1. IsFiniteSet(T)
    BY FS_Subset
  <2> HIDE DEF Good
  <2> QED BY <1>1, <2>1, SubsetInduction
<1> QED BY <1>2

\* A sum of natural numbers is one, and zero if they all are.
LEMMA SumIsNat ==
  ASSUME NEW f, NEW S, IsFiniteSet(S), \A x \in S : f[x] \in Nat
  PROVE  /\ SumFunctionOnSet(f, S) \in Nat
         /\ (\A x \in S : f[x] = 0) => SumFunctionOnSet(f, S) = 0
<1> DEFINE Good == {T \in SUBSET S : /\ SumFunctionOnSet(f, T) \in Nat
                                     /\ (\A x \in T : f[x] = 0) => SumFunctionOnSet(f, T) = 0}
<1>1. ASSUME NEW T \in SUBSET S, \A x \in T : T \ {x} \in Good
      PROVE  T \in Good
  <2>1. IsFiniteSet(T)
    BY FS_Subset
  <2>2. CASE T = {}
    BY <2>2, SumOfNone
  <2>3. CASE T # {}
    <3>1. Pick(T) \in T /\ T \ {Pick(T)} \in Good
      BY <1>1, <2>3, PickIsIn
    <3>2. SumFunctionOnSet(f, T) = f[Pick(T)] + SumFunctionOnSet(f, T \ {Pick(T)})
      BY <2>1, <2>3, SumUnfolds
    <3> QED BY <3>1, <3>2
  <2> QED BY <2>2, <2>3
<1>2. S \in Good
  <2> HIDE DEF Good
  <2> QED BY <1>1, SubsetInduction
<1> QED BY <1>2

\* A part of a sum of natural numbers is at most the whole.
LEMMA SumOfPart ==
  ASSUME NEW f, NEW S, IsFiniteSet(S), \A x \in S : f[x] \in Nat, NEW T \in SUBSET S
  PROVE  SumFunctionOnSet(f, T) <= SumFunctionOnSet(f, S)
<1>1. SumFunctionOnSet(f, S) = SumFunctionOnSet(f, T) + SumFunctionOnSet(f, S \ T)
  BY SumSplits
<1>2. SumFunctionOnSet(f, T) \in Nat /\ SumFunctionOnSet(f, S \ T) \in Nat
  BY FS_Subset, SumIsNat
<1> QED BY <1>1, <1>2

\* The largest of finitely many numbers.
LEMMA LargestExists ==
  ASSUME NEW S \in SUBSET Nat, IsFiniteSet(S), S # {}
  PROVE  \E m \in S : \A x \in S : x <= m
<1> DEFINE Good == {T \in SUBSET S : T # {} => \E m \in T : \A x \in T : x <= m}
<1>1. ASSUME NEW T \in SUBSET S, \A x \in T : T \ {x} \in Good
      PROVE  T \in Good
  <2> SUFFICES ASSUME NEW y \in T PROVE \E m \in T : \A x \in T : x <= m
    OBVIOUS
  <2>1. CASE T \ {y} = {}
    <3>1. \A x \in T : x <= y
      BY <2>1
    <3> QED BY <3>1
  <2>2. CASE T \ {y} # {}
    <3>1. PICK m \in T \ {y} : \A x \in T \ {y} : x <= m
      BY <1>1, <2>2
    <3>2. CASE y <= m
      BY <3>1, <3>2
    <3>3. CASE m <= y
      <4>1. \A x \in T : x <= y
        BY <3>1, <3>3
      <4> QED BY <4>1
    <3> QED BY <3>2, <3>3
  <2> QED BY <2>1, <2>2
<1>2. S \in Good
  <2> HIDE DEF Good
  <2> QED BY <1>1, SubsetInduction
<1> QED BY <1>2

LEMMA TakingOneMore ==
  ASSUME NEW amount \in Nat, NEW taken \in Nat, NEW debt \in Nat
  PROVE  Smaller(amount, Larger(0, debt - taken)) + Smaller(debt, taken)
           = Smaller(debt, amount + taken)
BY DEF Smaller, Larger

\* Taking from each amount, in order, what is left of a debt takes the whole
\* debt or everything there is.
LEMMA GreedyTakesAll ==
  ASSUME NEW S, IsFiniteSet(S), \A x \in S : x \in Nat, NEW a, NEW r, NEW debt \in Nat,
         \A x \in S : a[x] \in Nat,
         \A x \in S : r[x] = Smaller(a[x], Larger(0, debt - SumFunctionOnSet(a, {y \in S : y < x})))
  PROVE  SumFunctionOnSet(r, S) = Smaller(debt, SumFunctionOnSet(a, S))
<1> DEFINE Sum(f, T) == SumFunctionOnSet(f, T)
           Closed(T) == \A x \in T, y \in S : y < x => y \in T
           Good == {T \in SUBSET S : Closed(T) => Sum(r, T) = Smaller(debt, Sum(a, T))}
<1>1. ASSUME NEW T \in SUBSET S, \A x \in T : T \ {x} \in Good
      PROVE  T \in Good
  <2> SUFFICES ASSUME Closed(T) PROVE Sum(r, T) = Smaller(debt, Sum(a, T))
    OBVIOUS
  <2>1. CASE T = {}
    <3>1. Sum(r, T) = 0 /\ Sum(a, T) = 0
      BY <2>1, SumOfNone
    <3> QED BY <3>1 DEF Smaller
  <2>2. CASE T # {}
    <3>1. IsFiniteSet(T)
      BY FS_Subset
    <3>2. PICK m \in T : \A x \in T : x <= m
      BY <2>2, <3>1, LargestExists
    <3> DEFINE W == T \ {m}
    <3>3. W = {y \in S : y < m}
      <4>1. ASSUME NEW y \in S, y < m PROVE y \in W
        BY <4>1
      <4>2. ASSUME NEW y \in W PROVE y \in S /\ y < m
        <5>1. y \in Nat /\ m \in Nat /\ y # m /\ y <= m
          BY <3>2
        <5> QED BY <5>1
      <4> HIDE DEF W
      <4> QED BY <4>1, <4>2
    <3>4. Closed(W)
      BY <3>3
    <3>5. Sum(r, W) = Smaller(debt, Sum(a, W))
      BY <1>1, <3>4
    <3>6. IsFiniteSet(W) /\ W \in SUBSET S
      BY <3>1, FS_Subset
    <3>7. r[m] = Smaller(a[m], Larger(0, debt - Sum(a, W)))
      BY <3>3
    <3>8. Sum(a, W) \in Nat /\ a[m] \in Nat
      BY <3>6, SumIsNat
    <3>9. ASSUME NEW x \in T PROVE r[x] \in Int
      <4> DEFINE below == {y \in S : y < x}
      <4>1. IsFiniteSet(below)
        BY FS_Subset
      <4>2. Sum(a, below) \in Nat
        BY <4>1, SumIsNat
      <4>3. r[x] = Smaller(a[x], Larger(0, debt - Sum(a, below))) /\ a[x] \in Nat
        OBVIOUS
      <4> HIDE DEF Sum, below
      <4> QED BY <4>2, <4>3 DEF Smaller, Larger
    <3>10. \A x \in T : a[x] \in Int
      OBVIOUS
    <3>11. Sum(r, T) = r[m] + Sum(r, W) /\ Sum(a, T) = a[m] + Sum(a, W)
      <4>1. Sum(r, T) = r[m] + Sum(r, W)
        BY <3>1, <3>9, SumRemoves
      <4>2. Sum(a, T) = a[m] + Sum(a, W)
        BY <3>1, <3>10, SumRemoves
      <4> QED BY <4>1, <4>2
    <3>12. Smaller(a[m], Larger(0, debt - Sum(a, W))) + Smaller(debt, Sum(a, W))
             = Smaller(debt, a[m] + Sum(a, W))
      BY <3>8, TakingOneMore
    <3>13. Sum(r, T) = Smaller(debt, Sum(a, T))
      <4> HIDE DEF Sum, W, Closed
      <4> QED BY <3>5, <3>7, <3>11, <3>12
    <3> QED BY <3>13
  <2> QED BY <2>1, <2>2
<1>2. S \in Good
  <2> HIDE DEF Good
  <2> QED BY <1>1, SubsetInduction
<1>3. Closed(S)
  OBVIOUS
<1> QED BY <1>2, <1>3

------------------------------------------------------------------------------
(* The recovery of debt.                                                   *)

\* At any time finitely many claims exist, and every retried claim does.
ExistingClaims == {c \in Claims : claimStatus[c] # "absent"}

FewClaims == IsFiniteSet(ExistingClaims) /\ retried \subseteq ExistingClaims

LEMMA ClaimsAreFew == Spec => []FewClaims
<1>1. Init => FewClaims
  <2> SUFFICES ASSUME Init PROVE FewClaims
    OBVIOUS
  <2>1. ExistingClaims = {} /\ retried = {}
    BY DEF Init, ExistingClaims
  <2> QED BY <2>1, FS_EmptySet DEF FewClaims
<1>2. TypeOK /\ FewClaims /\ [Next]_vars => FewClaims'
  <2> SUFFICES ASSUME TypeOK, FewClaims, [Next]_vars PROVE FewClaims'
    OBVIOUS
  <2>1. CASE /\ UNCHANGED retried
             /\ \A c \in Claims : claimStatus'[c] # "absent" <=> claimStatus[c] # "absent"
    <3>1. ExistingClaims' = ExistingClaims
      BY <2>1 DEF ExistingClaims
    <3> QED BY <2>1, <3>1 DEF FewClaims
  <2>2. ASSUME NEW targets, FailAffected(targets), NEW c \in Claims
        PROVE  claimStatus'[c] # "absent" <=> claimStatus[c] # "absent"
    BY <2>2 DEF FailAffected, Affected, IsOpen, OpenStatuses
  <2>3. ASSUME NEW c \in Claims, NEW p \in Partners, NEW selected \in SUBSET Earnings,
               CreateClaim(c, p, selected)
        PROVE  FewClaims'
    <3>1. ExistingClaims' = ExistingClaims \cup {c} /\ UNCHANGED retried
      BY <2>3 DEF CreateClaim, ExistingClaims, TypeOK
    <3> QED BY <3>1, FS_AddElement DEF FewClaims
  <2>4. ASSUME NEW c \in Claims, SimulateSuccess(c) \/ SimulateFailure(c)
        PROVE  FewClaims'
    BY <2>1, <2>4 DEF SimulateSuccess, SimulateFailure, Simulatable, TypeOK
  <2>5. ASSUME NEW c \in Claims, RetryClaim(c) PROVE FewClaims'
    <3>1. ExistingClaims' = ExistingClaims /\ c \in ExistingClaims
      BY <2>5 DEF RetryClaim, Retryable, ExistingClaims, TypeOK
    <3> QED BY <2>5, <3>1 DEF FewClaims, RetryClaim
  <2>6. CASE \E k \in Conversions : ConversionStep(k)
    BY <2>1, <2>2, <2>6
       DEF ConversionStep, CreateConversion, Complete, Cancel, Refund, Withdraw, claimVars
  <2>7. CASE \E e \in Earnings : EarningStep(e)
    BY <2>1, <2>2, <2>7 DEF EarningStep, Hold, Release, Void, Withdraw, claimVars
  <2>8. CASE \E p \in Partners : PartnerStep(p)
    BY <2>1, <2>2, <2>8 DEF PartnerStep, Suspend, Reactivate, Withdraw, claimVars
  <2>9. CASE UNCHANGED vars
    BY <2>1, <2>9 DEF vars, claimVars
  <2> QED BY <2>3, <2>4, <2>5, <2>6, <2>7, <2>8, <2>9 DEF Next, ClaimStep
<1> QED BY <1>1, <1>2, TypeCorrect, PTL DEF Spec

\* What the sums of the recovery ledger add up.
Due(e) == ledger[e].accrual - ledger[e].payout - ledger[e].reversal
Dues == [e \in Earnings |-> Due(e)]
OwnEarnings(p) == {e \in Earnings : EarnedBy(e) = p}
Withheld(c) == [e \in Earnings |-> Amount(e) - payout[c][e]]
OwnItems(c, p) == {e \in items[c] : EarnedBy(e) = p}
HeldBacks(p) == [c \in Claims |-> HeldBack(c, p)]
OpenClaims == {c \in Claims : IsOpen(c)}
StandingRetries == {c \in retried : claimStatus[c] \in OpenStatuses \cup {"settled"}}

LEMMA RecoverySums ==
  /\ \A p : LedgerBalance(p) = SumFunctionOnSet(Dues, OwnEarnings(p))
  /\ \A c, p : HeldBack(c, p) = SumFunctionOnSet(Withheld(c), OwnItems(c, p))
  /\ \A p : /\ ReservedRecovery(p) = SumFunctionOnSet(HeldBacks(p), OpenClaims)
            /\ RetriedRecovery(p) = SumFunctionOnSet(HeldBacks(p), StandingRetries)
BY DEF LedgerBalance, HeldBack, ReservedRecovery, RetriedRecovery, Dues, Due, OwnEarnings,
       Withheld, OwnItems, HeldBacks, OpenClaims, StandingRetries

LEMMA RecoverySumsNext ==
  /\ \A p : LedgerBalance(p)' = SumFunctionOnSet(Dues', OwnEarnings(p)')
  /\ \A c, p : HeldBack(c, p)' = SumFunctionOnSet(Withheld(c)', OwnItems(c, p)')
  /\ \A p : /\ ReservedRecovery(p)' = SumFunctionOnSet(HeldBacks(p)', OpenClaims')
            /\ RetriedRecovery(p)' = SumFunctionOnSet(HeldBacks(p)', StandingRetries')
BY DEF LedgerBalance, HeldBack, ReservedRecovery, RetriedRecovery, Dues, Due, OwnEarnings,
       Withheld, OwnItems, HeldBacks, OpenClaims, StandingRetries

RecoveryInv == TypeOK /\ PaidInv /\ FewClaims

LEMMA SetsAreFinite ==
  ASSUME RecoveryInv, NEW p
  PROVE  /\ IsFiniteSet(OwnEarnings(p))
         /\ \A c \in Claims : IsFiniteSet(OwnItems(c, p))
         /\ IsFiniteSet(OpenClaims) /\ IsFiniteSet(StandingRetries)
<1>1. OwnEarnings(p) \subseteq Earnings /\ \A c \in Claims : OwnItems(c, p) \subseteq Earnings
  BY DEF RecoveryInv, TypeOK, OwnEarnings, OwnItems
<1>2. OpenClaims \subseteq ExistingClaims /\ StandingRetries \subseteq ExistingClaims
  BY DEF RecoveryInv, FewClaims, OpenClaims, StandingRetries, ExistingClaims, IsOpen, OpenStatuses
<1>3. IsFiniteSet(Earnings) /\ IsFiniteSet(ExistingClaims)
  BY ConstantsAssumption DEF RecoveryInv, FewClaims
<1> QED BY <1>1, <1>2, <1>3, FS_Subset

LEMMA RecoveryIsNat ==
  RecoveryInv =>
    /\ \A e \in Earnings : Due(e) \in Int
    /\ \A c \in Claims : \A e \in items[c] : Withheld(c)[e] \in Nat
    /\ \A p : /\ LedgerBalance(p) \in Int
              /\ \A c \in Claims : HeldBack(c, p) \in Nat
              /\ ReservedRecovery(p) \in Nat /\ RetriedRecovery(p) \in Nat
<1> SUFFICES ASSUME RecoveryInv, NEW p
             PROVE  /\ \A e \in Earnings : Due(e) \in Int
                    /\ LedgerBalance(p) \in Int
                    /\ \A c \in Claims : \A e \in items[c] : Withheld(c)[e] \in Nat
                    /\ \A c \in Claims : HeldBack(c, p) \in Nat
                    /\ ReservedRecovery(p) \in Nat /\ RetriedRecovery(p) \in Nat
  OBVIOUS
<1>1. \A e \in Earnings : Due(e) \in Int
  <2> SUFFICES ASSUME NEW e \in Earnings PROVE Due(e) \in Int
    OBVIOUS
  <2>1. ledger[e] \in [accrual : Nat, payout : Nat, reversal : Nat]
    BY DEF RecoveryInv, TypeOK
  <2> QED BY <2>1 DEF Due
<1>2. LedgerBalance(p) \in Int
  <2>1. \A e \in OwnEarnings(p) : Dues[e] \in Int
    BY <1>1 DEF Dues, OwnEarnings
  <2> QED BY <2>1, SetsAreFinite, SumIsInt, RecoverySums
<1>3. ASSUME NEW c \in Claims, NEW e \in items[c] PROVE Withheld(c)[e] \in Nat
  <2>1. e \in Earnings /\ payout[c][e] \in Nat /\ payout[c][e] <= Amount(e)
    BY <1>3 DEF RecoveryInv, TypeOK, PaidInv
  <2>2. Amount(e) \in Nat
    BY <2>1, AmountIsNat DEF RecoveryInv
  <2> QED BY <2>1, <2>2 DEF Withheld
<1>4. ASSUME NEW c \in Claims PROVE HeldBack(c, p) \in Nat
  <2>1. \A e \in OwnItems(c, p) : Withheld(c)[e] \in Nat
    BY <1>3, <1>4 DEF OwnItems
  <2>2. SumFunctionOnSet(Withheld(c), OwnItems(c, p)) \in Nat
    BY <1>4, <2>1, SetsAreFinite, SumIsNat
  <2> QED BY <2>2, RecoverySums
<1>5. \A c \in OpenClaims \cup StandingRetries : HeldBacks(p)[c] \in Nat
  BY <1>4 DEF HeldBacks, OpenClaims, StandingRetries, RecoveryInv, TypeOK
<1>6. ReservedRecovery(p) \in Nat /\ RetriedRecovery(p) \in Nat
  BY <1>5, SetsAreFinite, SumIsNat, RecoverySums
<1> QED BY <1>1, <1>2, <1>3, <1>4, <1>6

LEMMA RecoveryIsNatNext ==
  ASSUME NEW p
  PROVE  RecoveryInv' =>
           (/\ LedgerBalance(p) \in Int
            /\ \A c \in Claims : HeldBack(c, p) \in Nat
            /\ ReservedRecovery(p) \in Nat /\ RetriedRecovery(p) \in Nat)'
<1>1. RecoveryInv =>
        /\ LedgerBalance(p) \in Int
        /\ \A c \in Claims : HeldBack(c, p) \in Nat
        /\ ReservedRecovery(p) \in Nat /\ RetriedRecovery(p) \in Nat
  BY RecoveryIsNat
<1> QED BY <1>1, PTL

\* What a claim holds back changes only with its items, their payouts and rules.
LEMMA HeldBackStays ==
  ASSUME RecoveryInv, RecoveryInv', NEW p, NEW c \in Claims, items'[c] = items[c],
         payout'[c] = payout[c], \A e \in items[c] : snapshot'[e] = snapshot[e]
  PROVE  HeldBack(c, p)' = HeldBack(c, p)
<1>1. OwnItems(c, p)' = OwnItems(c, p)
  BY DEF OwnItems, EarnedBy
<1>2. \A e \in OwnItems(c, p) : e \in items[c] /\ e \in Earnings
  BY DEF OwnItems, RecoveryInv, TypeOK
<1>3. \A e \in OwnItems(c, p) : Withheld(c)[e] \in Int /\ Withheld(c)'[e] = Withheld(c)[e]
  <2>1. \A e \in OwnItems(c, p) : Withheld(c)[e] \in Int
    BY <1>2, RecoveryIsNat
  <2>2. \A e \in OwnItems(c, p) : Withheld(c)'[e] = Withheld(c)[e]
    BY <1>2 DEF Withheld, Amount
  <2> QED BY <2>1, <2>2
<1>4. SumFunctionOnSet(Withheld(c)', OwnItems(c, p)) = SumFunctionOnSet(Withheld(c), OwnItems(c, p))
  BY <1>3, SetsAreFinite, SumSame
<1>5. HeldBack(c, p)' = SumFunctionOnSet(Withheld(c)', OwnItems(c, p)')
  BY RecoverySumsNext
<1> QED BY <1>1, <1>4, <1>5, RecoverySums

LEMMA BalanceStays ==
  ASSUME NEW p, UNCHANGED ledger
  PROVE  LedgerBalance(p)' = LedgerBalance(p)
BY DEF LedgerBalance, EarnedBy

Bounded(p) == ProjectedBalance(p) <= RetriedRecovery(p)

\* Open claims may fail and the balance may fall: a failed claim that was
\* retried held back the same in both sums.
LEMMA FallingKeepsBound ==
  ASSUME RecoveryInv, RecoveryInv', NEW p, Bounded(p), UNCHANGED <<items, payout, retried>>,
         \A c \in Claims : \A e \in items[c] : snapshot'[e] = snapshot[e],
         \A c \in Claims : \/ claimStatus'[c] = claimStatus[c]
                          \/ (IsOpen(c) /\ claimStatus'[c] = "failed"),
         LedgerBalance(p)' <= LedgerBalance(p)
  PROVE  Bounded(p)'
<1> DEFINE lost == OpenClaims \ OpenClaims'
           lostRetries == StandingRetries \ StandingRetries'
<1>1. /\ OpenClaims' \subseteq OpenClaims
      /\ StandingRetries' \subseteq StandingRetries
      /\ lostRetries \subseteq lost
  BY DEF OpenClaims, StandingRetries, IsOpen, OpenStatuses, RecoveryInv, TypeOK
<1>2. \A c \in OpenClaims \cup StandingRetries :
        HeldBacks(p)[c] \in Nat /\ HeldBacks(p)'[c] = HeldBacks(p)[c]
  <2> SUFFICES ASSUME NEW c \in Claims
               PROVE  HeldBacks(p)[c] \in Nat /\ HeldBacks(p)'[c] = HeldBacks(p)[c]
    BY DEF OpenClaims, StandingRetries, RecoveryInv, TypeOK
  <2>1. HeldBack(c, p)' = HeldBack(c, p)
    BY HeldBackStays
  <2> QED BY <2>1, RecoveryIsNat DEF HeldBacks
<1>3. IsFiniteSet(OpenClaims) /\ IsFiniteSet(StandingRetries)
  BY SetsAreFinite
<1>4. /\ ReservedRecovery(p) = SumFunctionOnSet(HeldBacks(p), OpenClaims')
                                + SumFunctionOnSet(HeldBacks(p), lost)
      /\ RetriedRecovery(p) = SumFunctionOnSet(HeldBacks(p), StandingRetries')
                                + SumFunctionOnSet(HeldBacks(p), lostRetries)
  BY <1>1, <1>2, <1>3, SumSplits, RecoverySums
<1>5. SumFunctionOnSet(HeldBacks(p), lostRetries) <= SumFunctionOnSet(HeldBacks(p), lost)
  BY <1>1, <1>2, <1>3, FS_Subset, SumOfPart
<1>6. /\ ReservedRecovery(p)' = SumFunctionOnSet(HeldBacks(p), OpenClaims')
      /\ RetriedRecovery(p)' = SumFunctionOnSet(HeldBacks(p), StandingRetries')
  <2>1. ASSUME NEW C, C \subseteq OpenClaims \/ C \subseteq StandingRetries
        PROVE  SumFunctionOnSet(HeldBacks(p)', C) = SumFunctionOnSet(HeldBacks(p), C)
    <3>1. IsFiniteSet(C)
      BY <1>3, <2>1, FS_Subset
    <3>2. \A c \in C : HeldBacks(p)[c] \in Int /\ HeldBacks(p)'[c] = HeldBacks(p)[c]
      BY <1>2, <2>1
    <3> QED BY <3>1, <3>2, SumSame
  <2> QED BY <1>1, <2>1, RecoverySumsNext
<1>7. /\ SumFunctionOnSet(HeldBacks(p), lost) \in Nat
      /\ SumFunctionOnSet(HeldBacks(p), lostRetries) \in Nat
  BY <1>1, <1>2, <1>3, FS_Subset, SumIsNat
<1>8. /\ LedgerBalance(p) \in Int /\ LedgerBalance(p)' \in Int
      /\ ReservedRecovery(p)' \in Nat /\ RetriedRecovery(p)' \in Nat
  <2>1. LedgerBalance(p) \in Int
    BY RecoveryIsNat
  <2>2. /\ LedgerBalance(p)' \in Int
        /\ ReservedRecovery(p)' \in Nat /\ RetriedRecovery(p)' \in Nat
    BY RecoveryIsNatNext
  <2> QED BY <2>1, <2>2
<1> HIDE DEF lost, lostRetries
<1> QED BY <1>4, <1>5, <1>6, <1>7, <1>8 DEF Bounded, ProjectedBalance

\* Settling moves what the claim holds back from the reservations to the ledger.
LEMMA SettlingKeepsBound ==
  ASSUME RecoveryInv, RecoveryInv', NEW p, Bounded(p), NEW c \in Claims, SimulateSuccess(c)
  PROVE  Bounded(p)'
<1> DEFINE rest == OwnEarnings(p) \ OwnItems(c, p)
<1>1. /\ OwnEarnings(p)' = OwnEarnings(p)
      /\ OwnItems(c, p) \subseteq OwnEarnings(p) /\ OwnItems(c, p) \subseteq items[c]
      /\ IsFiniteSet(OwnEarnings(p)) /\ IsFiniteSet(OwnItems(c, p)) /\ IsFiniteSet(rest)
  <2>1. /\ OwnEarnings(p)' = OwnEarnings(p)
        /\ OwnItems(c, p) \subseteq OwnEarnings(p) /\ OwnItems(c, p) \subseteq items[c]
    BY DEF OwnEarnings, OwnItems, EarnedBy, RecoveryInv, TypeOK
  <2>2. IsFiniteSet(OwnEarnings(p)) /\ IsFiniteSet(OwnItems(c, p))
    BY SetsAreFinite
  <2> QED BY <2>1, <2>2, FS_Subset
<1>2. ASSUME NEW e \in OwnEarnings(p)
      PROVE  /\ Dues[e] \in Int /\ Dues'[e] \in Int
             /\ e \in items[c] => Dues[e] = 0 /\ Dues'[e] = Withheld(c)[e]
             /\ e \notin items[c] => Dues'[e] = Dues[e]
  <2>1. e \in Earnings /\ Dues[e] = Due(e) /\ Dues'[e] = Due(e)'
    BY DEF OwnEarnings, Dues
  <2>2. CASE e \in items[c]
    <3>1. ledger[e] = NoRows
      BY <2>1, <2>2 DEF SimulateSuccess, Simulatable, RecoveryInv, PaidInv, PaidOnce, PaidOut
    <3>2. ledger'[e] = [accrual |-> Amount(e), payout |-> 0 + payout[c][e], reversal |-> 0]
      BY <2>1, <2>2, <3>1 DEF SimulateSuccess, NoRows
    <3>3. Amount(e) \in Nat /\ payout[c][e] \in Nat
      BY <2>1, AmountIsNat DEF RecoveryInv, TypeOK
    <3>4. Due(e) = 0 /\ Due(e)' = Amount(e) - payout[c][e]
      BY <3>1, <3>2, <3>3 DEF Due, NoRows
    <3> QED BY <2>1, <2>2, <3>3, <3>4 DEF Withheld
  <2>3. CASE e \notin items[c]
    <3>1. Due(e) \in Int
      BY <2>1, RecoveryIsNat
    <3>2. ledger'[e] = ledger[e]
      BY <2>1, <2>3 DEF SimulateSuccess
    <3> QED BY <2>1, <2>3, <3>1, <3>2 DEF Due
  <2> QED BY <2>2, <2>3
<1>3. LedgerBalance(p)' = LedgerBalance(p) + HeldBack(c, p)
  <2>1. /\ SumFunctionOnSet(Dues, OwnEarnings(p))
             = SumFunctionOnSet(Dues, OwnItems(c, p)) + SumFunctionOnSet(Dues, rest)
        /\ SumFunctionOnSet(Dues', OwnEarnings(p))
             = SumFunctionOnSet(Dues', OwnItems(c, p)) + SumFunctionOnSet(Dues', rest)
    BY <1>1, <1>2, SumSplits
  <2>2. SumFunctionOnSet(Dues, OwnItems(c, p)) = 0
    BY <1>1, <1>2, SumIsNat
  <2>3. SumFunctionOnSet(Dues', OwnItems(c, p)) = SumFunctionOnSet(Withheld(c), OwnItems(c, p))
    <3>1. \A e \in OwnItems(c, p) : Withheld(c)[e] \in Int /\ Dues'[e] = Withheld(c)[e]
      BY <1>1, <1>2
    <3> QED BY <1>1, <3>1, SumSame
  <2>4. SumFunctionOnSet(Dues', rest) = SumFunctionOnSet(Dues, rest)
    <3>1. \A e \in rest : Dues[e] \in Int /\ Dues'[e] = Dues[e]
      BY <1>1, <1>2 DEF OwnItems, OwnEarnings
    <3> QED BY <1>1, <3>1, SumSame
  <2>5. SumFunctionOnSet(Dues, rest) \in Int
    <3>1. \A e \in rest : Dues[e] \in Int
      BY <1>2
    <3> QED BY <1>1, <3>1, SumIsInt
  <2>6. HeldBack(c, p) \in Nat
    BY RecoveryIsNat
  <2> HIDE DEF rest
  <2> QED BY <1>1, <2>1, <2>2, <2>3, <2>4, <2>5, <2>6, RecoverySums, RecoverySumsNext
<1>4. ASSUME NEW d \in Claims PROVE HeldBacks(p)'[d] = HeldBacks(p)[d] /\ HeldBacks(p)[d] \in Nat
  <2>1. HeldBack(d, p)' = HeldBack(d, p)
    BY HeldBackStays DEF SimulateSuccess
  <2> QED BY <2>1, RecoveryIsNat DEF HeldBacks
<1>5. /\ c \in OpenClaims /\ OpenClaims' = OpenClaims \ {c}
      /\ StandingRetries' = StandingRetries
  BY DEF SimulateSuccess, Simulatable, OpenClaims, StandingRetries, IsOpen, OpenStatuses,
         RecoveryInv, TypeOK
<1>6. ReservedRecovery(p) = HeldBack(c, p) + ReservedRecovery(p)'
  <2>1. IsFiniteSet(OpenClaims) /\ IsFiniteSet(OpenClaims \ {c})
    BY SetsAreFinite, FS_Subset
  <2>2. \A d \in OpenClaims : HeldBacks(p)[d] \in Int /\ HeldBacks(p)'[d] = HeldBacks(p)[d]
    BY <1>4 DEF OpenClaims
  <2>3. SumFunctionOnSet(HeldBacks(p)', OpenClaims \ {c})
          = SumFunctionOnSet(HeldBacks(p), OpenClaims \ {c})
    BY <2>1, <2>2, SumSame
  <2>4. SumFunctionOnSet(HeldBacks(p), OpenClaims)
          = HeldBacks(p)[c] + SumFunctionOnSet(HeldBacks(p), OpenClaims \ {c})
    BY <1>5, <2>1, <2>2, SumRemoves
  <2> QED BY <1>5, <2>3, <2>4, RecoverySums, RecoverySumsNext DEF HeldBacks
<1>7. RetriedRecovery(p)' = RetriedRecovery(p)
  <2>1. \A d \in StandingRetries : HeldBacks(p)[d] \in Int /\ HeldBacks(p)'[d] = HeldBacks(p)[d]
    BY <1>4 DEF StandingRetries, RecoveryInv, TypeOK
  <2>2. SumFunctionOnSet(HeldBacks(p)', StandingRetries)
          = SumFunctionOnSet(HeldBacks(p), StandingRetries)
    BY <2>1, SetsAreFinite, SumSame
  <2> QED BY <1>5, <2>2, RecoverySums, RecoverySumsNext
<1>8. /\ LedgerBalance(p) \in Int /\ HeldBack(c, p) \in Nat
      /\ ReservedRecovery(p) \in Nat /\ RetriedRecovery(p) \in Nat
  BY RecoveryIsNat
<1>9. ReservedRecovery(p)' \in Nat
  BY RecoveryIsNatNext
<1> QED BY <1>3, <1>6, <1>7, <1>8, <1>9 DEF Bounded, ProjectedBalance

\* A retried claim holds back again what it held back at first, in both sums.
LEMMA RetryKeepsBound ==
  ASSUME RecoveryInv, RecoveryInv', NEW p, Bounded(p), NEW c \in Claims, RetryClaim(c)
  PROVE  Bounded(p)'
<1>1. ASSUME NEW d \in Claims PROVE HeldBacks(p)'[d] = HeldBacks(p)[d] /\ HeldBacks(p)[d] \in Nat
  <2>1. HeldBack(d, p)' = HeldBack(d, p)
    BY HeldBackStays DEF RetryClaim
  <2> QED BY <2>1, RecoveryIsNat DEF HeldBacks
<1>2. /\ c \notin OpenClaims /\ OpenClaims' = OpenClaims \cup {c}
      /\ c \notin StandingRetries /\ StandingRetries' = StandingRetries \cup {c}
  BY DEF RetryClaim, Retryable, OpenClaims, StandingRetries, IsOpen, OpenStatuses,
         RecoveryInv, TypeOK
<1>3. ASSUME NEW C \in {OpenClaims, StandingRetries}
      PROVE  SumFunctionOnSet(HeldBacks(p)', C \cup {c})
               = HeldBack(c, p) + SumFunctionOnSet(HeldBacks(p), C)
  <2>1. IsFiniteSet(C) /\ IsFiniteSet(C \cup {c}) /\ (C \cup {c}) \ {c} = C
    BY <1>2, SetsAreFinite, FS_AddElement
  <2>2. \A d \in C \cup {c} : HeldBacks(p)[d] \in Int /\ HeldBacks(p)'[d] = HeldBacks(p)[d]
    BY <1>1 DEF OpenClaims, StandingRetries, RecoveryInv, TypeOK
  <2>3. SumFunctionOnSet(HeldBacks(p)', C \cup {c}) = SumFunctionOnSet(HeldBacks(p), C \cup {c})
    BY <2>1, <2>2, SumSame
  <2>4. SumFunctionOnSet(HeldBacks(p), C \cup {c})
          = HeldBacks(p)[c] + SumFunctionOnSet(HeldBacks(p), C)
    <3>1. c \in C \cup {c}
      OBVIOUS
    <3>2. SumFunctionOnSet(HeldBacks(p), C \cup {c})
            = HeldBacks(p)[c] + SumFunctionOnSet(HeldBacks(p), (C \cup {c}) \ {c})
      BY <2>1, <2>2, <3>1, SumRemoves
    <3> QED BY <2>1, <3>2
  <2> QED BY <2>3, <2>4 DEF HeldBacks
<1>4. /\ ReservedRecovery(p)' = HeldBack(c, p) + ReservedRecovery(p)
      /\ RetriedRecovery(p)' = HeldBack(c, p) + RetriedRecovery(p)
  BY <1>2, <1>3, RecoverySums, RecoverySumsNext
<1>5. LedgerBalance(p)' = LedgerBalance(p)
  BY BalanceStays DEF RetryClaim
<1>6. /\ LedgerBalance(p) \in Int /\ HeldBack(c, p) \in Nat
      /\ ReservedRecovery(p) \in Nat /\ RetriedRecovery(p) \in Nat
  BY RecoveryIsNat
<1> QED BY <1>4, <1>5, <1>6 DEF Bounded, ProjectedBalance

\* A refund only lowers the balance: reversals grow.
LEMMA RefundLowersBalance ==
  ASSUME RecoveryInv, RecoveryInv', NEW p, NEW k \in Conversions, NEW base \in RefundInputs(k),
         Refund(k, base)
  PROVE  LedgerBalance(p)' <= LedgerBalance(p)
<1>1. ASSUME NEW e \in OwnEarnings(p)
      PROVE  Dues[e] \in Int /\ Dues'[e] \in Int /\ Dues'[e] <= Dues[e]
  <2>1. e \in Earnings /\ Dues[e] = Due(e) /\ Dues'[e] = Due(e)'
    BY DEF OwnEarnings, Dues
  <2>2. ledger[e] \in [accrual : Nat, payout : Nat, reversal : Nat]
    BY <2>1 DEF RecoveryInv, TypeOK
  <2>3. CASE e \in Reversing(base)
    <3>1. e \in DOMAIN base /\ base[e] \in Nat
      BY <2>3, RefundInputType DEF Reversing
    <3>2. /\ DesiredReversal(e, base[e]) \in Nat /\ reversed[e] \in Nat
          /\ DesiredReversal(e, base[e]) > reversed[e]
      BY <2>1, <2>3, <3>1, DesiredReversalIsNat DEF Reversing, RecoveryInv, TypeOK
    <3>3. /\ ledger'[e].accrual = ledger[e].accrual /\ ledger'[e].payout = ledger[e].payout
          /\ ledger'[e].reversal
               = ledger[e].reversal + (DesiredReversal(e, base[e]) - reversed[e])
      BY <2>1, <2>2, <2>3 DEF Refund
    <3> QED BY <2>1, <2>2, <3>2, <3>3 DEF Due
  <2>4. CASE e \notin Reversing(base)
    <3>1. ledger'[e] = ledger[e]
      BY <2>1, <2>4 DEF Refund
    <3> QED BY <2>1, <2>2, <3>1 DEF Due
  <2> QED BY <2>3, <2>4
<1>2. OwnEarnings(p)' = OwnEarnings(p)
  BY DEF OwnEarnings, EarnedBy
<1>3. SumFunctionOnSet(Dues', OwnEarnings(p)) <= SumFunctionOnSet(Dues, OwnEarnings(p))
  BY <1>1, SetsAreFinite, SumGrows
<1> QED BY <1>2, <1>3, RecoverySums, RecoverySumsNext

\* What a new claim takes of each of its earnings, in the order of their ids.
Amounts == [e \in Earnings |-> Amount(e)]
DebtOf(p) == Larger(0, -ProjectedBalance(p))
Taken(p, selected) == [e \in Earnings |-> Amount(e) - Allocate(p, selected)[e]]

LEMMA NewClaimTakes ==
  ASSUME RecoveryInv, NEW p, NEW selected \in SUBSET Earnings
  PROVE  /\ DebtOf(p) \in Nat
         /\ \A e \in selected :
              /\ Amount(e) \in Nat /\ SumFunctionOnSet(Amounts, {f \in selected : f < e}) \in Nat
              /\ Taken(p, selected)[e] =
                   Smaller(Amount(e),
                     Larger(0, DebtOf(p) - SumFunctionOnSet(Amounts, {f \in selected : f < e})))
         /\ SumFunctionOnSet(Amounts, selected) \in Nat
         /\ SumFunctionOnSet(Taken(p, selected), selected)
              = Smaller(DebtOf(p), SumFunctionOnSet(Amounts, selected))
<1>1. DebtOf(p) \in Nat
  <2>1. LedgerBalance(p) \in Int /\ ReservedRecovery(p) \in Nat
    BY RecoveryIsNat
  <2> QED BY <2>1 DEF DebtOf, ProjectedBalance, Larger
<1>2. \A e \in selected : Amounts[e] = Amount(e) /\ Amount(e) \in Nat
  BY AmountIsNat DEF Amounts, RecoveryInv
<1>3. IsFiniteSet(selected)
  BY ConstantsAssumption, FS_Subset
<1>4. ASSUME NEW e \in selected
      PROVE  SumFunctionOnSet(Amounts, {f \in selected : f < e}) \in Nat
  <2> DEFINE below == {f \in selected : f < e}
  <2>1. IsFiniteSet(below) /\ \A f \in below : Amounts[f] \in Nat
    BY <1>2, <1>3, FS_Subset
  <2> HIDE DEF below
  <2>2. SumFunctionOnSet(Amounts, below) \in Nat
    BY <2>1, SumIsNat
  <2> QED BY <2>2 DEF below
<1>5. ASSUME NEW e \in selected
      PROVE  Taken(p, selected)[e] =
               Smaller(Amount(e),
                 Larger(0, DebtOf(p) - SumFunctionOnSet(Amounts, {f \in selected : f < e})))
  <2> DEFINE absorbed == SumFunctionOnSet(Amounts, {f \in selected : f < e})
             recovery == Smaller(Amount(e), Larger(0, DebtOf(p) - absorbed))
  <2>1. Allocate(p, selected)[e] = Amount(e) - recovery
    BY DEF Allocate, DebtOf, Amounts
  <2>2. absorbed \in Nat /\ Amount(e) \in Nat
    BY <1>2, <1>4
  <2> HIDE DEF absorbed
  <2>3. recovery \in Nat
    BY <1>1, <2>2 DEF Smaller, Larger
  <2> HIDE DEF recovery
  <2>4. Taken(p, selected)[e] = recovery
    BY <2>1, <2>2, <2>3 DEF Taken
  <2> QED BY <2>4 DEF recovery, absorbed
<1>6. SumFunctionOnSet(Amounts, selected) \in Nat
  BY <1>2, <1>3, SumIsNat
<1>7. SumFunctionOnSet(Taken(p, selected), selected)
        = Smaller(DebtOf(p), SumFunctionOnSet(Amounts, selected))
  <2>1. \A e \in selected : e \in Nat
    BY ConstantsAssumption
  <2>2. \A e \in selected : Amounts[e] \in Nat
    BY <1>2
  <2>3. \A e \in selected : Taken(p, selected)[e]
          = Smaller(Amounts[e],
              Larger(0, DebtOf(p) - SumFunctionOnSet(Amounts, {f \in selected : f < e})))
    BY <1>2, <1>5
  <2> QED BY <1>1, <1>3, <2>1, <2>2, <2>3, GreedyTakesAll
<1> QED BY <1>1, <1>2, <1>4, <1>5, <1>6, <1>7

\* Creating a claim adds what it takes of its own partner's earnings.
LEMMA CreatingTakes ==
  ASSUME RecoveryInv, RecoveryInv', NEW p, NEW q \in Partners, NEW c \in Claims,
         NEW selected \in SUBSET Earnings, CreateClaim(c, q, selected)
  PROVE  /\ p = q => ProjectedBalance(p)'
                       = ProjectedBalance(p) + SumFunctionOnSet(Taken(p, selected), selected)
         /\ p # q => ProjectedBalance(p)' = ProjectedBalance(p)
         /\ RetriedRecovery(p)' = RetriedRecovery(p)
<1>1. /\ items'[c] = selected /\ payout'[c] = Allocate(q, selected)
      /\ \A e \in selected : EarnedBy(e) = q
      /\ snapshot' = snapshot /\ ledger' = ledger /\ retried' = retried
  BY DEF CreateClaim, RecoveryInv, TypeOK
<1>2. c \notin OpenClaims /\ OpenClaims' = OpenClaims \cup {c}
  BY DEF CreateClaim, OpenClaims, IsOpen, OpenStatuses, RecoveryInv, TypeOK
<1>3. c \notin retried /\ StandingRetries' = StandingRetries
  <2>1. c \notin retried
    BY DEF CreateClaim, RecoveryInv, FewClaims, ExistingClaims
  <2> QED BY <1>1, <2>1 DEF CreateClaim, StandingRetries, RecoveryInv, TypeOK
<1>4. ASSUME NEW d \in Claims, d # c
      PROVE  HeldBacks(p)'[d] = HeldBacks(p)[d] /\ HeldBacks(p)[d] \in Nat
  <2>1. items'[d] = items[d] /\ payout'[d] = payout[d]
    BY <1>4 DEF CreateClaim, RecoveryInv, TypeOK
  <2>2. HeldBack(d, p)' = HeldBack(d, p)
    BY <1>1, <2>1, HeldBackStays
  <2> QED BY <2>2, RecoveryIsNat DEF HeldBacks
<1>5. ReservedRecovery(p)' = HeldBack(c, p)' + ReservedRecovery(p)
  <2> DEFINE C == OpenClaims'
  <2>1. IsFiniteSet(OpenClaims) /\ IsFiniteSet(C) /\ c \in C /\ C \ {c} = OpenClaims
    BY <1>2, SetsAreFinite, FS_AddElement
  <2>2. HeldBacks(p)'[c] = HeldBack(c, p)' /\ HeldBack(c, p)' \in Nat
    <3>1. HeldBack(c, p)' \in Nat
      BY RecoveryIsNatNext
    <3> QED BY <3>1 DEF HeldBacks
  <2>3. \A d \in OpenClaims : HeldBacks(p)[d] \in Int /\ HeldBacks(p)'[d] = HeldBacks(p)[d]
    BY <1>2, <1>4 DEF OpenClaims
  <2>4. \A d \in C : HeldBacks(p)'[d] \in Int
    BY <2>1, <2>2, <2>3
  <2>5. SumFunctionOnSet(HeldBacks(p)', C)
          = HeldBacks(p)'[c] + SumFunctionOnSet(HeldBacks(p)', C \ {c})
    BY <2>1, <2>4, SumRemoves
  <2>6. SumFunctionOnSet(HeldBacks(p)', OpenClaims) = SumFunctionOnSet(HeldBacks(p), OpenClaims)
    BY <2>1, <2>3, SumSame
  <2> QED BY <2>1, <2>2, <2>5, <2>6, RecoverySums, RecoverySumsNext
<1>6. RetriedRecovery(p)' = RetriedRecovery(p)
  <2>1. \A d \in StandingRetries : HeldBacks(p)[d] \in Int /\ HeldBacks(p)'[d] = HeldBacks(p)[d]
    BY <1>3, <1>4 DEF StandingRetries, RecoveryInv, TypeOK
  <2>2. SumFunctionOnSet(HeldBacks(p)', StandingRetries)
          = SumFunctionOnSet(HeldBacks(p), StandingRetries)
    BY <2>1, SetsAreFinite, SumSame
  <2> QED BY <1>3, <2>2, RecoverySums, RecoverySumsNext
<1>7. LedgerBalance(p)' = LedgerBalance(p)
  BY <1>1, BalanceStays
<1>8. LedgerBalance(p) \in Int /\ ReservedRecovery(p) \in Nat
  BY RecoveryIsNat
<1>9. CASE p = q
  <2>1. OwnItems(c, p)' = selected
    BY <1>1, <1>9 DEF OwnItems, EarnedBy
  <2>2. \A e \in selected : Withheld(c)'[e] = Taken(p, selected)[e] /\ Taken(p, selected)[e] \in Int
    <3> SUFFICES ASSUME NEW e \in selected
                 PROVE  Withheld(c)'[e] = Taken(p, selected)[e] /\ Taken(p, selected)[e] \in Int
      OBVIOUS
    <3>1. Amount(e)' = Amount(e) /\ Amount(e) \in Nat /\ Allocate(q, selected)[e] \in Int
      BY <1>1, AmountIsNat DEF Amount, CreateClaim, RecoveryInv
    <3> QED BY <1>1, <1>9, <3>1 DEF Withheld, Taken
  <2>3. IsFiniteSet(selected)
    BY ConstantsAssumption, FS_Subset
  <2>4. SumFunctionOnSet(Withheld(c)', selected) = SumFunctionOnSet(Taken(p, selected), selected)
    BY <2>2, <2>3, SumSame
  <2>5. HeldBack(c, p)' = SumFunctionOnSet(Taken(p, selected), selected)
    BY <2>1, <2>4, RecoverySumsNext
  <2>6. SumFunctionOnSet(Taken(p, selected), selected) \in Int
    BY <2>2, <2>3, SumIsInt
  <2> QED BY <1>5, <1>6, <1>7, <1>8, <1>9, <2>5, <2>6 DEF ProjectedBalance
<1>10. CASE p # q
  <2>1. OwnItems(c, p)' = {}
    BY <1>1, <1>10 DEF OwnItems, EarnedBy
  <2>2. HeldBack(c, p)' = 0
    BY <2>1, SumOfNone, RecoverySumsNext
  <2> QED BY <1>5, <1>6, <1>7, <1>8, <1>10, <2>2 DEF ProjectedBalance
<1> QED BY <1>9, <1>10

LEMMA CreatingKeepsBound ==
  ASSUME RecoveryInv, RecoveryInv', NEW p, Bounded(p), NEW q \in Partners, NEW c \in Claims,
         NEW selected \in SUBSET Earnings, CreateClaim(c, q, selected)
  PROVE  Bounded(p)'
<1> DEFINE taken == SumFunctionOnSet(Taken(p, selected), selected)
           whole == SumFunctionOnSet(Amounts, selected)
<1>1. ProjectedBalance(p) \in Int /\ RetriedRecovery(p) \in Nat
  BY RecoveryIsNat DEF ProjectedBalance
<1>2. /\ p = q => ProjectedBalance(p)' = ProjectedBalance(p) + taken
      /\ p # q => ProjectedBalance(p)' = ProjectedBalance(p)
      /\ RetriedRecovery(p)' = RetriedRecovery(p)
  BY CreatingTakes
<1>3. taken = Smaller(DebtOf(p), whole) /\ whole \in Nat
  BY NewClaimTakes
<1> HIDE DEF taken, whole
<1> QED BY <1>1, <1>2, <1>3 DEF Bounded, DebtOf, Smaller, Larger

\* Whatever fails, is retried or refunded, claims never hold back more than the
\* debt there is, unless a retried claim does (allocate in claim-recovery.service.ts,
\* retry in claims.service.ts).
THEOREM RecoveryIsBoundedByDebt == Spec => []RecoveryBoundedByDebt
<1> DEFINE AllBounded == \A p \in Partners : Bounded(p)
<1>1. Init => AllBounded
  <2> SUFFICES ASSUME Init, NEW p \in Partners PROVE Bounded(p)
    OBVIOUS
  <2>1. OpenClaims = {} /\ StandingRetries = {}
    BY DEF Init, OpenClaims, StandingRetries, IsOpen, OpenStatuses
  <2>2. ReservedRecovery(p) = 0 /\ RetriedRecovery(p) = 0
    BY <2>1, SumOfNone, RecoverySums
  <2>3. IsFiniteSet(OwnEarnings(p)) /\ \A e \in OwnEarnings(p) : Dues[e] = 0
    BY ConstantsAssumption, FS_Subset DEF Init, OwnEarnings, Dues, Due
  <2>4. LedgerBalance(p) = 0
    BY <2>3, SumIsNat, RecoverySums
  <2> QED BY <2>2, <2>4 DEF Bounded, ProjectedBalance
<1>2. RecoveryInv /\ RecoveryInv' /\ StatusFitsConversion /\ AllBounded /\ [Next]_vars
        => AllBounded'
  <2> SUFFICES ASSUME RecoveryInv, RecoveryInv', StatusFitsConversion, [Next]_vars,
                      NEW p \in Partners, Bounded(p)
               PROVE  Bounded(p)'
    OBVIOUS
  <2>1. ASSUME UNCHANGED <<items, payout, retried, snapshot>>,
               LedgerBalance(p)' <= LedgerBalance(p),
               \/ UNCHANGED claimStatus
               \/ \E targets : FailAffected(targets)
        PROVE  Bounded(p)'
    <3>1. \A c \in Claims : claimStatus'[c] = claimStatus[c] \/ (IsOpen(c) /\ claimStatus'[c] = "failed")
      BY <2>1 DEF FailAffected, Affected
    <3> QED BY <2>1, <3>1, FallingKeepsBound
  <2>2. ASSUME UNCHANGED ledger PROVE LedgerBalance(p)' <= LedgerBalance(p)
    BY <2>2, BalanceStays, RecoveryIsNat
  <2>3. ASSUME NEW k \in Conversions, CreateConversion(k) PROVE Bounded(p)'
    <3>1. UNCHANGED <<items, payout, retried, claimStatus, ledger>>
      BY <2>3 DEF CreateConversion, claimVars
    <3>2. \A c \in Claims : \A e \in items[c] : snapshot'[e] = snapshot[e]
      BY <2>3 DEF CreateConversion, ItemsOf, StatusFitsConversion, RecoveryInv, PaidInv, TypeOK
    <3> QED BY <2>2, <3>1, <3>2, FallingKeepsBound
  <2>4. ASSUME NEW k \in Conversions, Complete(k) PROVE Bounded(p)'
    BY <2>1, <2>2, <2>4 DEF Complete, claimVars
  <2>5. ASSUME NEW k \in Conversions, NEW outcome, Cancel(k, outcome) PROVE Bounded(p)'
    BY <2>1, <2>2, <2>5 DEF Cancel, Withdraw
  <2>6. ASSUME NEW k \in Conversions, NEW base \in RefundInputs(k), Refund(k, base)
        PROVE  Bounded(p)'
    <3>1. LedgerBalance(p)' <= LedgerBalance(p)
      BY <2>6, RefundLowersBalance
    <3>2. UNCHANGED <<items, payout, retried, snapshot>>
          /\ FailAffected({e \in DOMAIN base : status[e] \in Unpaid})
      BY <2>6 DEF Refund
    <3> QED BY <2>1, <3>1, <3>2
  <2>7. ASSUME NEW e \in Earnings, EarningStep(e) PROVE Bounded(p)'
    BY <2>1, <2>2, <2>7
       DEF EarningStep, Hold, Release, Void, Withdraw, claimVars, conversionVars
  <2>8. ASSUME NEW q \in Partners, PartnerStep(q) PROVE Bounded(p)'
    BY <2>1, <2>2, <2>8 DEF PartnerStep, Suspend, Reactivate, Withdraw, claimVars, earningVars
  <2>9. ASSUME NEW c \in Claims, NEW q \in Partners, NEW selected \in SUBSET Earnings,
               CreateClaim(c, q, selected)
        PROVE  Bounded(p)'
    BY <2>9, CreatingKeepsBound
  <2>10. ASSUME NEW c \in Claims, SimulateSuccess(c) PROVE Bounded(p)'
    BY <2>10, SettlingKeepsBound
  <2>11. ASSUME NEW c \in Claims, SimulateFailure(c) PROVE Bounded(p)'
    <3>1. \A d \in Claims : claimStatus'[d] = claimStatus[d] \/ (IsOpen(d) /\ claimStatus'[d] = "failed")
      BY <2>11 DEF SimulateFailure, Simulatable, IsOpen, OpenStatuses, RecoveryInv, TypeOK
    <3>2. UNCHANGED <<items, payout, retried, snapshot, ledger>>
      BY <2>11 DEF SimulateFailure
    <3> QED BY <2>2, <3>1, <3>2, FallingKeepsBound
  <2>12. ASSUME NEW c \in Claims, RetryClaim(c) PROVE Bounded(p)'
    BY <2>12, RetryKeepsBound
  <2>13. CASE UNCHANGED vars
    BY <2>1, <2>2, <2>13 DEF vars, earningVars, claimVars
  <2> QED
    BY <2>3, <2>4, <2>5, <2>6, <2>7, <2>8, <2>9, <2>10, <2>11, <2>12, <2>13
       DEF Next, ConversionStep, ClaimStep
<1>3. AllBounded => RecoveryBoundedByDebt
  BY DEF Bounded, RecoveryBoundedByDebt
<1>4. TypeOK /\ PaidInv /\ FewClaims => RecoveryInv
  BY DEF RecoveryInv
<1> QED
  BY <1>1, <1>2, <1>3, <1>4, TypeCorrect, PaymentsAreExact, ClaimsAreFew,
     EarningsFitConversions, PTL DEF Spec

\* If the debt left is more than the selected amounts, every amount is taken whole.
LEMMA WholeAmountsTaken ==
  ASSUME RecoveryInv, NEW p, NEW selected \in SUBSET Earnings, NEW e \in selected,
         DebtOf(p) > SumFunctionOnSet(Amounts, selected)
  PROVE  Taken(p, selected)[e] = Amount(e)
<1> DEFINE below == {f \in selected : f < e}
           upTo == below \cup {e}
<1>1. /\ DebtOf(p) \in Nat /\ Amount(e) \in Nat /\ SumFunctionOnSet(Amounts, below) \in Nat
      /\ Taken(p, selected)[e]
           = Smaller(Amount(e), Larger(0, DebtOf(p) - SumFunctionOnSet(Amounts, below)))
      /\ SumFunctionOnSet(Amounts, selected) \in Nat
  BY NewClaimTakes
<1>2. \A f \in selected : Amounts[f] \in Nat
  BY AmountIsNat DEF Amounts, RecoveryInv
<1>3. IsFiniteSet(selected) /\ IsFiniteSet(upTo)
  <2>1. IsFiniteSet(selected)
    BY ConstantsAssumption, FS_Subset
  <2>2. upTo \in SUBSET selected
    OBVIOUS
  <2> HIDE DEF upTo
  <2> QED BY <2>1, <2>2, FS_Subset
<1>4. e \in upTo /\ upTo \ {e} = below /\ upTo \in SUBSET selected
  <2>1. e \notin below
    <3>1. e \in Nat
      BY ConstantsAssumption
    <3> QED BY <3>1
  <2> QED BY <2>1
<1>5. SumFunctionOnSet(Amounts, upTo) = Amount(e) + SumFunctionOnSet(Amounts, below)
  <2>1. \A f \in upTo : Amounts[f] \in Int
    BY <1>2, <1>4
  <2>2. SumFunctionOnSet(Amounts, upTo) = Amounts[e] + SumFunctionOnSet(Amounts, upTo \ {e})
    <3> HIDE DEF upTo
    <3> QED BY <1>3, <1>4, <2>1, SumRemoves
  <2> QED BY <1>4, <2>2 DEF Amounts
<1>6. SumFunctionOnSet(Amounts, upTo) <= SumFunctionOnSet(Amounts, selected)
  BY <1>2, <1>3, <1>4, SumOfPart
<1> HIDE DEF below, upTo
<1> QED BY <1>1, <1>5, <1>6 DEF Smaller, Larger

\* A new claim pays nothing out while its partner stays in debt
\* (allocate in claim-recovery.service.ts).
THEOREM NewClaimsAbsorbDebt == Spec => NewClaimAbsorbsDebt
<1> DEFINE Starts(c) == claimStatus[c] = "absent" /\ claimStatus'[c] = "created"
<1>1. RecoveryInv /\ RecoveryInv' /\ [Next]_vars =>
        \A c \in Claims : Starts(c) => AbsorbsDebt(c)
  <2> SUFFICES ASSUME RecoveryInv, RecoveryInv', [Next]_vars, NEW c \in Claims, Starts(c)
               PROVE  AbsorbsDebt(c)
    OBVIOUS
  <2>1. ~UNCHANGED claimStatus /\ \A targets : ~FailAffected(targets)
    BY DEF FailAffected, Affected, IsOpen, OpenStatuses
  <2>2. ASSUME NEW d \in Claims, SimulateSuccess(d) \/ SimulateFailure(d) \/ RetryClaim(d)
        PROVE  FALSE
    <3>1. /\ claimStatus[d] # "absent"
          /\ \E to : claimStatus' = [claimStatus EXCEPT ![d] = to]
      BY <2>2 DEF SimulateSuccess, SimulateFailure, Simulatable, RetryClaim, Retryable
    <3> QED BY <3>1 DEF RecoveryInv, TypeOK
  <2>3. PICK d \in Claims, q \in Partners, selected \in SUBSET Earnings :
          CreateClaim(d, q, selected)
    <3>1. \A k \in Conversions : ~ConversionStep(k)
      BY <2>1 DEF ConversionStep, CreateConversion, Complete, Cancel, Refund, Withdraw, claimVars
    <3>2. /\ \A e \in Earnings : ~EarningStep(e)
          /\ \A p \in Partners : ~PartnerStep(p)
          /\ ~UNCHANGED vars
      BY <2>1 DEF EarningStep, Hold, Release, Void, PartnerStep, Suspend, Reactivate, Withdraw,
                  vars, claimVars
    <3> QED BY <2>2, <3>1, <3>2 DEF Next, ClaimStep
  <2>4. /\ d = c /\ items'[c] = selected /\ payout'[c] = Allocate(q, selected)
        /\ \A e \in selected : EarnedBy(e) = q /\ Allocate(q, selected)[e] \in 0..Amount(e)
    BY <2>3 DEF CreateClaim, RecoveryInv, TypeOK
  <2> DEFINE taken == SumFunctionOnSet(Taken(q, selected), selected)
             whole == SumFunctionOnSet(Amounts, selected)
  <2>5. ASSUME ProjectedBalance(q)' < 0 PROVE DebtOf(q) > whole
    <3>1. ProjectedBalance(q)' = ProjectedBalance(q) + taken
      BY <2>3, <2>4, CreatingTakes
    <3>2. taken = Smaller(DebtOf(q), whole) /\ whole \in Nat
      BY NewClaimTakes
    <3>3. ProjectedBalance(q) \in Int
      BY RecoveryIsNat DEF ProjectedBalance
    <3> HIDE DEF taken, whole
    <3> QED BY <2>5, <3>1, <3>2, <3>3 DEF DebtOf, Smaller, Larger
  <2>6. ASSUME ProjectedBalance(q)' < 0, NEW e \in selected PROVE payout'[c][e] = 0
    <3>1. Taken(q, selected)[e] = Amount(e)
      BY <2>5, <2>6, WholeAmountsTaken
    <3>2. Amount(e) \in Nat /\ Allocate(q, selected)[e] \in 0..Amount(e)
      BY <2>4, AmountIsNat DEF RecoveryInv
    <3> QED BY <2>4, <3>1, <3>2 DEF Taken
  <2> QED BY <2>4, <2>6 DEF AbsorbsDebt, EarnedBy
<1>2. TypeOK /\ PaidInv /\ FewClaims => RecoveryInv
  BY DEF RecoveryInv
<1> QED
  BY <1>1, <1>2, TypeCorrect, PaymentsAreExact, ClaimsAreFew, PTL DEF Spec, NewClaimAbsorbsDebt
==============================================================================
