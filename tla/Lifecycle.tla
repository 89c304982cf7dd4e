------------------------------ MODULE Lifecycle ------------------------------
(***************************************************************************)
(* The state machines every service consults: the statuses of conversions, *)
(* earnings and claims, the two transition tables of domain/lifecycle.ts   *)
(* and the status an earning returns to when a hold is released or a claim *)
(* that reserved it fails.  "absent" stands for a row not inserted yet.    *)
(***************************************************************************)

ConversionStatus == {"attributed", "scheduled", "completed", "cancelled",
                     "no_show", "partially_refunded", "refunded"}

EarningStatus == {"needs_rule", "pending", "eligible", "held", "reserved",
                  "settled", "voided", "reversed"}

ClaimStatus == {"created", "processing", "settled", "failed"}

\* Conversions whose service has been delivered.
Delivered == {"completed", "partially_refunded", "refunded"}

\* Earnings that were paid out: only a refund can still change them.
PaidOut == {"settled", "reversed"}

\* Earnings that a void, a cancellation or a refund may still withdraw.
Unpaid == {"needs_rule", "pending", "eligible", "held", "reserved"}

ConversionTransitions ==
  [attributed         |-> {"scheduled"},
   scheduled          |-> {"completed", "cancelled", "no_show"},
   completed          |-> {"partially_refunded", "refunded"},
   cancelled          |-> {},
   no_show            |-> {},
   partially_refunded |-> {"partially_refunded", "refunded"},
   refunded           |-> {}]

EarningTransitions ==
  [needs_rule |-> {"pending", "voided"},
   pending    |-> {"eligible", "held", "voided"},
   eligible   |-> {"reserved", "held", "voided"},
   held       |-> {"pending", "eligible", "voided"},
   reserved   |-> {"pending", "eligible", "settled", "held", "voided"},
   settled    |-> {"reversed"},
   voided     |-> {},
   reversed   |-> {}]

CanTransition(table, from, to) == to \in table[from]

\* Mutant: a released earning is claimable whatever its conversion says.
EligibleAfterHoldRelease(conversionStatus) == "eligible"

\* Mutant: the conversion's status is copied instead of mapped.
CopiedAfterHoldRelease(conversionStatus) == conversionStatus

StatusAfterHoldRelease(conversionStatus) ==
  CASE conversionStatus \in {"attributed", "scheduled"} -> "pending"
    [] conversionStatus \in Delivered                   -> "eligible"
    [] OTHER                                            -> "voided"
==============================================================================
