---------------------------- MODULE SandboxGuide -----------------------------
(***************************************************************************)
(* The guided scenario on the server: sessions that carry the version of   *)
(* the sandbox, the stages recorded for it, the facts each stage asks for, *)
(* and the reset that starts a new version.  A request is admitted by the  *)
(* session guard and served later, by its own transaction.                 *)
(*                                                                         *)
(* Of the business only the guided referral is kept, with the steps that   *)
(* the guard's role lets an actor take on it; ClaimLedger has the rest.    *)
(***************************************************************************)
EXTENDS Lifecycle, Naturals, Sequences, FiniteSets

CONSTANTS
  Steps,        \* the business steps under study, among BusinessSteps
  MaxVersion,   \* bounds the resets
  MaxAdmitted   \* bounds the requests between guard and transaction

VARIABLES
  version,      \* sandbox_version of the organization
  program,      \* "active" or "paused"
  partner,      \* the status of the guided partner
  referral,     \* the status of the guided conversion, or "none"
  earning,      \* the status of its earning, or "none"
  facts,        \* which of a claim, a refund and a reversal are on record
  stageBy,      \* the session version each recorded stage was recorded for
  issued,       \* the sessions handed out
  admitted,     \* requests past the guard
  actedBy       \* the session version of the last business step

businessVars == <<program, partner, referral, earning, facts>>
vars == <<version, businessVars, stageBy, issued, admitted, actedBy>>

Roles == {"owner", "partner"}
GuideStages ==
  <<"review_program", "switch_to_partner", "create_referral", "complete_service",
    "claim_earnings", "switch_to_owner", "issue_refund", "review_reversal">>
Stages == {GuideStages[i] : i \in DOMAIN GuideStages}

\* The steps of the owner and of the partner outside the guide.
OwnerSteps ==
  {"pause", "activate", "suspend", "reactivate", "complete", "cancel", "hold", "release",
   "void", "settle", "fail", "retry", "refund"}
BusinessSteps == OwnerSteps \cup {"claim"}
RolesOf(op) ==
  CASE op = "claim" -> {"partner"} [] op \in {"settle", "fail"} -> Roles [] OTHER -> {"owner"}

ASSUME StepsAssumption == Steps \subseteq BusinessSteps
ASSUME BoundsAssumption == MaxVersion \in Nat \ {0} /\ MaxAdmitted \in Nat

NotRecorded == 0
Recorded == {s \in Stages : stageBy[s] # NotRecorded}

\* guideState: the first stage not yet recorded.
CurrentStage ==
  IF Recorded = Stages THEN "complete"
  ELSE GuideStages[CHOOSE i \in DOMAIN GuideStages :
         /\ GuideStages[i] \notin Recorded
         /\ \A j \in 1..i-1 : GuideStages[j] \in Recorded]

Seeded ==
  /\ program = "active" /\ partner = "active"
  /\ referral = "none" /\ earning = "none"
  /\ facts = {}

Init ==
  /\ version = 1
  /\ Seeded
  /\ stageBy = [s \in Stages |-> NotRecorded]
  /\ issued = {} /\ admitted = {}
  /\ actedBy = 0

------------------------------------------------------------------------------
(* Sessions and the guard.                                                 *)

Eligible(role) == role = "owner" \/ partner = "active"

CreateSession(role) ==
  /\ Eligible(role)
  /\ issued' = issued \cup {[role |-> role, version |-> version]}
  /\ UNCHANGED <<version, businessVars, stageBy, admitted, actedBy>>

Admit(op, session) ==
  /\ session.version = version
  /\ Eligible(session.role)
  /\ Cardinality(admitted) < MaxAdmitted
  /\ admitted' = admitted \cup {[op |-> op, role |-> session.role, version |-> session.version]}
  /\ UNCHANGED <<version, businessVars, stageBy, issued, actedBy>>

Leave(r) == admitted' = admitted \ {r}

------------------------------------------------------------------------------
(* The guide.                                                              *)

\* Mutant: an advance trusts the guard for the version.
TrustsGuard(r) == TRUE

\* advance reads the version again under its lock.
IsCurrent(r) == r.version = version

\* ensureReferral and ensureServiceCompleted also make their fact.
\* The program always has a rule for the guided category.
CanMakeReferral == referral = "none"
CanCompleteService == referral = "scheduled" /\ earning = "pending"
ServiceStands == referral = "completed" /\ earning = "eligible"

HasActiveProgram == program = "active"

\* What a stage asks for; a partner's session is the guided partner's.
IsValid(stage, role) ==
  CASE stage = "review_program"    -> role = "owner" /\ HasActiveProgram
    [] stage = "switch_to_partner" -> role = "partner"
    [] stage = "create_referral"   -> role = "partner"
    [] stage = "complete_service"  ->
         role = "owner" /\ (CanCompleteService \/ ServiceStands)
    [] stage = "claim_earnings"    -> role = "partner" /\ "claim" \in facts
    [] stage = "switch_to_owner"   -> role = "owner"
    [] stage = "issue_refund"      -> role = "owner" /\ "refund" \in facts
    [] stage = "review_reversal"   -> role = "owner" /\ "reversal" \in facts
    [] OTHER                       -> FALSE

\* Mutant: the referral is created without its earning.
MakeReferralOnly(stage) ==
  /\ referral' = IF stage = "create_referral" /\ CanMakeReferral THEN "scheduled" ELSE referral
  /\ UNCHANGED earning

MakeFact(stage) ==
  /\ referral' = CASE stage = "create_referral" /\ CanMakeReferral -> "scheduled"
                   [] stage = "complete_service" /\ CanCompleteService -> "completed"
                   [] OTHER -> referral
  /\ earning' = CASE stage = "create_referral" /\ CanMakeReferral -> "pending"
                  [] stage = "complete_service" /\ CanCompleteService -> "eligible"
                  [] OTHER -> earning

Record(r) ==
  /\ IsCurrent(r)
  /\ IsValid(CurrentStage, r.role)
  /\ MakeFact(CurrentStage)
  /\ stageBy' = [stageBy EXCEPT ![CurrentStage] = r.version]

Refused(r) == ~IsCurrent(r) \/ ~IsValid(CurrentStage, r.role)

Advance(r) ==
  /\ r.op = "advance"
  /\ Leave(r)
  /\ \/ Record(r)
     \/ Refused(r) /\ UNCHANGED <<referral, earning, stageBy>>
  /\ UNCHANGED <<version, program, partner, facts, issued, actedBy>>

------------------------------------------------------------------------------
(* Business steps on the guided referral.                                  *)

Becomes(from, to) == earning \in from /\ earning' = to
Alone == UNCHANGED <<program, partner, referral, facts>>

SetProgram(from, to) ==
  program = from /\ program' = to /\ UNCHANGED <<partner, referral, earning, facts>>

Suspend ==
  /\ partner = "active" /\ partner' = "suspended"
  /\ earning' = IF earning \in {"pending", "eligible", "reserved"} THEN "held" ELSE earning
  /\ UNCHANGED <<program, referral, facts>>

Reactivate ==
  partner = "suspended" /\ partner' = "active" /\ UNCHANGED <<program, referral, earning, facts>>

\* Also what an accepted booking event does.
Complete ==
  /\ referral = "scheduled" /\ referral' = "completed"
  /\ earning' = IF earning = "pending" THEN "eligible" ELSE earning
  /\ UNCHANGED <<program, partner, facts>>

Cancel ==
  /\ referral = "scheduled" /\ referral' \in {"cancelled", "no_show"}
  /\ earning' = "voided"
  /\ UNCHANGED <<program, partner, facts>>

Hold == Becomes({"pending", "eligible", "reserved"}, "held") /\ Alone
Release == Becomes({"held"}, StatusAfterHoldRelease(referral)) /\ Alone
Void == Becomes(Unpaid, "voided") /\ Alone

Claim ==
  /\ partner = "active"
  /\ Becomes({"eligible"}, "reserved")
  /\ facts' = facts \cup {"claim"}
  /\ UNCHANGED <<program, partner, referral>>

Settle(status) == partner = "active" /\ Becomes({"reserved"}, status) /\ Alone

\* The claim of an eligible earning, if it has one, has failed.
RetryClaim ==
  partner = "active" /\ "claim" \in facts /\ Becomes({"eligible"}, "reserved") /\ Alone

Withdraw ==
  /\ earning \notin PaidOut /\ earning' = "voided"
  /\ facts' = facts \cup {"refund"}

\* What remains to be reversed of a paid earning, after rounding, is positive ...
Reverse ==
  /\ earning \in PaidOut /\ earning' = "reversed"
  /\ facts' = facts \cup {"refund", "reversal"}

\* ... or zero: then there is no ledger row and the earning stays as it is.
ReverseNothing ==
  /\ earning \in PaidOut /\ UNCHANGED earning
  /\ facts' = facts \cup {"refund"}

Refund ==
  /\ referral \in {"completed", "partially_refunded"}
  /\ referral' \in {"partially_refunded", "refunded"}
  /\ Withdraw \/ Reverse \/ ReverseNothing
  /\ UNCHANGED <<program, partner>>

Step(op) ==
  \/ op = "pause" /\ SetProgram("active", "paused")
  \/ op = "activate" /\ SetProgram("paused", "active")
  \/ op = "suspend" /\ Suspend
  \/ op = "reactivate" /\ Reactivate
  \/ op = "complete" /\ Complete
  \/ op = "cancel" /\ Cancel
  \/ op = "hold" /\ Hold
  \/ op = "release" /\ Release
  \/ op = "void" /\ Void
  \/ op = "claim" /\ Claim
  \/ op = "settle" /\ Settle("settled")
  \/ op = "fail" /\ Settle("eligible")
  \/ op = "retry" /\ RetryClaim
  \/ op = "refund" /\ Refund

\* Unlike advance, the business operations do not read the version again.  They may
\* be refused for reasons of their own.
ServeStep(r) ==
  /\ r.op \in Steps /\ r.role \in RolesOf(r.op)
  /\ Leave(r)
  /\ \/ Step(r.op) /\ actedBy' = r.version
     \/ UNCHANGED <<businessVars, actedBy>>
  /\ UNCHANGED <<version, stageBy, issued>>

------------------------------------------------------------------------------
\* Mutant: a new version keeps the stages recorded for the old one.
KeepStages == UNCHANGED stageBy

DropStages == stageBy' = [s \in Stages |-> NotRecorded]

Reseed ==
  /\ program' = "active" /\ partner' = "active"
  /\ referral' = "none" /\ earning' = "none"
  /\ facts' = {}

Reset(r) ==
  /\ r.op = "reset" /\ r.role = "owner"
  /\ version < MaxVersion
  /\ Leave(r)
  /\ version' = version + 1
  /\ Reseed
  /\ DropStages
  /\ issued' = issued \cup {[role |-> "owner", version |-> version + 1]}
  /\ actedBy' = 0

Operations == {"advance", "reset"} \cup Steps

Serve(r) == Advance(r) \/ ServeStep(r) \/ Reset(r)

Next ==
  \/ \E role \in Roles : CreateSession(role)
  \/ \E op \in Operations, session \in issued :
       (op \in Steps \cup {"reset"} => session.role \in RolesOf(op)) /\ Admit(op, session)
  \/ \E r \in admitted : Serve(r)

Spec == Init /\ [][Next]_vars

------------------------------------------------------------------------------
Sessions == [role : Roles, version : 1..MaxVersion]

TypeOK ==
  /\ version \in 1..MaxVersion
  /\ program \in {"active", "paused"} /\ partner \in {"active", "suspended"}
  /\ referral \in ConversionStatus \cup {"none"}
  /\ earning \in EarningStatus \cup {"none"}
  /\ (referral = "none") = (earning = "none")
  /\ facts \subseteq {"claim", "refund", "reversal"}
  /\ stageBy \in [Stages -> 0..MaxVersion]
  /\ issued \subseteq Sessions
  /\ admitted \subseteq [op : Operations, role : Roles, version : 1..MaxVersion]
  /\ actedBy \in 0..MaxVersion

(* The progress shown is true: a recorded stage happened in this version of *)
(* the sandbox, through its business records, and all stages before it too. *)
StagesAreEarned ==
  /\ \A i, j \in DOMAIN GuideStages :
       i < j /\ GuideStages[j] \in Recorded => GuideStages[i] \in Recorded
  /\ "create_referral" \in Recorded => referral # "none"
  /\ "complete_service" \in Recorded => referral \in Delivered
  /\ "claim_earnings" \in Recorded => "claim" \in facts
  /\ "issue_refund" \in Recorded => "refund" \in facts
  /\ "review_reversal" \in Recorded => "reversal" \in facts

(* A request that a reset overtakes records nothing for the new version.    *)
OldSessionsAdvanceNothing == \A s \in Recorded : stageBy[s] = version

(* "reset invalidates every older cookie": no business step after a reset   *)
(* was requested with a session of before it.                               *)
ResetEndsOldSessions == actedBy \in {0, version}

(* "Complete the recommended action, then check progress again": once the   *)
(* service is completed, the owner's check of that stage succeeds.          *)
CompletedServiceCounts ==
  CurrentStage = "complete_service" /\ referral = "completed"
    => IsValid("complete_service", "owner")

(* "Settle the claim, then issue a refund": the stage is recorded only for  *)
(* a refund that reversed a settled commission.                             *)
RefundWasOfSettled == "issue_refund" \in Recorded => "reversal" \in facts
==============================================================================
