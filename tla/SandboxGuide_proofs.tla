------------------------- MODULE SandboxGuide_proofs -------------------------
(***************************************************************************)
(* Proofs about SandboxGuide, for any business steps and bounds.           *)
(***************************************************************************)
EXTENDS SandboxGuide, TLAPS

IInv == TypeOK /\ StagesAreEarned /\ OldSessionsAdvanceNothing

------------------------------------------------------------------------------
(* The order of the stages.                                                *)

LEMMA StageNames ==
  /\ DOMAIN GuideStages = 1..8
  /\ \A i, j \in 1..8 : GuideStages[i] = GuideStages[j] => i = j
  /\ GuideStages[1] = "review_program" /\ GuideStages[2] = "switch_to_partner"
  /\ GuideStages[3] = "create_referral" /\ GuideStages[4] = "complete_service"
  /\ GuideStages[5] = "claim_earnings" /\ GuideStages[6] = "switch_to_owner"
  /\ GuideStages[7] = "issue_refund" /\ GuideStages[8] = "review_reversal"
BY DEF GuideStages

LEMMA StageSet ==
  Stages = {"review_program", "switch_to_partner", "create_referral", "complete_service",
            "claim_earnings", "switch_to_owner", "issue_refund", "review_reversal"}
<1>1. \A i \in 1..8 : i \in {1, 2, 3, 4, 5, 6, 7, 8}
  OBVIOUS
<1> QED BY <1>1, StageNames DEF Stages

\* Until all stages are recorded, the current one is the first that is not.
LEMMA CurrentIsFirst ==
  ASSUME Recorded # Stages
  PROVE  \E i \in 1..8 : /\ CurrentStage = GuideStages[i]
                         /\ GuideStages[i] \notin Recorded
                         /\ \A j \in 1..i-1 : GuideStages[j] \in Recorded
<1> DEFINE First(i) == /\ GuideStages[i] \notin Recorded
                       /\ \A j \in 1..i-1 : GuideStages[j] \in Recorded
<1>1. \E i \in 1..8 : GuideStages[i] \notin Recorded
  BY StageNames DEF Recorded, Stages
<1>2. \E i \in 1..8 : First(i)
  <2>1. CASE GuideStages[1] \notin Recorded
    BY <2>1
  <2>2. CASE GuideStages[1] \in Recorded /\ GuideStages[2] \notin Recorded
    BY <2>2
  <2>3. CASE (\A j \in 1..2 : GuideStages[j] \in Recorded) /\ GuideStages[3] \notin Recorded
    BY <2>3
  <2>4. CASE (\A j \in 1..3 : GuideStages[j] \in Recorded) /\ GuideStages[4] \notin Recorded
    BY <2>4
  <2>5. CASE (\A j \in 1..4 : GuideStages[j] \in Recorded) /\ GuideStages[5] \notin Recorded
    BY <2>5
  <2>6. CASE (\A j \in 1..5 : GuideStages[j] \in Recorded) /\ GuideStages[6] \notin Recorded
    BY <2>6
  <2>7. CASE (\A j \in 1..6 : GuideStages[j] \in Recorded) /\ GuideStages[7] \notin Recorded
    BY <2>7
  <2>8. CASE \A j \in 1..7 : GuideStages[j] \in Recorded
    BY <1>1, <2>8
  <2> QED BY <2>1, <2>2, <2>3, <2>4, <2>5, <2>6, <2>7, <2>8
<1>3. CurrentStage = GuideStages[CHOOSE i \in 1..8 : First(i)]
  BY StageNames DEF CurrentStage
<1>4. PICK i \in 1..8 : i = (CHOOSE k \in 1..8 : First(k)) /\ First(i)
  BY <1>2
<1> QED BY <1>3, <1>4

------------------------------------------------------------------------------
(* The steps.                                                              *)

LEMMA InitIInv == Init => IInv
<1> SUFFICES ASSUME Init PROVE IInv
  OBVIOUS
<1>1. Recorded = {}
  BY DEF Init, Recorded, NotRecorded
<1>2. version \in 1..MaxVersion /\ stageBy \in [Stages -> 0..MaxVersion] /\ actedBy \in 0..MaxVersion
  BY BoundsAssumption DEF Init, NotRecorded
<1>3. TypeOK
  BY <1>2 DEF Init, Seeded, TypeOK
<1> QED BY <1>1, <1>3 DEF IInv, StagesAreEarned, OldSessionsAdvanceNothing

\* Handing out sessions and admitting requests leaves the guide alone.
LEMMA SessionsStep ==
  ASSUME IInv,
         \/ \E role \in Roles : CreateSession(role)
         \/ \E op \in Operations, session \in issued : Admit(op, session)
         \/ UNCHANGED vars
  PROVE  IInv'
<1> USE DEF IInv
<1>1. UNCHANGED <<version, businessVars, stageBy, actedBy>>
  BY DEF CreateSession, Admit, vars
<1>2. Recorded' = Recorded
  BY <1>1 DEF Recorded
<1>3. StagesAreEarned' /\ OldSessionsAdvanceNothing'
  BY <1>1, <1>2 DEF StagesAreEarned, OldSessionsAdvanceNothing, businessVars
<1>4. issued' \subseteq Sessions
  BY DEF CreateSession, Admit, vars, Sessions, TypeOK
<1>5. admitted' \subseteq [op : Operations, role : Roles, version : 1..MaxVersion]
  BY DEF CreateSession, Admit, vars, Sessions, TypeOK
<1>6. TypeOK'
  BY <1>1, <1>4, <1>5 DEF TypeOK, businessVars
<1> QED BY <1>3, <1>6

\* The referral has an earning, and what a check of the guide makes of them.
LEMMA MakeFactStep ==
  ASSUME TypeOK, NEW stage \in Stages, MakeFact(stage)
  PROVE  /\ referral' \in ConversionStatus \cup {"none"}
         /\ earning' \in EarningStatus \cup {"none"}
         /\ (referral' = "none") = (earning' = "none")
         /\ referral # "none" => referral' # "none"
         /\ referral \in Delivered => referral' \in Delivered
         /\ stage = "create_referral" => referral' # "none"
         /\ stage = "complete_service" /\ (CanCompleteService \/ ServiceStands)
              => referral' \in Delivered
<1> USE DEF TypeOK, MakeFact, CanMakeReferral, CanCompleteService, ServiceStands, Delivered,
            ConversionStatus, EarningStatus
<1>1. CASE stage = "create_referral" /\ CanMakeReferral
  BY <1>1
<1>2. CASE stage = "complete_service" /\ CanCompleteService
  BY <1>2
<1>3. CASE /\ ~(stage = "create_referral" /\ CanMakeReferral)
           /\ ~(stage = "complete_service" /\ CanCompleteService)
  <2>1. referral' = referral /\ earning' = earning
    BY <1>3
  <2> QED BY <1>3, <2>1
<1> QED BY <1>1, <1>2, <1>3

\* A check records the first stage that is missing, for the version of its session.
LEMMA RecordStep ==
  ASSUME IInv, NEW r \in admitted, Record(r),
         UNCHANGED <<version, program, partner, facts, issued, actedBy>>,
         admitted' \subseteq admitted
  PROVE  IInv'
<1> USE DEF IInv
<1>1. CurrentStage # "complete"
  BY DEF Record, IsValid
<1>2. Recorded # Stages
  BY <1>1 DEF CurrentStage
<1>3. PICK i \in 1..8 : /\ CurrentStage = GuideStages[i]
                        /\ GuideStages[i] \notin Recorded
                        /\ \A j \in 1..i-1 : GuideStages[j] \in Recorded
  BY <1>2, CurrentIsFirst
<1> DEFINE stage == CurrentStage
<1>4. stage \in Stages
  BY <1>3, StageNames DEF Stages
<1>5. r.version = version /\ r.version \in 1..MaxVersion
  BY DEF Record, IsCurrent, TypeOK
<1>6. stageBy' = [stageBy EXCEPT ![stage] = version]
  BY <1>5 DEF Record
<1>7. Recorded' = Recorded \cup {stage}
  BY <1>4, <1>5, <1>6, BoundsAssumption DEF Recorded, NotRecorded, TypeOK
<1>8. /\ referral' \in ConversionStatus \cup {"none"}
      /\ earning' \in EarningStatus \cup {"none"}
      /\ (referral' = "none") = (earning' = "none")
      /\ referral # "none" => referral' # "none"
      /\ referral \in Delivered => referral' \in Delivered
      /\ stage = "create_referral" => referral' # "none"
      /\ stage = "complete_service" /\ (CanCompleteService \/ ServiceStands)
           => referral' \in Delivered
  BY <1>4, MakeFactStep DEF Record
<1>9. TypeOK'
  BY <1>4, <1>5, <1>6, <1>8 DEF TypeOK
<1>10. OldSessionsAdvanceNothing'
  BY <1>4, <1>6, <1>7 DEF OldSessionsAdvanceNothing, TypeOK
<1>11. \A j, k \in DOMAIN GuideStages :
         j < k /\ GuideStages[k] \in Recorded' => GuideStages[j] \in Recorded'
  <2> SUFFICES ASSUME NEW j \in 1..8, NEW k \in 1..8, j < k, GuideStages[k] \in Recorded'
               PROVE  GuideStages[j] \in Recorded'
    BY StageNames
  <2>1. CASE GuideStages[k] \in Recorded
    BY <2>1, <1>7, StageNames DEF StagesAreEarned
  <2>2. CASE GuideStages[k] = stage
    <3>1. k = i
      BY <2>2, <1>3, StageNames
    <3>2. j \in 1..i-1
      BY <3>1
    <3> QED BY <3>2, <1>3, <1>7
  <2> QED BY <2>1, <2>2, <1>7
<1>12. IsValid(stage, r.role)
  BY DEF Record
<1>13. /\ "create_referral" \in Recorded' => referral' # "none"
       /\ "complete_service" \in Recorded' => referral' \in Delivered
  BY <1>7, <1>8, <1>12 DEF StagesAreEarned, IsValid
<1>14. /\ "claim_earnings" \in Recorded' => "claim" \in facts'
       /\ "issue_refund" \in Recorded' => "refund" \in facts'
       /\ "review_reversal" \in Recorded' => "reversal" \in facts'
  BY <1>7, <1>12 DEF StagesAreEarned, IsValid
<1>15. StagesAreEarned'
  BY <1>11, <1>13, <1>14 DEF StagesAreEarned
<1> QED BY <1>9, <1>10, <1>15

LEMMA AdvanceStep ==
  ASSUME IInv, NEW r \in admitted, Advance(r)
  PROVE  IInv'
<1>1. /\ UNCHANGED <<version, program, partner, facts, issued, actedBy>>
      /\ admitted' \subseteq admitted
  BY DEF Advance, Leave
<1>2. CASE Record(r)
  BY <1>1, <1>2, RecordStep
<1>3. CASE UNCHANGED <<referral, earning, stageBy>>
  <2>1. Recorded' = Recorded
    BY <1>3 DEF Recorded
  <2>2. TypeOK'
    BY <1>1, <1>3 DEF IInv, TypeOK
  <2>3. StagesAreEarned' /\ OldSessionsAdvanceNothing'
    BY <1>1, <1>3, <2>1 DEF IInv, StagesAreEarned, OldSessionsAdvanceNothing
  <2> QED BY <2>2, <2>3 DEF IInv
<1> QED BY <1>2, <1>3 DEF Advance

\* No business step takes back a referral, its delivery or a fact.
LEMMA BusinessStep ==
  ASSUME TypeOK, NEW op \in Steps, Step(op)
  PROVE  /\ program' \in {"active", "paused"} /\ partner' \in {"active", "suspended"}
         /\ referral' \in ConversionStatus \cup {"none"}
         /\ earning' \in EarningStatus \cup {"none"}
         /\ (referral' = "none") = (earning' = "none")
         /\ facts \subseteq facts' /\ facts' \subseteq {"claim", "refund", "reversal"}
         /\ referral # "none" => referral' # "none"
         /\ referral \in Delivered => referral' \in Delivered
<1> USE DEF TypeOK, ConversionStatus, EarningStatus, Delivered, Alone, Becomes
<1>1. ASSUME NEW from, NEW to \in {"active", "paused"}, SetProgram(from, to)
      PROVE  program' \in {"active", "paused"} /\ UNCHANGED <<partner, referral, earning, facts>>
  BY <1>1 DEF SetProgram
<1>2. CASE SetProgram("active", "paused") \/ SetProgram("paused", "active")
  BY <1>1, <1>2
<1>3. CASE Suspend
  BY <1>3 DEF Suspend
<1>4. CASE Reactivate
  BY <1>4 DEF Reactivate
<1>5. CASE Complete
  BY <1>5 DEF Complete
<1>6. CASE Cancel
  BY <1>6 DEF Cancel
<1>7. CASE Hold
  BY <1>7 DEF Hold
<1>8. CASE Release
  BY <1>8 DEF Release, StatusAfterHoldRelease
<1>9. CASE Claim
  BY <1>9 DEF Claim
<1>10. CASE Settle("settled") \/ Settle("eligible")
  BY <1>10 DEF Settle
<1>11. CASE Refund
  BY <1>11 DEF Refund, Withdraw, Reverse, ReverseNothing, PaidOut
<1>12. CASE Void
  BY <1>12 DEF Void, Unpaid
<1>13. CASE RetryClaim
  BY <1>13 DEF RetryClaim
<1> QED BY <1>2, <1>3, <1>4, <1>5, <1>6, <1>7, <1>8, <1>9, <1>10, <1>11, <1>12, <1>13 DEF Step

LEMMA ServeStepStep ==
  ASSUME IInv, NEW r \in admitted, ServeStep(r)
  PROVE  IInv'
<1> USE DEF IInv
<1>1. UNCHANGED <<version, stageBy, issued>> /\ admitted' \subseteq admitted /\ Recorded' = Recorded
  BY DEF ServeStep, Leave, Recorded
<1>2. OldSessionsAdvanceNothing'
  BY <1>1 DEF OldSessionsAdvanceNothing
<1>3. CASE UNCHANGED <<businessVars, actedBy>>
  BY <1>1, <1>2, <1>3 DEF TypeOK, StagesAreEarned, businessVars
<1>4. CASE Step(r.op) /\ actedBy' = r.version
  <2>1. r.op \in Steps /\ r.version \in 1..MaxVersion
    BY DEF ServeStep, TypeOK
  <2>2. /\ program' \in {"active", "paused"} /\ partner' \in {"active", "suspended"}
        /\ referral' \in ConversionStatus \cup {"none"}
        /\ earning' \in EarningStatus \cup {"none"}
        /\ (referral' = "none") = (earning' = "none")
        /\ facts \subseteq facts' /\ facts' \subseteq {"claim", "refund", "reversal"}
        /\ referral # "none" => referral' # "none"
        /\ referral \in Delivered => referral' \in Delivered
    BY <1>4, <2>1, BusinessStep
  <2>3. TypeOK'
    BY <1>1, <1>4, <2>1, <2>2, BoundsAssumption DEF TypeOK
  <2>4. StagesAreEarned'
    BY <1>1, <2>2 DEF StagesAreEarned
  <2> QED BY <1>2, <2>3, <2>4
<1> QED BY <1>3, <1>4 DEF ServeStep

\* A new version starts with no stage.
LEMMA ResetStep ==
  ASSUME IInv, NEW r \in admitted, Reset(r)
  PROVE  IInv'
<1> USE DEF IInv
<1>1. Recorded' = {}
  BY DEF Reset, DropStages, Recorded, NotRecorded
<1>2. version' \in 1..MaxVersion
  BY BoundsAssumption DEF Reset, TypeOK
<1>3. issued' \subseteq Sessions
  BY <1>2 DEF Reset, TypeOK, Sessions, Roles
<1>4. stageBy' \in [Stages -> 0..MaxVersion] /\ actedBy' \in 0..MaxVersion
  BY BoundsAssumption DEF Reset, DropStages, NotRecorded
<1>5. admitted' \subseteq admitted
  BY DEF Reset, Leave
<1>6. TypeOK'
  BY <1>2, <1>3, <1>4, <1>5 DEF Reset, Reseed, TypeOK
<1>7. StagesAreEarned' /\ OldSessionsAdvanceNothing'
  BY <1>1 DEF StagesAreEarned, OldSessionsAdvanceNothing
<1> QED BY <1>6, <1>7

\* The invariant holds throughout.
THEOREM GuideInvariant == Spec => []IInv
<1>1. ASSUME IInv, [Next]_vars PROVE IInv'
  BY <1>1, SessionsStep, AdvanceStep, ServeStepStep, ResetStep DEF Next, Serve
<1> QED BY InitIInv, <1>1, PTL DEF Spec

------------------------------------------------------------------------------
(* The results.                                                            *)

(* Types: a referral comes with its earning, and no version is ahead.       *)
THEOREM GuideTypes == Spec => []TypeOK
<1>1. IInv => TypeOK
  BY DEF IInv
<1> QED BY <1>1, GuideInvariant, PTL

(* Stages are recorded in their order, each with its business record.       *)
THEOREM StagesStayEarned == Spec => []StagesAreEarned
<1>1. IInv => StagesAreEarned
  BY DEF IInv
<1> QED BY <1>1, GuideInvariant, PTL

(* Requests from before a reset record nothing after it.                    *)
THEOREM ResetEndsAdvances == Spec => []OldSessionsAdvanceNothing
<1>1. IInv => OldSessionsAdvanceNothing
  BY DEF IInv
<1> QED BY <1>1, GuideInvariant, PTL
==============================================================================
