-------------------------- MODULE ClaimFlow_proofs --------------------------
(***************************************************************************)
(* Proofs about OtpClaims and the claim dialog over it, for any number of  *)
(* challenges, codes, earnings and keys and any bounds on the attempts and *)
(* on the messages that are lost.                                          *)
(***************************************************************************)
EXTENDS ClaimFlow, TLAPS

------------------------------------------------------------------------------
(* The inductive invariant.                                                *)

\* Only the challenge of the latest issuance may be entered or be cooling, and
\* it may be entered only while attempts are left.
PendingIsLatest ==
  /\ \A ch \in Challenges :
       otpStatus[ch] = "pending" => ch = latest /\ attempts[ch] < MaxAttempts
  /\ cooling \subseteq {latest}

\* The guesses since a cooldown ended: those of the latest code and, while it
\* is cooling, those of the code before it.
GuessBudget ==
  IF latest = NoChallenge THEN guesses = 0
  ELSE guesses <= attempts[latest] + (IF latest \in cooling THEN MaxAttempts ELSE 0)

CodeIsFresh ==
  \A ch \in Challenges :
    code[ch] \notin replaced[ch] /\ (otpStatus[ch] = "absent" => replaced[ch] = NoCodes)

IInv == TypeOK /\ PendingIsLatest /\ GuessBudget /\ CodeIsFresh /\ ClaimsAreAuthorised

\* A draft is a selection and a natural total.
LEMMA DraftType ==
  ASSUME TypeOK, NEW taken \in Selections
  PROVE  DraftOf(taken) \in Draft
<1>1. Payout[taken] \in [Debts -> Nat]
  BY ConstantsAssumption
<1>2. Payout[taken][debt] \in Nat
  BY <1>1 DEF TypeOK
<1>3. taken \in SUBSET Earnings
  BY DEF Selections
<1> QED BY <1>2, <1>3 DEF DraftOf, Draft

\* No code has been guessed and no claim made before the first challenge.
LEMMA InitIInv == Init => IInv
<1> SUFFICES ASSUME Init PROVE IInv
  OBVIOUS
<1> USE ConstantsAssumption DEF Init, NoCodes
<1>1. TypeOK
  <2>1. NoDraft \in Draft
    BY DEF NoDraft, Draft
  <2> QED BY <2>1 DEF TypeOK, OtpStatus
<1>2. PendingIsLatest /\ GuessBudget /\ CodeIsFresh
  BY DEF PendingIsLatest, GuessBudget, CodeIsFresh
<1>3. ClaimsAreAuthorised
  BY DEF ClaimsAreAuthorised
<1> QED BY <1>1, <1>2, <1>3 DEF IInv

\* Issuing a code makes its challenge the only pending one, with a fresh count.
LEMMA IssueStep ==
  ASSUME IInv, NEW ch \in Challenges, MayIssue, SupersedePending(ch, "pending"), Issue(ch),
         guesses' = guesses
  PROVE  /\ otpStatus' \in [Challenges -> OtpStatus \cup {"absent"}]
         /\ attempts' \in [Challenges -> 0..MaxAttempts]
         /\ lapsed' \in SUBSET Challenges /\ cooling' \in SUBSET Challenges /\ latest' \in Challenges
         /\ otpStatus'[ch] = "pending"
         /\ \A d \in Challenges \ {ch} :
              otpStatus'[d] = otpStatus[d] \/ (otpStatus[d] = "pending" /\ otpStatus'[d] = "expired")
         /\ PendingIsLatest' /\ GuessBudget'
<1> USE ConstantsAssumption DEF IInv, MayIssue, SupersedePending, Issue
<1>1. /\ otpStatus' \in [Challenges -> OtpStatus \cup {"absent"}]
      /\ otpStatus'[ch] = "pending"
      /\ \A d \in Challenges \ {ch} :
           /\ otpStatus'[d] # "pending"
           /\ otpStatus'[d] = otpStatus[d] \/ (otpStatus[d] = "pending" /\ otpStatus'[d] = "expired")
  BY DEF TypeOK, OtpStatus
<1>2. /\ attempts' \in [Challenges -> 0..MaxAttempts]
      /\ attempts'[ch] = 0
      /\ lapsed' \in SUBSET Challenges
      /\ cooling' = {ch} /\ latest' = ch /\ latest' # NoChallenge
  BY DEF TypeOK
<1>3. PendingIsLatest'
  BY <1>1, <1>2 DEF PendingIsLatest
<1>4. guesses \in Nat /\ guesses <= MaxAttempts
  <2>1. CASE latest = NoChallenge
    BY <2>1 DEF GuessBudget
  <2>2. CASE latest # NoChallenge
    <3>1. attempts[latest] \in 0..MaxAttempts
      BY <2>2 DEF TypeOK
    <3> QED BY <2>2, <3>1 DEF GuessBudget, TypeOK
  <2> QED BY <2>1, <2>2
<1>5. GuessBudget'
  BY <1>2, <1>4 DEF GuessBudget
<1> QED BY <1>1, <1>2, <1>3, <1>5

\* A new challenge is of no claim, since the challenges of claims are used.
LEMMA CreateStep ==
  ASSUME IInv, NEW ch \in Challenges, NEW taken \in Selections, Create(ch, taken)
  PROVE  IInv'
<1>1. MayIssue /\ SupersedePending(ch, "pending") /\ Issue(ch) /\ guesses' = guesses
  BY DEF Create, historyVars
<1>2. /\ otpStatus' \in [Challenges -> OtpStatus \cup {"absent"}]
      /\ attempts' \in [Challenges -> 0..MaxAttempts]
      /\ lapsed' \in SUBSET Challenges /\ cooling' \in SUBSET Challenges /\ latest' \in Challenges
      /\ otpStatus'[ch] = "pending"
      /\ \A d \in Challenges \ {ch} :
           otpStatus'[d] = otpStatus[d] \/ (otpStatus[d] = "pending" /\ otpStatus'[d] = "expired")
      /\ PendingIsLatest' /\ GuessBudget'
  BY <1>1, IssueStep
<1>3. DraftOf(taken) \in Draft
  BY DraftType DEF IInv
<1>4. PICK drawn \in Codes : code' = [code EXCEPT ![ch] = drawn]
  BY DEF Create
<1>5. /\ otpStatus[ch] = "absent" /\ draft' = [draft EXCEPT ![ch] = DraftOf(taken)]
      /\ UNCHANGED <<eligible, debt, partnerActive, claim, replaced, guesses>>
  BY DEF Create, ledgerVars, historyVars
<1>6. TypeOK'
  BY <1>2, <1>3, <1>4, <1>5 DEF TypeOK, IInv
<1>7. CodeIsFresh'
  BY <1>2, <1>4, <1>5 DEF CodeIsFresh, IInv, TypeOK, NoCodes
<1>8. ClaimsAreAuthorised'
  <2>1. ASSUME NEW k \in Keys, claim[k] # NoClaim
        PROVE  claim[k].challenge \in Challenges \ {ch} /\ otpStatus[claim[k].challenge] = "used"
    BY <2>1, <1>5 DEF IInv, ClaimsAreAuthorised, TypeOK, Claim
  <2> QED BY <2>1, <1>2, <1>5 DEF IInv, ClaimsAreAuthorised, TypeOK
<1> QED BY <1>2, <1>6, <1>7, <1>8 DEF IInv

\* A resent code differs from the one it replaces.
LEMMA ResendStep ==
  ASSUME IInv, NEW ch \in Challenges, Resend(ch)
  PROVE  IInv'
<1>1. MayIssue /\ SupersedePending(ch, "pending") /\ Issue(ch) /\ guesses' = guesses
  BY DEF Resend
<1>2. /\ otpStatus' \in [Challenges -> OtpStatus \cup {"absent"}]
      /\ attempts' \in [Challenges -> 0..MaxAttempts]
      /\ lapsed' \in SUBSET Challenges /\ cooling' \in SUBSET Challenges /\ latest' \in Challenges
      /\ otpStatus'[ch] = "pending"
      /\ \A d \in Challenges \ {ch} :
           otpStatus'[d] = otpStatus[d] \/ (otpStatus[d] = "pending" /\ otpStatus'[d] = "expired")
      /\ PendingIsLatest' /\ GuessBudget'
  BY <1>1, IssueStep
<1>3. PICK drawn \in Codes \ {code[ch]} : code' = [code EXCEPT ![ch] = drawn]
  BY DEF Resend, FreshCodes
<1>4. /\ otpStatus[ch] = "pending" /\ replaced' = [replaced EXCEPT ![ch] = {code[ch]}]
      /\ UNCHANGED <<draft, eligible, debt, partnerActive, claim, guesses>>
  BY DEF Resend, IsPending, ledgerVars
<1>5. TypeOK'
  BY <1>2, <1>3, <1>4 DEF TypeOK, IInv
<1>6. CodeIsFresh'
  BY <1>2, <1>3, <1>4 DEF CodeIsFresh, IInv, TypeOK
<1>7. ClaimsAreAuthorised'
  <2>1. ASSUME NEW k \in Keys, claim[k] # NoClaim
        PROVE  claim[k].challenge \in Challenges \ {ch} /\ otpStatus[claim[k].challenge] = "used"
    BY <2>1, <1>4 DEF IInv, ClaimsAreAuthorised, TypeOK, Claim
  <2> QED BY <2>1, <1>2, <1>4 DEF IInv, ClaimsAreAuthorised
<1> QED BY <1>2, <1>5, <1>6, <1>7 DEF IInv

\* A verified challenge was pending, so no claim has used it.
LEMMA VerifyCorrectStep ==
  ASSUME IInv, NEW ch \in Challenges, NEW entered \in Codes, VerifyCorrect(ch, entered)
  PROVE  IInv'
<1> USE DEF IInv
<1>1. /\ otpStatus[ch] = "pending" /\ otpStatus' = [otpStatus EXCEPT ![ch] = "verified"]
      /\ UNCHANGED <<draft, code, attempts, lapsed, cooling, latest, eligible, debt,
                     partnerActive, claim, replaced, guesses>>
  BY DEF VerifyCorrect, IsPending, ledgerVars, historyVars
<1>2. TypeOK'
  BY <1>1 DEF TypeOK, OtpStatus
<1>3. PendingIsLatest' /\ GuessBudget' /\ CodeIsFresh'
  BY <1>1 DEF PendingIsLatest, GuessBudget, CodeIsFresh, TypeOK
<1>4. ClaimsAreAuthorised'
  BY <1>1 DEF ClaimsAreAuthorised, TypeOK
<1> QED BY <1>2, <1>3, <1>4

\* A wrong code is one attempt and one guess, of the latest challenge.
LEMMA VerifyWrongStep ==
  ASSUME IInv, NEW ch \in Challenges, NEW entered \in Codes, VerifyWrong(ch, entered)
  PROVE  IInv'
<1> USE ConstantsAssumption DEF IInv
<1>1. /\ otpStatus[ch] = "pending" /\ otpStatus' = [otpStatus EXCEPT ![ch] = StatusAfterWrong(ch)]
      /\ attempts' = [attempts EXCEPT ![ch] = @ + 1] /\ guesses' = guesses + 1
      /\ UNCHANGED <<draft, code, lapsed, cooling, latest, eligible, debt, partnerActive, claim,
                     replaced>>
  BY DEF VerifyWrong, IsPending, ledgerVars
<1>2. ch = latest /\ ch # NoChallenge /\ attempts[ch] \in Nat /\ attempts[ch] < MaxAttempts
  BY <1>1 DEF PendingIsLatest, TypeOK
<1>3. attempts'[ch] = attempts[ch] + 1 /\ attempts' \in [Challenges -> 0..MaxAttempts]
  BY <1>1, <1>2 DEF TypeOK
<1>4. /\ StatusAfterWrong(ch) \in {"blocked", "pending"}
      /\ StatusAfterWrong(ch) = "pending" => attempts[ch] + 1 < MaxAttempts
  BY <1>2 DEF StatusAfterWrong
<1>5. TypeOK'
  BY <1>1, <1>3, <1>4 DEF TypeOK, OtpStatus
<1>6. PendingIsLatest'
  BY <1>1, <1>2, <1>3, <1>4 DEF PendingIsLatest, TypeOK
<1>7. GuessBudget'
  BY <1>1, <1>2, <1>3 DEF GuessBudget, TypeOK
<1>8. CodeIsFresh'
  BY <1>1, <1>4 DEF CodeIsFresh, TypeOK
<1>9. ClaimsAreAuthorised'
  BY <1>1, <1>4 DEF ClaimsAreAuthorised, TypeOK
<1> QED BY <1>5, <1>6, <1>7, <1>8, <1>9

\* A claim uses up a verified challenge, which no other claim has.
LEMMA CreateClaimStep ==
  ASSUME IInv, NEW ch \in Challenges, NEW taken \in Selections, NEW key \in Keys,
         CreateClaim(key, ch, taken)
  PROVE  IInv'
<1> USE DEF IInv
<1> DEFINE new == [draft |-> DraftOf(taken), challenge |-> ch]
<1>1. /\ otpStatus[ch] = "verified" /\ draft[ch] = DraftOf(taken)
      /\ otpStatus' = [otpStatus EXCEPT ![ch] = "used"]
      /\ claim' = [claim EXCEPT ![key] = new] /\ eligible' = eligible \ taken
      /\ UNCHANGED <<draft, code, attempts, lapsed, cooling, latest, debt, partnerActive,
                     replaced, guesses>>
  BY DEF CreateClaim, Authorises, UseChallenge, historyVars
<1>2. new \in Claim
  BY DraftType DEF Claim
<1>3. TypeOK'
  BY <1>1, <1>2 DEF TypeOK, OtpStatus
<1>4. PendingIsLatest' /\ GuessBudget' /\ CodeIsFresh'
  BY <1>1 DEF PendingIsLatest, GuessBudget, CodeIsFresh, TypeOK
<1>5. ASSUME NEW k \in Keys \ {key}, claim[k] # NoClaim
      PROVE  claim[k].challenge # ch
  BY <1>1, <1>5 DEF ClaimsAreAuthorised
<1>6. claim'[key] = new /\ \A k \in Keys \ {key} : claim'[k] = claim[k]
  BY <1>1 DEF TypeOK
<1>7. otpStatus'[ch] = "used" /\ \A d \in Challenges \ {ch} : otpStatus'[d] = otpStatus[d]
  BY <1>1 DEF TypeOK
<1>8. \A k \in Keys \ {key} : claim[k] # NoClaim => claim[k].challenge \in Challenges
  BY DEF TypeOK, Claim
<1>9. ClaimsAreAuthorised'
  BY <1>1, <1>5, <1>6, <1>7, <1>8 DEF ClaimsAreAuthorised
<1> QED BY <1>3, <1>4, <1>9

\* Once the minute is over, the guesses are counted anew.
LEMMA CooldownEndsStep ==
  ASSUME IInv, NEW ch \in Challenges, CooldownEnds(ch)
  PROVE  IInv'
<1> USE ConstantsAssumption DEF IInv
<1>1. /\ cooling' = cooling \ {ch} /\ ch \in cooling /\ guesses' = 0
      /\ UNCHANGED <<otpStatus, draft, code, attempts, lapsed, latest, eligible, debt,
                     partnerActive, claim, replaced>>
  BY DEF CooldownEnds, ledgerVars
<1>2. TypeOK' /\ PendingIsLatest' /\ CodeIsFresh' /\ ClaimsAreAuthorised'
  BY <1>1 DEF TypeOK, PendingIsLatest, CodeIsFresh, ClaimsAreAuthorised
<1>3. latest' = ch /\ attempts'[latest'] \in Nat /\ latest' \notin cooling'
  BY <1>1 DEF PendingIsLatest, TypeOK
<1>4. GuessBudget'
  BY <1>1, <1>3 DEF GuessBudget
<1> QED BY <1>2, <1>4

\* Time and the ledger move nothing that the invariant relates.
LEMMA OtherSteps ==
  ASSUME IInv, (\E ch \in Challenges : Lapse(ch)) \/ LedgerMoves \/ UNCHANGED vars
  PROVE  IInv'
<1> USE DEF IInv
<1>1. UNCHANGED <<otpStatus, draft, code, attempts, cooling, latest, claim, replaced, guesses>>
  BY DEF Lapse, LedgerMoves, vars, challengeVars, historyVars
<1>2. /\ lapsed' \in SUBSET Challenges /\ eligible' \in SUBSET Earnings
      /\ debt' \in Debts /\ partnerActive' \in BOOLEAN
  BY DEF Lapse, LedgerMoves, vars, challengeVars, historyVars, ledgerVars, TypeOK
<1>3. TypeOK'
  BY <1>1, <1>2 DEF TypeOK
<1>4. PendingIsLatest' /\ GuessBudget' /\ CodeIsFresh' /\ ClaimsAreAuthorised'
  BY <1>1 DEF PendingIsLatest, GuessBudget, CodeIsFresh, ClaimsAreAuthorised
<1> QED BY <1>3, <1>4

LEMMA NextIInv == IInv /\ [Next]_vars => IInv'
BY CreateStep, ResendStep, VerifyCorrectStep, VerifyWrongStep, CreateClaimStep,
   CooldownEndsStep, OtherSteps DEF Next

\* The invariant holds throughout.
THEOREM CodesInvariant == Spec => []IInv
BY InitIInv, NextIInv, PTL DEF Spec

------------------------------------------------------------------------------
(* The results.                                                            *)

(* Types, with attempts that never exceed their bound.                      *)
THEOREM OtpTypes == Spec => []TypeOK
<1>1. IInv => TypeOK
  BY DEF IInv
<1> QED BY <1>1, CodesInvariant, PTL

(* Whatever challenges and resends a partner asks for, at most twice        *)
(* MaxAttempts codes can be guessed between two ends of a cooldown.         *)
THEOREM GuessesAreBounded == Spec => []GuessRateBounded
<1>1. IInv => GuessRateBounded
  <2> SUFFICES ASSUME IInv PROVE guesses <= 2 * MaxAttempts
    BY DEF GuessRateBounded
  <2>1. guesses \in Nat /\ MaxAttempts \in Nat
    BY ConstantsAssumption DEF IInv, TypeOK
  <2>2. CASE latest = NoChallenge
    BY <2>1, <2>2 DEF IInv, GuessBudget
  <2>3. CASE latest # NoChallenge
    <3>1. attempts[latest] \in 0..MaxAttempts
      BY <2>3 DEF IInv, TypeOK
    <3> QED BY <2>1, <2>3, <3>1 DEF IInv, GuessBudget
  <2> QED BY <2>2, <2>3
<1> QED BY <1>1, CodesInvariant, PTL

(* Every claim pays what its own challenge was created for.                 *)
THEOREM ClaimsHaveTheirChallenge == Spec => []ClaimsAreAuthorised
<1>1. IInv => ClaimsAreAuthorised
  BY DEF IInv
<1> QED BY <1>1, CodesInvariant, PTL

(* A code that a resend replaced never verifies its challenge.              *)
THEOREM ReplacedCodesStayDead == Spec => ReplacedCodeIsDead
<1>1. IInv => \A ch \in Challenges : code[ch] \notin replaced[ch]
  BY DEF IInv, CodeIsFresh
<1>2. IInv /\ [Next]_vars =>
        [\A ch \in Challenges :
           otpStatus[ch] = "pending" /\ otpStatus'[ch] = "verified" => code[ch] \notin replaced[ch]]_vars
  BY <1>1
<1> QED BY <1>2, CodesInvariant, PTL DEF Spec, ReplacedCodeIsDead
------------------------------------------------------------------------------
(* The dialog over the codes: what links its requests, its key and its      *)
(* challenge to the claims the server has made.                             *)

\* What is served next or may still be served unheard.
Outstanding == late \cup (IF request = NoMessage THEN {} ELSE {request})

\* The dialog has at most one message, of the running action.
OneMessage ==
  /\ request = NoMessage \/ answer = NoMessage
  /\ waiting \in {"resend", "verification", "claim"} => shownChallenge # NoChallenge

\* A claim is awaited under the dialog's key, for the selection confirmed.
AwaitedClaim ==
  waiting = "claim" =>
    /\ claimKey # NoKey
    /\ request # NoMessage => request = ClaimRequest(claimKey, confirmed)

NoOtherClaims ==
  waiting # "claim" /\ request # NoMessage => request.op # "claim"

\* The server has done what it reports as done.
DoneIsDone ==
  answer # NoMessage /\ answer.status = "done" =>
    /\ answer.challenge \in Challenges
    /\ waiting = "claim" =>
         claim[claimKey] # NoClaim /\ claim[claimKey].draft.selection = confirmed

\* A key is drawn before it is used, and the key the dialog keeps is of its
\* challenge only.
KeyOfOneChallenge ==
  /\ \A r \in Outstanding : r.op = "claim" =>
       r.key \in drawnKeys /\ (r.key = claimKey => r.challenge = shownChallenge)
  /\ \A k \in Keys : claim[k] # NoClaim =>
       k \in drawnKeys /\ (k = claimKey => claim[k].challenge = shownChallenge)

FlowIInv ==
  /\ IInv
  /\ FlowTypeOK
  /\ OneMessage
  /\ AwaitedClaim
  /\ NoOtherClaims
  /\ DoneIsDone
  /\ KeyOfOneChallenge

\* A request has the fields of its operation.
LEMMA RequestFields ==
  ASSUME NEW r \in Requests
  PROVE  /\ r.op \in {"create", "resend", "verify", "claim"}
         /\ r.op = "create" => r.selection \in SUBSET Earnings
         /\ r.op \in {"resend", "verify", "claim"} => r.challenge \in Challenges
         /\ r.op = "verify" => r.code \in Codes
         /\ r.op = "claim" => r.key \in Keys /\ r.selection \in SUBSET Earnings
BY DEF Requests

\* The requests of the dialog are messages.
LEMMA RequestsAreTyped ==
  ASSUME FlowTypeOK
  PROVE  /\ CreateRequest \in Requests /\ CreateRequest # NoMessage
         /\ shownChallenge # NoChallenge =>
              /\ ResendRequest \in Requests /\ ResendRequest # NoMessage
              /\ \A entered \in Codes :
                   VerifyRequest(entered) \in Requests /\ VerifyRequest(entered) # NoMessage
              /\ \A key \in Keys, selection \in SUBSET Earnings :
                   /\ ClaimRequest(key, selection) \in Requests
                   /\ ClaimRequest(key, selection) # NoMessage
<1> USE MessagesAssumption
<1>1. Chosen \in SUBSET Earnings /\ Channel \in {"sms", "email"}
  BY DEF FlowTypeOK, Chosen, Channel
<1>2. CreateRequest \in Requests
  BY <1>1 DEF CreateRequest, Requests
<1>3. ASSUME shownChallenge # NoChallenge
      PROVE  /\ ResendRequest \in Requests
             /\ \A entered \in Codes : VerifyRequest(entered) \in Requests
             /\ \A key \in Keys, selection \in SUBSET Earnings :
                  ClaimRequest(key, selection) \in Requests
  <2>1. shownChallenge \in Challenges
    BY <1>3 DEF FlowTypeOK
  <2>2. ResendRequest \in Requests
    BY <2>1 DEF ResendRequest, Requests
  <2>3. \A entered \in Codes : VerifyRequest(entered) \in Requests
    BY <2>1 DEF VerifyRequest, Requests
  <2>4. \A key \in Keys, selection \in SUBSET Earnings : ClaimRequest(key, selection) \in Requests
    BY <2>1 DEF ClaimRequest, Requests
  <2> QED BY <2>2, <2>3, <2>4
<1> QED BY <1>2, <1>3

------------------------------------------------------------------------------
(* The server.                                                             *)

\* What serving a request does to the claims, and when it is done.
Served(r, reply) ==
  /\ \A k \in Keys :
       \/ claim'[k] = claim[k]
       \/ /\ claim[k] = NoClaim /\ r.op = "claim" /\ r.key = k
          /\ claim'[k].challenge = r.challenge
  /\ reply.status = "done" =>
       /\ reply.challenge \in Challenges
       /\ r.op = "claim" => claim'[r.key] # NoClaim /\ claim'[r.key].draft.selection = r.selection

\* A refusal changes nothing and is not done.
LEMMA RefusalServes ==
  ASSUME NEW r, NEW reply, NEW status \in Refusals, Refuse(reply, status)
  PROVE  UNCHANGED vars /\ Served(r, reply)
<1>1. UNCHANGED vars /\ reply.status # "done"
  BY DEF Refuse, Answer, Refusals
<1> QED BY <1>1 DEF Served, vars

LEMMA UnusedIsDrawable ==
  ASSUME NEW S, NEW x \in Unused(S)
  PROVE  x \in S
BY DEF Unused

LEMMA ServeCreateStep ==
  ASSUME NEW r \in Requests, NEW reply, r.op = "create", ServeCreate(r, reply)
  PROVE  [Next]_vars /\ Served(r, reply)
<1>1. ASSUME NEW ch \in Unused({d \in Challenges : otpStatus[d] = "absent"}),
             Create(ch, r.selection), reply = Answer("done", ch)
      PROVE  [Next]_vars /\ Served(r, reply)
  <2>1. ch \in Challenges
    BY UnusedIsDrawable
  <2>2. r.selection \in Selections /\ UNCHANGED claim
    BY <1>1 DEF Create, CanSelect
  <2>3. reply.challenge = ch
    BY <1>1 DEF Answer
  <2> QED BY <1>1, <2>1, <2>2, <2>3 DEF Next, Served
<1>2. CASE Refuse(reply, "cooldown") \/ Refuse(reply, "channel") \/ Refuse(reply, "refused")
  BY <1>2, RefusalServes DEF Refusals
<1> QED BY <1>1, <1>2 DEF ServeCreate

LEMMA ServeResendStep ==
  ASSUME NEW r \in Requests, NEW reply, r.op = "resend", ServeResend(r, reply)
  PROVE  [Next]_vars /\ Served(r, reply)
<1>1. CASE Resend(r.challenge) /\ reply = Answer("done", r.challenge)
  <2>1. r.challenge \in Challenges
    BY RequestFields
  <2>2. reply.challenge = r.challenge /\ UNCHANGED claim
    BY <1>1 DEF Answer, Resend
  <2> QED BY <1>1, <2>1, <2>2 DEF Next, Served
<1>2. CASE Refuse(reply, "cooldown") \/ Refuse(reply, "ended") \/ Refuse(reply, "refused")
  BY <1>2, RefusalServes DEF Refusals
<1> QED BY <1>1, <1>2 DEF ServeResend

LEMMA ServeVerifyStep ==
  ASSUME NEW r \in Requests, NEW reply, r.op = "verify", ServeVerify(r, reply)
  PROVE  [Next]_vars /\ Served(r, reply)
<1>1. r.challenge \in Challenges /\ r.code \in Codes
  BY RequestFields
<1>2. CASE VerifyCorrect(r.challenge, r.code) /\ reply = Answer("done", r.challenge)
  <2>1. reply.challenge = r.challenge /\ UNCHANGED claim
    BY <1>2 DEF Answer, VerifyCorrect
  <2> QED BY <1>1, <1>2, <2>1 DEF Next, Served
<1>3. CASE /\ VerifyWrong(r.challenge, r.code)
           /\ reply = Answer(IF otpStatus'[r.challenge] = "blocked" THEN "blocked" ELSE "wrong",
                             NoChallenge)
  <2>1. reply.status # "done" /\ UNCHANGED claim
    BY <1>3 DEF Answer, VerifyWrong
  <2> QED BY <1>1, <1>3, <2>1 DEF Next, Served
<1>4. CASE Refuse(reply, "ended") \/ Refuse(reply, "refused")
  BY <1>4, RefusalServes DEF Refusals
<1> QED BY <1>2, <1>3, <1>4 DEF ServeVerify

\* A claim is made under a new key, or is found under the key for its selection.
LEMMA ServeClaimStep ==
  ASSUME TypeOK, NEW r \in Requests, NEW reply, r.op = "claim", ServeClaim(r, reply)
  PROVE  [Next]_vars /\ Served(r, reply)
<1> USE ConstantsAssumption
<1>1. r.challenge \in Challenges /\ r.key \in Keys
  BY RequestFields
<1>2. CASE CreateClaim(r.key, r.challenge, r.selection) /\ reply = Answer("done", r.challenge)
  <2> DEFINE new == [draft |-> DraftOf(r.selection), challenge |-> r.challenge]
  <2>1. r.selection \in Selections /\ claim[r.key] = NoClaim
    BY <1>2 DEF CreateClaim, CanSelect, KeyIsNew
  <2>2. claim' = [claim EXCEPT ![r.key] = new]
    BY <1>2 DEF CreateClaim
  <2>3. new.challenge = r.challenge /\ new.draft.selection = r.selection
    BY DEF DraftOf
  <2>4. claim'[r.key] = new /\ \A k \in Keys \ {r.key} : claim'[k] = claim[k]
    BY <2>2, <1>1 DEF TypeOK
  <2>5. new # NoClaim
    BY <2>3, <1>1 DEF NoClaim
  <2>6. reply.challenge = r.challenge
    BY <1>2 DEF Answer
  <2>7. Served(r, reply)
    BY <1>1, <2>1, <2>3, <2>4, <2>5, <2>6 DEF Served
  <2> QED BY <1>1, <1>2, <2>1, <2>7 DEF Next
<1>3. CASE Replays(r) /\ reply = Answer("done", claim[r.key].challenge) /\ UNCHANGED vars
  <2>1. reply.challenge \in Challenges
    BY <1>1, <1>3 DEF Answer, Replays, TypeOK, Claim
  <2> QED BY <1>3, <2>1 DEF Served, Replays, vars
<1>4. CASE Refuse(reply, "ended") \/ Refuse(reply, "refused")
  BY <1>4, RefusalServes DEF Refusals
<1> QED BY <1>2, <1>3, <1>4 DEF ServeClaim

LEMMA ServeStep ==
  ASSUME TypeOK, NEW r \in Requests, NEW reply, Serve(r, reply)
  PROVE  [Next]_vars /\ Served(r, reply)
BY ServeCreateStep, ServeResendStep, ServeVerifyStep, ServeClaimStep DEF Serve

\* The server's claims keep the dialog's key of one challenge.
LEMMA ServedKeepsKey ==
  ASSUME FlowIInv, NEW r \in Outstanding, NEW reply, Served(r, reply), UNCHANGED dialogVars,
         Outstanding' \subseteq Outstanding
  PROVE  KeyOfOneChallenge'
<1>1. UNCHANGED <<claimKey, drawnKeys, shownChallenge>>
  BY DEF dialogVars, keyVars, viewVars
<1>2. ASSUME NEW k \in Keys, claim'[k] # NoClaim
      PROVE  k \in drawnKeys /\ (k = claimKey => claim'[k].challenge = shownChallenge)
  BY <1>2 DEF Served, FlowIInv, KeyOfOneChallenge
<1> QED BY <1>1, <1>2 DEF KeyOfOneChallenge, FlowIInv

------------------------------------------------------------------------------
(* The steps of the dialog and of the network.                              *)

LEMMA InitFlow == FlowInit => FlowIInv
<1> SUFFICES ASSUME FlowInit PROVE FlowIInv
  OBVIOUS
<1>1. IInv
  BY InitIInv DEF FlowInit
<1>2. FlowTypeOK
  BY ConstantsAssumption DEF FlowInit, FlowTypeOK, Init
<1>3. OneMessage /\ AwaitedClaim /\ NoOtherClaims /\ DoneIsDone
  BY DEF FlowInit, OneMessage, AwaitedClaim, NoOtherClaims, DoneIsDone
<1>4. KeyOfOneChallenge
  BY DEF FlowInit, KeyOfOneChallenge, Outstanding, Init
<1> QED BY <1>1, <1>2, <1>3, <1>4 DEF FlowIInv

\* What leaves the server alone leaves its invariant alone.
LEMMA CodesUntouched ==
  ASSUME FlowIInv, UNCHANGED vars
  PROVE  IInv' /\ claim' = claim
BY NextIInv DEF FlowIInv, vars

LEMMA ServeRequestStep ==
  ASSUME FlowIInv, ServeRequest
  PROVE  FlowIInv' /\ [Next]_vars
<1>1. PICK reply \in Answers : Serve(request, reply) /\ answer' = reply
  BY DEF ServeRequest
<1>2. /\ request # NoMessage /\ request' = NoMessage
      /\ UNCHANGED <<dialogVars, waiting, late, mishaps>>
  BY DEF ServeRequest
<1>3. request \in Requests /\ request \in Outstanding
  BY <1>2 DEF FlowIInv, FlowTypeOK, Outstanding
<1>4. [Next]_vars /\ Served(request, reply)
  BY <1>1, <1>3, ServeStep DEF FlowIInv, IInv
<1>5. IInv'
  BY <1>4, NextIInv DEF FlowIInv
<1>6. UNCHANGED <<shown, selected, smsDisabled, shownChallenge, shownStatus, counting, claimKey,
                  drawnKeys, confirmed, notice, waiting, late>>
  BY <1>2 DEF dialogVars, boxVars, viewVars, keyVars
<1>7. reply # NoMessage
  BY MessagesAssumption
<1>8. FlowTypeOK'
  BY <1>1, <1>2, <1>6, <1>7 DEF FlowIInv, FlowTypeOK
<1>9. OneMessage' /\ AwaitedClaim' /\ NoOtherClaims'
  BY <1>2, <1>6 DEF FlowIInv, OneMessage, AwaitedClaim, NoOtherClaims
<1>10. DoneIsDone'
  <2>1. waiting = "claim" =>
          request.op = "claim" /\ request.key = claimKey /\ request.selection = confirmed
    BY <1>2 DEF FlowIInv, AwaitedClaim, ClaimRequest
  <2> QED BY <1>1, <1>4, <1>6, <2>1 DEF DoneIsDone, Served
<1>11. Outstanding' \subseteq Outstanding
  BY <1>2 DEF Outstanding
<1>12. KeyOfOneChallenge'
  BY <1>2, <1>3, <1>4, <1>11, ServedKeepsKey
<1> QED BY <1>4, <1>5, <1>8, <1>9, <1>10, <1>12 DEF FlowIInv

\* A request served late changes no claim that is there.
LEMMA ServeLateStep ==
  ASSUME FlowIInv, ServeLate
  PROVE  FlowIInv' /\ [Next]_vars
<1>1. PICK r \in late, reply \in Answers : late' = late \ {r} /\ Serve(r, reply)
  BY DEF ServeLate
<1>2. UNCHANGED <<dialogVars, waiting, request, answer, mishaps>>
  BY DEF ServeLate
<1>3. r \in Requests /\ r \in Outstanding
  BY DEF FlowIInv, FlowTypeOK, Outstanding
<1>4. [Next]_vars /\ Served(r, reply)
  BY <1>1, <1>3, ServeStep DEF FlowIInv, IInv
<1>5. IInv'
  BY <1>4, NextIInv DEF FlowIInv
<1>6. UNCHANGED <<shown, selected, smsDisabled, shownChallenge, shownStatus, counting, claimKey,
                  drawnKeys, confirmed, notice, waiting, request, answer>>
  BY <1>2 DEF dialogVars, boxVars, viewVars, keyVars
<1>7. FlowTypeOK'
  BY <1>1, <1>6 DEF FlowIInv, FlowTypeOK
<1>8. OneMessage' /\ AwaitedClaim' /\ NoOtherClaims'
  BY <1>6 DEF FlowIInv, OneMessage, AwaitedClaim, NoOtherClaims, ClaimRequest
<1>9. DoneIsDone'
  <2>1. waiting = "claim" => claimKey \in Keys
    BY DEF FlowIInv, AwaitedClaim, FlowTypeOK
  <2>2. waiting = "claim" /\ claim[claimKey] # NoClaim => claim'[claimKey] = claim[claimKey]
    BY <2>1, <1>4 DEF Served
  <2> QED BY <1>6, <2>2 DEF FlowIInv, DoneIsDone
<1>10. Outstanding' \subseteq Outstanding
  BY <1>1, <1>6 DEF Outstanding
<1>11. KeyOfOneChallenge'
  BY <1>2, <1>3, <1>4, <1>10, ServedKeepsKey
<1> QED BY <1>4, <1>5, <1>7, <1>8, <1>9, <1>11 DEF FlowIInv

\* Losing a message leaves what is outstanding.
LEMMA LossStep ==
  ASSUME FlowIInv, GiveUp \/ LoseAnswer
  PROVE  FlowIInv' /\ UNCHANGED vars
<1>1. IInv' /\ claim' = claim /\ UNCHANGED vars
  BY CodesUntouched DEF GiveUp, LoseAnswer
<1>2. UNCHANGED <<shown, selected, smsDisabled, shownChallenge, shownStatus, counting, claimKey,
                  drawnKeys, confirmed, notice, waiting>>
  BY DEF GiveUp, LoseAnswer, dialogVars, boxVars, viewVars, keyVars
<1>3. /\ answer' = Answer("lost", NoChallenge) /\ request' = NoMessage
      /\ late' \in SUBSET Requests /\ waiting # "nothing"
      /\ Outstanding' \subseteq Outstanding
  BY DEF GiveUp, LoseAnswer, FlowIInv, FlowTypeOK, OneMessage, Outstanding
<1>4. answer' \in Answers /\ answer' # NoMessage /\ answer'.status # "done"
  BY <1>3, MessagesAssumption DEF Answers, Answer
<1>5. FlowTypeOK'
  BY <1>2, <1>3, <1>4 DEF FlowIInv, FlowTypeOK
<1>6. OneMessage' /\ AwaitedClaim' /\ NoOtherClaims' /\ DoneIsDone'
  BY <1>2, <1>3, <1>4 DEF FlowIInv, OneMessage, AwaitedClaim, NoOtherClaims, DoneIsDone
<1>7. KeyOfOneChallenge'
  BY <1>1, <1>2, <1>3 DEF FlowIInv, KeyOfOneChallenge
<1> QED BY <1>1, <1>5, <1>6, <1>7 DEF FlowIInv

\* A selection changed while the dialog is idle drops its challenge and its key.
LEMMA SelectStep ==
  ASSUME FlowIInv, NEW e \in Earnings, Select(e)
  PROVE  FlowIInv' /\ UNCHANGED vars
<1>1. IInv' /\ claim' = claim /\ UNCHANGED vars
  BY CodesUntouched DEF Select
<1>2. /\ waiting = "nothing" /\ selected' \in SUBSET Earnings
      /\ shownChallenge' = NoChallenge /\ shownStatus' = "none" /\ claimKey' = NoKey
      /\ notice' = "none"
      /\ UNCHANGED <<shown, smsDisabled, counting, drawnKeys, confirmed, waiting, request, answer,
                     late>>
  BY DEF Select, Idle, DropKey, networkVars, FlowIInv, FlowTypeOK
<1>3. FlowTypeOK'
  BY <1>2 DEF FlowIInv, FlowTypeOK
<1>4. OneMessage' /\ AwaitedClaim' /\ NoOtherClaims' /\ DoneIsDone'
  BY <1>1, <1>2 DEF FlowIInv, OneMessage, AwaitedClaim, NoOtherClaims, DoneIsDone, FlowTypeOK
<1>5. \A r \in Outstanding : r.op = "claim" => r.key # NoKey
  BY FlowAssumption DEF FlowIInv, FlowTypeOK, KeyOfOneChallenge
<1>6. KeyOfOneChallenge'
  BY <1>1, <1>2, <1>5, FlowAssumption DEF FlowIInv, KeyOfOneChallenge, Outstanding
<1> QED BY <1>1, <1>3, <1>4, <1>6 DEF FlowIInv

\* A request other than of a claim.
LEMMA SendStep ==
  ASSUME FlowIInv, waiting = "nothing", UNCHANGED vars,
         NEW purpose \in {"challenge", "resend", "verification"}, NEW r \in Requests, r # NoMessage,
         r.op # "claim",
         purpose # "challenge" => shownChallenge # NoChallenge,
         Send(purpose, r), notice' = "none", confirmed' \in SUBSET Earnings,
         UNCHANGED <<shown, boxVars, viewVars, keyVars>>
  PROVE  FlowIInv'
<1>1. IInv' /\ claim' = claim
  BY CodesUntouched
<1>2. /\ UNCHANGED <<shown, selected, smsDisabled, shownChallenge, shownStatus, counting, claimKey,
                     drawnKeys, late>>
      /\ waiting' = purpose /\ request' = r /\ answer' = NoMessage
  BY DEF Send, boxVars, viewVars, keyVars
<1>3. FlowTypeOK'
  BY <1>2 DEF FlowIInv, FlowTypeOK
<1>4. OneMessage' /\ AwaitedClaim' /\ NoOtherClaims' /\ DoneIsDone'
  BY <1>2 DEF OneMessage, AwaitedClaim, NoOtherClaims, DoneIsDone
<1>5. KeyOfOneChallenge'
  BY <1>1, <1>2 DEF FlowIInv, KeyOfOneChallenge, Outstanding
<1> QED BY <1>1, <1>3, <1>4, <1>5 DEF FlowIInv

LEMMA BeginChallengeStep ==
  ASSUME FlowIInv, BeginChallenge
  PROVE  FlowIInv' /\ UNCHANGED vars
<1>1. CreateRequest \in Requests /\ CreateRequest # NoMessage /\ CreateRequest.op # "claim"
  BY RequestsAreTyped DEF FlowIInv, CreateRequest
<1>2. confirmed' \in SUBSET Earnings
  BY DEF BeginChallenge, FlowIInv, FlowTypeOK
<1> QED BY <1>1, <1>2, SendStep DEF BeginChallenge, Idle

LEMMA RequestAnotherCodeStep ==
  ASSUME FlowIInv, RequestAnotherCode
  PROVE  FlowIInv' /\ UNCHANGED vars
<1> DEFINE r == IF IsOver THEN CreateRequest ELSE ResendRequest
<1>1. r \in Requests /\ r # NoMessage /\ r.op # "claim"
  BY RequestsAreTyped DEF FlowIInv, CreateRequest, ResendRequest, RequestAnotherCode
<1>2. confirmed' \in SUBSET Earnings
  BY DEF RequestAnotherCode, FlowIInv, FlowTypeOK
<1>3. /\ waiting = "nothing" /\ UNCHANGED vars /\ shownChallenge # NoChallenge
      /\ Send("resend", r) /\ notice' = "none"
      /\ UNCHANGED <<shown, boxVars, viewVars, keyVars>>
  BY DEF RequestAnotherCode, Idle
<1> HIDE DEF r
<1> QED BY <1>1, <1>2, <1>3, SendStep

LEMMA ConfirmCodeStep ==
  ASSUME FlowIInv, NEW entered \in Codes, ConfirmCode(entered)
  PROVE  FlowIInv' /\ UNCHANGED vars
<1>1. shownChallenge # NoChallenge /\ waiting = "nothing"
  BY DEF ConfirmCode, MayConfirm, Idle
<1>2. VerifyRequest(entered) \in Requests /\ VerifyRequest(entered) # NoMessage
  BY <1>1, RequestsAreTyped DEF FlowIInv
<1>3. VerifyRequest(entered).op # "claim"
  BY DEF VerifyRequest
<1>4. confirmed' \in SUBSET Earnings
  BY DEF ConfirmCode, Chosen, FlowIInv, FlowTypeOK
<1> QED BY <1>1, <1>2, <1>3, <1>4, SendStep DEF ConfirmCode

\* A key that was not drawn before is of no request and of no claim; a key that
\* is kept is of the challenge on screen.
LEMMA SendClaimStep ==
  ASSUME FlowIInv, UNCHANGED vars, NEW selection \in SUBSET Earnings, SendClaim(selection),
         confirmed' = selection, shownChallenge # NoChallenge, shownStatus' # "none",
         shownStatus' \in {"none", "pending", "verified", "expired", "blocked"},
         notice' \in {"none", "error", "retry", "created"},
         request = NoMessage,
         UNCHANGED <<shown, boxVars, shownChallenge, counting>>
  PROVE  FlowIInv'
<1>1. IInv' /\ claim' = claim
  BY CodesUntouched
<1>2. PICK key \in UsableKeys :
        /\ claimKey' = key
        /\ drawnKeys' = drawnKeys \cup {key}
        /\ Send("claim", ClaimRequest(key, selection))
  BY DEF SendClaim
<1>3. /\ key \in Keys
      /\ key = claimKey \/ key \notin drawnKeys
  <2>1. CASE claimKey = NoKey
    BY <2>1, UnusedIsDrawable DEF UsableKeys
  <2>2. CASE claimKey # NoKey
    BY <2>2 DEF UsableKeys, FlowIInv, FlowTypeOK
  <2> QED BY <2>1, <2>2
<1> DEFINE r == ClaimRequest(key, selection)
<1>4. r \in Requests /\ r # NoMessage
  BY <1>3, RequestsAreTyped DEF FlowIInv
<1>5. r.op = "claim" /\ r.key = key /\ r.challenge = shownChallenge
  BY DEF ClaimRequest
<1>6. /\ UNCHANGED <<shown, selected, smsDisabled, shownChallenge, counting, late>>
      /\ waiting' = "claim" /\ request' = r /\ answer' = NoMessage
  BY <1>2 DEF Send, boxVars
<1>7. r = ClaimRequest(claimKey, confirmed)'
  BY <1>2, <1>6 DEF ClaimRequest
<1> HIDE DEF r
<1>8. FlowTypeOK'
  BY <1>2, <1>3, <1>4, <1>6 DEF FlowIInv, FlowTypeOK
<1>9. OneMessage' /\ NoOtherClaims' /\ DoneIsDone'
  BY <1>6 DEF OneMessage, NoOtherClaims, DoneIsDone
<1>10. AwaitedClaim'
  BY <1>2, <1>3, <1>6, <1>7, FlowAssumption DEF AwaitedClaim
<1>11. KeyOfOneChallenge'
  <2>1. ASSUME NEW q \in Outstanding', q.op = "claim"
        PROVE  q.key \in drawnKeys' /\ (q.key = key => q.challenge = shownChallenge)
    <3>1. CASE q = r
      BY <3>1, <1>2, <1>5
    <3>2. CASE q \in Outstanding
      BY <3>2, <2>1, <1>2, <1>3 DEF FlowIInv, KeyOfOneChallenge
    <3> QED BY <3>1, <3>2, <1>6 DEF Outstanding
  <2>2. ASSUME NEW k \in Keys, claim[k] # NoClaim
        PROVE  k \in drawnKeys' /\ (k = key => claim[k].challenge = shownChallenge)
    BY <2>2, <1>2, <1>3 DEF FlowIInv, KeyOfOneChallenge
  <2> QED BY <2>1, <2>2, <1>1, <1>2, <1>6 DEF KeyOfOneChallenge
<1> QED BY <1>1, <1>8, <1>9, <1>10, <1>11 DEF FlowIInv

LEMMA RetryClaimStep ==
  ASSUME FlowIInv, RetryClaim
  PROVE  FlowIInv' /\ UNCHANGED vars
<1>1. /\ waiting = "nothing" /\ shownChallenge # NoChallenge /\ SendClaim(Chosen)
      /\ confirmed' = Chosen /\ notice' = "none" /\ shownStatus = "verified"
      /\ UNCHANGED <<shown, boxVars, shownChallenge, shownStatus, counting>> /\ UNCHANGED vars
  BY DEF RetryClaim, MayConfirm, Idle, viewVars
<1>2. request = NoMessage
  BY <1>1 DEF FlowIInv, FlowTypeOK
<1>3. Chosen \in SUBSET Earnings
  BY DEF Chosen, FlowIInv, FlowTypeOK
<1> QED BY <1>1, <1>2, <1>3, SendClaimStep

LEMMA VerifiedStep ==
  ASSUME FlowIInv, Verified
  PROVE  FlowIInv' /\ UNCHANGED vars
<1>1. /\ waiting = "verification" /\ answer # NoMessage /\ SendClaim(confirmed)
      /\ confirmed' = confirmed /\ notice' = notice /\ shownStatus' = "verified"
      /\ UNCHANGED <<shown, boxVars, shownChallenge, counting>> /\ UNCHANGED vars
  BY DEF Verified, Answered
<1>2. request = NoMessage /\ shownChallenge # NoChallenge
  BY <1>1 DEF FlowIInv, OneMessage
<1>3. confirmed \in SUBSET Earnings /\ notice' \in {"none", "error", "retry", "created"}
  BY <1>1 DEF FlowIInv, FlowTypeOK
<1> QED BY <1>1, <1>2, <1>3, SendClaimStep

\* An action that ends keeps its key only with its challenge.
LEMMA EndStep ==
  ASSUME FlowIInv, answer # NoMessage, EndAction,
         shownChallenge' \in Challenges \cup {NoChallenge},
         shownStatus' \in {"none", "pending", "verified", "expired", "blocked"},
         shownStatus' = "none" <=> shownChallenge' = NoChallenge,
         claimKey' = NoKey \/ (claimKey' = claimKey /\ shownChallenge' = shownChallenge),
         selected' \in SUBSET Earnings, smsDisabled' \in BOOLEAN, counting' \in BOOLEAN,
         notice' \in {"none", "error", "retry", "created"}
  PROVE  FlowIInv' /\ UNCHANGED vars
<1>1. IInv' /\ claim' = claim /\ UNCHANGED vars
  BY CodesUntouched DEF EndAction
<1>2. /\ waiting' = "nothing" /\ answer' = NoMessage /\ request' = NoMessage
      /\ UNCHANGED <<shown, drawnKeys, confirmed, late>>
  BY DEF EndAction, FlowIInv, OneMessage
<1>3. FlowTypeOK'
  BY <1>2 DEF FlowIInv, FlowTypeOK
<1>4. OneMessage' /\ AwaitedClaim' /\ NoOtherClaims' /\ DoneIsDone'
  BY <1>2 DEF OneMessage, AwaitedClaim, NoOtherClaims, DoneIsDone
<1>5. Outstanding' \subseteq Outstanding
  BY <1>2 DEF Outstanding
<1>6. \A r \in Outstanding : r.op = "claim" => r.key # NoKey
  BY FlowAssumption DEF FlowIInv, FlowTypeOK, KeyOfOneChallenge
<1>7. KeyOfOneChallenge'
  BY <1>1, <1>2, <1>5, <1>6, FlowAssumption DEF FlowIInv, KeyOfOneChallenge
<1> QED BY <1>1, <1>3, <1>4, <1>7 DEF FlowIInv

LEMMA AcceptChallengeStep ==
  ASSUME FlowIInv, AcceptChallenge
  PROVE  FlowIInv' /\ UNCHANGED vars
<1>1. /\ answer # NoMessage /\ EndAction /\ shownStatus' = "pending" /\ counting' = TRUE
      /\ shownChallenge' = answer.challenge /\ claimKey' = NoKey /\ notice' = "none"
      /\ UNCHANGED <<selected, smsDisabled>>
  BY DEF AcceptChallenge, Answered, DropKey, boxVars
<1>2. answer.challenge \in Challenges
  BY <1>1 DEF AcceptChallenge, Answered, FlowIInv, DoneIsDone
<1>3. selected' \in SUBSET Earnings /\ smsDisabled' \in BOOLEAN
  BY <1>1 DEF FlowIInv, FlowTypeOK
<1>4. shownChallenge' # NoChallenge
  BY <1>1, <1>2, ConstantsAssumption
<1> QED BY <1>1, <1>2, <1>3, <1>4, EndStep

LEMMA ChallengeEndedStep ==
  ASSUME FlowIInv, ChallengeEnded
  PROVE  FlowIInv' /\ UNCHANGED vars
<1>1. /\ answer # NoMessage /\ EndAction /\ shownStatus' \in {"expired", "blocked"}
      /\ waiting \in {"verification", "claim", "resend"} /\ claimKey' = NoKey
      /\ notice' = "error" /\ UNCHANGED <<selected, smsDisabled, shownChallenge, counting>>
  BY DEF ChallengeEnded, Answered, EndShownChallenge, DropKey, boxVars
<1>2. /\ selected' \in SUBSET Earnings /\ smsDisabled' \in BOOLEAN /\ counting' \in BOOLEAN
      /\ shownChallenge' \in Challenges
  BY <1>1 DEF FlowIInv, FlowTypeOK, OneMessage
<1>3. shownChallenge' # NoChallenge
  BY <1>2, ConstantsAssumption
<1> QED BY <1>1, <1>2, <1>3, EndStep

LEMMA RefusedStep ==
  ASSUME FlowIInv, Refused
  PROVE  FlowIInv' /\ UNCHANGED vars
<1>1. /\ answer # NoMessage /\ EndAction /\ notice' \in {"error", "retry"}
      /\ smsDisabled' \in BOOLEAN /\ counting' \in BOOLEAN
      /\ UNCHANGED <<selected, shownChallenge, shownStatus, claimKey>>
  BY DEF Refused, FlowIInv, FlowTypeOK
<1>2. /\ selected' \in SUBSET Earnings /\ shownChallenge' \in Challenges \cup {NoChallenge}
      /\ shownStatus' \in {"none", "pending", "verified", "expired", "blocked"}
      /\ shownStatus' = "none" <=> shownChallenge' = NoChallenge
  BY <1>1 DEF FlowIInv, FlowTypeOK
<1> QED BY <1>1, <1>2, EndStep

LEMMA ClaimCreatedStep ==
  ASSUME FlowIInv, ClaimCreated
  PROVE  FlowIInv' /\ UNCHANGED vars
<1>1. /\ answer # NoMessage /\ EndAction /\ notice' = "created" /\ selected' = {}
      /\ shownChallenge' = NoChallenge /\ shownStatus' = "none" /\ claimKey' = NoKey
      /\ UNCHANGED <<smsDisabled, counting>>
  BY DEF ClaimCreated, Answered, DropKey
<1>2. smsDisabled' \in BOOLEAN /\ counting' \in BOOLEAN
  BY <1>1 DEF FlowIInv, FlowTypeOK
<1> QED BY <1>1, <1>2, EndStep

\* The browser's clocks and a refresh change only what is shown.
LEMMA ViewStep ==
  ASSUME FlowIInv, CountdownEnds \/ CodeRunsOut \/ Refresh
  PROVE  FlowIInv' /\ UNCHANGED vars
<1>1. IInv' /\ claim' = claim /\ UNCHANGED vars
  BY CodesUntouched DEF CountdownEnds, CodeRunsOut, Refresh
<1>2. /\ UNCHANGED <<selected, smsDisabled, shownChallenge, claimKey, drawnKeys, confirmed, notice,
                     waiting, request, answer, late>>
      /\ shown' \in SUBSET Earnings /\ counting' \in BOOLEAN
      /\ shownStatus' = shownStatus \/ (shownStatus = "pending" /\ shownStatus' = "expired")
  BY DEF CountdownEnds, CodeRunsOut, Refresh, boxVars, viewVars, keyVars, networkVars, FlowIInv,
         FlowTypeOK, IInv, TypeOK
<1>3. FlowTypeOK'
  BY <1>2 DEF FlowIInv, FlowTypeOK
<1>4. OneMessage' /\ AwaitedClaim' /\ NoOtherClaims' /\ DoneIsDone'
  BY <1>1, <1>2 DEF FlowIInv, OneMessage, AwaitedClaim, NoOtherClaims, DoneIsDone, ClaimRequest
<1>5. KeyOfOneChallenge'
  BY <1>1, <1>2 DEF FlowIInv, KeyOfOneChallenge, Outstanding
<1> QED BY <1>1, <1>3, <1>4, <1>5 DEF FlowIInv

\* Time on the server and the ledger change no claim.
LEMMA ServerMovesStep ==
  ASSUME FlowIInv, ServerClock \/ LedgerChanges
  PROVE  FlowIInv' /\ [Next]_vars
<1>1. [Next]_vars /\ claim' = claim
  BY DEF ServerClock, LedgerChanges, Next, CooldownEnds, Lapse, LedgerMoves
<1>2. IInv'
  BY <1>1, NextIInv DEF FlowIInv
<1>3. UNCHANGED <<shown, selected, smsDisabled, shownChallenge, shownStatus, counting, claimKey,
                  drawnKeys, confirmed, notice, waiting, request, answer, late>>
  BY DEF ServerClock, LedgerChanges, dialogVars, boxVars, viewVars, keyVars, networkVars
<1>4. FlowTypeOK'
  BY <1>3 DEF FlowIInv, FlowTypeOK
<1>5. OneMessage' /\ AwaitedClaim' /\ NoOtherClaims' /\ DoneIsDone'
  BY <1>1, <1>3 DEF FlowIInv, OneMessage, AwaitedClaim, NoOtherClaims, DoneIsDone, ClaimRequest
<1>6. KeyOfOneChallenge'
  BY <1>1, <1>3 DEF FlowIInv, KeyOfOneChallenge, Outstanding
<1> QED BY <1>1, <1>2, <1>4, <1>5, <1>6 DEF FlowIInv

LEMMA StutterStep ==
  ASSUME FlowIInv, UNCHANGED flowVars
  PROVE  FlowIInv' /\ UNCHANGED vars
<1>1. IInv' /\ claim' = claim /\ UNCHANGED vars
  BY CodesUntouched DEF flowVars
<1>2. UNCHANGED <<shown, selected, smsDisabled, shownChallenge, shownStatus, counting, claimKey,
                  drawnKeys, confirmed, notice, waiting, request, answer, late>>
  BY DEF flowVars, dialogVars, boxVars, viewVars, keyVars, networkVars
<1>3. FlowTypeOK' /\ OneMessage' /\ AwaitedClaim' /\ NoOtherClaims' /\ DoneIsDone'
  BY <1>1, <1>2 DEF FlowIInv, FlowTypeOK, OneMessage, AwaitedClaim, NoOtherClaims, DoneIsDone,
                    ClaimRequest
<1>4. KeyOfOneChallenge'
  BY <1>1, <1>2 DEF FlowIInv, KeyOfOneChallenge, Outstanding
<1> QED BY <1>1, <1>3, <1>4 DEF FlowIInv

LEMMA FlowSteps == FlowIInv /\ [FlowNext]_flowVars => FlowIInv' /\ [Next]_vars
<1> SUFFICES ASSUME FlowIInv, [FlowNext]_flowVars PROVE FlowIInv' /\ [Next]_vars
  OBVIOUS
<1>1. CASE StartAction
  BY <1>1, SelectStep, BeginChallengeStep, RequestAnotherCodeStep, ConfirmCodeStep, RetryClaimStep
     DEF StartAction
<1>2. CASE HandleAnswer
  BY <1>2, AcceptChallengeStep, VerifiedStep, ChallengeEndedStep, ClaimCreatedStep, RefusedStep
     DEF HandleAnswer
<1>3. CASE ServeRequest \/ ServeLate \/ GiveUp \/ LoseAnswer
  BY <1>3, ServeRequestStep, ServeLateStep, LossStep
<1>4. CASE CountdownEnds \/ CodeRunsOut \/ Refresh \/ ServerClock \/ LedgerChanges
  BY <1>4, ViewStep, ServerMovesStep
<1>5. CASE UNCHANGED flowVars
  BY <1>5, StutterStep
<1> QED BY <1>1, <1>2, <1>3, <1>4, <1>5 DEF FlowNext

LEMMA FlowInvariant == FlowSpec => []FlowIInv
BY InitFlow, FlowSteps, PTL DEF FlowSpec

(* The dialog always shows a challenge with a status and sends only complete *)
(* requests.                                                                 *)
THEOREM DialogTypes == FlowSpec => []FlowTypeOK
<1>1. FlowIInv => FlowTypeOK
  BY DEF FlowIInv
<1> QED BY <1>1, FlowInvariant, PTL

(* Whatever the dialog and the network do, the server goes through steps of   *)
(* OtpClaims only, so that what holds of the codes holds behind the dialog.   *)
THEOREM DialogImplementsCodes == FlowSpec => Spec
<1>1. FlowInit => Init
  BY DEF FlowInit
<1> QED BY <1>1, FlowInvariant, FlowSteps, PTL DEF FlowSpec, Spec

(* A claim the dialog reports is the one it confirmed, under the challenge it *)
(* shows, however many answers were lost and requests served late.            *)
THEOREM ReportedClaimsAreTrue == FlowSpec => SuccessIsTrue
<1>1. FlowIInv /\ [FlowNext]_flowVars =>
        [notice # "created" /\ notice' = "created" =>
           /\ claim[claimKey].draft.selection = confirmed
           /\ claim[claimKey].challenge = shownChallenge]_flowVars
  <2> SUFFICES ASSUME FlowIInv, FlowNext, notice # "created", notice' = "created"
               PROVE  /\ claim[claimKey].draft.selection = confirmed
                      /\ claim[claimKey].challenge = shownChallenge
    OBVIOUS
  <2>1. ClaimCreated
    <3>1. ~StartAction
      BY DEF StartAction, Select, BeginChallenge, RequestAnotherCode, ConfirmCode, RetryClaim
    <3>2. ~(AcceptChallenge \/ Verified \/ ChallengeEnded \/ Refused)
      BY DEF AcceptChallenge, Verified, ChallengeEnded, Refused
    <3>3. ~(ServeRequest \/ ServeLate \/ GiveUp \/ LoseAnswer \/ ServerClock \/ LedgerChanges)
      BY DEF ServeRequest, ServeLate, GiveUp, LoseAnswer, ServerClock, LedgerChanges, dialogVars
    <3>4. ~(CountdownEnds \/ CodeRunsOut \/ Refresh)
      BY DEF CountdownEnds, CodeRunsOut, Refresh
    <3> QED BY <3>1, <3>2, <3>3, <3>4 DEF FlowNext, HandleAnswer
  <2>2. waiting = "claim" /\ answer # NoMessage /\ answer.status = "done"
    BY <2>1 DEF ClaimCreated, Answered
  <2>3. claim[claimKey] # NoClaim /\ claim[claimKey].draft.selection = confirmed
    BY <2>2 DEF FlowIInv, DoneIsDone
  <2>4. claimKey \in Keys
    BY <2>2 DEF FlowIInv, AwaitedClaim, FlowTypeOK
  <2>5. claim[claimKey].challenge = shownChallenge
    BY <2>3, <2>4 DEF FlowIInv, KeyOfOneChallenge
  <2> QED BY <2>3, <2>5
<1> QED BY <1>1, FlowInvariant, PTL DEF FlowSpec, SuccessIsTrue
==============================================================================
