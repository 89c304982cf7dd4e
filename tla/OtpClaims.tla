------------------------------ MODULE OtpClaims ------------------------------
(***************************************************************************)
(* The one-time codes of one partner and the claims they authorise.        *)
(* Creating a challenge, resending and verifying a code and creating a     *)
(* claim each run in one transaction under the organisation's reservation  *)
(* lock, so each is one action; the guards are the refusals the caller is  *)
(* answered with.                                                          *)
(*                                                                         *)
(* Two clocks matter, the five minutes a code lives and the minute before  *)
(* another may be issued; each is a flag of the challenge that turns at    *)
(* some moment after the issuance, the minute before the five.             *)
(***************************************************************************)
EXTENDS Naturals, FiniteSets

CONSTANTS
  Challenges,   \* challenges that may be created: bounds their number
  Codes,        \* what a code may be drawn as
  MaxAttempts,  \* wrong codes that block a challenge: five in the program
  Earnings,
  Debts,        \* what earlier claims and refunds may leave to absorb
  Payout,       \* what a selection pays out under a debt
  Keys,         \* idempotency keys: bounds the number of claims
  NoChallenge

Selections == (SUBSET Earnings) \ {{}}

ASSUME ConstantsAssumption ==
  /\ MaxAttempts \in Nat \ {0}
  /\ Payout \in [Selections -> [Debts -> Nat]]
  /\ NoChallenge \notin Challenges

VARIABLES
  otpStatus,     \* per challenge: its status, or absent
  draft,         \* per challenge: the selection and total its hash stands for
  code,          \* per challenge: the code whose digest is stored
  attempts,      \* per challenge: wrong codes since its code was issued
  lapsed,        \* challenges whose expires_at has passed
  cooling,       \* challenges whose resend_after has not passed
  latest,        \* the challenge with the latest resend_after
  eligible,      \* earnings a claim may select
  debt,          \* what the partner's next claim has to absorb
  partnerActive, \* the partner is not suspended
  claim,         \* per idempotency key: the claim created under it
  replaced,      \* history, per challenge: the code its last resend replaced
  guesses        \* history: wrong codes accepted for a check since a cooldown ended

challengeVars == <<otpStatus, draft, code, attempts, lapsed, cooling, latest>>
ledgerVars == <<eligible, debt, partnerActive>>
historyVars == <<replaced, guesses>>
vars == <<challengeVars, ledgerVars, claim, historyVars>>

Draft == [selection : SUBSET Earnings, total : Nat]
NoDraft == [selection |-> {}, total |-> 0]
Claim == [draft : Draft, challenge : Challenges]
NoClaim == [draft |-> NoDraft, challenge |-> NoChallenge]
NoCodes == {}

OtpStatus == {"pending", "verified", "used", "expired", "blocked"}

Init ==
  /\ otpStatus = [ch \in Challenges |-> "absent"]
  /\ draft = [ch \in Challenges |-> NoDraft]
  /\ \E c \in Codes : code = [ch \in Challenges |-> c]
  /\ attempts = [ch \in Challenges |-> 0]
  /\ lapsed = {}
  /\ cooling = {}
  /\ latest = NoChallenge
  /\ eligible \in SUBSET Earnings
  /\ debt \in Debts
  /\ partnerActive = TRUE
  /\ claim = [k \in Keys |-> NoClaim]
  /\ replaced = [ch \in Challenges |-> NoCodes]
  /\ guesses = 0

------------------------------------------------------------------------------
(* Issuing codes.                                                          *)

\* Mutant: only a code that may still be entered holds off the next one.
MayIssueUnlessPending == \A ch \in cooling : otpStatus[ch] # "pending"

\* The cooldown counts challenges of every status, blocked and used ones too.
MayIssue == cooling = {}

\* The partner's other pending challenges expire; a verified one stays usable.
SupersedePending(ch, next) ==
  otpStatus' = [d \in Challenges |-> IF d = ch THEN next
                                     ELSE IF otpStatus[d] = "pending" THEN "expired"
                                     ELSE otpStatus[d]]

\* Every issuance restarts the attempts, the lifetime and the cooldown.
Issue(ch) ==
  /\ attempts' = [attempts EXCEPT ![ch] = 0]
  /\ lapsed' = lapsed \ {ch}
  /\ cooling' = cooling \cup {ch}
  /\ latest' = ch

\* What the claim would select and pay out now.
DraftOf(selected) == [selection |-> selected, total |-> Payout[selected][debt]]

CanSelect(selected) == selected \in Selections /\ selected \subseteq eligible

Create(ch, selected) ==
  /\ partnerActive
  /\ MayIssue
  /\ CanSelect(selected)
  /\ otpStatus[ch] = "absent"
  /\ draft' = [draft EXCEPT ![ch] = DraftOf(selected)]
  /\ \E drawn \in Codes : code' = [code EXCEPT ![ch] = drawn]
  /\ SupersedePending(ch, "pending")
  /\ Issue(ch)
  /\ UNCHANGED <<ledgerVars, claim, historyVars>>

\* Mutant: a resend may draw the code it replaces.
AnyCode(ch) == Codes

\* The draw is repeated until the code differs from the one it replaces.
FreshCodes(ch) == Codes \ {code[ch]}

IsPending(ch) == otpStatus[ch] = "pending" /\ ch \notin lapsed

Resend(ch) ==
  /\ partnerActive
  /\ MayIssue
  /\ IsPending(ch)
  /\ latest = ch
  /\ \E drawn \in FreshCodes(ch) : code' = [code EXCEPT ![ch] = drawn]
  /\ replaced' = [replaced EXCEPT ![ch] = {code[ch]}]
  /\ SupersedePending(ch, "pending")
  /\ Issue(ch)
  /\ UNCHANGED <<draft, ledgerVars, claim, guesses>>

------------------------------------------------------------------------------
(* Verifying a code.                                                       *)

VerifyCorrect(ch, entered) ==
  /\ partnerActive
  /\ IsPending(ch)
  /\ entered = code[ch]
  /\ otpStatus' = [otpStatus EXCEPT ![ch] = "verified"]
  /\ UNCHANGED <<draft, code, attempts, lapsed, cooling, latest, ledgerVars, claim, historyVars>>

\* Mutant: the attempt that exhausts a challenge does not block it.
StaysPending(ch) == "pending"

StatusAfterWrong(ch) == IF attempts[ch] + 1 >= MaxAttempts THEN "blocked" ELSE "pending"

\* The attempt is counted although the request is refused.
VerifyWrong(ch, entered) ==
  /\ partnerActive
  /\ IsPending(ch)
  /\ entered # code[ch]
  /\ attempts' = [attempts EXCEPT ![ch] = @ + 1]
  /\ otpStatus' = [otpStatus EXCEPT ![ch] = StatusAfterWrong(ch)]
  /\ guesses' = guesses + 1
  /\ UNCHANGED <<draft, code, lapsed, cooling, latest, ledgerVars, claim, replaced>>

------------------------------------------------------------------------------
(* Creating a claim.                                                       *)

\* Mutant: what the code was issued for is not compared.
AuthorisesAny(ch, selected) == otpStatus[ch] = "verified" /\ ch \notin lapsed

\* The draft recomputed now is the one the challenge was created for.
Authorises(ch, selected) ==
  /\ otpStatus[ch] = "verified"
  /\ ch \notin lapsed
  /\ draft[ch] = DraftOf(selected)

UseChallenge(ch) == otpStatus' = [otpStatus EXCEPT ![ch] = "used"]

KeyIsNew(key) == claim[key] = NoClaim

\* A key that is not new is answered with its claim, or with a conflict when the
\* selection is another; neither changes anything.
CreateClaim(key, ch, selected) ==
  /\ partnerActive
  /\ KeyIsNew(key)
  /\ CanSelect(selected)
  /\ Authorises(ch, selected)
  /\ claim' = [claim EXCEPT ![key] = [draft |-> DraftOf(selected), challenge |-> ch]]
  /\ eligible' = eligible \ selected
  /\ UseChallenge(ch)
  /\ UNCHANGED <<draft, code, attempts, lapsed, cooling, latest, debt, partnerActive, historyVars>>

------------------------------------------------------------------------------
(* Time, and everything else that happens to the partner's earnings: holds, *)
(* voids, refunds, completions, payouts and failures of claims, suspension. *)

CooldownEnds(ch) ==
  /\ ch \in cooling
  /\ cooling' = cooling \ {ch}
  /\ guesses' = 0
  /\ UNCHANGED <<otpStatus, draft, code, attempts, lapsed, latest, ledgerVars, claim, replaced>>

Lapse(ch) ==
  /\ otpStatus[ch] # "absent"
  /\ ch \notin lapsed \cup cooling
  /\ lapsed' = lapsed \cup {ch}
  /\ UNCHANGED <<otpStatus, draft, code, attempts, cooling, latest, ledgerVars, claim, historyVars>>

LedgerMoves ==
  /\ eligible' \in SUBSET Earnings
  /\ debt' \in Debts
  /\ partnerActive' \in BOOLEAN
  /\ UNCHANGED <<challengeVars, claim, historyVars>>

Next ==
  \/ \E ch \in Challenges :
       \/ \E selected \in Selections : Create(ch, selected)
       \/ Resend(ch)
       \/ \E entered \in Codes : VerifyCorrect(ch, entered) \/ VerifyWrong(ch, entered)
       \/ \E selected \in Selections, key \in Keys : CreateClaim(key, ch, selected)
       \/ CooldownEnds(ch)
       \/ Lapse(ch)
  \/ LedgerMoves

Spec == Init /\ [][Next]_vars

------------------------------------------------------------------------------
\* Type invariant: a challenge has a status of the table's enumeration and never
\* more attempts than block it, and a claim its challenge and draft.
TypeOK ==
  /\ otpStatus \in [Challenges -> OtpStatus \cup {"absent"}]
  /\ draft \in [Challenges -> Draft]
  /\ code \in [Challenges -> Codes]
  /\ attempts \in [Challenges -> 0..MaxAttempts]
  /\ lapsed \in SUBSET Challenges
  /\ cooling \in SUBSET Challenges
  /\ latest \in Challenges \cup {NoChallenge}
  /\ eligible \in SUBSET Earnings
  /\ debt \in Debts
  /\ partnerActive \in BOOLEAN
  /\ claim \in [Keys -> Claim \cup {NoClaim}]
  /\ replaced \in [Challenges -> SUBSET Codes]
  /\ guesses \in Nat

\* However often a partner asks for new challenges and resends, codes can be
\* guessed at most twice MaxAttempts times between two ends of a cooldown: the
\* code from before the only issuance in between, and the one it issued.
GuessRateBounded == guesses <= 2 * MaxAttempts

\* Every claim has a challenge of its own, which is used up, and pays exactly
\* what the partner saw when the code was issued, whatever happened to the debt
\* and the earnings between the code and the claim.
ClaimsAreAuthorised ==
  \A k \in Keys : claim[k] # NoClaim =>
    /\ otpStatus[claim[k].challenge] = "used"
    /\ draft[claim[k].challenge] = claim[k].draft
    /\ \A l \in Keys : claim[l] # NoClaim /\ claim[l].challenge = claim[k].challenge => k = l

\* A code that a resend replaced does not verify, although codes are drawn at
\* random and the challenge is the same.
ReplacedCodeIsDead ==
  [][\A ch \in Challenges :
       otpStatus[ch] = "pending" /\ otpStatus'[ch] = "verified" => code[ch] \notin replaced[ch]]_vars
==============================================================================
