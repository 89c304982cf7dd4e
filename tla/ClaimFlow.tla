------------------------------ MODULE ClaimFlow ------------------------------
(***************************************************************************)
(* The claim dialog of the partner's browser, composed with the operations *)
(* of OtpClaims over a network that loses requests and answers.  A request *)
(* the browser has given up may still be served, unheard.                  *)
(*                                                                         *)
(* The dialog handles one action at a time; an action is one request, or   *)
(* two when a code is verified and then the claim created.  A challenge    *)
(* whose deadline has passed on the browser's clock is shown like one the  *)
(* server called expired, so both are the shown status "expired".          *)
(***************************************************************************)
EXTENDS OtpClaims

CONSTANTS
  SmsAvailable, \* the SMS mode of the deployment accepts codes
  MaxMishaps,   \* bounds lost messages, wrong codes, lapses, ledger moves and changes of mind
  NoKey,
  NoMessage

ASSUME FlowAssumption ==
  SmsAvailable \in BOOLEAN /\ MaxMishaps \in Nat /\ NoKey \notin Keys

VARIABLES
  shown,        \* the earnings the page shows as eligible
  selected,     \* the boxes the partner ticked
  smsDisabled,  \* SMS was refused once: the dialog uses e-mail
  shownChallenge,\* the challenge of the dialog
  shownStatus,  \* and its status as the browser knows it
  counting,     \* its resend countdown is running
  claimKey,     \* the key of the claim being created, kept for a retry
  drawnKeys,    \* every key drawn so far: a key is a fresh random UUID
  confirmed,    \* the selection of the confirmation under way
  waiting,      \* what the running action waits for
  request,      \* the request it waits for, until it is served
  answer,       \* the answer to it, until the browser handles it
  late,         \* requests given up but still under way
  notice,       \* what the dialog tells the partner
  mishaps        \* bound: mishaps so far

boxVars == <<selected, smsDisabled>>
viewVars == <<shownChallenge, shownStatus, counting>>
keyVars == <<claimKey, drawnKeys>>
dialogVars == <<shown, boxVars, viewVars, keyVars, confirmed, notice>>
networkVars == <<waiting, request, answer, late>>
flowVars == <<vars, dialogVars, networkVars, mishaps>>

FlowInit ==
  /\ Init
  /\ shown = eligible
  /\ selected = {}
  /\ smsDisabled = FALSE
  /\ shownChallenge = NoChallenge
  /\ shownStatus = "none"
  /\ counting = FALSE
  /\ claimKey = NoKey
  /\ drawnKeys = {}
  /\ confirmed = {}
  /\ waiting = "nothing"
  /\ request = NoMessage
  /\ answer = NoMessage
  /\ late = {}
  /\ notice = "none"
  /\ mishaps = 0

Mishap == mishaps < MaxMishaps /\ mishaps' = mishaps + 1

------------------------------------------------------------------------------
(* The server: each operation of OtpClaims with the answers it may give.    *)

Answer(status, ch) == [status |-> status, challenge |-> ch]
Refusals == {"refused", "cooldown", "channel", "ended", "blocked", "wrong"}
Answers == [status : Refusals \cup {"done", "lost"}, challenge : Challenges \cup {NoChallenge}]

Requests ==
       [op : {"create"}, selection : SUBSET Earnings, channel : {"sms", "email"}]
  \cup [op : {"resend"}, challenge : Challenges]
  \cup [op : {"verify"}, challenge : Challenges, code : Codes]
  \cup [op : {"claim"}, challenge : Challenges, selection : SUBSET Earnings, key : Keys]

ASSUME MessagesAssumption == NoMessage \notin Requests \cup Answers

Refuse(reply, status) == reply = Answer(status, NoChallenge) /\ UNCHANGED vars

Reachable(channel) == channel = "email" \/ SmsAvailable

\* Ids and keys are random UUIDs: which unused one is drawn does not matter.
Unused(drawable) == IF drawable = {} THEN {} ELSE {CHOOSE x \in drawable : TRUE}

ServeCreate(r, reply) ==
  \/ /\ Reachable(r.channel)
     /\ \E ch \in Unused({d \in Challenges : otpStatus[d] = "absent"}) :
          Create(ch, r.selection) /\ reply = Answer("done", ch)
  \/ partnerActive /\ ~MayIssue /\ Refuse(reply, "cooldown")
  \/ partnerActive /\ MayIssue /\ ~Reachable(r.channel) /\ Refuse(reply, "channel")
  \/ (~partnerActive \/ ~CanSelect(r.selection)) /\ Refuse(reply, "refused")

HasEnded(ch) == otpStatus[ch] = "expired" \/ ch \in lapsed

ServeResend(r, reply) ==
  \/ Resend(r.challenge) /\ reply = Answer("done", r.challenge)
  \/ ~partnerActive /\ Refuse(reply, "refused")
  \/ partnerActive /\ ~MayIssue /\ Refuse(reply, "cooldown")
  \/ partnerActive /\ MayIssue /\ HasEnded(r.challenge) /\ Refuse(reply, "ended")
  \/ /\ partnerActive /\ MayIssue /\ ~HasEnded(r.challenge)
     /\ otpStatus[r.challenge] # "pending" \/ latest # r.challenge
     /\ Refuse(reply, "refused")

ServeVerify(r, reply) ==
  \/ VerifyCorrect(r.challenge, r.code) /\ reply = Answer("done", r.challenge)
  \/ /\ VerifyWrong(r.challenge, r.code)
     /\ reply = Answer(IF otpStatus'[r.challenge] = "blocked" THEN "blocked" ELSE "wrong",
                       NoChallenge)
  \/ ~partnerActive /\ Refuse(reply, "refused")
  \/ partnerActive /\ HasEnded(r.challenge) /\ Refuse(reply, "ended")
  \/ /\ partnerActive /\ ~HasEnded(r.challenge) /\ otpStatus[r.challenge] # "pending"
     /\ Refuse(reply, "refused")

\* The claim under a key answers a request only if it is the same selection.
Replays(r) == claim[r.key] # NoClaim /\ claim[r.key].draft.selection = r.selection

ServeClaim(r, reply) ==
  \/ /\ CreateClaim(r.key, r.challenge, r.selection)
     /\ reply = Answer("done", r.challenge)
  \/ partnerActive /\ Replays(r) /\ reply = Answer("done", claim[r.key].challenge) /\ UNCHANGED vars
  \/ partnerActive /\ KeyIsNew(r.key) /\ HasEnded(r.challenge) /\ Refuse(reply, "ended")
  \/ /\ \/ ~partnerActive
        \/ ~KeyIsNew(r.key) /\ ~Replays(r)
        \/ KeyIsNew(r.key) /\ ~HasEnded(r.challenge)
           /\ ~(CanSelect(r.selection) /\ Authorises(r.challenge, r.selection))
     /\ Refuse(reply, "refused")

Serve(r, reply) ==
  \/ r.op = "create" /\ ServeCreate(r, reply)
  \/ r.op = "resend" /\ ServeResend(r, reply)
  \/ r.op = "verify" /\ ServeVerify(r, reply)
  \/ r.op = "claim" /\ ServeClaim(r, reply)

ServeRequest ==
  /\ request # NoMessage
  /\ request' = NoMessage
  /\ \E reply \in Answers : Serve(request, reply) /\ answer' = reply
  /\ UNCHANGED <<dialogVars, waiting, late, mishaps>>

ServeLate ==
  /\ \E r \in late : late' = late \ {r} /\ \E reply \in Answers : Serve(r, reply)
  /\ UNCHANGED <<dialogVars, waiting, request, answer, mishaps>>

\* The request fails in the browser; whether it reaches the server is open.
GiveUp ==
  /\ request # NoMessage
  /\ late' = late \cup {request}
  /\ request' = NoMessage
  /\ answer' = Answer("lost", NoChallenge)
  /\ Mishap
  /\ UNCHANGED <<vars, dialogVars, waiting>>

LoseAnswer ==
  /\ answer # NoMessage /\ answer.status # "lost"
  /\ answer' = Answer("lost", NoChallenge)
  /\ Mishap
  /\ UNCHANGED <<vars, dialogVars, waiting, request, late>>

------------------------------------------------------------------------------
(* Starting an action of the dialog.                                       *)

Chosen == selected \cap shown
Idle == waiting = "nothing"
IsOver == shownStatus \in {"expired", "blocked"}
\* The partner prefers SMS; a challenge keeps the channel it was created with.
Channel == IF smsDisabled THEN "email" ELSE "sms"

CreateRequest == [op |-> "create", selection |-> Chosen, channel |-> Channel]
VerifyRequest(entered) == [op |-> "verify", challenge |-> shownChallenge, code |-> entered]
ResendRequest == [op |-> "resend", challenge |-> shownChallenge]
ClaimRequest(key, selection) ==
  [op |-> "claim", challenge |-> shownChallenge, selection |-> selection, key |-> key]

Send(purpose, r) ==
  /\ waiting' = purpose
  /\ request' = r
  /\ answer' = NoMessage
  /\ UNCHANGED late

\* Mutant: the key of an earlier challenge is kept for the next.
KeepKey == UNCHANGED claimKey

DropKey == claimKey' = NoKey

Select(e) ==
  /\ Idle
  /\ e \in shown
  /\ selected' = IF e \in selected THEN selected \ {e} ELSE selected \cup {e}
  /\ shownChallenge' = NoChallenge
  /\ shownStatus' = "none"
  /\ DropKey
  /\ notice' = "none"
  /\ IF e \notin selected /\ shownChallenge = NoChallenge THEN UNCHANGED mishaps ELSE Mishap
  /\ UNCHANGED <<vars, shown, smsDisabled, counting, drawnKeys, confirmed, networkVars>>

BeginChallenge ==
  /\ Idle
  /\ Chosen # {}
  /\ shownChallenge = NoChallenge
  /\ Send("challenge", CreateRequest)
  /\ notice' = "none"
  /\ UNCHANGED <<vars, shown, boxVars, viewVars, keyVars, confirmed, mishaps>>

\* Another code for the challenge, or another challenge when it is over.
RequestAnotherCode ==
  /\ Idle
  /\ shownChallenge # NoChallenge
  /\ shownStatus # "verified"
  /\ ~counting
  /\ IsOver => Chosen # {}
  /\ Send("resend", IF IsOver THEN CreateRequest ELSE ResendRequest)
  /\ notice' = "none"
  /\ UNCHANGED <<vars, shown, boxVars, viewVars, keyVars, confirmed, mishaps>>

\* A retry keeps the key of the attempt before.
UsableKeys == IF claimKey = NoKey THEN Unused(Keys \ drawnKeys) ELSE {claimKey}

SendClaim(selection) ==
  \E key \in UsableKeys :
    /\ claimKey' = key
    /\ drawnKeys' = drawnKeys \cup {key}
    /\ Send("claim", ClaimRequest(key, selection))

MayConfirm == Idle /\ shownChallenge # NoChallenge /\ Chosen # {}

ConfirmCode(entered) ==
  /\ MayConfirm
  /\ shownStatus = "pending"
  /\ IF entered = code[shownChallenge] THEN UNCHANGED mishaps ELSE Mishap
  /\ confirmed' = Chosen
  /\ Send("verification", VerifyRequest(entered))
  /\ notice' = "none"
  /\ UNCHANGED <<vars, shown, boxVars, viewVars, keyVars>>

RetryClaim ==
  /\ MayConfirm
  /\ shownStatus = "verified"
  /\ confirmed' = Chosen
  /\ SendClaim(Chosen)
  /\ notice' = "none"
  /\ UNCHANGED <<vars, shown, boxVars, viewVars, mishaps>>

------------------------------------------------------------------------------
(* Handling an answer.                                                     *)

Answered(purposes, statuses) ==
  waiting \in purposes /\ answer # NoMessage /\ answer.status \in statuses

\* Mutant: the guard against a second action is not released.
StayGuarded ==
  /\ answer' = NoMessage
  /\ UNCHANGED <<vars, shown, drawnKeys, confirmed, waiting, request, late, mishaps>>

EndAction ==
  /\ waiting' = "nothing"
  /\ answer' = NoMessage
  /\ UNCHANGED <<vars, shown, drawnKeys, confirmed, request, late, mishaps>>

AcceptChallenge ==
  /\ Answered({"challenge", "resend"}, {"done"})
  /\ shownChallenge' = answer.challenge
  /\ shownStatus' = "pending"
  /\ counting' = TRUE
  /\ DropKey
  /\ notice' = "none"
  /\ UNCHANGED boxVars
  /\ EndAction

\* The claim is requested for the selection on screen when the code was entered.
Verified ==
  /\ Answered({"verification"}, {"done"})
  /\ shownStatus' = "verified"
  /\ SendClaim(confirmed)
  /\ UNCHANGED <<vars, shown, boxVars, shownChallenge, counting, confirmed, notice, mishaps>>

\* Mutant: the dialog goes on with a challenge the server has ended.
StillPending == UNCHANGED shownStatus

EndShownChallenge == shownStatus' = IF answer.status = "ended" THEN "expired" ELSE "blocked"

ChallengeEnded ==
  /\ Answered({"verification", "claim", "resend"}, {"ended", "blocked"})
  /\ EndShownChallenge
  /\ DropKey
  /\ notice' = "error"
  /\ UNCHANGED <<boxVars, shownChallenge, counting>>
  /\ EndAction

\* A refused SMS turns the dialog to e-mail, a cooldown restarts the countdown of
\* a challenge that is over, and whatever the reason a claim was refused for, the
\* partner is told that no new code is needed.
Refused ==
  /\ answer # NoMessage
  /\ answer.status \in {"refused", "cooldown", "channel", "wrong", "lost"}
  /\ smsDisabled' = (smsDisabled \/ (waiting = "challenge" /\ answer.status = "channel"))
  /\ counting' = (counting \/ (waiting = "resend" /\ IsOver /\ answer.status = "cooldown"))
  /\ notice' = IF waiting = "claim" THEN "retry" ELSE "error"
  /\ UNCHANGED <<selected, shownChallenge, shownStatus, claimKey>>
  /\ EndAction

ClaimCreated ==
  /\ Answered({"claim"}, {"done"})
  /\ notice' = "created"
  /\ selected' = {}
  /\ shownChallenge' = NoChallenge
  /\ shownStatus' = "none"
  /\ DropKey
  /\ UNCHANGED <<smsDisabled, counting>>
  /\ EndAction

------------------------------------------------------------------------------
(* Clocks, refreshes of the page, and the ledger.                          *)

\* The countdown follows the challenge on screen, the server the last one it
\* issued: it may end before the server's cooldown does.
CountdownEnds ==
  /\ counting
  /\ counting' = FALSE
  /\ UNCHANGED <<vars, shown, boxVars, shownChallenge, shownStatus, keyVars, confirmed, notice, networkVars, mishaps>>

\* A code runs out before the partner has entered it: a mishap, unless the
\* server no longer takes it anyway.
CodeRunsOut ==
  /\ shownStatus = "pending"
  /\ shownStatus' = "expired"
  /\ IF IsPending(shownChallenge) THEN Mishap ELSE UNCHANGED mishaps
  /\ UNCHANGED <<vars, shown, boxVars, shownChallenge, counting, keyVars, confirmed, notice, networkVars>>

ServerClock ==
  /\ \/ \E ch \in Challenges : CooldownEnds(ch) /\ UNCHANGED mishaps
     \/ \E ch \in Challenges : Lapse(ch) /\ Mishap
  /\ UNCHANGED <<dialogVars, networkVars>>

\* The workspace loads the partner's earnings again.
Refresh ==
  /\ shown # eligible
  /\ shown' = eligible
  /\ UNCHANGED <<vars, boxVars, viewVars, keyVars, confirmed, notice, networkVars, mishaps>>

LedgerChanges == LedgerMoves /\ Mishap /\ UNCHANGED <<dialogVars, networkVars>>

HandleAnswer == AcceptChallenge \/ Verified \/ ChallengeEnded \/ ClaimCreated \/ Refused

StartAction ==
  \/ \E e \in Earnings : Select(e)
  \/ BeginChallenge
  \/ RequestAnotherCode
  \/ \E entered \in Codes : ConfirmCode(entered)
  \/ RetryClaim

FlowNext ==
  \/ StartAction
  \/ HandleAnswer
  \/ ServeRequest
  \/ ServeLate
  \/ GiveUp
  \/ LoseAnswer
  \/ CountdownEnds
  \/ CodeRunsOut
  \/ ServerClock
  \/ Refresh
  \/ LedgerChanges

FlowSpec == FlowInit /\ [][FlowNext]_flowVars

\* A partner who keeps going, and a network that answers in the end: the running
\* action proceeds, clocks run, and the partner presses the button on offer,
\* entering the code received.
Fairness ==
  /\ WF_flowVars(ServeRequest)
  /\ WF_flowVars(HandleAnswer)
  /\ WF_flowVars(CountdownEnds)
  /\ WF_flowVars(CodeRunsOut /\ UNCHANGED mishaps)
  /\ WF_flowVars(\E ch \in Challenges : CooldownEnds(ch) /\ ServerClock)
  /\ WF_flowVars(Refresh)
  /\ WF_flowVars(\E e \in Earnings : Select(e) /\ Chosen = {})
  /\ SF_flowVars(BeginChallenge)
  /\ SF_flowVars(RequestAnotherCode)
  /\ SF_flowVars(ConfirmCode(code[shownChallenge]))
  /\ SF_flowVars(RetryClaim)

FairSpec == FlowSpec /\ Fairness

------------------------------------------------------------------------------
\* Type invariant: the dialog shows a challenge exactly with a status, waits for a
\* request, an answer, or nothing, and never sends a request without its challenge.
FlowTypeOK ==
  /\ shown \in SUBSET Earnings /\ selected \in SUBSET Earnings /\ confirmed \in SUBSET Earnings
  /\ smsDisabled \in BOOLEAN /\ counting \in BOOLEAN
  /\ shownStatus \in {"none", "pending", "verified", "expired", "blocked"}
  /\ shownChallenge \in Challenges \cup {NoChallenge}
  /\ shownStatus = "none" <=> shownChallenge = NoChallenge
  /\ claimKey \in drawnKeys \cup {NoKey}
  /\ drawnKeys \in SUBSET Keys
  /\ waiting \in {"nothing", "challenge", "resend", "verification", "claim"}
  /\ request \in Requests \cup {NoMessage} /\ late \in SUBSET Requests
  /\ answer \in Answers \cup {NoMessage}
  /\ waiting = "nothing" <=> request = NoMessage /\ answer = NoMessage
  /\ notice \in {"none", "error", "retry", "created"}

\* When the dialog reports a claim, the claim under its key is for the selection
\* that was confirmed and was authorised by the challenge on screen, although
\* answers got lost, requests were served late and earlier claims had keys too.
SuccessIsTrue ==
  [][notice # "created" /\ notice' = "created" =>
       /\ claim[claimKey].draft.selection = confirmed
       /\ claim[claimKey].challenge = shownChallenge]_flowVars

\* The dialog tells a partner whose claim the server refused: "Code verified, but
\* the claim was not created. Retry claim; no new code is needed."  Then the code
\* should still authorise the claim.  It does not once the draft has changed.
NoNewCodeNeeded ==
  [][notice' = "retry" /\ answer # NoMessage /\ answer.status = "refused" =>
       Authorises(shownChallenge, confirmed)]_flowVars

\* A partner who keeps going while the earnings and the debt stay as they are gets
\* the claim, after whatever mishap: no lost answer leaves the dialog with a
\* challenge that neither works nor ends.
PartnerGetsThrough ==
  \A available \in (SUBSET Earnings) \ {{}}, owed \in Debts :
    [](partnerActive /\ eligible = available /\ debt = owed)
      => <>(\E k \in Keys : claim[k] # NoClaim)
==============================================================================
