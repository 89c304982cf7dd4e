# Verification of the Referral Commission Sandbox

TLA+ models of the business core of this repository, TLC configurations that
model-check them on small instances, and theorems proved with TLAPS. Paths below
are relative to the repository; `api/` stands for `apps/api/src/`.

## 1. The system and its components

A NestJS API over PostgreSQL serves two personas, a business owner and referral
partners, and a Next.js web app. Every operation of the API is one database
transaction. Operations that touch claims, earnings or partners first take one
advisory lock per organisation (`claim-reservations:<org>`), so they are atomic
with respect to each other; what is interleaved is whole operations, the phases
of the notification worker, provider webhooks and browser requests.

| Component | Keeps | Operations | Talks to |
|---|---|---|---|
| Lifecycle tables `api/domain/lifecycle.ts` | nothing | transition tables, status after a hold | every service |
| Conversions `api/conversions` | `conversions`, `conversion_items`, earnings at birth | create, complete, cancel | rules, claim reservations |
| Rules and codes `api/programs`, `api/domain/rules.ts` | `commission_rules`, `referral_codes` | create rule, activate, select the applicable rule | conversions |
| Earnings `api/earnings` | `earnings`, `earning_holds` | hold, release, void | claim reservations |
| Partners `api/partners` | `partners` | suspend, reactivate, invite | holds, claim reservations |
| Claim reservations `api/common/claim-reservations.service.ts` | nothing of its own | lock, fail the claims of withdrawn earnings, release hold rows | called by earnings, conversions, refunds, partners |
| Recovery `api/common/claim-recovery.service.ts` | nothing of its own | absorb a partner's debt in a claim | claims, one-time codes |
| Claims `api/claims/claims.service.ts` | `claims`, `claim_items`, `ledger_entries` | create, simulate a payout, retry | recovery, one-time codes, outbox |
| Refunds `api/claims/reversal.service.ts` | refunded bases, reversal rows | refund items | claim reservations |
| One-time codes `api/otp` | `otp_challenges` | create, verify, resend | recovery, outbox, claims |
| Idempotency `api/common/idempotency.service.ts` | `idempotency_records` | acquire, complete | every mutation |
| Outbox `api/notifications` | `notification_outbox`, webhook events | lease, dispatch, reconcile, webhook | SMS and e-mail providers |
| Booking webhook `api/bookings` | `booking_webhook_events` | receive, apply, retry | conversions |
| Guide, sessions, reset `api/demo`, `api/auth`, `packages/database/src/reset.ts` | stages, `sandbox_version` | advance, create session, reset | everything |
| Web workspace `apps/web/src/features` | the session bundle, its generation | open, switch, reset, refresh, claim dialog | API |
| Audit `api/common/audit.service.ts` | `audit_events` | append | every mutation |
| Schemas, UI, configuration, scripts | nothing | validation, layout, process start | - |

### What is hard, and what makes each part correct

* **Earnings are shared.** An earning belongs to a conversion, may sit in several
  claims over its life, may be held, and its partner may be suspended. Every
  operation that takes an earning away must also fail the open claim that
  reserved it, give back the claim's other earnings and release hold rows.
  Correct when reservations are exact and exclusive, holds are exact, an
  earning's status fits its conversion's and no step leaves the tables.
* **Money is counted twice over.** Paid amounts, reversals and recoveries are
  rows of a ledger *and* columns of earnings and claims. Correct when an earning
  is paid once, refunds add up whatever their number and order, payments never
  change, and a debt is absorbed once and before anything is paid out.
* **Claims are authorised out of band.** A code authorises a draft; between its
  issue and its use the draft, the debt, the code and the partner may change.
* **Messages cross a provider without idempotency keys.** Leases expire, workers
  stop, webhooks overtake answers, resends supersede messages under way.
* **Two locks that do not exclude each other.** The guide and the reset lock the
  organisation under another key than the services.
* **Stale generations.** A reset makes a new `sandbox_version`; cookies and late
  answers belong to the old one.
* **The browser guesses what the server did.** Requests and answers get lost, lists
  come late, and what a page sends is computed from what it shows.

`PROJECT.json` lists these as `hazards`, at their lines, with the properties that
cover them; where none does, its note says whether a theorem covers it or whether
the code does not exclude it (section 6).

## 2. How the project is laid out

| Layer | Modules | Composes |
|---|---|---|
| Tables and arithmetic | `Lifecycle`, `Commission` | - |
| Money | `ClaimLedger`, above the abstract lock `Reservation` | `Lifecycle`, `Commission` |
| Rules | `RuleSelection` | - |
| Authorisation | `OtpClaims` | - |
| Messages | `Outbox` | - |
| Bookings | `BookingEvents` | `Lifecycle` |
| Locks | `LockOrder` | - |
| Guided demo | `SandboxGuide` | `Lifecycle` |
| Browser | `ClaimFlow` on `OtpClaims`, `BookingsPage` on `BookingEvents`, `OwnerRecords`, `SandboxWorkspace` | the server's module over a lossy network |

Each module `M` that TLC checks has an `MCM` with its instances; `M_proofs` holds
the theorems about `M` and about the module `M` extends (`ClaimFlow_proofs` those of
`OtpClaims`, `BookingsPage_proofs` those of `BookingEvents`), and `Owner_proofs` those
about `RuleSelection` and `OwnerRecords`. `ClaimFlow` and `BookingsPage` extend the server's module: the same action that serves a
request there is taken here between sending and answering. All other modules
meet in what they say of the same table: what `ClaimLedger` calls `Complete` is what
`BookingEvents` does when an event is processed, and `CreateClaim` starts where
`OtpClaims` has accepted a challenge.

## 3. Modules and how they correspond to the code

**`Lifecycle`** has the statuses and the two tables of `domain/lifecycle.ts` and
`statusAfterHoldRelease`. A row that is not inserted yet has the status
`"absent"`.

**`Commission`** has `calculatePercentage` (half-up, in basis points) and
`calculateCommission`. A rule snapshot is a record with a kind and a figure.

**`ClaimLedger`** is one organisation and one currency. Variables are tables or
columns: `convStatus`, `refunded` (`conversion_items.refunded_base_minor`),
`status`, `snapshot`, `reversed`, `activeHold` (unreleased `earning_holds` rows),
`claimStatus`, `items` and `payout` (`claim_items`), `ledger` (the
`ledger_entries` of an earning, totalled by type), `partnerStatus`, and `retried`
(claims with a `claim.retried` audit row). An action is a whole transaction:

| Action | Code |
|---|---|
| `CreateConversion`, `Complete`, `Cancel` | `ConversionsService.create/complete/cancel`; `Complete` is also what an accepted booking event does |
| `Hold`, `Release`, `Void` | `EarningsService.hold/release/void` |
| `Suspend`, `Reactivate` | `PartnersService.state` |
| `CreateClaim` | `ClaimsService.create` from the point where its code is accepted |
| `SimulateSuccess`, `SimulateFailure` | `ClaimsService.simulate`: created, processing and the outcome commit together |
| `RetryClaim` | `ClaimsService.retry` |
| `Refund` | `ReversalService.refund` |

`Withdraw`, `FailAffected` and `CloseActiveHolds` are
`ClaimReservationsService.failAffected` and `closeActiveHolds`, which the actions
above call as the services do; `Allocate` is `ClaimRecoveryService.allocate`.
Earnings are natural numbers because allocation goes in the order of their ids.
The initial state is an organisation without records: the deterministic seed's
records are reachable from it.

**`Reservation`** states what claims promise without any of this: a claim takes
its whole selection, gives it back or spends it at once; no earning is held twice
or spent twice; a second attempt takes the same selection.

**`Outbox`** is the table `notification_outbox` with the runs that work on it. A
row is `status`, `content` (text present), `referenced` (provider reference
present), `attempts`, `due` (`available_at` has passed) and `lease` with
`expired`: a lease is named after the run that took it, because the statements of
a run compare `lease_expires_at` with the value they read. `phase` and `job` are
the local state of each invocation of `runOnce`: a job says where the handling of
one message stands between two statements. `takes` and `fate` are the provider,
`seen` the event ids of its webhook.

| Action | Code |
|---|---|
| `Queue` | `NotificationsService.queue`, after `OtpService.supersedePending` and `terminalizeOutbox` for a code |
| `LeaseBatch`, `PrepareDispatch`/`DropDispatch` | `OutboxRepository.leaseBatch`, `prepareDispatch` with and without a row |
| `Accepted`, `Refused` | `UniSmsAdapter.send`: what the provider did, and what the run learns of it |
| `RecordAnswer` | the rest of `OutboxWorker.deliver`: `markAccepted`, `markTerminal`, `retry` or nothing |
| `LeaseReconciliationBatch`, `Answered`, `Unanswered` | `leaseReconciliationBatch`, `UniSmsAdapter.getStatus` |
| `MarkReconciled`, `ScheduleReconciliation`, `DropReconciliation` | the rest of `OutboxWorker.reconcile` |
| `EndRun`, `Fail`, `FailWrite` | the end of `runOnce`; a crash or a statement that fails, and the two failures the worker catches |
| `ApplyWebhook` | `UnismsWebhookController.receive` and `OutboxRepository.applyWebhook` |
| `Decide`, `BecomeDue`, `Expire` | the provider's verdict; the database clock |

Several runs overlap because processes do, and because a run that fails leaves
its other deliveries under way while the next poll starts another.

**`OtpClaims`** is one partner's `otp_challenges` and what they authorise. A
challenge has a status, a code, attempts, the codes a resend replaced and the draft
(selection and total) whose hash was stored; `cooling` are challenges whose cooldown
still runs, `lapsed` those whose code has run out. `eligible` and `debt` are what the
ledger leaves to claim, and `LedgerMoves` changes both at any time: that is all of
`ClaimLedger` a draft can tell. `Create`, `Resend`, `VerifyCorrect`, `VerifyWrong`
are the operations of `OtpService`, `CreateClaim` is `ClaimsService.create` up to the
rows of the ledger, with its idempotency key. `guesses` counts what may be guessed
between two ends of a cooldown.

**`ClaimFlow`** is the claim dialog, `claim-flow.tsx`, on `OtpClaims`: what it shows,
its countdowns, its key, and one request under way whose message or answer may get
lost or be served late (`LoseAnswer`, `GiveUp`, `ServeLate`). `ServeRequest` takes the
action of `OtpClaims`; `HandleAnswer` is the code after each `await`.

**`LockOrder`** has no data. `Plans` lists for every kind of transaction the locks it
may take, in order, with PostgreSQL's row lock strengths and with the locks that an
update or a foreign key takes implicitly; sessions acquire, commit or are refused. A
kind has several plans where its locks depend on the claims it concerns: there are two
claims `a` and `b`, each with its row (`Claim`) and its items (`Items`), and what
withdraws earnings fails none, one or both of them (`FailAffected`, in the order of
ids). `NewestFirst` is the order of `created_at`, which the lists use. Of the other
tables one row is enough: statements that lock several of their rows do so in the order
of ids, and those on earnings, holds and ledger rows under the reservation lock. A
transaction that stops early, because a check fails or its work is done already, is
`Refuse`.

**`BookingEvents`** is the bookings of an organisation and `booking_webhook_events`:
`CreateBooking` with its key, `ReceiveEvent`, `RetryEvent`, `DeliverDemo` of
`BookingWebhookService`, and `MoveBooking` for what the owner does without an event.
`Listed` is the list of the newest events. **`BookingsPage`** is
`owner-bookings-page.tsx` on it: the form with its key, the buttons, the lists under
way.

**`SandboxGuide`** is `DemoService.advance` with the business records its stages ask
for, `SandboxSessionGuard` and the reset. A request passes the guard (`Admit`) and is
served later (`Serve`), so a reset may come between. The business steps are the
services' on the one guided referral; `complete` also stands for a booking event. A refund of a paid
earning writes a reversal row, or none where nothing is left to reverse after rounding
(`ReverseNothing`).

**`SandboxWorkspace`** is `sandbox-workspace-provider.tsx` with the guide's card: a
queue of session operations in phases, one per `await`; checks and refreshes beside
them; the cookie, the path, `router.replace`; the generation that tells wanted
answers. `Faults` chooses what may go wrong.

**`OwnerRecords`** is the refund sheet (`conversion-controls.tsx`), the records of
`owner-workspace-provider.tsx` around it and the check of `ReversalService.refund`,
for several windows. A request carries what was shown and entered when it was
submitted; `Target` is the base the page asks for. Every request has a key of its
own, so keys replay nothing here.

**`RuleSelection`** is `domain/rules.ts` with the operations that make its input:
programs, codes, rules (`RequestRule` reads the default start, `CreateRule` has the
lock) and items that keep a snapshot of the rule selected for them.

The `MC` modules give the instances. Operators marked *Mutant* in a module are used
nowhere in it: each is a plausible bug of the operator after it, which one of the
properties must notice.

## 4. Runs

Deadlock is checked except in `claim_flow` and `workspace`, which end when their
bounds are used up.

| Run | Question | States |
|---|---|---|
| `ledger` | Do all invariants, action properties and the refinement hold for two partners, three earnings and two claims under every order of operations? Yes. | 84,184 |
| `recovery` | Do new claims absorb the debt there is, all of it and no more, with three claims? Yes, except for what retried claims hold back. | 360,830 |
| `retry_twice` | Is a debt recovered once, as `docs/architecture/domain-lifecycle.md:150` says? No: a claim that failed keeps its recovery while another claim absorbs the same debt, and recovers it again when it is retried. | violation |
| `outbox_codes` | Is every message taken at most once, is no superseded code revived, is the text stored exactly as long as needed, and are settled rows and running leases left alone, with two runs, two codes and one failure? Yes. | 1,093,699 |
| `outbox_notices` | Does a notification come to rest, with its true outcome once it is known to be taken, with two runs and two failures? Yes. | 37,136 |
| `otp` | Is there room for the guesses of two codes only in a cooldown, does a replaced code stay dead, and is every claim what its own challenge was issued for, while the ledger moves? Yes. | 285,260 |
| `claim_flow` | Is a claim that the dialog reports the one the partner confirmed, and does a partner who keeps going get it after any mishap? Yes. | 74,572 |
| `lock_order` | Can three of the API's transactions on two claims wait in a circle, apart from the guide, the reset and the owner's list of claims? No. | 659,571 |
| `guide_locks` | Can the guided demo and a hold, against the comment at `claim-reservations.service.ts:10`? Yes. | violation |
| `bookings` | Is each booking made and completed once, and does a failed event get through by the page's button, over a network that loses a message? Yes. | 302,728 |
| `sandbox_guide` | Is the recorded progress true, whatever the user does elsewhere and when a reset overtakes requests? Yes. | 427,955 |
| `workspace` | Is what is rendered the signed session's, and does every boundary screen end, when answers get lost and another browser resets? Yes. | 373,654 |

**Bounds.** `ClaimLedger`: two conversions, one with two items, so that claims,
refunds and cancellations overlap partly, each of a partner of its own, so that a
suspension can touch the wrong one; gross amounts of one or two minor units, so that
a refund can be partial and rounding happens (50 per cent of one unit); two claims,
so that an earning can be reserved by one after the other failed, three where a third
has to absorb a debt. Claims may fail and be retried, and partners be suspended, any
number of times.

`Outbox`: two runs, because every race is one of a run against another, against the
webhook or against a newer code; two codes, so that one supersedes the other at any
point of its delivery; `maxAttempts` of two, so that a refusal is retried once and
then final; one or two failures, each of which may strike any subset of a run's jobs
at any point. `seen` bounds the webhook: one new event of each kind per message.

`OtpClaims`: two challenges, of which the second supersedes the first; two codes,
drawn at random except that a resend excludes the present one, so that a code comes
back; two attempts, so that a wrong code can be the last or not; one earning and a
debt of zero or one, so that a draft can go stale and become true again. `ClaimFlow`:
one mishap (a lost message, a wrong code, a lapse, a move of the ledger, another
selection) before the partner keeps going; three challenges, so that a replacement
can itself fail; two keys. A dialog that has used both keys stops: `PartnerGetsThrough`
holds because one mishap uses up one key at most. E-mail and a deployment without SMS
are the longer path (SMS is refused first).

`LockOrder`: three sessions, so that a circle of two or of three can form; larger
circles are excluded by proof (section 5). Two claims, whose ids and ages have opposite
orders, so that statements can disagree on their order; 23 of the 26 kinds of
transactions run, the others being those of `MCGuideLocks.cfg` and `MCOwnerClaims.cfg`
(section 6) and the reset. `BookingEvents` with `BookingsPage`: two references and two
events, so that an event can meet the wrong booking and a reference the wrong event;
one key, so that there is one submission, which may be repeated; one mishap; the history lists
three, so that it cannot overflow, which `MCEventHistory.cfg` shows separately.
`SandboxGuide`: one reset, two requests under way, so that each can overtake the
other. `SandboxWorkspace`: a guide of three stages (a check of the owner, a switch, a
check of the partner), three moves of the user, one change of records, one reset by
others, one check under way.

**Fairness.** `ClaimLedger`, `OtpClaims`, `BookingEvents`, `SandboxGuide` and
`LockOrder` have safety properties only: no user is obliged to do anything. `FairSpec`
of `Outbox` assumes of each run and each of its jobs that it takes its next step (a
timer polls, statements end, calls to the provider have a timeout of 10 seconds), that
delays and leases run out and that the provider decides in the end. A lease lasts
longer (30 seconds) than one statement or one call, so it does not run out before
*every* dispatch or before *every* outcome is written: strong fairness of
`PrepareDispatch` and `MarkReconciled`; and the provider answers some question that is
asked under a lease: strong fairness of `Answered` there. The provider need never take
a message, nor send its webhook. `unknown` counts as rest: a row whose answer got lost
is never sent again on purpose, and only a webhook leaves it.

In the browser, a request ends (the server serves it or the connection fails), the
code after an `await` runs, timers run out: weak fairness of `ServeRequest`,
`HandleAnswer`, `Work`, `RunOperation`, `RunCall`, `Arrive`, `CountdownEnds`. What the
user is assumed to do is only to go on pressing the button that the page offers again
and again: strong fairness of `ConfirmCode`, `RetryClaim`, `BeginChallenge`,
`RequestAnotherCode` and `PressRetry`, because these buttons are disabled while other
requests run. Mishaps are bounded and have no fairness. `ShowHistory` is strongly fair:
a list that is asked for again and again arrives before the next event outdates it.
`workspace` assumes nothing of the user.

## 5. Proofs

The theorems about `ClaimLedger` hold for every finite set of earnings and any sets of partners,
conversions and claims under `ConstantsAssumption` (earnings are numbered, each
has a conversion, each conversion a partner, amounts are natural numbers, rules
are rules). `TypeCorrect` is used by all others.

| Theorem | Says | Argument |
|---|---|---|
| `TypeCorrect` | `TypeOK` | inductive by itself; money stays natural because commissions are (`CommissionIsNat`) and a reversal is never above the amount |
| `EarningsFitConversions` | `StatusFitsConversion` | with `FitInv`, which adds that no conversion is ever `attributed`: what a failed claim gives back fits because `StatusAfterHoldRelease` reads the conversion (`GivenBackFits`) |
| `ReservationsAreExact` | `ReservationsExact` | inductive by itself. Exclusiveness is what lets a claim fail alone: `FailKeepsReservations` shows that whatever else reserved an earning of a failed claim failed too |
| `HoldsAreExact` | `HoldsExact` | inductive: whatever leaves `held` releases the row (`WithdrawKeepsHolds`) |
| `EarningsArePaidOnce` | `PaidOnce` | with `PaidInv`, which adds reservations and types: only an exclusively reserved earning is settled, and it has no payer before |
| `PaymentsStayHistory` | `PaymentsAreHistory` | from `PaidInv`: an earning with rows is paid, so it is in no claim that could settle |
| `ClaimsImplementReservation` | `ImplementsReservation` | every action maps to `Take`, `GiveBack`, `Spend` or a stutter; uses `ClaimsStartFresh`, that a claim not created has no items |
| `TransitionsAreLegal` | `LegalTransitions` | from `FitInv`: the statuses that the services write without consulting a table are legal because the conversion's status confines them |
| `ReversalsMatchRefunds` | `ReversalMatchesRefund` | inductive with `StatusFitsConversion`: half-up rounding is monotone in the refunded base (`PercentageGrows`), so a refund never has to take a reversal back and what it adds makes up the value at the new base (`RefundMatches`) |
| `ConversionsTellRefunds` | `ConversionTellsRefunds` | inductive: a refund writes bases and status of one conversion together, and no other action touches either once it is refunded |
| `SuspensionsAreLocal` | `SuspensionIsLocal` | from `OnePartnerClaims`, which is inductive: the claims that fail contain an earning of the suspended partner, so all their earnings are that partner's |
| `RecoveryIsBoundedByDebt` | `RecoveryBoundedByDebt` | with `RecoveryInv` (types, `PaidInv`, and that finitely many claims exist); see below |
| `NewClaimsAbsorbDebt` | `NewClaimAbsorbsDebt` | the allocation in the order of the ids takes the debt or every amount, whichever is less (`NewClaimTakes`, `GreedyTakesAll`) |

The recovery theorems are about sums over sets: the balance of a partner, what a claim
holds back, what an allocation takes from the earnings before an id. The induction
they need is stated for a set of good subsets, not for a predicate, so that the provers
can use it (`SubsetInduction`, from the well-foundedness of the finite subsets); from it
follow that the sums exist and their laws (`SumRemoves`, `SumSplits`, `SumGrows`,
`SumOfPart`). With them there is one lemma per kind of step: a claim that fails gives
back what it held (`FallingKeepsBound`), one that is settled moves it from the
reservation to the ledger (`SettlingKeepsBound`), a retry takes it again and is counted
as a retry (`RetryKeepsBound`), a refund only adds debt (`RefundLowersBalance`), a new
claim takes no more than the debt left (`CreatingKeepsBound`).

The theorems of `Outbox_proofs` hold for any sets of messages, codes and runs and
any bound on failures. They rest on `DispatchInv`: a message is *dispatched* by
the run that has recorded its intent to send and not yet the answer, and it
*waits* while a lease or a dispatch may still follow. What is dispatched does not
wait, so no second run gets hold of it; and what waits has not been taken, which
survives a retry because only an explicit refusal leads back to `pending`.

| Theorem | Says | Argument |
|---|---|---|
| `OutboxTypeCorrect` | `TypeOK` | inductive by itself |
| `MessagesAreTakenOnce` | `TakenOnce` | a conjunct of `DispatchInv` |
| `TextIsKeptExactly` | `ContentExact` | inductive with `DispatchInv`: a webhook finds no waiting row |
| `SettledRowsAreFinal`, `OnlyNewestCode` | `SettledIsFinal`, `OnlyNewestCodeLive` | from `StatusMoves`: apart from `Queue`, a step changes live rows only |
| `LeasesAreExclusive` | `LeaseIsExclusive` | with `LeasedIsProcessing`: a row that can be leased anew carries no lease, or one that ran out |
| `OutcomesAreTrue` | `OutcomeIsTrue` | with `OutcomeInv`: answers held by runs are the provider's, and a notice being sent is `unknown` |

`LockOrder_proofs` holds for any number of sessions: `ApiNeverDeadlocks` says
`NoDeadlock`, circles of every length included, provided the handlers are without the
guide's `advance` and `reset`, which take the locks the other way round
(`MCGuideLocks.cfg`), and without the owner's list of claims, which takes items in an
order of its own (`MCOwnerClaims.cfg`). A circle is a set of sessions that each wait
for another of the set. The argument is a discipline of the plans (`Ordered`, proved for
every plan in `PlansAreDisciplined`) and that locks of different sessions never exclude
one another (`LockInv`):

* the organisation is only shared, so nobody waits for it;
* items are locked after their claim, so who waits for them and who has them would both
  have the claim (`Claim(c)`): nobody waits for items, whether or not the reservation
  lock was taken before;
* who has inserted a unique key waits for the organisation at most, so nobody waits for
  a key;
* under the reservation lock a transaction waits for inner rows and items only, and one
  that has an inner row without that lock waits for none of the rest: so nobody in a
  circle has the reservation lock, and nobody waits for it;
* the others follow the order `Rank`, in which each waits for one that waits higher up.

That a plan starting with the reservation lock keeps the discipline is proved once for
all of them (`ReservedIsDisciplined`); `KeptFollows` extends it by what `failAffected`
locks.

`ClaimFlow_proofs` holds for any challenges, codes, earnings, debts, keys and bounds on
attempts and mishaps, with fresh values for "no key" and "no message"
(`FlowAssumption`, `MessagesAssumption`).

| Theorem | Says | Argument |
|---|---|---|
| `OtpTypes` | `TypeOK` | part of `IInv` |
| `GuessesAreBounded` | `GuessRateBounded` | `PendingIsLatest`: only the latest challenge is pending or cooling, so a code is issued only when no other one cools; `GuessBudget`: what was guessed so far is at most what the latest has had, and once more `MaxAttempts` while it is cooling |
| `ClaimsHaveTheirChallenge` | `ClaimsAreAuthorised` | a conjunct of `IInv`: a challenge is used by the claim it authorises and its draft is never written again |
| `ReplacedCodesStayDead` | `ReplacedCodeIsDead` | from `CodeIsFresh`: the present code is not among those replaced, because a resend draws another one than it had |
| `DialogTypes` | `FlowTypeOK` | part of `FlowIInv` |
| `DialogImplementsCodes` | `FlowSpec => Spec` | every step of the dialog and its network is a step of `OtpClaims` or leaves it alone, so the four theorems above hold behind the dialog |
| `ReportedClaimsAreTrue` | `SuccessIsTrue` | with `FlowIInv`: the key that the dialog keeps was sent for the challenge on screen only, also by requests served late (`KeyOfOneChallenge`), so what is stored under it is the claim awaited (`AwaitedClaim`, `DoneIsDone`) |

`SandboxGuide_proofs` holds for any number of resets and of requests under way. The
invariant `IInv` is the conjunction of the properties themselves (`GuideInvariant`).
The check records the current stage only, and that is the first not recorded
(`CurrentIsFirst`), so stages are recorded in order; what a recorded stage needs is
there when it is recorded and no business step takes it away, since a delivered
service is never undone and facts only grow; a reset clears both, and a request
admitted before it finds another version. From it follow `GuideTypes`,
`StagesStayEarned` and `ResetEndsAdvances`.

`BookingsPage_proofs` holds for any bookings, events, keys and mishaps, `"none"` not
being a reference (`RefsAssumption`) nor "no request" a request (`PageAssumption`). The
invariant `OneCompletion` says of a processed event that its booking is delivered and
that no other event completed it; since only a scheduled booking is completed and none
is scheduled twice, it is inductive. From it follow `EventsCompleteOnce`,
`SubmissionsBookOnce` and `OutcomesStayFinal` of the server. `PageImplementsBookings`
(`PageSpec => Spec`) carries them over to the server behind the page, whatever is lost
between the two, and `PageStatesAreKnown` is `PageTypeOK`.

`SandboxWorkspace_proofs` holds for any guide, any number of calls under way, any
bounds and any faults. `RenderedBelongsToCookie` is `RenderedIsSigned`, provided that
`"body"` is not among the faults: with it the property fails (section 6). It is not
inductive: while an operation runs, cookie and view change in different steps. What
carries it is that a ready view stands only beside an empty queue (`ShownIsSigned`);
that a generation marks the last operation of the queue while only the first one runs
(`QueueInOrder`), so that a superseded one shows nothing; that the operation that runs
has the session of the cookie before it loads a bundle, and a switch has the view of
the cookie it may go back to (`HeadKnowsCookie`); and that a check of the present
generation continues a view of the cookie (`CallsAreKept`). What the invariant says of
the cookie is conditional on `Unbroken`; the rest is kept under every fault and gives
`WorkspaceTypes`, that is `TypeOK`: a stage asked for is one of the guide, and a
destination a page of a role.

Of `RuleSelection`, `Owner_proofs` holds for any programs, partners, categories, codes
and rules.
`NoOverlap`, that half-open intervals of one scope do not overlap, is inductive
because `createRule` compares under the lock with every rule committed, whatever start
was read before. So at any instant at most one rule of a scope is in effect
(`NeverTwoRules`), which makes recency and id in `selectBest` irrelevant and the
preview's scope that of the selected rule (`PreviewTellsMostSpecific`);
`StoredRulesFit` says the same of the snapshots.

Of `OwnerRecords` it holds for any windows, items, amounts, requests and loads of a
`ValidInstance` (positive gross amounts, amounts that are numbers). `Remembered` says
that whatever a window, a list or a request remembers of a refunded base was reached:
the API refuses a base below the present one, so bases only grow. So what is shown was
refunded (`ShownStaysTrue`), a request adds at most what was entered
(`RequestsAddNoMore`) and its repetition nothing (`RepeatsRefundNothing`). `LoadsInv`
says that a page has one newest load, which has read nothing older than what is
shown: `OverviewNeverGoesBack`.

`RuleSelection` and `OwnerRecords` have theorems in place of a run.
`MCOwnerRecords.cfg` checks the latter on a small instance, whose constraint bounds
the loads.

Only model-checked: `ComesToRest`, `KnownOutcome`, `PartnerGetsThrough`,
`FailedEventGetsThrough` and `BoundaryEnds`, because liveness under fairness is out of
the provers' reach. What a partner is *not* promised, `DebtRecoveredOnce`, is the
violation of section 4.

## 6. Observations

Statements that the code or its interface suggests and that do not hold in the
model. The two of section 4 contradict a document of the repository; the others are
not runs of `PROJECT.json`, but each has a configuration that shows it.

| Statement | Configuration | What happens |
|---|---|---|
| `EveryOpeningAbsorbsDebt` | `MCClaimLedger`, `MCRetryStale.cfg` | A claim allocated before a debt arose pays in full when it is retried, although `domain-lifecycle.md:139` has eligible earnings absorb a recovery first. |
| `NoNewCodeNeeded` | `MCClaimFlow`, `MCNoNewCode.cfg` | A claim refused because the draft has changed leaves "Retry claim; no new code is needed" with a challenge that authorises nothing; the partner has to select again. |
| `NotCreatedIsTrue` | `MCBookingsPage`, `MCNotCreated.cfg` | A submission whose answer is lost, or whose refresh failed, is reported as a booking that could not be created. |
| `FreeReferenceIsTaken` | `MCBookingsPage`, `MCCheckFields.cfg` | The key of a submission whose answer was lost is kept; a form changed since is refused for it, with the advice to check the fields. |
| `NoDeadlock` with the owner's list of claims | `MCLockOrder`, `MCOwnerClaims.cfg` | The owner's `GET /claims` (`claims.service.ts:230-236`) locks the items claim by claim, newest first, without the reservation lock or the claims' rows; a suspension that fails two open claims locks the same items in the order of ids. Each waits for the other, and PostgreSQL aborts one of them. |
| `FailedEventsAreListed` | `MCBookingsPage`, `MCEventHistory.cfg` | A failed event older than the newest hundred is not offered for retry. |
| `ResetEndsOldSessions` | `MCSandboxGuide`, `MCOldSessions.cfg` | A business request admitted just before a reset commits is carried out on the records of the new version. |
| `CompletedServiceCounts` | `MCSandboxGuide`, `MCServiceChecked.cfg` | Once the partner has claimed the earning, or while it is held, the owner's check no longer accepts the completed service. |
| `RefundWasOfSettled` | `MCSandboxGuide`, `MCUnsettledRefund.cfg` | The refund stage is recorded for a refund of an unpaid commission, after which there is no reversal to review. |
| `RenderedIsSigned` with fault `body` | `MCSandboxWorkspace`, `MCRotatedCookie.cfg` | A switch whose answer breaks off after its headers leaves the previous persona's records under the new cookie. |
| `BoundaryEnds` with fault `back` | `MCSandboxWorkspace`, `MCBackInterrupts.cfg` | A move through the history discards the navigation that a switch waits for. |
| `StagesWereShown` | `MCSandboxWorkspace`, `MCStagesShown.cfg` | The answer of a check is lost after it was recorded; the user checks again and records a stage never shown. |
| `EnteredIsRefunded` | `MCOwnerRecords`, `MCTwoWindows.cfg` | Two windows that show the same base each refund an amount; the larger one is refunded, not the sum. |
| `RetryRefundsNothing` | `MCOwnerRecords`, `MCKeptDraft.cfg` | A refund whose answer is lost keeps its draft; if a fresh workspace arrives before the retry, it is refunded a second time. |

A rule may start before it is inserted (an explicit start in the past): an item
created in between keeps the rule that was in effect when it was created. And a claim
that fails again after a retry queues no second notification: dedupe keys name the
claim and the status.

## 7. Not modelled

The text of audit rows and notifications, request validation, HTTP routing, SQL
migrations, the rows of the seed, layout and process configuration have no state a
property would be about. Of the web app, pages that only show records, focus and
notices, and the sheets of single actions (hold, release, void, partners, programs)
are left out: they send one request and keep nothing of it.

In `ClaimLedger`: several currencies (a claim and an allocation are confined to one,
so currencies do not interact), several organisations (every statement names its
organisation), and the upper bound of a stored amount. In `Outbox`: rows inserted as
`previewed` or `failed`, which no statement touches again; the batch limit (the rows
of an instance fit in one batch); the lengths of delays; a message the provider would
give two references, which `TakenOnce` excludes. In `OtpClaims`: other partners, whose
challenges share nothing with these; `users` rows. In `LockOrder`: the
`users` rows of owners, which are only share-locked; rows that no other transaction can
reach yet; the single items of a claim, which every statement locks in the same order
(`earning_id`, `id`) and which are therefore one row; and that `leaseBatch` skips locked
rows instead of waiting. In `SandboxGuide`: everything but the guided referral, so of a
claim, a retry or a failed claim only what it does to the guided earning. In `BookingEvents`: the count of
attempts, the signature and its clock, an unknown program or code. In
`OwnerRecords`: what a refund does to earnings, which is `ClaimLedger`'s, and opening
and closing the sheet, which keeps the draft.
