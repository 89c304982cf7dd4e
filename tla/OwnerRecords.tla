----------------------------- MODULE OwnerRecords -----------------------------
(***************************************************************************)
(* The refund sheet of one conversion and the records around it, in        *)
(* several windows of the owner.  A sheet asks for additional amounts, the *)
(* API takes the refunded base of an item as it shall become: the page     *)
(* adds what it shows, which may be out of date.  The overview is read by  *)
(* several requests, of which the last load started is shown.              *)
(*                                                                         *)
(* What a refund does to the earnings is ClaimLedger's Refund.             *)
(***************************************************************************)
EXTENDS Integers

CONSTANTS
  Pages,    \* windows
  Items,    \* items of the conversion
  Gross,    \* their gross amounts
  Amounts,  \* additional amounts that the owner may enter
  Keys,     \* requests; each has an idempotency key of its own
  Parts,    \* requests that make up the overview
  NoKey

\* What the theorems assume of the constants.
ValidInstance ==
  Gross \in [Items -> Nat \ {0}] /\ Amounts \subseteq Nat /\ NoKey \notin Keys

VARIABLES
  refunded,    \* conversion_items.refunded_base_minor
  version,     \* counts the changes of each part of the owner's records
  shown,       \* the refunded bases that a page shows
  bundles,     \* those in the workspaces under way to a page
  draft,       \* the additional amounts entered; 0: the item is not selected
  busy,        \* the request that the sheet waits for
  request,     \* what became of each request
  overview,    \* the version of each part that a page shows
  generation,  \* loadGeneration
  loads        \* loads of the overview under way

sheetVars == <<draft, busy>>
overviewVars == <<version, overview, generation, loads>>
vars == <<refunded, shown, bundles, sheetVars, request, overviewVars>>

Bases == [Items -> Nat]
Blank == [i \in Items |-> 0]
Unread == -1
NoRequest == [stage |-> "unsent", client |-> "done"]

\* seen: what the page showed; answer: the bases in the answer of a served request.
Requests ==
  [page : Pages, seen : Bases, entered : Bases, answer : Bases,
   stage : {"sent", "served", "refused"}, client : {"waiting", "refreshing", "done", "failed"}]

Init ==
  /\ refunded = Blank
  /\ version = [x \in Parts |-> 0]
  /\ shown = [p \in Pages |-> Blank]
  /\ bundles = [p \in Pages |-> {}]
  /\ draft = [p \in Pages |-> Blank]
  /\ busy = [p \in Pages |-> NoKey]
  /\ request = [k \in Keys |-> NoRequest]
  /\ overview = [p \in Pages |-> [x \in Parts |-> 0]]
  /\ generation = [p \in Pages |-> 0]
  /\ loads = {}

------------------------------------------------------------------------------
(* Loading the overview.                                                   *)

\* A new load outdates those under way; an unmounted effect outdates them once more.
StartLoad(p, steps) ==
  /\ generation' = [generation EXCEPT ![p] = @ + steps]
  /\ loads' = loads \cup
       {[page |-> p, generation |-> generation[p] + steps, got |-> [x \in Parts |-> Unread]]}
  /\ UNCHANGED <<version, overview>>

ReadPart(l, x) ==
  /\ l \in loads /\ l.got[x] = Unread
  /\ loads' = (loads \ {l}) \cup {[l EXCEPT !.got[x] = version[x]]}
  /\ UNCHANGED <<refunded, shown, bundles, sheetVars, request, version, overview, generation>>

NewestLoad(l) == l.generation = generation[l.page]

\* A load that fails shows the records of the last one again.
EndLoad(l) ==
  /\ l \in loads
  /\ loads' = loads \ {l}
  /\ \/ /\ NewestLoad(l) /\ \A x \in Parts : l.got[x] # Unread
        /\ overview' = [overview EXCEPT ![l.page] = l.got]
     \/ UNCHANGED overview
  /\ UNCHANGED <<refunded, shown, bundles, sheetVars, request, version, generation>>

Refresh(p) ==
  /\ StartLoad(p, 1)
  /\ UNCHANGED <<refunded, shown, bundles, sheetVars, request>>

\* Someone changes other records of the organisation.
Change(x) ==
  /\ version' = [version EXCEPT ![x] = @ + 1]
  /\ UNCHANGED <<refunded, shown, bundles, sheetVars, request, overview, generation, loads>>

------------------------------------------------------------------------------
(* Showing the conversion.                                                 *)

\* Fully refunded conversions leave the list, and their sheet its draft.
ShowBases(p, bases) ==
  /\ shown' = [shown EXCEPT ![p] = bases]
  /\ IF bases = Gross
       THEN draft' = [draft EXCEPT ![p] = Blank] /\ busy' = [busy EXCEPT ![p] = NoKey]
       ELSE UNCHANGED sheetVars

ReadWorkspace(p) ==
  /\ bundles' = [bundles EXCEPT ![p] = @ \cup {refunded}]
  /\ UNCHANGED <<refunded, shown, sheetVars, request, overviewVars>>

\* A workspace, which need not be the last one read, replaces the conversions and
\* starts a load.  Others with the same bases may still be under way.
ShowWorkspace(p, bases) ==
  /\ bases \in bundles[p]
  /\ bundles' \in {bundles, [bundles EXCEPT ![p] = @ \ {bases}]}
  /\ ShowBases(p, bases)
  /\ StartLoad(p, 2)
  /\ UNCHANGED <<refunded, request>>

------------------------------------------------------------------------------
(* The refund sheet.                                                       *)

EnterDraft(p, amounts) ==
  /\ shown[p] # Gross
  /\ draft' = [draft EXCEPT ![p] = amounts]
  /\ UNCHANGED <<refunded, shown, bundles, busy, request, overviewVars>>

\* The owner goes to another page of the window: the sheet and its draft are gone.
LeavePage(p) ==
  /\ draft' = [draft EXCEPT ![p] = Blank]
  /\ busy' = [busy EXCEPT ![p] = NoKey]
  /\ UNCHANGED <<refunded, shown, bundles, request, overviewVars>>

Selected(amounts) == {i \in Items : amounts[i] > 0}

Target(q, i) == q.seen[i] + q.entered[i]

CanSubmit(p) ==
  /\ busy[p] = NoKey
  /\ shown[p] # Gross
  /\ Selected(draft[p]) # {}
  /\ \A i \in Selected(draft[p]) : draft[p][i] <= Gross[i] - shown[p][i]

Submit(p, k) ==
  /\ CanSubmit(p)
  /\ request[k] = NoRequest
  /\ request' = [request EXCEPT ![k] =
       [page |-> p, seen |-> shown[p], entered |-> draft[p], stage |-> "sent",
        answer |-> Blank, client |-> "waiting"]]
  /\ busy' = [busy EXCEPT ![p] = k]
  /\ UNCHANGED <<refunded, shown, bundles, draft, overviewVars>>

Acceptable(q) ==
  \A i \in Selected(q.entered) : Target(q, i) >= refunded[i] /\ Target(q, i) <= Gross[i]

After(q) == [i \in Items |-> IF i \in Selected(q.entered) THEN Target(q, i) ELSE refunded[i]]

\* ReversalService.refund, whether or not the page still waits for the answer.
Serve(k) ==
  /\ request[k].stage = "sent"
  /\ Acceptable(request[k])
  /\ refunded' = After(request[k])
  /\ request' = [request EXCEPT ![k].stage = "served", ![k].answer = refunded']
  /\ UNCHANGED <<shown, bundles, sheetVars, overviewVars>>

\* A request may be refused for other reasons too, or never arrive.
Refuse(k) ==
  /\ request[k].stage = "sent"
  /\ request' = [request EXCEPT ![k].stage = "refused"]
  /\ UNCHANGED <<refunded, shown, bundles, sheetVars, overviewVars>>

\* The page shows the answer and waits for the overview.
Answered(k) ==
  LET p == request[k].page IN
  /\ request[k].stage = "served" /\ request[k].client = "waiting"
  /\ request' = [request EXCEPT ![k].client = "refreshing"]
  /\ ShowBases(p, request[k].answer)
  /\ StartLoad(p, 1)
  /\ UNCHANGED <<refunded, bundles>>

\* Then it forgets the draft, also one that was changed meanwhile.
Finish(k) ==
  LET p == request[k].page IN
  /\ request[k].client = "refreshing"
  /\ request' = [request EXCEPT ![k].client = "done"]
  /\ IF busy[p] = k
       THEN draft' = [draft EXCEPT ![p] = Blank] /\ busy' = [busy EXCEPT ![p] = NoKey]
       ELSE UNCHANGED sheetVars
  /\ UNCHANGED <<refunded, shown, bundles, overviewVars>>

\* A refusal, a lost request or a lost answer: the draft stays for another attempt.
GiveUp(k) ==
  LET p == request[k].page IN
  /\ request[k].client = "waiting"
  /\ request' = [request EXCEPT ![k].client = "failed"]
  /\ busy' = IF busy[p] = k THEN [busy EXCEPT ![p] = NoKey] ELSE busy
  /\ UNCHANGED <<refunded, shown, bundles, draft, overviewVars>>

Next ==
  \/ \E p \in Pages : Refresh(p) \/ ReadWorkspace(p) \/ LeavePage(p)
  \/ \E p \in Pages : \E bases \in bundles[p] : ShowWorkspace(p, bases)
  \/ \E p \in Pages, amounts \in [Items -> Amounts \cup {0}] : EnterDraft(p, amounts)
  \/ \E p \in Pages, k \in Keys : Submit(p, k)
  \/ \E k \in Keys : Serve(k) \/ Refuse(k) \/ Answered(k) \/ Finish(k) \/ GiveUp(k)
  \/ \E l \in loads, x \in Parts : ReadPart(l, x)
  \/ \E l \in loads : EndLoad(l)
  \/ \E x \in Parts : Change(x)

Spec == Init /\ [][Next]_vars

------------------------------------------------------------------------------
Loads == [page : Pages, generation : Nat, got : [Parts -> Nat \cup {Unread}]]

TypeOK ==
  /\ refunded \in Bases
  /\ version \in [Parts -> Nat]
  /\ shown \in [Pages -> Bases]
  /\ bundles \in [Pages -> SUBSET Bases]
  /\ draft \in [Pages -> Bases]
  /\ busy \in [Pages -> Keys \cup {NoKey}]
  /\ request \in [Keys -> Requests \cup {NoRequest}]
  /\ overview \in [Pages -> [Parts -> Nat]]
  /\ generation \in [Pages -> Nat]
  /\ loads \subseteq Loads

(* What a page shows as refunded was refunded, and nothing beyond the       *)
(* gross amount is, whatever arrives late.                                  *)
ShownWasRefunded ==
  \A i \in Items :
    /\ refunded[i] <= Gross[i]
    /\ \A p \in Pages : shown[p][i] <= refunded[i]

(* However old the records are that a window adds to, a request refunds at  *)
(* most what was entered in it, and nothing refunded is taken back.         *)
AddsAtMostEntered ==
  [][\A i \in Items :
       /\ refunded'[i] >= refunded[i]
       /\ refunded'[i] # refunded[i] =>
            \E k \in Keys :
              /\ request[k].stage = "sent" /\ request'[k].stage = "served"
              /\ refunded'[i] - refunded[i] <= request[k].entered[i]]_vars

(* A submission repeated from the same records, after its answer was lost,  *)
(* refunds nothing more, although it has another idempotency key.           *)
RepeatedRefundsNothing ==
  [][\A j, k \in Keys :
       /\ request[j].stage = "served"
       /\ request[k].stage = "sent" /\ request'[k].stage = "served"
       /\ request[k].seen = request[j].seen /\ request[k].entered = request[j].entered
       => refunded' = refunded]_vars

(* The overview of a window never goes back to older records, in whatever   *)
(* order the answers of its loads arrive.                                   *)
OverviewMovesOn ==
  [][\A p \in Pages, x \in Parts : overview'[p][x] >= overview[p][x]]_vars

(* Two submissions with the amounts entered in them refund these amounts.   *)
EnteredIsRefunded ==
  \A i \in Items : \A j, k \in Keys :
    j # k /\ request[j].stage = "served" /\ request[k].stage = "served" =>
      refunded[i] >= request[j].entered[i] + request[k].entered[i]

(* The same, without asking whether the page has loaded records meanwhile.  *)
RetryRefundsNothing ==
  [][\A j, k \in Keys :
       /\ request[j].stage = "served" /\ request[j].client = "failed"
       /\ request[k].stage = "sent" /\ request'[k].stage = "served"
       /\ request[k].page = request[j].page /\ request[k].entered = request[j].entered
       => refunded' = refunded]_vars
==============================================================================
