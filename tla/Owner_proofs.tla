---------------------------- MODULE Owner_proofs -----------------------------
(***************************************************************************)
(* Proofs about the owner's two parts: the commission rules                *)
(* (RuleSelection), for every set of programs, partners, categories and    *)
(* codes and any number of rules; and the windows in which the owner reads *)
(* and refunds conversions (OwnerRecords), for any number of windows,      *)
(* items and requests, any amounts, and any number of loads under way.     *)
(***************************************************************************)
EXTENDS RuleSelection, OwnerRecords, TLAPS

------------------------------------------------------------------------------
(* RuleSelection.                                                          *)

(* Half-open intervals of one scope do not overlap.  It is inductive:       *)
(* createRule compares with every rule committed before it has the lock.    *)
NoOverlap == \A r, s \in rules : SameScope(r, s) /\ Overlaps(r, s) => r = s

\* Overlapping, as createRule asks it of a new rule, does not depend on which is new.
LEMMA OverlapsIsSymmetric ==
  ASSUME NEW r \in Rules, NEW s \in Rules, Overlaps(r, s)
  PROVE  Overlaps(s, r)
BY DEF Overlaps, Ends, Rules, Unending

\* Rules that are both in effect at an instant overlap.
LEMMA EffectiveTogetherOverlap ==
  ASSUME NEW r \in Rules, NEW s \in Rules, NEW at \in Nat,
         IsEffectiveAt(r, at), IsEffectiveAt(s, at)
  PROVE  Overlaps(r, s)
BY DEF Overlaps, IsEffectiveAt, Ends, Rules, Unending

\* So at most one rule of a scope is in effect.
LEMMA OneEffective ==
  ASSUME RulesTypeOK, NoOverlap
  PROVE  OneRulePerScope
BY EffectiveTogetherOverlap DEF RulesTypeOK, NoOverlap, OneRulePerScope

\* The only rule of a scope is its best.
LEMMA BestOfOne ==
  ASSUME NEW r \in Rules
  PROVE  SelectBest({r}) = r
<1>1. MostRecentThenStableId(r, r)
  BY DEF MostRecentThenStableId, Rules
<1> QED BY <1>1 DEF SelectBest

\* The rules of one scope that are in effect are none or one.
LEMMA NoneOrOne ==
  ASSUME RulesTypeOK, NoOverlap,
         NEW program, NEW partner, NEW category, NEW at \in Nat
  PROVE  LET S == EffectiveFor(program, partner, category, at)
         IN  S = {} \/ \E r \in rules : S = {r}
<1> DEFINE S == EffectiveFor(program, partner, category, at)
<1>1. \A r, s \in S : r \in rules /\ r = s
  BY OneEffective DEF OneRulePerScope, EffectiveFor, SameScope
<1> QED BY <1>1

\* What is selected is the whole of the first scope that has a rule in effect.
LEMMA SelectedIsCandidate ==
  ASSUME RulesTypeOK, NoOverlap,
         NEW program, NEW partner, NEW category, NEW at \in Nat
  PROVE  SelectApplicableRule(program, partner, category, at)
           = Candidates(program, partner, category, at)
<1> DEFINE best == Candidates(program, partner, category, at)
<1>1. best = {} \/ \E r \in rules : best = {r}
  BY NoneOrOne DEF Candidates
<1>2. CASE best = {}
  BY <1>2 DEF SelectApplicableRule
<1>3. CASE \E r \in rules : best = {r}
  BY <1>3, BestOfOne DEF SelectApplicableRule, RulesTypeOK
<1> QED BY <1>1, <1>2, <1>3

\* A selected rule exists, fits what it was selected for and is in effect.
LEMMA SelectedFits ==
  ASSUME RulesTypeOK, NoOverlap,
         NEW program, NEW partner, NEW category, NEW at \in Nat,
         NEW r \in SelectApplicableRule(program, partner, category, at)
  PROVE  r \in rules /\ Fits(r, program, partner, category) /\ IsEffectiveAt(r, at)
<1>1. r \in Candidates(program, partner, category, at)
  BY SelectedIsCandidate
<1> QED BY <1>1 DEF Candidates, EffectiveFor, Fits

------------------------------------------------------------------------------
(* The inductive invariant.                                                *)

RulesInv == RulesTypeOK /\ NoOverlap /\ SnapshotsFit

LEMMA InitRulesInv == RulesInit => RulesInv
BY DEF RulesInit, RulesInv, RulesTypeOK, NoOverlap, SnapshotsFit

\* A rule inserted under the lock overlaps none of its scope.
LEMMA CreateRuleStep ==
  ASSUME RulesInv, NEW asked \in requests, CreateRule(asked)
  PROVE  RulesInv'
<1> USE DEF RulesInv
<1>1. PICK id \in Nat \ {s.id : s \in rules} :
        rules' = rules \cup {[asked EXCEPT !.id = id]}
  BY DEF CreateRule
<1> DEFINE new == [asked EXCEPT !.id = id]
<1>2. new \in Rules
  BY DEF RulesTypeOK, Rules
<1>3. RulesTypeOK'
  BY <1>1, <1>2 DEF RulesTypeOK, CreateRule
<1>4. \A s \in rules : ~(SameScope(new, s) /\ Overlaps(new, s))
  BY DEF CreateRule, SameScope, Overlaps, RulesTypeOK, Rules
<1>5. \A s \in rules : ~(SameScope(s, new) /\ Overlaps(s, new))
  BY <1>2, <1>4, OverlapsIsSymmetric DEF SameScope, RulesTypeOK
<1>6. NoOverlap'
  BY <1>1, <1>4, <1>5 DEF NoOverlap
<1>7. SnapshotsFit'
  BY <1>1 DEF SnapshotsFit, CreateRule
<1> QED BY <1>3, <1>6, <1>7

\* An item stores the rule in effect, which no later step changes.
LEMMA CreateItemStep ==
  ASSUME RulesInv, NEW c \in Codes, NEW category \in Categories, CreateItem(c, category)
  PROVE  RulesInv'
<1> USE DEF RulesInv
<1> DEFINE program == owner[c][1]
           partner == owner[c][2]
           new == [program |-> program, partner |-> partner, category |-> category, at |-> now,
                   rule |-> SelectApplicableRule(program, partner, category, now)]
<1>1. RulesTypeOK' /\ NoOverlap'
  BY DEF CreateItem, RulesTypeOK, NoOverlap
<1>2. snapshots' = snapshots \cup {new} /\ rules' = rules
  BY DEF CreateItem
<1>3. \A r \in new.rule :
        r \in rules /\ Fits(r, new.program, new.partner, new.category) /\ IsEffectiveAt(r, new.at)
  BY SelectedFits DEF RulesTypeOK
<1>4. SnapshotsFit'
  BY <1>2, <1>3 DEF SnapshotsFit
<1> QED BY <1>1, <1>4

\* The other steps leave rules and snapshots alone.
LEMMA OtherRulesSteps ==
  ASSUME RulesInv,
         \/ Tick
         \/ \E p \in Programs : CreateProgram(p) \/ SetProgramState(p)
         \/ \E c \in Codes, p \in Programs, partner \in Partners : CreateCode(c, p, partner)
         \/ \E r \in Rules : RequestRule(r)
         \/ \E r \in requests : RefuseRule(r)
         \/ UNCHANGED rulesVars
  PROVE  RulesInv'
<1> USE DEF RulesInv
<1>1. rules' = rules /\ snapshots' = snapshots
  BY DEF Tick, CreateProgram, SetProgramState, CreateCode, RequestRule, RefuseRule, rulesVars
<1>2. NoOverlap' /\ SnapshotsFit'
  BY <1>1 DEF NoOverlap, SnapshotsFit
<1>3. CASE Tick
  BY <1>2, <1>3 DEF Tick, RulesTypeOK
<1>4. ASSUME NEW p \in Programs, CreateProgram(p) \/ SetProgramState(p) PROVE RulesTypeOK'
  BY <1>4 DEF CreateProgram, SetProgramState, RulesTypeOK
<1>5. ASSUME NEW c \in Codes, NEW p \in Programs, NEW partner \in Partners,
             CreateCode(c, p, partner)
      PROVE  RulesTypeOK'
  <2>1. owner' = [x \in DOMAIN owner \cup {c} |-> IF x = c THEN <<p, partner>> ELSE owner[x]]
    BY <1>5 DEF CreateCode
  <2>2. \A x \in DOMAIN owner' : owner'[x] \in created \X Partners
    BY <2>1, <1>5 DEF CreateCode, RulesTypeOK
  <2> QED BY <2>1, <2>2, <1>5 DEF CreateCode, RulesTypeOK
<1>6. ASSUME NEW r \in Rules, RequestRule(r) PROVE RulesTypeOK'
  BY <1>6 DEF RequestRule, RulesTypeOK
<1>7. ASSUME NEW r \in requests, RefuseRule(r) PROVE RulesTypeOK'
  BY <1>7 DEF RefuseRule, RulesTypeOK
<1>8. CASE UNCHANGED rulesVars
  BY <1>2, <1>8 DEF rulesVars, RulesTypeOK
<1> QED BY <1>2, <1>3, <1>4, <1>5, <1>6, <1>7, <1>8

\* The invariant holds throughout.
THEOREM RulesInvariant == RulesSpec => []RulesInv
<1>1. ASSUME RulesInv, [RulesNext]_rulesVars PROVE RulesInv'
  BY <1>1, CreateRuleStep, CreateItemStep, OtherRulesSteps DEF RulesNext
<1> QED BY InitRulesInv, <1>1, PTL DEF RulesSpec

(* Two rules of one scope are never in effect at one instant, whatever      *)
(* createRule waited for and however its rules are back-dated.              *)
THEOREM NeverTwoRules == RulesSpec => []OneRulePerScope
<1>1. RulesInv => OneRulePerScope
  BY OneEffective DEF RulesInv
<1> QED BY <1>1, RulesInvariant, PTL

(* The rule stored with an earning stays in the table as it was stored, was *)
(* in effect and fits the earning.                                          *)
THEOREM StoredRulesFit == RulesSpec => []SnapshotsFit
<1>1. RulesInv => SnapshotsFit
  BY DEF RulesInv
<1> QED BY <1>1, RulesInvariant, PTL

(* The scope that a preview tells is the most specific of those with a rule *)
(* in effect, and the selection is the only rule of that scope.             *)
THEOREM PreviewTellsMostSpecific == RulesSpec => []PreviewIsMostSpecific
<1>1. RulesInv => PreviewIsMostSpecific
  <2> SUFFICES ASSUME RulesInv, NEW program \in Programs, NEW partner \in Partners,
                      NEW category \in Categories, NEW at \in Nat
               PROVE  LET scope == PreviewScope(program, partner, category, at)
                          selected == SelectApplicableRule(program, partner, category, at)
                          fitting == {r \in rules : /\ Fits(r, program, partner, category)
                                                    /\ IsEffectiveAt(r, at)}
                      IN  /\ scope = "none" => fitting = {}
                          /\ scope = "fallback" => fitting = selected
                          /\ scope = "category" =>
                               \A r \in fitting \ selected : r.partner = Null /\ r.category = Null
                          /\ scope = "partner" => \A r \in fitting \ selected : r.partner = Null
                          /\ scope = "partner_category" =>
                               \A r \in fitting \ selected : r.partner = Null \/ r.category = Null
    BY DEF PreviewIsMostSpecific
  <2> DEFINE scope == PreviewScope(program, partner, category, at)
             selected == SelectApplicableRule(program, partner, category, at)
             fitting == {r \in rules : Fits(r, program, partner, category) /\ IsEffectiveAt(r, at)}
             both == EffectiveFor(program, {partner}, {category}, at)
             wide == EffectiveFor(program, {partner}, Null, at)
             any == EffectiveFor(program, Null, {category}, at)
             default == EffectiveFor(program, Null, Null, at)
  <2>1. fitting = both \cup wide \cup any \cup default
    BY DEF Fits, EffectiveFor
  <2>2. selected = IF both # {} THEN both ELSE IF wide # {} THEN wide
                   ELSE IF any # {} THEN any ELSE default
    <3>1. RulesTypeOK /\ NoOverlap
      BY DEF RulesInv
    <3>2. selected = Candidates(program, partner, category, at)
      BY <3>1, SelectedIsCandidate
    <3> QED BY <3>2 DEF Candidates
  <2>3. {partner} # Null /\ {category} # Null
    BY DEF Null
  <2>4. /\ \A r \in both : r.partner # Null /\ r.category # Null
        /\ \A r \in wide : r.partner # Null /\ r.category = Null
        /\ \A r \in any : r.partner = Null /\ r.category # Null
        /\ \A r \in default : r.partner = Null /\ r.category = Null
    BY <2>3 DEF EffectiveFor
  <2>5. CASE both # {}
    <3>1. selected = both
      BY <2>2, <2>5
    <3>2. scope = "partner_category"
      BY <3>1, <2>4, <2>5 DEF PreviewScope
    <3> QED BY <3>1, <3>2, <2>1, <2>4
  <2>6. CASE both = {} /\ wide # {}
    <3>1. selected = wide
      BY <2>2, <2>6
    <3>2. scope = "partner"
      BY <3>1, <2>4, <2>6 DEF PreviewScope
    <3> QED BY <3>1, <3>2, <2>1, <2>4, <2>6
  <2>7. CASE both = {} /\ wide = {} /\ any # {}
    <3>1. selected = any
      BY <2>2, <2>7
    <3>2. scope = "category"
      BY <3>1, <2>4, <2>7 DEF PreviewScope
    <3> QED BY <3>1, <3>2, <2>1, <2>4, <2>7
  <2>8. CASE both = {} /\ wide = {} /\ any = {} /\ default # {}
    <3>1. selected = default
      BY <2>2, <2>8
    <3>2. scope = "fallback"
      BY <3>1, <2>4, <2>8 DEF PreviewScope
    <3> QED BY <3>1, <3>2, <2>1, <2>8
  <2>9. CASE both = {} /\ wide = {} /\ any = {} /\ default = {}
    <3>1. selected = {}
      BY <2>2, <2>9
    <3>2. scope = "none"
      BY <3>1 DEF PreviewScope
    <3> QED BY <3>2, <2>1, <2>9
  <2> QED BY <2>5, <2>6, <2>7, <2>8, <2>9
<1> QED BY <1>1, RulesInvariant, PTL

------------------------------------------------------------------------------
(* OwnerRecords.                                                           *)

(* What anyone remembers of a refunded base was refunded, and stays so      *)
(* because a request below the present base is refused.                     *)
Remembered ==
  /\ ShownWasRefunded
  /\ \A i \in Items :
       /\ \A p \in Pages : \A bases \in bundles[p] : bases[i] <= refunded[i]
       /\ \A k \in Keys : request[k] # NoRequest => request[k].seen[i] <= refunded[i]
       /\ \A k \in Keys : request[k].stage = "served" =>
            /\ request[k].answer[i] <= refunded[i]
            /\ i \in Selected(request[k].entered) => Target(request[k], i) <= refunded[i]

RefundInv == TypeOK /\ Remembered

------------------------------------------------------------------------------
(* Types.                                                                  *)

LEMMA BlankIsBases == Blank \in Bases
BY DEF Blank, Bases

LEMMA InitTypes ==
  ASSUME ValidInstance
  PROVE  Init => TypeOK
BY DEF ValidInstance, Init, TypeOK, Blank, Bases, NoRequest

LEMMA LoadIsTyped ==
  ASSUME TypeOK, NEW p \in Pages, NEW n \in Nat, StartLoad(p, n)
  PROVE  generation' \in [Pages -> Nat] /\ loads' \subseteq Loads
<1>1. [page |-> p, generation |-> generation[p] + n, got |-> [x \in Parts |-> Unread]] \in Loads
  BY DEF TypeOK, Loads, Unread
<1> QED BY <1>1 DEF StartLoad, TypeOK

LEMMA ShowIsTyped ==
  ASSUME TypeOK, NEW p \in Pages, NEW bases \in Bases, ShowBases(p, bases)
  PROVE  /\ shown' \in [Pages -> Bases]
         /\ draft' \in [Pages -> Bases] /\ busy' \in [Pages -> Keys \cup {NoKey}]
BY BlankIsBases DEF ShowBases, TypeOK, sheetVars

LEMMA NextTypes ==
  ASSUME ValidInstance
  PROVE  TypeOK /\ [Next]_vars => TypeOK'
<1> SUFFICES ASSUME TypeOK, [Next]_vars PROVE TypeOK'
  OBVIOUS
<1>1. ASSUME NEW p \in Pages, Refresh(p) PROVE TypeOK'
  BY <1>1, LoadIsTyped DEF Refresh, TypeOK, sheetVars, StartLoad
<1>2. ASSUME NEW p \in Pages, ReadWorkspace(p) PROVE TypeOK'
  BY <1>2 DEF ReadWorkspace, TypeOK, sheetVars, overviewVars
<1>3. ASSUME NEW p \in Pages, NEW bases \in bundles[p], ShowWorkspace(p, bases) PROVE TypeOK'
  <2>1. bases \in Bases /\ bundles' \in [Pages -> SUBSET Bases]
    BY <1>3 DEF TypeOK, ShowWorkspace
  <2> QED BY <1>3, <2>1, LoadIsTyped, ShowIsTyped DEF ShowWorkspace, TypeOK, StartLoad
<1>4. ASSUME NEW p \in Pages, LeavePage(p) PROVE TypeOK'
  BY <1>4, BlankIsBases DEF LeavePage, TypeOK, overviewVars
<1>5. ASSUME NEW p \in Pages, NEW amounts \in [Items -> Amounts \cup {0}], EnterDraft(p, amounts)
      PROVE  TypeOK'
  <2>1. Amounts \cup {0} \subseteq Nat
    BY DEF ValidInstance
  <2>2. amounts \in Bases
    BY <2>1 DEF Bases
  <2> QED BY <1>5, <2>2 DEF EnterDraft, TypeOK, overviewVars
<1>6. ASSUME NEW p \in Pages, NEW k \in Keys, Submit(p, k) PROVE TypeOK'
  <2>1. request'[k] \in Requests
    BY <1>6 DEF Submit, TypeOK, Requests, Blank, Bases
  <2> QED BY <1>6, <2>1 DEF Submit, TypeOK, overviewVars
<1>7. ASSUME NEW k \in Keys, Serve(k) PROVE TypeOK'
  <2>1. request[k] \in Requests
    BY <1>7 DEF Serve, TypeOK, NoRequest
  <2>2. After(request[k]) \in Bases
    BY <2>1 DEF After, Target, Requests, Bases, TypeOK
  <2>3. request'[k] \in Requests
    BY <1>7, <2>1, <2>2 DEF Serve, TypeOK, Requests
  <2> QED BY <1>7, <2>2, <2>3 DEF Serve, TypeOK, sheetVars, overviewVars
<1>8. ASSUME NEW k \in Keys, Refuse(k) PROVE TypeOK'
  <2>1. request[k] \in Requests
    BY <1>8 DEF Refuse, TypeOK, NoRequest
  <2> QED BY <1>8, <2>1 DEF Refuse, TypeOK, Requests, sheetVars, overviewVars
<1>9. ASSUME NEW k \in Keys, Answered(k) PROVE TypeOK'
  <2>1. request[k] \in Requests
    BY <1>9 DEF Answered, TypeOK, NoRequest
  <2>2. request[k].page \in Pages /\ request[k].answer \in Bases
    BY <2>1 DEF Requests
  <2>3. request' \in [Keys -> Requests \cup {NoRequest}]
    BY <1>9, <2>1 DEF Answered, TypeOK, Requests
  <2> QED BY <1>9, <2>2, <2>3, LoadIsTyped, ShowIsTyped DEF Answered, TypeOK, StartLoad
<1>10. ASSUME NEW k \in Keys, Finish(k) PROVE TypeOK'
  <2>1. request[k] \in Requests
    BY <1>10 DEF Finish, TypeOK, NoRequest
  <2>2. request' \in [Keys -> Requests \cup {NoRequest}]
    BY <1>10, <2>1 DEF Finish, TypeOK, Requests
  <2>3. draft' \in [Pages -> Bases] /\ busy' \in [Pages -> Keys \cup {NoKey}]
    BY <1>10, BlankIsBases DEF Finish, TypeOK, sheetVars
  <2> QED BY <1>10, <2>2, <2>3 DEF Finish, TypeOK, overviewVars
<1>11. ASSUME NEW k \in Keys, GiveUp(k) PROVE TypeOK'
  <2>1. request[k] \in Requests
    BY <1>11 DEF GiveUp, TypeOK, NoRequest
  <2>2. request' \in [Keys -> Requests \cup {NoRequest}]
    BY <1>11, <2>1 DEF GiveUp, TypeOK, Requests
  <2>3. busy' \in [Pages -> Keys \cup {NoKey}]
    BY <1>11 DEF GiveUp, TypeOK
  <2> QED BY <1>11, <2>2, <2>3 DEF GiveUp, TypeOK, overviewVars
<1>12. ASSUME NEW l \in loads, NEW x \in Parts, ReadPart(l, x) PROVE TypeOK'
  <2>1. l \in Loads /\ version[x] \in Nat
    BY DEF TypeOK
  <2>2. [l EXCEPT !.got[x] = version[x]]
          = [page |-> l.page, generation |-> l.generation, got |-> [l.got EXCEPT ![x] = version[x]]]
    BY <2>1 DEF Loads
  <2>3. [l.got EXCEPT ![x] = version[x]] \in [Parts -> Nat \cup {Unread}]
    BY <2>1 DEF Loads
  <2>4. [l EXCEPT !.got[x] = version[x]] \in Loads
    BY <2>1, <2>2, <2>3 DEF Loads
  <2> QED BY <1>12, <2>4 DEF ReadPart, TypeOK, sheetVars
<1>13. ASSUME NEW l \in loads, EndLoad(l) PROVE TypeOK'
  <2>1. l \in Loads
    BY DEF TypeOK
  <2>2. overview' \in [Pages -> [Parts -> Nat]]
    <3>1. CASE UNCHANGED overview
      BY <3>1 DEF TypeOK
    <3>2. CASE /\ \A x \in Parts : l.got[x] # Unread
               /\ overview' = [overview EXCEPT ![l.page] = l.got]
      <4>1. l.got \in [Parts -> Nat]
        BY <2>1, <3>2 DEF Loads, Unread
      <4> QED BY <4>1, <3>2 DEF TypeOK
    <3> QED BY <1>13, <3>1, <3>2 DEF EndLoad
  <2> QED BY <1>13, <2>2 DEF EndLoad, TypeOK, sheetVars
<1>14. ASSUME NEW x \in Parts, Change(x) PROVE TypeOK'
  BY <1>14 DEF Change, TypeOK, sheetVars
<1>15. CASE UNCHANGED vars
  BY <1>15 DEF vars, sheetVars, overviewVars, TypeOK
<1> HIDE DEF Next, Bases
<1> QED BY <1>1, <1>2, <1>3, <1>4, <1>5, <1>6, <1>7, <1>8, <1>9, <1>10, <1>11, <1>12,
           <1>13, <1>14, <1>15 DEF Next

THEOREM OwnerTypes ==
  ASSUME ValidInstance
  PROVE  Spec => []TypeOK
BY InitTypes, NextTypes, PTL DEF Spec

------------------------------------------------------------------------------
(* Refunds.                                                                *)

LEMMA InitRemembered ==
  ASSUME ValidInstance
  PROVE  Init => Remembered
BY DEF ValidInstance, Init, Remembered, ShownWasRefunded, Blank, NoRequest

\* Whatever is not a request's service leaves the bases and takes over remembered ones.
LEMMA RememberedElsewhere ==
  ASSUME RefundInv, refunded' = refunded,
         \A p \in Pages : \/ shown'[p] \in {shown[p]} \cup bundles[p]
                          \/ \E k \in Keys : request[k].stage = "served" /\ shown'[p] = request[k].answer,
         \A p \in Pages : bundles'[p] \subseteq bundles[p] \cup {refunded},
         \A k \in Keys :
           \/ request'[k] = request[k]
           \/ \E p \in Pages : request'[k].seen = shown[p] /\ request'[k].stage = "sent"
           \/ /\ request[k] # NoRequest
              /\ request'[k].seen = request[k].seen
              /\ request'[k].entered = request[k].entered
              /\ request'[k].answer = request[k].answer
              /\ request'[k].stage \in {request[k].stage, "refused"}
  PROVE  Remembered'
<1> USE DEF RefundInv
<1>1. refunded \in Bases
  BY DEF TypeOK
<1>2. ASSUME NEW i \in Items, NEW p \in Pages PROVE shown'[p][i] <= refunded[i]
  BY DEF Remembered, ShownWasRefunded
<1>3. ASSUME NEW i \in Items, NEW p \in Pages, NEW bases \in bundles'[p] PROVE bases[i] <= refunded[i]
  BY <1>1 DEF Remembered, Bases
<1>4. ASSUME NEW i \in Items, NEW k \in Keys, request'[k] # NoRequest PROVE request'[k].seen[i] <= refunded[i]
  BY <1>4 DEF Remembered, ShownWasRefunded
<1>5. ASSUME NEW i \in Items, NEW k \in Keys, request'[k].stage = "served"
      PROVE  /\ request'[k].answer[i] <= refunded[i]
             /\ i \in Selected(request'[k].entered) => Target(request'[k], i) <= refunded[i]
  BY <1>5 DEF Remembered, Target
<1>6. \A i \in Items : refunded[i] <= Gross[i]
  BY DEF Remembered, ShownWasRefunded
<1> QED BY <1>2, <1>3, <1>4, <1>5, <1>6 DEF Remembered, ShownWasRefunded

\* A service raises the bases of its items, to its targets.
LEMMA ServeRaises ==
  ASSUME ValidInstance, RefundInv, NEW k \in Keys, Serve(k)
  PROVE  /\ request[k] \in Requests /\ request[k].stage = "sent"
         /\ refunded' \in Bases
         /\ \A i \in Items : refunded'[i] >= refunded[i] /\ refunded'[i] <= Gross[i]
         /\ \A i \in Selected(request[k].entered) : refunded'[i] = Target(request[k], i)
         /\ \A i \in Items : i \notin Selected(request[k].entered) => refunded'[i] = refunded[i]
<1>1. request[k] \in Requests /\ request[k].stage = "sent"
  BY DEF Serve, RefundInv, TypeOK, NoRequest
<1>2. \A i \in Items : refunded[i] \in Nat /\ Gross[i] \in Nat /\ Target(request[k], i) \in Nat
  BY <1>1 DEF ValidInstance, RefundInv, TypeOK, Bases, Requests, Target
<1>3. Selected(request[k].entered) \subseteq Items
  BY DEF Selected
<1>4. refunded' = After(request[k]) /\ Acceptable(request[k])
  BY DEF Serve
<1>5. refunded' \in Bases
  BY <1>2, <1>4 DEF After, Bases
<1>6. \A i \in Items : refunded'[i] = IF i \in Selected(request[k].entered)
                                      THEN Target(request[k], i) ELSE refunded[i]
  BY <1>4 DEF After
<1>7. \A i \in Items : refunded'[i] >= refunded[i] /\ refunded'[i] <= Gross[i]
  BY <1>2, <1>4, <1>6 DEF Acceptable, RefundInv, Remembered, ShownWasRefunded
<1> QED BY <1>1, <1>3, <1>5, <1>6, <1>7

LEMMA ServeRemembers ==
  ASSUME ValidInstance, RefundInv, NEW k \in Keys, Serve(k)
  PROVE  Remembered'
<1>1. /\ request[k] \in Requests
      /\ shown' = shown /\ bundles' = bundles
      /\ request' = [request EXCEPT ![k] = [request[k] EXCEPT !.stage = "served", !.answer = refunded']]
  BY ServeRaises DEF Serve, sheetVars, RefundInv, TypeOK
<1>2. \A j \in Keys \ {k} : request'[j] = request[j]
  BY <1>1 DEF RefundInv, TypeOK
<1>3. /\ request'[k].seen = request[k].seen /\ request'[k].entered = request[k].entered
      /\ request'[k].answer = refunded' /\ request[k] # NoRequest
  BY <1>1, ServeRaises DEF RefundInv, TypeOK, Requests, NoRequest
<1>4. ASSUME NEW i \in Items, NEW n \in Nat, n <= refunded[i] PROVE n <= refunded'[i]
  <2>1. refunded[i] \in Nat /\ refunded'[i] \in Nat /\ refunded'[i] >= refunded[i]
    BY ServeRaises DEF RefundInv, TypeOK, Bases
  <2> QED BY <2>1, <1>4
<1>5. ASSUME NEW i \in Items, NEW p \in Pages 
      PROVE  /\ shown'[p][i] <= refunded'[i]
             /\ \A bases \in bundles'[p] : bases[i] <= refunded'[i]
  <2>1. shown'[p][i] <= refunded'[i]
    BY <1>1, <1>4 DEF RefundInv, TypeOK, Bases, Remembered, ShownWasRefunded
  <2>2. ASSUME NEW bases \in bundles[p] PROVE bases[i] \in Nat /\ bases[i] <= refunded[i]
    BY DEF RefundInv, TypeOK, Bases, Remembered
  <2> QED BY <1>1, <1>4, <2>1, <2>2
<1>6. ASSUME NEW i \in Items, NEW j \in Keys, request'[j] # NoRequest
      PROVE  request'[j].seen[i] <= refunded'[i]
  <2>1. request[j] # NoRequest /\ request'[j].seen = request[j].seen
    BY <1>2, <1>3, <1>6
  <2>2. request[j].seen[i] \in Nat /\ request[j].seen[i] <= refunded[i]
    BY <2>1 DEF RefundInv, TypeOK, Requests, Bases, Remembered
  <2> QED BY <2>1, <2>2, <1>4
<1>7. ASSUME NEW i \in Items, NEW j \in Keys, request'[j].stage = "served"
      PROVE  /\ request'[j].answer[i] <= refunded'[i]
             /\ i \in Selected(request'[j].entered) => Target(request'[j], i) <= refunded'[i]
  <2>1. refunded'[i] \in Nat
    BY ServeRaises DEF Bases
  <2>2. CASE j = k
    BY <1>3, <2>1, <2>2, ServeRaises DEF Target
  <2>3. CASE j # k
    <3>1. request'[j] = request[j] /\ request[j] \in Requests /\ request[j].stage = "served"
      BY <1>2, <1>7, <2>3 DEF RefundInv, TypeOK, NoRequest
    <3>2. request[j].answer[i] \in Nat /\ Target(request[j], i) \in Nat
      BY <3>1 DEF Requests, Bases, Target
    <3> QED BY <3>1, <3>2, <1>4 DEF RefundInv, Remembered
  <2> QED BY <2>2, <2>3
<1>8. \A i \in Items : refunded'[i] <= Gross[i]
  BY ServeRaises
<1> QED BY <1>5, <1>6, <1>7, <1>8 DEF Remembered, ShownWasRefunded

LEMMA NextRemembers ==
  ASSUME ValidInstance
  PROVE  RefundInv /\ [Next]_vars => RefundInv'
<1> SUFFICES ASSUME RefundInv, [Next]_vars PROVE Remembered'
  BY NextTypes DEF RefundInv
<1> USE DEF sheetVars
<1>1. ASSUME NEW p \in Pages, Refresh(p) \/ LeavePage(p) \/ ReadWorkspace(p) PROVE Remembered'
  BY <1>1, RememberedElsewhere DEF Refresh, LeavePage, ReadWorkspace, RefundInv, TypeOK
<1>2. ASSUME NEW p \in Pages, NEW bases \in bundles[p], ShowWorkspace(p, bases)
      PROVE  Remembered'
  BY <1>2, RememberedElsewhere DEF ShowWorkspace, ShowBases, RefundInv, TypeOK
<1>3. ASSUME NEW p \in Pages, NEW amounts, EnterDraft(p, amounts) PROVE Remembered'
  BY <1>3, RememberedElsewhere DEF EnterDraft
<1>4. ASSUME NEW p \in Pages, NEW k \in Keys, Submit(p, k) PROVE Remembered'
  <2>1. /\ request'[k].seen = shown[p] /\ request'[k].stage = "sent"
        /\ \A j \in Keys \ {k} : request'[j] = request[j]
    BY <1>4 DEF Submit, RefundInv, TypeOK
  <2> QED BY <1>4, <2>1, RememberedElsewhere DEF Submit
<1>5. ASSUME NEW k \in Keys, Refuse(k) PROVE Remembered'
  <2>1. request[k] \in Requests
    BY <1>5 DEF Refuse, RefundInv, TypeOK, NoRequest
  <2>2. /\ request'[k].seen = request[k].seen /\ request'[k].entered = request[k].entered
        /\ request'[k].answer = request[k].answer /\ request'[k].stage = "refused"
        /\ request[k] # NoRequest
        /\ \A j \in Keys \ {k} : request'[j] = request[j]
    BY <1>5, <2>1 DEF Refuse, Requests, RefundInv, TypeOK, NoRequest
  <2> QED BY <1>5, <2>2, RememberedElsewhere DEF Refuse
<1>6. ASSUME NEW k \in Keys, Answered(k) \/ Finish(k) \/ GiveUp(k) PROVE Remembered'
  <2>1. request[k] \in Requests
    BY <1>6 DEF Answered, Finish, GiveUp, RefundInv, TypeOK, NoRequest
  <2>2. \E c \in {"refreshing", "done", "failed"} : request' = [request EXCEPT ![k].client = c]
    BY <1>6 DEF Answered, Finish, GiveUp
  <2>3. /\ request'[k].seen = request[k].seen /\ request'[k].entered = request[k].entered
        /\ request'[k].answer = request[k].answer /\ request'[k].stage = request[k].stage
        /\ request[k] # NoRequest
        /\ \A j \in Keys \ {k} : request'[j] = request[j]
    BY <1>6, <2>1, <2>2 DEF Answered, Finish, GiveUp, Requests, RefundInv, TypeOK, NoRequest
  <2>4. \A p \in Pages : \/ shown'[p] = shown[p]
                         \/ request[k].stage = "served" /\ shown'[p] = request[k].answer
    BY <1>6 DEF Answered, Finish, GiveUp, ShowBases, RefundInv, TypeOK
  <2>5. refunded' = refunded /\ bundles' = bundles
    BY <1>6 DEF Answered, Finish, GiveUp
  <2> QED BY <2>3, <2>4, <2>5, RememberedElsewhere
<1>7. ASSUME \/ \E l \in loads, x \in Parts : ReadPart(l, x)
             \/ \E l \in loads : EndLoad(l)
             \/ \E x \in Parts : Change(x)
             \/ UNCHANGED vars
      PROVE  Remembered'
  <2>1. refunded' = refunded /\ shown' = shown /\ bundles' = bundles /\ request' = request
    BY <1>7 DEF ReadPart, EndLoad, Change, vars
  <2> QED BY <2>1, RememberedElsewhere
<1> QED BY <1>1, <1>2, <1>3, <1>4, <1>5, <1>6, <1>7, ServeRemembers DEF Next

LEMMA RefundInvariant ==
  ASSUME ValidInstance
  PROVE  Spec => []RefundInv
BY InitTypes, InitRemembered, NextRemembers, PTL DEF Spec, RefundInv

(* What a page shows as refunded was refunded, and nothing beyond the       *)
(* gross amount is, whatever arrives late.                                  *)
THEOREM ShownStaysTrue ==
  ASSUME ValidInstance
  PROVE  Spec => []ShownWasRefunded
<1>1. RefundInv => ShownWasRefunded
  BY DEF RefundInv, Remembered
<1> QED BY <1>1, RefundInvariant, PTL

\* Only the service of a request changes the bases.
LEMMA OnlyServed ==
  ASSUME [Next]_vars, refunded' # refunded
  PROVE  \E k \in Keys : Serve(k)
BY DEF Next, vars, Refresh, ReadWorkspace, ShowWorkspace, LeavePage, EnterDraft, Submit, Refuse,
       Answered, Finish, GiveUp, ReadPart, EndLoad, Change

(* However old the records are that a window adds to, a request refunds at  *)
(* most what was entered in it, and nothing refunded is taken back.         *)
THEOREM RequestsAddNoMore ==
  ASSUME ValidInstance
  PROVE  Spec => AddsAtMostEntered
<1>1. ASSUME RefundInv, NEW i \in Items, NEW k \in Keys, Serve(k)
      PROVE  /\ refunded'[i] >= refunded[i]
             /\ request[k].stage = "sent" /\ request'[k].stage = "served"
             /\ refunded'[i] # refunded[i] => refunded'[i] - refunded[i] <= request[k].entered[i]
  <2>1. request'[k].stage = "served"
    BY <1>1, ServeRaises DEF Serve, RefundInv, TypeOK, Requests
  <2>2. /\ refunded[i] \in Nat /\ refunded'[i] \in Nat
        /\ request[k].seen[i] \in Nat /\ request[k].entered[i] \in Nat
        /\ request[k].seen[i] <= refunded[i]
    BY <1>1, ServeRaises DEF RefundInv, TypeOK, Bases, Requests, Remembered, NoRequest
  <2> QED BY <1>1, <2>1, <2>2, ServeRaises DEF Target
<1>2. RefundInv /\ [Next]_vars =>
        [\A i \in Items :
           /\ refunded'[i] >= refunded[i]
           /\ refunded'[i] # refunded[i] =>
                \E k \in Keys :
                  /\ request[k].stage = "sent" /\ request'[k].stage = "served"
                  /\ refunded'[i] - refunded[i] <= request[k].entered[i]]_vars
  <2> SUFFICES ASSUME RefundInv, [Next]_vars, NEW i \in Items
               PROVE  /\ refunded'[i] >= refunded[i]
                      /\ refunded'[i] # refunded[i] =>
                           \E k \in Keys :
                             /\ request[k].stage = "sent" /\ request'[k].stage = "served"
                             /\ refunded'[i] - refunded[i] <= request[k].entered[i]
    OBVIOUS
  <2>1. CASE refunded' = refunded
    BY <2>1 DEF RefundInv, TypeOK, Bases
  <2>2. CASE refunded' # refunded
    BY <1>1, <2>2, OnlyServed
  <2> QED BY <2>1, <2>2
<1> QED BY <1>2, RefundInvariant, PTL DEF Spec, AddsAtMostEntered

(* A submission repeated from the same records, after its answer was lost,  *)
(* refunds nothing more, although it has another idempotency key.           *)
THEOREM RepeatsRefundNothing ==
  ASSUME ValidInstance
  PROVE  Spec => RepeatedRefundsNothing
<1> DEFINE Repeats(j, k) ==
      /\ request[j].stage = "served"
      /\ request[k].stage = "sent" /\ request'[k].stage = "served"
      /\ request[k].seen = request[j].seen /\ request[k].entered = request[j].entered
<1>1. ASSUME RefundInv, [Next]_vars, NEW j \in Keys, NEW k \in Keys, Repeats(j, k)
      PROVE  refunded' = refunded
  <2> SUFFICES ASSUME refunded' # refunded PROVE FALSE
    OBVIOUS
  <2>1. PICK l \in Keys : Serve(l)
    BY <1>1, OnlyServed
  <2>2. l = k
    BY <1>1, <2>1 DEF Serve, RefundInv, TypeOK
  <2>3. ASSUME NEW i \in Selected(request[k].entered) PROVE refunded'[i] = refunded[i]
    <3>1. refunded'[i] = Target(request[j], i) /\ i \in Items
      BY <1>1, <2>1, <2>2, ServeRaises DEF Target, Selected
    <3>2. Target(request[j], i) <= refunded[i] /\ refunded'[i] >= refunded[i]
      BY <1>1, <2>1, <2>3, <3>1, ServeRaises DEF RefundInv, Remembered
    <3>3. refunded[i] \in Nat /\ refunded'[i] \in Nat
      BY <1>1, <2>1, <3>1, ServeRaises DEF RefundInv, TypeOK, Bases
    <3> QED BY <3>1, <3>2, <3>3
  <2>4. \A i \in Items : refunded'[i] = refunded[i]
    BY <1>1, <2>1, <2>2, <2>3, ServeRaises
  <2> QED BY <1>1, <2>1, <2>4, ServeRaises DEF RefundInv, TypeOK, Bases
<1>2. RefundInv /\ [Next]_vars => [\A j, k \in Keys : Repeats(j, k) => refunded' = refunded]_vars
  BY <1>1
<1> QED BY <1>2, RefundInvariant, PTL DEF Spec, RepeatedRefundsNothing

------------------------------------------------------------------------------
(* The overview.                                                           *)

\* What the newest load has read so far is not older than what is shown.
LoadsInv ==
  /\ \A p \in Pages, x \in Parts : overview[p][x] <= version[x]
  /\ \A l \in loads :
       /\ l.generation <= generation[l.page]
       /\ \A x \in Parts : l.got[x] <= version[x]
       /\ NewestLoad(l) => \A x \in Parts : l.got[x] # Unread => overview[l.page][x] <= l.got[x]
  /\ \A l, m \in loads : l.page = m.page /\ l.generation = m.generation => l = m

LEMMA InitLoads == Init => LoadsInv
BY DEF Init, LoadsInv

LEMMA StartKeepsLoads ==
  ASSUME TypeOK, LoadsInv, NEW p \in Pages, NEW n \in Nat \ {0}, StartLoad(p, n)
  PROVE  LoadsInv'
<1> DEFINE new == [page |-> p, generation |-> generation[p] + n, got |-> [x \in Parts |-> Unread]]
<1>1. /\ loads' = loads \cup {new} /\ version' = version /\ overview' = overview
      /\ generation' = [generation EXCEPT ![p] = @ + n]
  BY DEF StartLoad
<1>2. /\ generation'[p] = generation[p] + n /\ generation[p] \in Nat
      /\ \A q \in Pages \ {p} : generation'[q] = generation[q]
  BY <1>1 DEF TypeOK
<1>3. \A l \in loads : l.page \in Pages /\ l.generation \in Nat /\ generation[l.page] \in Nat
  BY DEF TypeOK, Loads
<1>4. \A l \in loads : /\ l.generation <= generation'[l.page]
                       /\ l.page = p => l.generation < generation'[p]
  BY <1>2, <1>3 DEF LoadsInv
<1>5. \A l \in loads : NewestLoad(l)' => NewestLoad(l)
  <2> SUFFICES ASSUME NEW l \in loads, l.generation = generation'[l.page]
               PROVE  l.generation = generation[l.page]
    BY DEF NewestLoad
  <2>1. l.page # p
    BY <1>2, <1>3, <1>4
  <2> QED BY <2>1, <1>2, <1>3
<1>6. \A x \in Parts : new.got[x] = Unread /\ Unread <= version[x]
  BY DEF TypeOK, Unread
<1>7. \A l \in loads' : /\ l.generation <= generation'[l.page]
                        /\ \A x \in Parts : l.got[x] <= version[x]
  BY <1>1, <1>2, <1>4, <1>6 DEF LoadsInv
<1>8. \A l \in loads' : NewestLoad(l)' =>
        \A x \in Parts : l.got[x] # Unread => overview[l.page][x] <= l.got[x]
  BY <1>1, <1>5, <1>6 DEF LoadsInv
<1>9. \A l, m \in loads' : l.page = m.page /\ l.generation = m.generation => l = m
  <2>1. \A l \in loads : ~(l.page = new.page /\ l.generation = new.generation)
    BY <1>2, <1>3, <1>4
  <2> QED BY <1>1, <2>1 DEF LoadsInv
<1> HIDE DEF new
<1> QED BY <1>1, <1>7, <1>8, <1>9 DEF LoadsInv

LEMMA ReadKeepsLoads ==
  ASSUME TypeOK, LoadsInv, NEW l \in loads, NEW x \in Parts, ReadPart(l, x)
  PROVE  LoadsInv'
<1> DEFINE read == [l EXCEPT !.got[x] = version[x]]
<1>1. /\ loads' = (loads \ {l}) \cup {read}
      /\ version' = version /\ overview' = overview /\ generation' = generation
  BY DEF ReadPart
<1>2. l \in Loads
  BY DEF TypeOK
<1>3. /\ read.page = l.page /\ read.generation = l.generation
      /\ read.got[x] = version[x]
      /\ \A y \in Parts \ {x} : read.got[y] = l.got[y]
  BY <1>2 DEF Loads
<1> HIDE DEF read
<1>4. version[x] \in Nat
  BY DEF TypeOK
<1>5. /\ read.generation <= generation[read.page]
      /\ \A y \in Parts : read.got[y] <= version[y]
      /\ NewestLoad(read) => \A y \in Parts : read.got[y] # Unread => overview[read.page][y] <= read.got[y]
  <2>1. /\ l.generation <= generation[l.page]
        /\ \A y \in Parts : l.got[y] <= version[y]
        /\ NewestLoad(l) => \A y \in Parts : l.got[y] # Unread => overview[l.page][y] <= l.got[y]
        /\ overview[l.page][x] <= version[x]
    BY <1>2 DEF LoadsInv, Loads
  <2>2. NewestLoad(read) <=> NewestLoad(l)
    BY <1>3 DEF NewestLoad
  <2> QED BY <1>3, <1>4, <2>1, <2>2
<1>6. \A m, n \in loads' : m.page = n.page /\ m.generation = n.generation => m = n
  BY <1>1, <1>3 DEF LoadsInv
<1>7. \A m \in loads \ {l} :
        /\ m.generation <= generation[m.page]
        /\ \A y \in Parts : m.got[y] <= version[y]
        /\ NewestLoad(m) => \A y \in Parts : m.got[y] # Unread => overview[m.page][y] <= m.got[y]
  BY DEF LoadsInv
<1>8. \A m : NewestLoad(m)' = NewestLoad(m)
  BY <1>1 DEF NewestLoad
<1>9. \A p \in Pages, y \in Parts : overview[p][y] <= version[y]
  BY DEF LoadsInv
<1> QED BY <1>1, <1>5, <1>6, <1>7, <1>8, <1>9 DEF LoadsInv

\* Only the newest load of a page is shown, of which there is one.
LEMMA EndKeepsLoads ==
  ASSUME TypeOK, LoadsInv, NEW l \in loads, EndLoad(l)
  PROVE  /\ LoadsInv'
         /\ \A p \in Pages, x \in Parts : overview'[p][x] >= overview[p][x]
<1>1. loads' = loads \ {l} /\ version' = version /\ generation' = generation
  BY DEF EndLoad
<1>2. CASE UNCHANGED overview
  <2>1. \A p \in Pages, x \in Parts : overview[p][x] \in Nat
    BY DEF TypeOK
  <2> QED BY <1>1, <1>2, <2>1 DEF LoadsInv, NewestLoad
<1>3. CASE /\ NewestLoad(l) /\ \A x \in Parts : l.got[x] # Unread
           /\ overview' = [overview EXCEPT ![l.page] = l.got]
  <2>1. l.page \in Pages
    BY DEF TypeOK, Loads
  <2>2. overview'[l.page] = l.got /\ \A p \in Pages \ {l.page} : overview'[p] = overview[p]
    BY <1>3, <2>1 DEF TypeOK
  <2>3. \A x \in Parts : /\ overview[l.page][x] <= l.got[x] /\ l.got[x] <= version[x]
                         /\ overview[l.page][x] \in Nat /\ l.got[x] \in Nat
    BY <1>3, <2>1 DEF LoadsInv, TypeOK, Loads, Unread
  <2>4. \A p \in Pages, x \in Parts : overview'[p][x] >= overview[p][x] /\ overview'[p][x] <= version[x]
    <3>1. \A p \in Pages, x \in Parts : overview[p][x] \in Nat /\ overview[p][x] <= version[x]
      BY DEF TypeOK, LoadsInv
    <3> QED BY <2>2, <2>3, <3>1
  <2>5. \A m \in loads \ {l} : NewestLoad(m) => m.page # l.page
    BY <1>3 DEF LoadsInv, NewestLoad
  <2>6. \A m \in loads \ {l} : m.page \in Pages
    BY DEF TypeOK, Loads
  <2>7. \A m \in loads \ {l} : NewestLoad(m) =>
          \A x \in Parts : m.got[x] # Unread => overview'[m.page][x] <= m.got[x]
    BY <2>2, <2>5, <2>6 DEF LoadsInv
  <2> QED BY <1>1, <2>4, <2>7 DEF LoadsInv, NewestLoad
<1> QED BY <1>2, <1>3 DEF EndLoad

LEMMA LoadsStep ==
  ASSUME TypeOK, LoadsInv, [Next]_vars
  PROVE  /\ LoadsInv'
         /\ \A p \in Pages, x \in Parts : overview'[p][x] >= overview[p][x]
<1>1. \A p \in Pages, x \in Parts : overview[p][x] \in Nat
  BY DEF TypeOK
<1>2. CASE UNCHANGED overviewVars
  BY <1>1, <1>2 DEF overviewVars, LoadsInv, NewestLoad
<1>3. ASSUME NEW p \in Pages, NEW n \in Nat \ {0}, StartLoad(p, n)
      PROVE  LoadsInv' /\ \A q \in Pages, x \in Parts : overview'[q][x] >= overview[q][x]
  <2>1. LoadsInv'
    BY <1>3, StartKeepsLoads
  <2>2. overview' = overview
    BY <1>3 DEF StartLoad
  <2> QED BY <1>1, <2>1, <2>2
<1>4. ASSUME NEW x \in Parts, Change(x)
      PROVE  LoadsInv' /\ \A q \in Pages, y \in Parts : overview'[q][y] >= overview[q][y]
  <2>1. \A y \in Parts : version[y] \in Nat /\ version'[y] \in Nat /\ version[y] <= version'[y]
    BY <1>4 DEF Change, TypeOK
  <2>2. loads' = loads /\ overview' = overview /\ generation' = generation
    BY <1>4 DEF Change
  <2>3. \A l \in loads, y \in Parts : l.got[y] \in Int
    BY DEF TypeOK, Loads, Unread
  <2> QED BY <1>1, <2>1, <2>2, <2>3 DEF LoadsInv, NewestLoad
<1>5. ASSUME NEW l \in loads, NEW x \in Parts, ReadPart(l, x)
      PROVE  LoadsInv' /\ \A q \in Pages, y \in Parts : overview'[q][y] >= overview[q][y]
  <2>1. LoadsInv'
    BY <1>5, ReadKeepsLoads
  <2>2. overview' = overview
    BY <1>5 DEF ReadPart
  <2> QED BY <1>1, <2>1, <2>2
<1>6. ASSUME NEW p \in Pages, \/ Refresh(p) \/ ReadWorkspace(p) \/ LeavePage(p)
                               \/ \E bases \in bundles[p] : ShowWorkspace(p, bases)
      PROVE  UNCHANGED overviewVars \/ \E n \in Nat \ {0} : StartLoad(p, n)
  <2>1. 1 \in Nat \ {0} /\ 2 \in Nat \ {0}
    OBVIOUS
  <2> QED BY <1>6, <2>1 DEF Refresh, ReadWorkspace, ShowWorkspace, LeavePage
<1>7. ASSUME NEW p \in Pages, NEW amounts, EnterDraft(p, amounts) PROVE UNCHANGED overviewVars
  BY <1>7 DEF EnterDraft
<1>8. ASSUME NEW p \in Pages, NEW k \in Keys, Submit(p, k) PROVE UNCHANGED overviewVars
  BY <1>8 DEF Submit
<1>9. ASSUME NEW k \in Keys, Serve(k) \/ Refuse(k) \/ Finish(k) \/ GiveUp(k) PROVE UNCHANGED overviewVars
  BY <1>9 DEF Serve, Refuse, Finish, GiveUp
<1>10. ASSUME NEW k \in Keys, Answered(k) PROVE \E p \in Pages : \E n \in Nat \ {0} : StartLoad(p, n)
  <2>1. request[k].page \in Pages /\ StartLoad(request[k].page, 1)
    BY <1>10 DEF Answered, TypeOK, Requests, NoRequest
  <2> QED BY <2>1
<1>11. CASE UNCHANGED vars
  BY <1>2, <1>11 DEF vars, overviewVars
<1>12. ASSUME NEW l \in loads, EndLoad(l)
       PROVE  LoadsInv' /\ \A q \in Pages, x \in Parts : overview'[q][x] >= overview[q][x]
  BY <1>12, EndKeepsLoads
<1> HIDE DEF LoadsInv
<1> QED BY <1>2, <1>3, <1>4, <1>5, <1>6, <1>7, <1>8, <1>9, <1>10, <1>11, <1>12 DEF Next

(* The overview of a window never goes back to older records, in whatever   *)
(* order the answers of its loads arrive.                                   *)
THEOREM OverviewNeverGoesBack ==
  ASSUME ValidInstance
  PROVE  Spec => OverviewMovesOn
<1>1. Spec => [](TypeOK /\ LoadsInv)
  BY InitTypes, NextTypes, InitLoads, LoadsStep, PTL DEF Spec
<1>2. TypeOK /\ LoadsInv /\ [Next]_vars =>
        [\A p \in Pages, x \in Parts : overview'[p][x] >= overview[p][x]]_vars
  BY LoadsStep
<1> QED BY <1>1, <1>2, PTL DEF Spec, OverviewMovesOn
==============================================================================
