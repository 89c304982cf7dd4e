--------------------------- MODULE RuleSelection -----------------------------
(***************************************************************************)
(* Commission rules, their programs and referral codes, as                 *)
(* programs.service.ts keeps them, and the rule of domain/rules.ts that an *)
(* item of a new conversion gets.  Instants are natural numbers; a rule is *)
(* in effect from one instant on and, unless it is unending, until before  *)
(* another.  The organisation and its partners are fixed: ClaimLedger      *)
(* models when a partner's own state refuses a conversion, and Commission  *)
(* what a rule pays.                                                       *)
(***************************************************************************)
EXTENDS Integers

CONSTANTS
  Programs,
  Partners,
  Categories,
  Codes       \* the texts of referral codes

Unending == -1
Null == {}
Optional(S) == {{x} : x \in S} \cup {Null}

\* A rule is for one partner and one category, or for any where the column is null.
Rules ==
  [id : Nat, program : Programs, partner : Optional(Partners),
   category : Optional(Categories), from : Nat, to : Nat \cup {Unending}]

VARIABLES
  now,
  created,   \* the programs there are
  paused,    \* those of them that are paused
  owner,     \* the program and the partner a referral code stands for
  rules,     \* commission_rules
  requests,  \* rules validated and waiting for the lock on their program
  snapshots  \* the selections stored with earnings

rulesVars == <<now, created, paused, owner, rules, requests, snapshots>>

------------------------------------------------------------------------------
(* Selection.                                                              *)

Ends(r, at) == r.to # Unending /\ r.to <= at
IsEffectiveAt(r, at) == r.from <= at /\ ~Ends(r, at)

MostRecentThenStableId(r, s) == r.from > s.from \/ (r.from = s.from /\ r.id <= s.id)
SelectBest(S) == CHOOSE r \in S : \A s \in S : MostRecentThenStableId(r, s)

EffectiveFor(program, partner, category, at) ==
  {r \in rules : /\ r.program = program /\ r.partner = partner /\ r.category = category
                 /\ IsEffectiveAt(r, at)}

\* The first scope with an effective rule, from the most specific to the default.
Candidates(program, partner, category, at) ==
  LET partnerCategory == EffectiveFor(program, {partner}, {category}, at)
      partnerWide == EffectiveFor(program, {partner}, Null, at)
      programCategory == EffectiveFor(program, Null, {category}, at)
      programDefault == EffectiveFor(program, Null, Null, at)
  IN  IF partnerCategory # {} THEN partnerCategory
      ELSE IF partnerWide # {} THEN partnerWide
      ELSE IF programCategory # {} THEN programCategory
      ELSE programDefault

\* The selected rule as a set, which is empty for an earning that needs a rule.
SelectApplicableRule(program, partner, category, at) ==
  LET best == Candidates(program, partner, category, at)
  IN  IF best = {} THEN {} ELSE {SelectBest(best)}

\* The scope that a preview of a commission tells the owner.
PreviewScope(program, partner, category, at) ==
  LET selected == SelectApplicableRule(program, partner, category, at)
  IN  CASE selected = {} -> "none"
        [] \E r \in selected : r.partner # Null /\ r.category # Null -> "partner_category"
        [] \E r \in selected : r.partner # Null /\ r.category = Null -> "partner"
        [] \E r \in selected : r.partner = Null /\ r.category # Null -> "category"
        [] \E r \in selected : r.partner = Null /\ r.category = Null -> "fallback"

------------------------------------------------------------------------------
(* Programs and codes.                                                     *)

RulesInit ==
  /\ now = 0
  /\ created = {} /\ paused = {}
  /\ owner = [c \in {} |-> <<>>]
  /\ rules = {} /\ requests = {} /\ snapshots = {}

Tick == now' = now + 1 /\ UNCHANGED <<created, paused, owner, rules, requests, snapshots>>

CreateProgram(p) ==
  /\ p \notin created
  /\ created' = created \cup {p}
  /\ UNCHANGED <<now, paused, owner, rules, requests, snapshots>>

SetProgramState(p) ==
  /\ p \in created
  /\ paused' = IF p \in paused THEN paused \ {p} ELSE paused \cup {p}
  /\ UNCHANGED <<now, created, owner, rules, requests, snapshots>>

\* A code is unique among all programs; a second one is refused.
CreateCode(c, p, partner) ==
  /\ p \in created
  /\ c \notin DOMAIN owner
  /\ owner' = [x \in DOMAIN owner \cup {c} |-> IF x = c THEN <<p, partner>> ELSE owner[x]]
  /\ UNCHANGED <<now, created, paused, rules, requests, snapshots>>

------------------------------------------------------------------------------
(* Rules.                                                                  *)

SameScope(r, s) == r.program = s.program /\ r.partner = s.partner /\ r.category = s.category

\* The overlap query of createRule: s is a rule of before, r the new one.
Overlaps(r, s) == ~Ends(s, r.from) /\ (r.to # Unending => s.from < r.to)

\* The default of effectiveFrom is the clock before any lock is waited for.
RequestRule(r) ==
  /\ r.to # Unending => r.to > r.from
  /\ requests' = requests \cup {r}
  /\ UNCHANGED <<now, created, paused, owner, rules, snapshots>>

\* With the lock on the program, against the rules committed by then.
CreateRule(request) ==
  /\ request \in requests
  /\ requests' = requests \ {request}
  /\ request.program \in created
  /\ ~ \E s \in rules : SameScope(request, s) /\ Overlaps(request, s)
  /\ \E id \in Nat \ {s.id : s \in rules} :
       rules' = rules \cup {[request EXCEPT !.id = id]}
  /\ UNCHANGED <<now, created, paused, owner, snapshots>>

RefuseRule(request) ==
  /\ request \in requests
  /\ \/ request.program \notin created
     \/ \E s \in rules : SameScope(request, s) /\ Overlaps(request, s)
  /\ requests' = requests \ {request}
  /\ UNCHANGED <<now, created, paused, owner, rules, snapshots>>

\* An item of a new conversion; the code locks its program's row.
CreateItem(c, category) ==
  /\ c \in DOMAIN owner
  /\ owner[c][1] \notin paused
  /\ LET program == owner[c][1]
         partner == owner[c][2]
     IN  snapshots' = snapshots \cup
           {[program |-> program, partner |-> partner, category |-> category, at |-> now,
             rule |-> SelectApplicableRule(program, partner, category, now)]}
  /\ UNCHANGED <<now, created, paused, owner, rules, requests>>

RulesNext ==
  \/ Tick
  \/ \E p \in Programs : CreateProgram(p) \/ SetProgramState(p)
  \/ \E c \in Codes, p \in Programs, partner \in Partners : CreateCode(c, p, partner)
  \/ \E r \in Rules : RequestRule(r)
  \/ \E r \in requests : CreateRule(r) \/ RefuseRule(r)
  \/ \E c \in Codes, category \in Categories : CreateItem(c, category)

RulesSpec == RulesInit /\ [][RulesNext]_rulesVars

------------------------------------------------------------------------------
RulesTypeOK ==
  /\ now \in Nat
  /\ created \subseteq Programs /\ paused \subseteq created
  /\ rules \subseteq Rules /\ requests \subseteq Rules
  /\ DOMAIN owner \subseteq Codes
  /\ \A c \in DOMAIN owner : owner[c] \in created \X Partners

(* Rules of one scope are never in effect at the same instant, whatever     *)
(* instants were frozen before the lock and however rules are back-dated:   *)
(* the recency and the id never have to decide.                             *)
OneRulePerScope ==
  \A r, s \in rules : \A at \in Nat :
    SameScope(r, s) /\ IsEffectiveAt(r, at) /\ IsEffectiveAt(s, at) => r = s

Fits(r, program, partner, category) ==
  r.program = program /\ r.partner \in {{partner}, Null} /\ r.category \in {{category}, Null}

(* The rule stored with an earning is still one of its program, meant for   *)
(* its partner or any and its category or any, and was in effect then.      *)
SnapshotsFit ==
  \A x \in snapshots : \A r \in x.rule :
    r \in rules /\ Fits(r, x.program, x.partner, x.category) /\ IsEffectiveAt(r, x.at)

(* The scope a preview tells is that of the one rule to be paid: no rule in *)
(* effect that fits is of a more specific one, nor is there another of the  *)
(* same, and without any rule none fits.                                    *)
PreviewIsMostSpecific ==
  \A program \in Programs, partner \in Partners, category \in Categories, at \in Nat :
    LET scope == PreviewScope(program, partner, category, at)
        selected == SelectApplicableRule(program, partner, category, at)
        fitting == {r \in rules : Fits(r, program, partner, category) /\ IsEffectiveAt(r, at)}
    IN  /\ scope = "none" => fitting = {}
        /\ scope = "fallback" => fitting = selected
        /\ scope = "category" => \A r \in fitting \ selected : r.partner = Null /\ r.category = Null
        /\ scope = "partner" => \A r \in fitting \ selected : r.partner = Null
        /\ scope = "partner_category" =>
             \A r \in fitting \ selected : r.partner = Null \/ r.category = Null
==============================================================================
