--------------------------- MODULE LockOrder_proofs ---------------------------
(***************************************************************************)
(* Proofs about LockOrder: apart from the guide, the reset and the owner's *)
(* list of claims, the transactions of the API never wait for one another  *)
(* in a cycle, for every number of sessions.                               *)
(***************************************************************************)
EXTENDS LockOrder, TLAPS

OrderedHandlers == DOMAIN Plans \ {"advance", "reset", "owner_claims"}

Modes == {"key_share", "share", "no_key_update", "update"}

ItemRows == {"items_a", "items_b"}

\* Unique keys that inserts wait for, with at most the organisation to follow.
LastRows == {"new_code", "webhook_event"}

\* The rows, except for the items of claims, that are locked under the
\* reservation lock.
InnerRows == {"complete_record", "retry_record", "refund_record", "conversion",
              "conversion_item", "earning", "holds", "ledger", "claim_a", "claim_b",
              "partner", "user", "challenge", "outbox"}

\* The order in which transactions lock rows without it.
Rank ==
  [row \in {"create_record", "code", "program", "partner", "event", "outbox",
            "claim_a", "claim_b"} |->
     CASE row = "create_record" -> 1
       [] row = "code" -> 2
       [] row = "program" -> 3
       [] OTHER -> 4]

------------------------------------------------------------------------------
(* The discipline of the plans.                                            *)

WellFormed(p) ==
  /\ Len(p) \in Nat
  /\ \A i \in 1..Len(p) :
       /\ p[i] = <<p[i][1], p[i][2]>>
       /\ p[i][2] \in Modes
       /\ p[i][1] = "organization" => p[i][2] \in {"key_share", "share"}
       /\ p[i][1] = Reservations[1] => p[i] = Reservations

\* Under the reservation lock only inner rows and items are waited for.  The
\* items of a claim are locked after the claim.  Without the reservation lock, a
\* transaction that has an inner row waits for items, for a unique key or for the
\* organisation only, and otherwise the rows follow the ranks.
Ordered(p) ==
  \A n \in 0..(Len(p) - 1) :
    LET had  == {p[i] : i \in 1..n}
        next == p[n + 1]
    IN  /\ Reservations \in had => next[1] \in InnerRows \cup ItemRows \cup {"organization"}
        /\ \A c \in Claims : next[1] = ItemsRow[c] => Claim(c) \in had
        /\ (\E lock \in had : lock[1] \in LastRows) => next[1] = "organization"
        /\ Reservations \notin had
             /\ next[1] \notin ItemRows \cup LastRows \cup {"organization"} =>
             /\ \A lock \in had : lock[1] \notin InnerRows
             /\ next # Reservations =>
                  /\ next[1] \in DOMAIN Rank
                  /\ \A lock \in had : lock[1] # "organization" =>
                       lock[1] \in DOMAIN Rank /\ Rank[lock[1]] < Rank[next[1]]

Disciplined(p) == WellFormed(p) /\ Ordered(p)

------------------------------------------------------------------------------
(* Plans that start with the reservation lock.                             *)

\* What may follow it.
Fitting ==
  (InnerRows \X Modes) \cup {KeyShare("organization"), Share("organization")}
    \cup {Items(c) : c \in Claims}

Covered(s) ==
  \A i \in 1..Len(s), c \in Claims : s[i] = Items(c) => \E k \in 1..(i - 1) : s[k] = Claim(c)

Kept(s) == s \in Seq(Fitting) /\ Covered(s)

Reserved(p) ==
  /\ p \in Seq(Fitting \cup {Reservations}) /\ Len(p) # 0
  /\ \A i \in 1..Len(p) : p[i] = Reservations <=> i = 1
  /\ Covered(p)

LEMMA FittingLocks ==
  \A lock \in Fitting : /\ lock = <<lock[1], lock[2]>>
                        /\ lock[1] \in InnerRows \cup ItemRows \cup {"organization"}
                        /\ lock[2] \in Modes
                        /\ lock # Reservations /\ lock[1] # Reservations[1]
                        /\ lock[1] = "organization" => lock[2] \in {"key_share", "share"}
                        /\ lock[1] \notin LastRows
                        /\ \A c \in Claims : lock[1] = ItemsRow[c] => lock = Items(c)
BY DEF Fitting, InnerRows, ItemRows, LastRows, Modes, KeyShare, Share, Items, ItemsRow,
       Claims, Reservations, Update

\* A plan that starts with the reservation lock is disciplined if only fitting locks
\* follow, items after their claim.
LEMMA ReservedIsDisciplined ==
  ASSUME NEW p, Reserved(p)
  PROVE  Disciplined(p)
<1>1. \A i \in 1..Len(p) : p[i] \in Fitting \/ (i = 1 /\ p[i] = Reservations)
  BY DEF Reserved
<1>2. WellFormed(p)
  <2>1. Reservations = <<Reservations[1], Reservations[2]>> /\ Reservations[2] \in Modes
        /\ Reservations[1] # "organization"
    BY DEF Reservations, Update, Modes
  <2> QED BY <1>1, <2>1, FittingLocks DEF Reserved, WellFormed
<1>3. ASSUME NEW n \in 0..(Len(p) - 1), n # 0
      PROVE  p[n + 1] \in Fitting /\ n + 1 \in 1..Len(p) /\ p[1] = Reservations /\ 1 \in 1..n
  BY <1>3 DEF Reserved
<1>4. ASSUME NEW n \in 0..(Len(p) - 1), NEW c \in Claims, p[n + 1][1] = ItemsRow[c]
      PROVE  Claim(c) \in {p[i] : i \in 1..n}
  <2>1. n # 0
    <3>1. Reservations[1] # ItemsRow[c]
      BY DEF Reservations, Update, ItemsRow, Claims
    <3> QED BY <1>4, <3>1 DEF Reserved
  <2>2. p[n + 1] = Items(c)
    BY <1>3, <1>4, <2>1, FittingLocks
  <2> QED BY <1>3, <2>1, <2>2 DEF Reserved, Covered
<1>5. \A i \in 1..Len(p) : p[i][1] \notin LastRows
  <2>1. Reservations[1] \notin LastRows
    BY DEF Reservations, Update, LastRows
  <2> QED BY <1>1, <2>1, FittingLocks
<1>6. ASSUME NEW n \in 0..(Len(p) - 1)
      PROVE  LET had  == {p[i] : i \in 1..n}
                 next == p[n + 1]
             IN  /\ Reservations \in had =>
                      next[1] \in InnerRows \cup ItemRows \cup {"organization"}
                 /\ Reservations \notin had => next = Reservations /\ had = {}
  <2>1. CASE n = 0
    BY <2>1 DEF Reserved
  <2>2. CASE n # 0
    BY <1>3, <2>2, FittingLocks
  <2> QED BY <2>1, <2>2
<1>7. ASSUME NEW n \in 0..(Len(p) - 1)
      PROVE  \A lock \in {p[i] : i \in 1..n} : lock[1] \notin LastRows
  BY <1>5 DEF Reserved
<1> QED BY <1>2, <1>4, <1>6, <1>7 DEF Disciplined, Ordered

\* Such a plan may be continued.
LEMMA KeptFollows ==
  ASSUME NEW p, Reserved(p), NEW s, Kept(s)
  PROVE  Reserved(p \o s)
<1>1. /\ p \in Seq(Fitting \cup {Reservations}) /\ s \in Seq(Fitting)
      /\ Len(p) \in Nat /\ Len(s) \in Nat /\ Len(p \o s) = Len(p) + Len(s)
      /\ p \o s \in Seq(Fitting \cup {Reservations})
  BY DEF Reserved, Kept
<1>2. \A i \in 1..Len(p) : (p \o s)[i] = p[i]
  BY <1>1
<1>3. \A i \in (Len(p) + 1)..(Len(p) + Len(s)) :
        /\ i - Len(p) \in 1..Len(s) /\ (p \o s)[i] = s[i - Len(p)] /\ (p \o s)[i] \in Fitting
  BY <1>1
<1>4. \A i \in 1..Len(p \o s) : (p \o s)[i] = Reservations <=> i = 1
  BY <1>1, <1>2, <1>3, FittingLocks DEF Reserved
<1>5. ASSUME NEW i \in 1..Len(p \o s), NEW c \in Claims, (p \o s)[i] = Items(c)
      PROVE  \E k \in 1..(i - 1) : (p \o s)[k] = Claim(c)
  <2>1. CASE i \in 1..Len(p)
    BY <1>1, <1>2, <1>5, <2>1 DEF Reserved, Covered
  <2>2. CASE i \notin 1..Len(p)
    <3>1. i - Len(p) \in 1..Len(s) /\ s[i - Len(p)] = Items(c)
      BY <1>1, <1>3, <1>5, <2>2
    <3>2. PICK k \in 1..(i - Len(p) - 1) : s[k] = Claim(c)
      BY <3>1 DEF Kept, Covered
    <3>3. k + Len(p) \in (Len(p) + 1)..(Len(p) + Len(s)) /\ k + Len(p) \in 1..(i - 1)
      BY <1>1, <3>1, <3>2
    <3>4. (p \o s)[k + Len(p)] = s[k + Len(p) - Len(p)] /\ k + Len(p) - Len(p) = k
      BY <1>1, <1>3, <3>2, <3>3
    <3> QED BY <3>2, <3>3, <3>4
  <2> QED BY <2>1, <2>2
<1> QED BY <1>1, <1>4, <1>5 DEF Reserved, Covered

\* The locks of failAffected keep to this.
LEMMA FailedIsKept ==
  ASSUME NEW failed \in FailAffected
  PROVE  Kept(failed)
<1> USE DEF Claim, Items, ClaimRow, ItemsRow, Update, Claims
<1>1. Fitting = (InnerRows \X Modes) \cup {KeyShare("organization"), Share("organization")}
                  \cup {Items("a"), Items("b")}
  BY DEF Fitting
<1> USE <1>1 DEF Kept, Covered, InnerRows, Modes
<1>2. Kept(<<>>)
  OBVIOUS
<1>3. Kept(<<Claim("a"), Items("a"), Update("earning")>>)
  OBVIOUS
<1>4. Kept(<<Claim("b"), Items("b"), Update("earning")>>)
  OBVIOUS
<1>5. Kept(<<Claim("a"), Claim("b"), Items("a"), Items("b"), Update("earning")>>)
  <2> DEFINE s == <<Claim("a"), Claim("b"), Items("a"), Items("b"), Update("earning")>>
  <2>1. s \in Seq(Fitting) /\ Len(s) = 5
    OBVIOUS
  <2>2. s[1] = Claim("a") /\ s[2] = Claim("b")
    OBVIOUS
  <2>3. \A i \in 1..5 : (s[i] = Items("a") => i = 3) /\ (s[i] = Items("b") => i = 4)
    <3>1. s[1] # Items("a") /\ s[2] # Items("a") /\ s[4] # Items("a") /\ s[5] # Items("a")
      OBVIOUS
    <3>2. s[1] # Items("b") /\ s[2] # Items("b") /\ s[3] # Items("b") /\ s[5] # Items("b")
      OBVIOUS
    <3> HIDE DEF s, Items
    <3> QED BY <3>1, <3>2
  <2> HIDE DEF s, Items, Claim
  <2> QED BY <2>1, <2>2, <2>3
<1> HIDE DEF Kept, Claim, Items
<1> QED BY <1>2, <1>3, <1>4, <1>5 DEF FailAffected

\* Plans of one claim with other rows between it and its items.
LEMMA ClaimBeforeItems ==
  ASSUME NEW s \in Seq(Fitting \cup {Reservations}), NEW c \in Claims,
         Len(s) \in {6, 7}, s[1] = Reservations, s[2] = Claim(c),
         NEW n \in {5, 6}, s[n] = Items(c),
         \A i \in 3..Len(s) : i # n => s[i] # Reservations /\ \A d \in Claims : s[i] # Items(d)
  PROVE  Reserved(s)
<1> USE DEF Reservations, Claim, Items, ClaimRow, ItemsRow, Update, Claims
<1>1. \A d \in Claims : /\ Reservations # Items(d) /\ Reservations # Claim(d)
                        /\ Claim(c) # Items(d) /\ (Items(c) = Items(d) => c = d)
  OBVIOUS
<1> HIDE DEF Reservations, Claim, Items, Claims
<1> QED BY <1>1 DEF Reserved, Covered

------------------------------------------------------------------------------
\* Every other transaction of the API follows the discipline.
LEMMA PlansAreDisciplined ==
  ASSUME NEW name \in OrderedHandlers, NEW p \in Plans[name]
  PROVE  Disciplined(p)
<1> USE DEF Update, NoKeyUpdate, Share, KeyShare, Audit
<1>1. Fitting = (InnerRows \X Modes) \cup {KeyShare("organization"), Share("organization")}
                  \cup {Items("a"), Items("b")}
  BY DEF Fitting, Claims
<1>2. /\ Kept(Audit) /\ Kept(<<Update("holds")>>)
      /\ Kept(<<Update("holds"), KeyShare("partner")>>)
  BY <1>1 DEF Kept, Covered, InnerRows, Modes, Items, ItemsRow, Claims
<1>3. Reserved(Partner)
  BY <1>1 DEF Partner, Reserved, Covered, Reservations, InnerRows, Modes, Items, ItemsRow,
              Claims
\* Under the reservation lock.
<1>4. Disciplined(CompleteConversion)
  <2>1. Reserved(CompleteConversion)
    BY <1>1 DEF CompleteConversion, Reserved, Covered, Reservations, InnerRows, Modes, Items,
                ItemsRow, Claims
  <2> QED BY <2>1, ReservedIsDisciplined
<1>5. \A failed \in FailAffected : Disciplined(CancelConversion(failed))
  <2>1. Reserved(<<Reservations, Update("conversion"), Update("earning")>>)
    BY <1>1 DEF Reserved, Covered, Reservations, InnerRows, Modes, Items,
                ItemsRow, Claims
  <2> QED BY <1>2, <2>1, FailedIsKept, KeptFollows, ReservedIsDisciplined DEF CancelConversion
<1>6. \A failed \in FailAffected : Disciplined(HoldEarning(failed))
  <2>1. Reserved(<<Reservations, Update("earning"), Update("conversion_item"),
                   Update("conversion"), Update("holds")>>)
    BY <1>1 DEF Reserved, Covered, Reservations, InnerRows, Modes, Items,
                ItemsRow, Claims
  <2> QED BY <1>2, <2>1, FailedIsKept, KeptFollows, ReservedIsDisciplined DEF HoldEarning
<1>7. \A failed \in FailAffected : Disciplined(VoidEarning(failed))
  <2>1. Reserved(<<Reservations, Update("earning"), Update("conversion_item"),
                   Update("conversion")>>)
    BY <1>1 DEF Reserved, Covered, Reservations, InnerRows, Modes, Items,
                ItemsRow, Claims
  <2> QED BY <1>2, <2>1, FailedIsKept, KeptFollows, ReservedIsDisciplined DEF VoidEarning
<1>8. \A failed \in FailAffected : Disciplined(SuspendPartner(failed))
  <2>1. Reserved(<<Reservations, Update("partner"), Update("earning")>>)
    BY <1>1 DEF Reserved, Covered, Reservations, InnerRows, Modes, Items,
                ItemsRow, Claims
  <2> QED BY <1>2, <2>1, FailedIsKept, KeptFollows, ReservedIsDisciplined DEF SuspendPartner
<1>9. \A failed \in FailAffected : Disciplined(RefundConversion(failed))
  <2>1. Reserved(<<Reservations, Update("refund_record"), KeyShare("organization"),
                   Share("organization"), Update("conversion"), Update("conversion_item"),
                   Update("earning"), Update("ledger")>>)
    BY <1>1 DEF Reserved, Covered, Reservations, InnerRows, Modes, Items,
                ItemsRow, Claims
  <2> QED BY <1>2, <2>1, FailedIsKept, KeptFollows, ReservedIsDisciplined DEF RefundConversion
<1>10. Disciplined(CreateChallenge)
  <2>1. Kept(<<Update("earning"), NoKeyUpdate("challenge"), Update("outbox")>>)
    BY <1>1 DEF Kept, Covered, InnerRows, Modes, Items, ItemsRow, Claims
  <2> QED BY <1>2, <1>3, <2>1, KeptFollows, ReservedIsDisciplined DEF CreateChallenge
<1>11. Disciplined(AnswerChallenge)
  <2>1. Kept(<<Update("challenge"), Update("outbox")>>)
    BY <1>1 DEF Kept, Covered, InnerRows, Modes, Items, ItemsRow, Claims
  <2> QED BY <1>2, <1>3, <2>1, KeptFollows, ReservedIsDisciplined DEF AnswerChallenge
<1>12. Disciplined(CreateClaim)
  <2>1. Kept(<<Update("challenge"), Update("earning")>>)
    BY <1>1 DEF Kept, Covered, InnerRows, Modes, Items, ItemsRow, Claims
  <2> QED BY <1>2, <1>3, <2>1, KeptFollows, ReservedIsDisciplined DEF CreateClaim
<1>13. \A c \in Claims : Disciplined(ReplayClaim(c)) /\ Disciplined(PartnerClaim(c))
  <2>1. Kept(<<Claim("a"), Items("a")>>) /\ Kept(<<Claim("b"), Items("b")>>)
    BY <1>1 DEF Kept, Covered, InnerRows, Modes, Claim, Items, ClaimRow, ItemsRow, Claims
  <2>2. \A c \in Claims : Kept(<<Claim(c), Items(c), Update("earning")>>)
    <3>1. <<Claim("a"), Items("a"), Update("earning")>> \in FailAffected
          /\ <<Claim("b"), Items("b"), Update("earning")>> \in FailAffected
      BY DEF FailAffected
    <3> QED BY <3>1, FailedIsKept DEF Claims
  <2>3. \A c \in Claims : Kept(<<Claim(c), Items(c)>>)
    BY <2>1 DEF Claims
  <2> QED BY <1>3, <2>2, <2>3, KeptFollows, ReservedIsDisciplined DEF ReplayClaim, PartnerClaim
<1>14. \A c \in Claims : Disciplined(SimulateClaim(c))
  <2> SUFFICES ASSUME NEW c \in Claims PROVE Disciplined(SimulateClaim(c))
    OBVIOUS
  <2> DEFINE s == <<Reservations, Claim(c), Update("partner"), Update("user"), Items(c),
                    Update("earning")>>
  <2>1. /\ s \in Seq(Fitting \cup {Reservations}) /\ Len(s) = 6
        /\ s[1] = Reservations /\ s[2] = Claim(c) /\ s[5] = Items(c)
        /\ s[3] = Update("partner") /\ s[4] = Update("user") /\ s[6] = Update("earning")
    BY <1>1 DEF Reservations, InnerRows, Modes, Claim, Items, ClaimRow, ItemsRow, Claims
  <2> HIDE DEF s
  <2>2. Reserved(s)
    <3>1. \A i \in 3..Len(s) : i # 5 =>
            s[i] # Reservations /\ \A d \in Claims : s[i] # Items(d)
      BY <2>1 DEF Reservations, Items, ItemsRow, Claims
    <3> QED BY <2>1, <3>1, ClaimBeforeItems
  <2> QED BY <1>2, <2>2, KeptFollows, ReservedIsDisciplined DEF SimulateClaim, s
<1>15. \A c \in Claims : Disciplined(RetryClaim(c))
  <2> SUFFICES ASSUME NEW c \in Claims PROVE Disciplined(RetryClaim(c))
    OBVIOUS
  <2> DEFINE s == RetryClaim(c)
  <2>1. /\ s \in Seq(Fitting \cup {Reservations}) /\ Len(s) = 7
        /\ s[1] = Reservations /\ s[2] = Claim(c) /\ s[6] = Items(c)
        /\ s[3] = Update("retry_record") /\ s[4] = KeyShare("organization")
        /\ s[5] = Update("partner") /\ s[7] = Update("earning")
    BY <1>1 DEF RetryClaim, Reservations, InnerRows, Modes, Claim, Items, ClaimRow, ItemsRow,
                Claims
  <2> HIDE DEF s
  <2>2. Reserved(s)
    <3>1. \A i \in 3..Len(s) : i # 6 =>
            s[i] # Reservations /\ \A d \in Claims : s[i] # Items(d)
      BY <2>1 DEF Reservations, Items, ItemsRow, Claims
    <3> QED BY <2>1, <3>1, ClaimBeforeItems
  <2> QED BY <2>2, ReservedIsDisciplined DEF s
<1>16. Disciplined(PartnerClaims)
  <2>1. Kept(<<Claim("a"), Claim("b"), Items("a"), Items("b")>>)
    BY <1>1 DEF Kept, Covered, InnerRows, Modes, Claim, Items, ClaimRow, ItemsRow, Claims
  <2>2. Kept(<<Claim("b"), Claim("a"), Items("a"), Items("b")>>)
    BY <1>1 DEF Kept, Covered, InnerRows, Modes, Claim, Items, ClaimRow, ItemsRow, Claims
  <2> QED BY <1>3, <2>1, <2>2, NewestAssumption, KeptFollows, ReservedIsDisciplined
             DEF PartnerClaims
\* Without it, or before it.
<1> USE DEF Disciplined, WellFormed, Ordered, Modes, InnerRows, ItemRows, LastRows, Rank,
            Reservations, Claims, Claim, Items, ClaimRow, ItemsRow
<1>17. Disciplined(CreateConversion) BY DEF CreateConversion
<1>18. \A c \in Claims : Disciplined(OwnerClaim(c)) BY DEF OwnerClaim
<1>19. Disciplined(ReceiveEvent) BY DEF ReceiveEvent
<1>20. Disciplined(RetryEvent) BY DEF RetryEvent
<1>21. Disciplined(CreateRule) BY DEF CreateRule
<1>22. Disciplined(SetProgramState)
  <2>1. /\ Len(SetProgramState) = 2 /\ SetProgramState[1] = Update("program")
        /\ SetProgramState[2] = KeyShare("organization")
    BY DEF SetProgramState
  <2> QED BY <2>1
<1>23. Disciplined(CreateCode) BY DEF CreateCode
<1>24. Disciplined(Dispatch) BY DEF Dispatch
<1>25. Disciplined(ApplyWebhook)
  <2>1. /\ Len(ApplyWebhook) = 3 /\ ApplyWebhook[1] = Update("outbox")
        /\ ApplyWebhook[2] = Update("webhook_event")
        /\ ApplyWebhook[3] = KeyShare("organization")
    BY DEF ApplyWebhook
  <2> QED BY <2>1
<1>26. Disciplined(ReadWorkspace) BY DEF ReadWorkspace
<1> HIDE DEF Disciplined
<1> QED
  BY <1>4, <1>5, <1>6, <1>7, <1>8, <1>9, <1>10, <1>11, <1>12, <1>13, <1>14, <1>15, <1>16,
     <1>17, <1>18, <1>19, <1>20, <1>21, <1>22, <1>23, <1>24, <1>25, <1>26
     DEF Plans, OrderedHandlers

------------------------------------------------------------------------------
(* Sessions.                                                               *)

AllPlans == UNION {Plans[name] : name \in Handlers}

\* Locks that different sessions have do not exclude one another.
LockInv ==
  /\ plan \in [Sessions -> AllPlans \cup {<<>>}]
  /\ taken \in [Sessions -> Nat]
  /\ \A s \in Sessions : taken[s] <= Len(plan[s])
  /\ \A s, t \in Sessions :
       s # t => \A have \in Held(s), other \in Held(t) : ~Conflict(have, other)

\* Ending a transaction gives its locks back.
LEMMA EndKeepsLockInv ==
  ASSUME LockInv, NEW s \in Sessions, End(s)
  PROVE  LockInv'
<1>1. \A t \in Sessions : Held(t)' = IF t = s THEN {} ELSE Held(t)
  <2>1. \A t \in Sessions \ {s} : Held(t)' = Held(t)
    BY DEF LockInv, End, Held
  <2>2. taken'[s] = 0
    BY DEF LockInv, End
  <2>3. Held(s)' = {}
    BY <2>2 DEF Held
  <2> QED BY <2>1, <2>3
<1>2. \A t \in Sessions : taken'[t] <= Len(plan'[t])
  BY DEF LockInv, End
<1> QED BY <1>1, <1>2 DEF LockInv, End

\* A running session's plan is disciplined.
LEMMA RunningIsDisciplined ==
  ASSUME Handlers \subseteq OrderedHandlers, LockInv, NEW s \in Sessions, Running(s)
  PROVE  Disciplined(plan[s])
BY PlansAreDisciplined DEF LockInv, Running, AllPlans

\* A session that has acquired the lock it wanted has one more, which no lock
\* of another excludes.
LEMMA AcquireKeepsLockInv ==
  ASSUME Handlers \subseteq OrderedHandlers, LockInv, NEW s \in Sessions, Acquire(s)
  PROVE  LockInv'
<1>1. /\ taken[s] \in Nat /\ Running(s) /\ taken[s] <= Len(plan[s])
      /\ taken[s] # Len(plan[s])
      /\ taken' = [taken EXCEPT ![s] = @ + 1] /\ UNCHANGED plan
      /\ Blockers(s) = {}
  BY DEF LockInv, Acquire, Waiting, Finished
<1>2. WellFormed(plan[s])
  BY <1>1, RunningIsDisciplined DEF Disciplined
<1>3. Held(s)' = Held(s) \cup {Wanted(s)}
  <2>1. 1..(taken[s] + 1) = 1..taken[s] \cup {taken[s] + 1}
    BY <1>1
  <2>2. taken'[s] = taken[s] + 1
    BY <1>1 DEF LockInv
  <2> QED BY <1>1, <2>1, <2>2 DEF Held, Wanted
<1>4. \A t \in Sessions \ {s} : Held(t)' = Held(t)
  BY <1>1 DEF LockInv, Held
<1>5. ASSUME NEW t \in Sessions \ {s}, NEW have \in Held(t)
      PROVE  ~Conflict(have, Wanted(s)) /\ ~Conflict(Wanted(s), have)
  <2>1. ~Conflict(have, Wanted(s))
    BY <1>1 DEF Blockers
  <2>2. Running(t) /\ \E i \in 1..taken[t] : have = plan[t][i]
    <3>1. PICK i \in 1..taken[t] : have = plan[t][i]
      BY DEF Held
    <3>2. plan[t] # <<>>
      BY <3>1 DEF LockInv
    <3> QED BY <3>1, <3>2 DEF Running
  <2>3. have[2] \in Modes
    BY <2>2, RunningIsDisciplined DEF Disciplined, WellFormed, LockInv
  <2>4. Wanted(s)[2] \in Modes
    BY <1>1, <1>2 DEF Wanted, WellFormed
  <2>5. \A m, n \in Modes : m \in Excludes[n] <=> n \in Excludes[m]
    BY DEF Modes, Excludes
  <2> QED BY <2>1, <2>3, <2>4, <2>5 DEF Conflict
<1>6. ASSUME NEW q \in Sessions, NEW t \in Sessions, q # t,
             NEW have \in Held(q)', NEW other \in Held(t)'
      PROVE  ~Conflict(have, other)
  <2>1. CASE q = s
    BY <1>3, <1>4, <1>5, <1>6, <2>1 DEF LockInv
  <2>2. CASE t = s
    BY <1>3, <1>4, <1>5, <1>6, <2>2 DEF LockInv
  <2>3. CASE q # s /\ t # s
    BY <1>4, <1>6, <2>3 DEF LockInv
  <2> QED BY <2>1, <2>2, <2>3
<1>7. \A t \in Sessions : taken'[t] <= Len(plan'[t])
  BY <1>1, <1>2 DEF LockInv, WellFormed
<1>8. \A q, t \in Sessions :
        q # t => \A have \in Held(q)', other \in Held(t)' : ~Conflict(have, other)
  BY <1>6
<1>9. plan' \in [Sessions -> AllPlans \cup {<<>>}] /\ taken' \in [Sessions -> Nat]
  BY <1>1 DEF LockInv
<1> QED BY <1>7, <1>8, <1>9 DEF LockInv, Conflict

LEMMA LockInvHolds ==
  ASSUME Handlers \subseteq OrderedHandlers
  PROVE  Spec => []LockInv
<1>1. Init => LockInv
  <2> SUFFICES ASSUME Init PROVE LockInv
    OBVIOUS
  <2>1. \A s \in Sessions : taken[s] = 0 /\ plan[s] = <<>>
    BY DEF Init
  <2>2. \A s \in Sessions : Held(s) = {}
    BY <2>1 DEF Held
  <2> QED BY <2>1, <2>2 DEF Init, LockInv
<1>2. LockInv /\ [Next]_vars => LockInv'
  <2> SUFFICES ASSUME LockInv, [Next]_vars PROVE LockInv'
    OBVIOUS
  <2>1. ASSUME NEW s \in Sessions, Begin(s) PROVE LockInv'
    <3>1. PICK name \in Handlers : \E p \in Plans[name] : plan' = [plan EXCEPT ![s] = p]
      BY <2>1 DEF Begin
    <3>2. PICK p \in Plans[name] : plan' = [plan EXCEPT ![s] = p]
      BY <3>1
    <3>3. taken[s] = 0 /\ UNCHANGED taken
      BY <2>1 DEF Begin, LockInv, Running
    <3>4. Len(p) \in Nat
      BY PlansAreDisciplined DEF Disciplined, WellFormed
    <3>5. \A t \in Sessions : Held(t)' = IF t = s THEN {} ELSE Held(t)
      <4>1. \A t \in Sessions \ {s} : Held(t)' = Held(t)
        BY <3>2, <3>3 DEF LockInv, Held
      <4>2. 1..taken'[s] = {}
        BY <3>3
      <4>3. Held(s)' = {}
        BY <4>2 DEF Held
      <4> QED BY <4>1, <4>3
    <3>6. \A t \in Sessions : taken'[t] <= Len(plan'[t])
      BY <3>2, <3>3, <3>4 DEF LockInv
    <3>7. plan' \in [Sessions -> AllPlans \cup {<<>>}]
      BY <3>2 DEF LockInv, AllPlans
    <3> QED BY <3>3, <3>5, <3>6, <3>7 DEF LockInv
  <2>2. ASSUME NEW s \in Sessions, Acquire(s) PROVE LockInv'
    BY <2>2, AcquireKeepsLockInv
  <2>3. ASSUME NEW s \in Sessions, Commit(s) \/ Refuse(s) PROVE LockInv'
    BY <2>3, EndKeepsLockInv DEF Commit, Refuse
  <2>4. CASE UNCHANGED vars
    BY <2>4 DEF vars, LockInv, Held
  <2> QED BY <2>1, <2>2, <2>3, <2>4 DEF Next
<1> QED BY <1>1, <1>2, PTL DEF Spec

------------------------------------------------------------------------------
(* No cycle.                                                               *)

\* What a waiting session has and wants is a position of its plan.
LEMMA WaitingIsDisciplined ==
  ASSUME Handlers \subseteq OrderedHandlers, LockInv, NEW s \in Sessions, Waiting(s)
  PROVE  /\ Reservations \in Held(s) =>
              Wanted(s)[1] \in InnerRows \cup ItemRows \cup {"organization"}
         /\ \A c \in Claims : Wanted(s)[1] = ItemsRow[c] => Claim(c) \in Held(s)
         /\ \A c \in Claims : \A lock \in Held(s) :
              lock[1] = ItemsRow[c] => Claim(c) \in Held(s)
         /\ (\E lock \in Held(s) : lock[1] \in LastRows) => Wanted(s)[1] = "organization"
         /\ Reservations \notin Held(s)
              /\ Wanted(s)[1] \notin ItemRows \cup LastRows \cup {"organization"} =>
              /\ \A lock \in Held(s) : lock[1] \notin InnerRows
              /\ Wanted(s) # Reservations =>
                   /\ Wanted(s)[1] \in DOMAIN Rank
                   /\ \A lock \in Held(s) : lock[1] # "organization" =>
                        lock[1] \in DOMAIN Rank /\ Rank[lock[1]] < Rank[Wanted(s)[1]]
         /\ \A lock \in Held(s) \cup {Wanted(s)} :
              /\ lock[2] \in Modes
              /\ lock[1] = "organization" => lock[2] \in {"key_share", "share"}
              /\ lock[1] = Reservations[1] => lock = Reservations
<1> DEFINE p == plan[s]
           n == taken[s]
<1>1. n \in Nat /\ Running(s) /\ n <= Len(p) /\ n # Len(p)
  BY DEF LockInv, Waiting, Finished
<1>2. WellFormed(p) /\ Ordered(p)
  BY <1>1, RunningIsDisciplined DEF Disciplined
<1>3. n \in 0..(Len(p) - 1)
  BY <1>1, <1>2 DEF WellFormed
<1>4. Held(s) = {p[i] : i \in 1..n} /\ Wanted(s) = p[n + 1]
  BY DEF Held, Wanted
<1>5. \A i \in 1..n \cup {n + 1} : i \in 1..Len(p)
  BY <1>1, <1>2 DEF WellFormed
<1> HIDE DEF p, n
<1>6. ASSUME NEW c \in Claims, NEW i \in 1..n, p[i][1] = ItemsRow[c]
      PROVE  Claim(c) \in Held(s)
  <2>1. i - 1 \in 0..(Len(p) - 1) /\ i - 1 + 1 = i
    BY <1>1, <1>2 DEF WellFormed
  <2>2. Claim(c) \in {p[k] : k \in 1..(i - 1)}
    BY <1>2, <1>6, <2>1 DEF Ordered
  <2>3. 1..(i - 1) \subseteq 1..n
    BY <1>1
  <2> QED BY <1>4, <2>2, <2>3
<1>7. /\ Reservations \in Held(s) =>
           Wanted(s)[1] \in InnerRows \cup ItemRows \cup {"organization"}
      /\ \A c \in Claims : Wanted(s)[1] = ItemsRow[c] => Claim(c) \in Held(s)
      /\ (\E lock \in Held(s) : lock[1] \in LastRows) => Wanted(s)[1] = "organization"
      /\ Reservations \notin Held(s)
           /\ Wanted(s)[1] \notin ItemRows \cup LastRows \cup {"organization"} =>
           /\ \A lock \in Held(s) : lock[1] \notin InnerRows
           /\ Wanted(s) # Reservations =>
                /\ Wanted(s)[1] \in DOMAIN Rank
                /\ \A lock \in Held(s) : lock[1] # "organization" =>
                     lock[1] \in DOMAIN Rank /\ Rank[lock[1]] < Rank[Wanted(s)[1]]
  BY <1>2, <1>3, <1>4 DEF Ordered
<1>8. \A c \in Claims : \A lock \in Held(s) : lock[1] = ItemsRow[c] => Claim(c) \in Held(s)
  BY <1>4, <1>6
<1>9. \A lock \in Held(s) \cup {Wanted(s)} :
        /\ lock[2] \in Modes
        /\ lock[1] = "organization" => lock[2] \in {"key_share", "share"}
        /\ lock[1] = Reservations[1] => lock = Reservations
  <2>1. \A lock \in Held(s) \cup {Wanted(s)} : \E i \in 1..Len(p) : lock = p[i]
    BY <1>4, <1>5
  <2> QED BY <1>2, <2>1 DEF WellFormed
<1> QED BY <1>7, <1>8, <1>9

\* Apart from the guide, the reset and the owner's list of claims, transactions of
\* the API never wait for one another, whichever of them run in however many
\* sessions and whichever claims they concern: the reservation lock, the claim row
\* above its items and the order of the rows locked outside leave no cycle (the
\* lock statements of claims.service.ts, claim.repository.ts and their neighbours).
THEOREM ApiNeverDeadlocks ==
  ASSUME Handlers \subseteq OrderedHandlers
  PROVE  Spec => []NoDeadlock
<1>1. LockInv => NoDeadlock
  <2> SUFFICES ASSUME LockInv, NEW cycle \in (SUBSET Sessions) \ {{}},
                      \A s \in cycle : Waiting(s) /\ Blockers(s) \cap cycle # {}
               PROVE  FALSE
    BY DEF NoDeadlock
  <2>1. ASSUME NEW s \in cycle
        PROVE  \E t \in cycle \ {s} : \E lock \in Held(t) :
                 lock[1] = Wanted(s)[1] /\ lock[2] \in Excludes[Wanted(s)[2]]
    BY DEF Blockers, Conflict
  \* Only share modes are used on the organisation, so nobody waits for it.
  <2>2. ASSUME NEW s \in cycle PROVE Wanted(s)[1] # "organization"
    <3>1. PICK t \in cycle \ {s} : \E lock \in Held(t) :
            lock[1] = Wanted(s)[1] /\ lock[2] \in Excludes[Wanted(s)[2]]
      BY <2>1
    <3>2. PICK lock \in Held(t) :
            lock[1] = Wanted(s)[1] /\ lock[2] \in Excludes[Wanted(s)[2]]
      BY <3>1
    <3>3. SUFFICES ASSUME Wanted(s)[1] = "organization" PROVE FALSE
      OBVIOUS
    <3>4. {lock[2], Wanted(s)[2]} \subseteq {"key_share", "share"}
      BY <3>2, <3>3, WaitingIsDisciplined
    <3> QED BY <3>2, <3>4 DEF Excludes
  \* Who waits for the items of a claim has the claim, and so has who holds them.
  <2>3. ASSUME NEW s \in cycle PROVE Wanted(s)[1] \notin ItemRows
    <3> SUFFICES ASSUME Wanted(s)[1] \in ItemRows PROVE FALSE
      OBVIOUS
    <3>1. PICK c \in Claims : Wanted(s)[1] = ItemsRow[c]
      BY DEF ItemRows, Claims, ItemsRow
    <3>2. PICK t \in cycle \ {s} : \E lock \in Held(t) : lock[1] = ItemsRow[c]
      BY <2>1, <3>1
    <3>3. Claim(c) \in Held(s) /\ Claim(c) \in Held(t)
      BY <3>1, <3>2, WaitingIsDisciplined
    <3>4. Conflict(Claim(c), Claim(c))
      BY DEF Conflict, Claim, Update, Excludes
    <3> QED BY <3>3, <3>4 DEF LockInv
  \* Who has a unique key waits for the organisation at most.
  <2>4. ASSUME NEW s \in cycle PROVE Wanted(s)[1] \notin LastRows
    <3>1. PICK t \in cycle \ {s} : \E lock \in Held(t) : lock[1] = Wanted(s)[1]
      BY <2>1
    <3> QED BY <2>2, <3>1, WaitingIsDisciplined
  \* Who waits under the reservation lock waits for an inner row, and nobody else
  \* in the cycle has one.
  <2>5. ASSUME NEW s \in cycle PROVE Reservations \notin Held(s)
    <3> SUFFICES ASSUME Reservations \in Held(s) PROVE FALSE
      OBVIOUS
    <3>1. Wanted(s)[1] \in InnerRows
      BY <2>2, <2>3, WaitingIsDisciplined
    <3>2. PICK t \in cycle \ {s} : \E lock \in Held(t) : lock[1] = Wanted(s)[1]
      BY <2>1
    <3>3. Conflict(Reservations, Reservations)
      BY DEF Conflict, Reservations, Update, Excludes
    <3>4. Reservations \notin Held(t)
      BY <3>2, <3>3 DEF LockInv
    <3> QED BY <2>2, <2>3, <2>4, <3>1, <3>2, <3>4, WaitingIsDisciplined
  <2>6. ASSUME NEW s \in cycle PROVE Wanted(s) # Reservations
    <3> SUFFICES ASSUME Wanted(s) = Reservations PROVE FALSE
      OBVIOUS
    <3>1. PICK t \in cycle \ {s} : \E lock \in Held(t) : lock[1] = Reservations[1]
      BY <2>1
    <3> QED BY <2>5, <3>1, WaitingIsDisciplined
  \* All others follow the ranks, so each waits for one that waits higher up.
  <2>7. ASSUME NEW s \in cycle
        PROVE  /\ Wanted(s)[1] \in DOMAIN Rank
               /\ \E t \in cycle : /\ Wanted(t)[1] \in DOMAIN Rank
                                   /\ Rank[Wanted(s)[1]] < Rank[Wanted(t)[1]]
    <3>1. PICK t \in cycle \ {s} : \E lock \in Held(t) : lock[1] = Wanted(s)[1]
      BY <2>1
    <3> QED BY <2>2, <2>3, <2>4, <2>5, <2>6, <3>1, WaitingIsDisciplined
  <2> DEFINE height(s) == Rank[Wanted(s)[1]]
  <2>8. \A row \in DOMAIN Rank : Rank[row] \in 1..4
    BY DEF Rank
  <2>9. \A s \in cycle : height(s) \in 1..4 /\ \E t \in cycle : height(s) < height(t)
    BY <2>7, <2>8
  <2> HIDE DEF height
  <2>10. \A s \in cycle : height(s) # 4
    BY <2>9
  <2>11. \A s \in cycle : height(s) # 3
    BY <2>9, <2>10
  <2>12. \A s \in cycle : height(s) # 2
    BY <2>9, <2>10, <2>11
  <2> QED BY <2>9, <2>10, <2>11, <2>12
<1> QED BY <1>1, LockInvHolds, PTL
==============================================================================
