----------------------------- MODULE Reservation -----------------------------
(***************************************************************************)
(* What claims promise about earnings, without partners, conversions, holds*)
(* or money: a claim is a lock on a fixed selection of earnings.  It takes *)
(* its whole selection at once, gives it back at once or spends it at once;*)
(* earnings are held by one claim at a time and are spent at most once.    *)
(***************************************************************************)
CONSTANTS Earnings, Claims

VARIABLES
  selection,   \* per claim: the earnings it asked for, empty until it does
  holding,     \* per claim: the earnings it holds
  spent        \* earnings a claim has spent

vars == <<selection, holding, spent>>

Init ==
  /\ selection = [c \in Claims |-> {}]
  /\ holding = [c \in Claims |-> {}]
  /\ spent = {}

Free == {e \in Earnings : e \notin spent /\ \A c \in Claims : e \notin holding[c]}

\* A claim asks for a selection once; taking again after a release takes the
\* same selection.
Take(c, S) ==
  /\ holding[c] = {}
  /\ S # {} /\ S \subseteq Free
  /\ selection[c] \in {{}, S}
  /\ selection' = [selection EXCEPT ![c] = S]
  /\ holding' = [holding EXCEPT ![c] = S]
  /\ UNCHANGED spent

\* Several claims may lose their reservations in one step.
GiveBack(C) ==
  /\ C # {}
  /\ \A c \in C : holding[c] # {}
  /\ holding' = [c \in Claims |-> IF c \in C THEN {} ELSE holding[c]]
  /\ UNCHANGED <<selection, spent>>

Spend(c) ==
  /\ holding[c] # {}
  /\ spent' = spent \cup holding[c]
  /\ holding' = [holding EXCEPT ![c] = {}]
  /\ UNCHANGED selection

Next ==
  \/ \E c \in Claims, S \in SUBSET Earnings : Take(c, S)
  \/ \E C \in SUBSET Claims : GiveBack(C)
  \/ \E c \in Claims : Spend(c)

Spec == Init /\ [][Next]_vars
==============================================================================
