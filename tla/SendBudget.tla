----------------------------- MODULE SendBudget -----------------------------
(***************************************************************************)
(* What the hourly and daily send caps promise to POST /send, with the     *)
(* mutex, the two separate inserts and the journal abstracted away: a slot *)
(* is admitted in one step, it is charged to its hour and to its day, and  *)
(* no window is ever charged beyond its cap.  Two blemishes are part of    *)
(* the promise: an admission interrupted half way leaves one hour slot     *)
(* spent for nothing, and a power cut may forget charges.                  *)
(***************************************************************************)
EXTENDS Naturals

CONSTANTS Hours,       \* hour windows, numbered in the order they come
          Days,        \* day windows
          DayOf,       \* the day an hour window lies in
          HourlyCap,   \* config.send_cap_per_hour
          DailyCap     \* config.send_cap_per_day

VARIABLES spent,       \* slots charged to each window
          admitted     \* deliveries admitted in each window since the last power cut

budgetVars == <<spent, admitted>>

Windows == Hours \cup Days

CapOf(b) == IF b \in Hours THEN HourlyCap ELSE DailyCap

BudgetInit == spent = [b \in Windows |-> 0] /\ admitted = spent

\* One slot, charged to both windows or to neither.
Admit(h) ==
    /\ spent[h] < HourlyCap
    /\ spent[DayOf[h]] < DailyCap
    /\ spent' = [spent EXCEPT ![h] = @ + 1, ![DayOf[h]] = @ + 1]
    /\ admitted' = [admitted EXCEPT ![h] = @ + 1, ![DayOf[h]] = @ + 1]

\* The admission failed or the process died between the two charges.
Waste(h) ==
    /\ spent[h] < HourlyCap
    /\ spent' = [spent EXCEPT ![h] = @ + 1]
    /\ UNCHANGED admitted

\* A power cut undoes any number of charges; the one hour charge that was in
\* flight may be among those that stay.
Forget(h) ==
    /\ spent' \in [Windows -> Nat]
    /\ \A b \in Windows : /\ spent'[b] <= spent[b] + (IF b = h THEN 1 ELSE 0)
                          /\ spent'[b] <= CapOf(b)
    /\ admitted' = [b \in Windows |-> 0]

BudgetNext == \E h \in Hours : Admit(h) \/ Waste(h) \/ Forget(h)

BudgetSpec == BudgetInit /\ [][BudgetNext]_budgetVars
=============================================================================
