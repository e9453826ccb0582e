------------------------------- MODULE Ledger -------------------------------
(***************************************************************************)
(* What online charging promises about one subscriber's money, with no     *)
(* mention of messages, sessions or databases.  The money of a rating      *)
(* group is available in the account, held for the traffic it was reserved *)
(* for, or spent on usage; charging moves it between the three and never   *)
(* makes any, nor loses any but what is held when it is restarted.  Once   *)
(* the books are no longer trusted nothing is promised: the code has no    *)
(* way back to exact books.                                                *)
(***************************************************************************)
EXTENDS Integers

CONSTANT RatingGroups

VARIABLES
    available,      \* what the account of each rating group has left
    held,           \* what has been taken out of it for usage yet to come
    spent,          \* what the reported usage has cost
    trusted         \* FALSE once an incident may have falsified the books

vars == <<available, held, spent, trusted>>

Init ==
    /\ available \in [RatingGroups -> Nat]
    /\ held = [rg \in RatingGroups |-> 0]
    /\ spent = [rg \in RatingGroups |-> 0]
    /\ trusted = TRUE

\* The subscriber pays in.
Fund(rg, amount) ==
    /\ amount > 0
    /\ available' = [available EXCEPT ![rg] = @ + amount]
    /\ UNCHANGED <<held, spent, trusted>>

\* A reservation takes no more than there is.  (In an overdrawn account that
\* is a negative amount: the reservation takes over the debt.)
Hold(rg, amount) ==
    /\ amount <= available[rg]
    /\ available' = [available EXCEPT ![rg] = @ - amount]
    /\ held' = [held EXCEPT ![rg] = @ + amount]
    /\ UNCHANGED <<spent, trusted>>

\* What was reserved and not used goes back.
Refund(rg, amount) ==
    /\ amount > 0
    /\ available' = [available EXCEPT ![rg] = @ + amount]
    /\ held' = [held EXCEPT ![rg] = @ - amount]
    /\ UNCHANGED <<spent, trusted>>

\* Usage nothing was reserved for is taken from the account even if that
\* overdraws it.
Overdraw(rg, amount) ==
    /\ amount >= 0
    /\ available' = [available EXCEPT ![rg] = @ - amount]
    /\ held' = [held EXCEPT ![rg] = @ + amount]
    /\ UNCHANGED <<spent, trusted>>

\* Held money is spent on reported usage.
Spend(rg, amount) ==
    /\ amount >= 0
    /\ held' = [held EXCEPT ![rg] = @ - amount]
    /\ spent' = [spent EXCEPT ![rg] = @ + amount]
    /\ UNCHANGED <<available, trusted>>

\* A restart: what was held is gone, whoever it was held for.  Nothing else is.
Forget ==
    /\ held' = [rg \in RatingGroups |-> 0]
    /\ UNCHANGED <<available, spent, trusted>>

\* An incident: from now on the books may say anything.
Distrust ==
    /\ trusted' = FALSE
    /\ available' \in [RatingGroups -> Int]
    /\ held' \in [RatingGroups -> Int]
    /\ spent' \in [RatingGroups -> Int]

\* The amount an action moves is read off the step, so that TLC can decide
\* whether a step of an implementation is one of these.
Next ==
    \/ \E rg \in RatingGroups :
          \/ Fund(rg, available'[rg] - available[rg])
          \/ Hold(rg, available[rg] - available'[rg])
          \/ Refund(rg, available'[rg] - available[rg])
          \/ Overdraw(rg, available[rg] - available'[rg])
          \/ Spend(rg, spent'[rg] - spent[rg])
    \/ Forget
    \/ Distrust

Spec == Init /\ [][Next]_vars
=============================================================================
