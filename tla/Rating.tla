------------------------------- MODULE Rating -------------------------------
(***************************************************************************)
(* The rating function of pkg/rf: a stateless Diameter server that answers *)
(* a Service-Usage-Request from the tariff MongoDB holds for the           *)
(* subscriber's rating group, and the way the charging processor reads a   *)
(* unit cost out of that answer.  Every quantity is an Unsigned32 on the   *)
(* wire and in the code, so every product wraps.                           *)
(***************************************************************************)
EXTENDS Integers

CONSTANTS
    RatingGroups,   \* the rating groups of the one subscriber modelled
    Tariff,         \* the unit cost MongoDB holds for each of them
    U32             \* one more than the largest unsigned 32-bit number

ASSUME U32Assumption == U32 \in Nat \ {0}

\* A unit cost of 0 makes handleSUR divide by zero; the database has none.
ASSUME TariffAssumption == Tariff \in [RatingGroups -> Nat \ {0}]

\* A Service-Usage-Answer, reduced to the three figures the processor reads.
Answer == [cost: Nat, allowed: Nat, price: Nat]

\* RequestSubType RESERVE: how many units the quota buys.  A request for no
\* quota is how getUnitCost asks for the tariff alone.
Reserve(rg, quota) ==
    LET units == quota \div Tariff[rg]
    IN  [cost |-> Tariff[rg], allowed |-> units, price |-> (units * Tariff[rg]) % U32]

\* RequestSubType DEBIT: the price of the units that were consumed.
Debit(rg, units) ==
    [cost |-> Tariff[rg], allowed |-> 0, price |-> (units * Tariff[rg]) % U32]

\* The answer when the database gives no document for the rating group.
Unrated == [cost |-> 1, allowed |-> 0, price |-> 0]

\* What getUnitCost falls back to when no answer came.
DefaultCost == 1
=============================================================================
