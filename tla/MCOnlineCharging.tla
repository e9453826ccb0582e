-------------------------- MODULE MCOnlineCharging --------------------------
(***************************************************************************)
(* Small instances of OnlineCharging for TLC.                              *)
(***************************************************************************)
EXTENDS OnlineCharging

\* Two groups so that an answer can be taken for that of the other group, with
\* tariffs that differ from each other and from the fallback.
TwoTariffs == [g1 |-> 2, g2 |-> 3]
TwoGroups == DOMAIN TwoTariffs
TwoBalances == [g1 |-> 7, g2 |-> 4]

OneTariff == [g1 |-> 2]
OneGroup == DOMAIN OneTariff
OneBalance == [g1 |-> 7]

\* A first request, a report that fits the reservation or overruns it, one
\* that asks for nothing and a last one.
FullUsages ==
    { [rg |-> "g1", used |-> 0, requested |-> 2],
      [rg |-> "g1", used |-> 3, requested |-> 2],
      [rg |-> "g1", used |-> 1, requested |-> 0],
      [rg |-> "g1", used |-> 1, requested |-> NoRequest] }

\* A second group beside, and a report that costs 6: more than an Unsigned32
\* holds where U32 is 5.
CrossUsages ==
    { [rg |-> "g1", used |-> 3, requested |-> 3],
      [rg |-> "g1", used |-> 1, requested |-> NoRequest],
      [rg |-> "g2", used |-> 1, requested |-> 2] }

NoFailures == {}
AllFailures == {"dial", "mongo"}
=============================================================================
