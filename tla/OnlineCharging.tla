--------------------------- MODULE OnlineCharging ---------------------------
(***************************************************************************)
(* Online charging of one subscriber: sessionChargingReservation of        *)
(* internal/sbi/processor/converged_charging.go, the two Diameter clients  *)
(* it calls (internal/abmf, internal/rating), the account balance server   *)
(* with its quota in MongoDB (pkg/abmf) and the recharge notification.     *)
(*                                                                         *)
(* The subscriber has one context, ChfUe, and every caller of              *)
(* sessionChargingReservation holds its CULock, so at most one request     *)
(* runs: its position is pc.  The account server, the recharging operator, *)
(* NotifyRecharge (which does not take the lock) and answers that come     *)
(* after their timer interleave with it.                                   *)
(*                                                                         *)
(* Not modelled here: two first requests that meet can leave two contexts  *)
(* (NewCHFUe, see ChargingSessions).  sessionChargingReservation looks the *)
(* subscriber up again (line 485), so that a request holding the CULock of *)
(* the one then works on the maps of the other, beside the requests that   *)
(* hold that one's lock.  What follows is about a subscriber with one.     *)
(*                                                                         *)
(* An operator marked "Fault" is a wrong version of the one after it: no   *)
(* action uses it, and a property must fail when it takes the place of it. *)
(***************************************************************************)
EXTENDS Rating, Sequences, Functions

CONSTANTS
    Usages,             \* the multipleUnitUsage entries the SMF may report
    InitBalance,        \* the quota of each rating group at the start
    RechargeAmount,     \* what one recharge pays in
    Failures,           \* which of "dial", "mongo" may fail
    MaxUsages,          \* bound: unit usages in a behaviour
    MaxAcctTimeouts,    \* bound: account requests given up on
    MaxRatingTimeouts,  \* bound: rating requests given up on
    MaxRecharges,       \* bound: recharges
    MaxCrashes          \* bound: ends of the process, each followed by a restart

NoRequest == -1         \* a unit usage without RequestedUnit

(***************************************************************************)
(* A unit usage is one that has an ONLINE container (a usage without one   *)
(* is passed over with no effect): the units used, summed over those       *)
(* containers, and the units requested next.                               *)
(***************************************************************************)
Usage == [rg: RatingGroups, used: Nat, requested: Nat \cup {NoRequest}]

ASSUME UsagesAssumption == Usages \subseteq Usage
ASSUME MoneyAssumption ==
    /\ InitBalance \in [RatingGroups -> Nat]
    /\ RechargeAmount \in Nat \ {0}
ASSUME BoundsAssumption ==
    /\ MaxUsages \in Nat
    /\ MaxAcctTimeouts \in Nat
    /\ MaxRatingTimeouts \in Nat
    /\ MaxRecharges \in Nat
    /\ MaxCrashes \in Nat

VARIABLES
    \* the account server and its surroundings
    balance,        \* "quota" in MongoDB, per rating group
    acct,           \* the account exchanges under way: see Exchange
    toNotify,       \* groups recharged whose notification is still to come
    \* the subscriber's context, ChfUe
    reserved,       \* ReservedQuota
    ratingType,     \* RatingType
    nAcctTimeouts,  \* account requests abandoned: slots of acct in use
    lateSua,        \* rating answers abandoned, not consumed since
    \* the request that holds CULock
    pc,             \* where it is
    final,          \* its triggers include FINAL
    report,         \* the unit usages of its multipleUnitUsage still to be taken up
    usage,          \* the unit usage it is working on
    unitCost,       \* UnitCost of the usage's rating group
    price,          \* the price the rating function quoted in debit mode
    finalUnit,      \* finalUnitIndication says TERMINATE
    granted,        \* the units it grants
    \* counters that bound the behaviours
    nUsages, nRecharges, nCrashes,
    \* history, read by no action: the books the properties are about
    funded,         \* all that was paid in
    spent,          \* what the processor has charged for usage
    owed,           \* what all usage reported so far should cost
    forgone,        \* what of that was given up uncharged: see GiveUp and CutOff
    pending,        \* moved in the account, not yet acted on by the processor
    lost,           \* what was out of the account and unspent when the process ended
    mishaps         \* the kinds of incident so far: see Mishap

server == <<balance, acct, toNotify>>
context == <<reserved, ratingType, nAcctTimeouts, lateSua>>
request == <<pc, final, report, usage, unitCost, price, finalUnit, granted>>
bounds == <<nUsages, nRecharges, nCrashes>>
history == <<funded, spent, owed, forgone, pending, lost, mishaps>>
vars == <<server, context, request, bounds, history>>

(***************************************************************************)
(* An account exchange: the CCR the processor sent (kind, rg, amount), how *)
(* far it has come, and the quota the server read for it.  Slot 0 of acct  *)
(* is the exchange the running request waits for; a request that gives up  *)
(* moves it to the next free slot, where the server may still serve it and *)
(* where its CCA stays, on the wire or in a HandleCCA blocked on AcctChan, *)
(* until a later request receives it instead of its own.  A CCA that is    *)
(* lost, or never sent because the server found no quota document, is one  *)
(* that stays where it is for ever.                                        *)
(***************************************************************************)
Slots == 0 .. MaxAcctTimeouts
Kinds == {"reserve", "refund", "settle"}
NoExchange == [phase |-> "none"]
Exchange == [phase: {"sent", "read", "answered"}, kind: Kinds, rg: RatingGroups,
             amount: Nat, seen: Int]

\* Fault: a server that grants what is asked for without looking at the quota.
MovedUncapped(m) == IF m.kind = "refund" THEN -m.amount ELSE m.amount

\* What the server takes out of the account for exchange m (a refund: puts in).
Moved(m) ==
    CASE m.kind = "reserve" -> IF m.amount > m.seen THEN m.seen ELSE m.amount
      [] m.kind = "refund"  -> -m.amount
      [] m.kind = "settle"  -> m.amount

\* The reservation got less than it asked for: finalUnitIndication TERMINATE.
Exhausted(m) == m.amount > m.seen

\* No usage is being worked on; and no answer came in time.
NoUsage == [rg |-> "none"]
NoAnswer == [err |-> "timeout"]

(***************************************************************************)
(* The incidents after which a promise no longer stands.                   *)
(*   crossed    an account answer was taken for that of another request    *)
(*   falsified  a quota was written over one that had changed since it was *)
(*              read, or was not written and the request answered as if    *)
(*   misrated   a rating answer was missing or was not that of the request *)
(***************************************************************************)
Mishap == {"crossed", "falsified", "misrated"}
Note(incident, happened) ==
    mishaps' = IF happened THEN mishaps \cup {incident} ELSE mishaps

Init ==
    /\ balance = InitBalance
    /\ acct = [s \in Slots |-> NoExchange]
    /\ toNotify = {}
    /\ reserved = [rg \in RatingGroups |-> 0]
    /\ ratingType = [rg \in RatingGroups |-> "RESERVE"]
    /\ nAcctTimeouts = 0
    /\ lateSua = <<>>
    /\ pc = "idle"
    /\ final = FALSE
    /\ report = <<>>
    /\ usage = NoUsage
    /\ unitCost = 0
    /\ price = 0
    /\ finalUnit = FALSE
    /\ granted = 0
    /\ nUsages = 0
    /\ nRecharges = 0
    /\ nCrashes = 0
    /\ funded = InitBalance
    /\ spent = [rg \in RatingGroups |-> 0]
    /\ owed = [rg \in RatingGroups |-> 0]
    /\ forgone = [rg \in RatingGroups |-> 0]
    /\ pending = [rg \in RatingGroups |-> 0]
    /\ lost = [rg \in RatingGroups |-> 0]
    /\ mishaps = {}

\* What unit usage u costs group rg, and what the usages of a list cost it.
Cost(u, rg) == IF u.rg = rg THEN u.used * Tariff[rg] ELSE 0
CostOf(list, rg) == SumFunction([i \in 1 .. Len(list) |-> Cost(list[i], rg)])

(***************************************************************************)
(* A charging request takes CULock, works through the unit usages it       *)
(* reports, one after the other, and lets go of the lock.                  *)
(***************************************************************************)
BeginRequest(isFinal, list) ==
    /\ pc = "idle"
    /\ nUsages < MaxUsages
    /\ nUsages' = nUsages + Len(list)
    /\ pc' = "loop"
    /\ final' = isFinal
    /\ report' = list
    /\ owed' = [rg \in RatingGroups |-> owed[rg] + CostOf(list, rg)]
    /\ UNCHANGED <<server, context, usage, unitCost, price, finalUnit, granted,
                   nRecharges, nCrashes, funded, spent, forgone, pending, lost,
                   mishaps>>

EndRequest ==
    /\ pc = "loop"
    /\ report = <<>>
    /\ pc' = "idle"
    /\ final' = FALSE
    /\ UNCHANGED <<server, context, report, usage, unitCost, price, finalUnit, granted,
                   bounds, history>>

\* Fault: a return for a continue, whatever the request still has to report.
NextUsageReturns ==
    /\ pc' = "loop"
    /\ report' = <<>>
    /\ usage' = NoUsage
    /\ unitCost' = 0
    /\ price' = 0
    /\ finalUnit' = FALSE
    /\ granted' = 0
    /\ UNCHANGED final

\* The usage at hand is done with, or given up: on to the next one.
NextUsage ==
    /\ pc' = "loop"
    /\ usage' = NoUsage
    /\ unitCost' = 0
    /\ price' = 0
    /\ finalUnit' = FALSE
    /\ granted' = 0
    /\ UNCHANGED <<final, report>>

\* A usage is given up before it is charged.
GiveUp == forgone' = [forgone EXCEPT ![usage.rg] = @ + Cost(usage, usage.rg)]

\* The next usage is taken up.  Its containers and its RequestedUnit set the
\* rating type of its group: no request, or FINAL with nothing requested, is
\* debit; FINAL beside a request is reserve.
TakeUsage ==
    /\ pc = "loop"
    /\ report # <<>>
    /\ report' = Tail(report)
    /\ pc' = "mode"
    /\ LET u == Head(report) IN
       /\ usage' = u
       /\ ratingType' = [ratingType EXCEPT ![u.rg] =
                           IF u.requested = NoRequest THEN "DEBIT"
                           ELSE IF ~final THEN @
                           ELSE IF u.requested > 0 THEN "RESERVE" ELSE "DEBIT"]
    /\ UNCHANGED <<server, reserved, nAcctTimeouts, lateSua, final, unitCost,
                   price, finalUnit, granted, bounds, history>>

\* Fault: only an explicit volume of 0 is taken for "nothing requested".
ReserveModeUnguarded ==
    /\ pc = "mode"
    /\ ratingType[usage.rg] = "RESERVE"
    /\ usage.requested # 0
    /\ pc' = "cost"
    /\ UNCHANGED <<server, context, final, report, usage, unitCost, price,
                   finalUnit, granted, bounds, history>>

\* The switch on RatingType reads it again: NotifyRecharge may have come in.
ReserveMode ==
    /\ pc = "mode"
    /\ ratingType[usage.rg] = "RESERVE"
    /\ usage.requested > 0
    /\ pc' = "cost"
    /\ UNCHANGED <<server, context, final, report, usage, unitCost, price,
                   finalUnit, granted, bounds, history>>

SkipGranting ==
    /\ pc = "mode"
    /\ ratingType[usage.rg] = "RESERVE"
    /\ usage.requested <= 0
    /\ NextUsage
    /\ GiveUp
    /\ UNCHANGED <<server, context, bounds, funded, lost, spent, owed, pending,
                   mishaps>>

DebitMode ==
    /\ pc = "mode"
    /\ ratingType[usage.rg] = "DEBIT"
    /\ pc' = "price"
    /\ UNCHANGED <<server, context, final, report, usage, unitCost, price,
                   finalUnit, granted, bounds, history>>

(***************************************************************************)
(* SendServiceUsageRequest: the rating function answers `own', but the     *)
(* processor takes whichever SUA comes first.  An answer it gives up on    *)
(* stays behind, for a later request to take; that one's own answer then   *)
(* stays behind in its place.                                              *)
(***************************************************************************)
RatingAnswers(own) == {own} \cup (IF "mongo" \in Failures THEN {Unrated} ELSE {})

AskRating(own, sua) ==
    \/ \E answer \in RatingAnswers(own) :
          \/ sua = answer /\ UNCHANGED lateSua
          \/ \E i \in DOMAIN lateSua :
                sua = lateSua[i] /\ lateSua' = [lateSua EXCEPT ![i] = answer]
          \/ /\ sua = NoAnswer
             /\ Len(lateSua) < MaxRatingTimeouts
             /\ lateSua' = Append(lateSua, answer)
    \/ sua = NoAnswer /\ "dial" \in Failures /\ UNCHANGED lateSua

RatingOutcomes(own) ==
    RatingAnswers(own) \cup {NoAnswer} \cup {lateSua[i] : i \in DOMAIN lateSua}

\* Fault: a refund is sent off and nobody waits for its answer.
SendCCRUnawaited(kind, amount, wait) ==
    /\ acct' = [acct EXCEPT ![0] = [phase |-> "sent", kind |-> kind, rg |-> usage.rg,
                                    amount |-> amount, seen |-> 0]]
    /\ IF kind = "refund"
       THEN NextUsage
       ELSE pc' = wait /\ UNCHANGED <<final, report, usage, unitCost, price,
                                      finalUnit, granted>>

\* The processor sends a CCR and waits for the CCA at `wait', or cannot reach
\* the server and passes on to the next usage.
SendCCR(kind, amount, wait) ==
    /\ acct' = [acct EXCEPT ![0] = [phase |-> "sent", kind |-> kind, rg |-> usage.rg,
                                    amount |-> amount, seen |-> 0]]
    /\ pc' = wait
    /\ UNCHANGED <<final, report, usage, unitCost, price, finalUnit, granted>>

DialFails == "dial" \in Failures /\ NextUsage /\ UNCHANGED acct

(***************************************************************************)
(* Reserve mode: rate the usage, take it from the reservation, and ask for *)
(* more when the reservation is used up.                                   *)
(***************************************************************************)
GetUnitCost ==
    /\ pc = "cost"
    /\ LET own == Reserve(usage.rg, 0) IN
       \E sua \in RatingOutcomes(own) :
          /\ AskRating(own, sua)
          /\ unitCost' = IF sua = NoAnswer THEN DefaultCost ELSE sua.cost
          /\ Note("misrated", sua # own)
    /\ pc' = "reserve"
    /\ UNCHANGED <<server, reserved, ratingType, nAcctTimeouts, final, report, usage,
                   price, finalUnit, granted, bounds, funded, lost, spent, owed,
                   forgone, pending>>

\* Fault: the reservation is charged with what is requested, not with what was used.
UsedQuotaSwapped == (usage.requested * unitCost) % U32

UsedQuota == (usage.used * unitCost) % U32
RequestedQuota == (usage.requested * unitCost) % U32

\* Fault: the charge is booked but does not come off the reservation.
ChargeReservationKept ==
    /\ spent' = [spent EXCEPT ![usage.rg] = @ + UsedQuota]
    /\ UNCHANGED <<balance, toNotify, reserved, ratingType, nAcctTimeouts, lateSua,
                   bounds, funded, lost, owed, forgone, pending, mishaps>>

\* The used quota comes off the reservation in any case.
ChargeReservation ==
    /\ reserved' = [reserved EXCEPT ![usage.rg] = @ - UsedQuota]
    /\ spent' = [spent EXCEPT ![usage.rg] = @ + UsedQuota]
    /\ UNCHANGED <<balance, toNotify, ratingType, nAcctTimeouts, lateSua, bounds,
                   funded, lost, owed, forgone, pending, mishaps>>

\* Fault: a reservation that is just used up counts as enough.
UseReservationEmpty ==
    /\ pc = "reserve"
    /\ reserved[usage.rg] - UsedQuota >= 0
    /\ ChargeReservation
    /\ pc' = "allow"
    /\ UNCHANGED <<acct, final, report, usage, unitCost, price, finalUnit,
                   granted>>

UseReservation ==
    /\ pc = "reserve"
    /\ reserved[usage.rg] - UsedQuota > 0
    /\ ChargeReservation
    /\ pc' = "allow"
    /\ UNCHANGED <<acct, final, report, usage, unitCost, price, finalUnit,
                   granted>>

AskReservation ==
    /\ pc = "reserve"
    /\ reserved[usage.rg] - UsedQuota <= 0
    /\ ChargeReservation
    /\ \/ SendCCR("reserve", RequestedQuota - (reserved[usage.rg] - UsedQuota), "ccr")
       \/ DialFails

\* Fault: whichever answer comes, the exchange at hand is forgotten.
TakeCCAForgetful(s) ==
    /\ acct[s].phase = "answered"
    /\ acct' = [acct EXCEPT ![s] = NoExchange, ![0] = NoExchange]
    /\ pending' = [pending EXCEPT ![acct[s].rg] = @ - Moved(acct[s])]
    /\ Note("crossed", s # 0)

\* The CCA of slot s is received.  One of another request leaves the own one
\* behind in its slot.
TakeCCA(s) ==
    /\ acct[s].phase = "answered"
    /\ acct' = [acct EXCEPT ![s] = acct[0], ![0] = NoExchange]
    /\ pending' = [pending EXCEPT ![acct[s].rg] = @ - Moved(acct[s])]
    /\ Note("crossed", s # 0)

ReceiveReservation(s) ==
    /\ pc = "ccr"
    /\ TakeCCA(s)
    /\ acct[s].kind = "reserve"
    /\ reserved' = [reserved EXCEPT ![usage.rg] = @ + Moved(acct[s])]
    /\ ratingType' = [ratingType EXCEPT ![usage.rg] =
                        IF Exhausted(acct[s]) THEN "DEBIT" ELSE @]
    /\ finalUnit' = Exhausted(acct[s])
    /\ pc' = "allow"
    /\ UNCHANGED <<balance, toNotify, nAcctTimeouts, lateSua, final, report, usage,
                   unitCost, price, granted, bounds, funded, lost, spent, owed,
                   forgone>>

\* What the request has not charged yet: the usage at hand, up to the point
\* where it is charged or given up, and those it has not taken up.
Uncharged == {"mode", "cost", "reserve", "price", "settle", "debit"}
Due(rg) == IF pc \in Uncharged THEN Cost(usage, rg) ELSE 0

\* The request ends where it is, and nobody charges what it had still to do.
CutOff ==
    /\ pc' = "idle"
    /\ final' = FALSE
    /\ report' = <<>>
    /\ forgone' = [rg \in RatingGroups |-> forgone[rg] + Due(rg) + CostOf(report, rg)]
    /\ usage' = NoUsage
    /\ unitCost' = 0
    /\ price' = 0
    /\ finalUnit' = FALSE
    /\ granted' = 0

\* The CCA of a refund or a settlement has no MultipleServicesCreditControl:
\* reading the grant out of it panics and the request ends there, with the
\* usages it had not come to.
PanicOnAnswer(s) ==
    /\ pc = "ccr"
    /\ TakeCCA(s)
    /\ acct[s].kind # "reserve"
    /\ CutOff
    /\ UNCHANGED <<balance, toNotify, reserved, ratingType, nAcctTimeouts, lateSua,
                   bounds, funded, lost, spent, owed>>

\* Fault: a select without its timer case.
AbandonAccountNever == FALSE

\* The timer of SendAccountDebitRequest: the exchange is left to itself.  A
\* usage in debit mode is then neither charged nor its reservation cleared.
AbandonAccount ==
    /\ pc \in {"ccr", "debit"}
    /\ nAcctTimeouts < MaxAcctTimeouts
    /\ nAcctTimeouts' = nAcctTimeouts + 1
    /\ acct' = [acct EXCEPT ![nAcctTimeouts + 1] = acct[0], ![0] = NoExchange]
    /\ NextUsage
    /\ \/ pc = "ccr" /\ UNCHANGED forgone
       \/ pc = "debit" /\ GiveUp
    /\ UNCHANGED <<balance, toNotify, reserved, ratingType, lateSua, bounds,
                   funded, lost, spent, owed, pending, mishaps>>

\* How many of the requested units the quota buys is what the SMF is granted.
GrantUnits ==
    /\ pc = "allow"
    /\ LET own == Reserve(usage.rg, RequestedQuota) IN
       \E sua \in RatingOutcomes(own) :
          /\ AskRating(own, sua)
          /\ Note("misrated", sua # own)
          /\ \/ sua = NoAnswer /\ NextUsage
             \/ /\ sua # NoAnswer
                /\ granted' = IF sua.allowed < usage.requested THEN sua.allowed
                                                               ELSE usage.requested
                /\ pc' = "recost"
                /\ UNCHANGED <<final, report, usage, unitCost, price, finalUnit>>
    /\ UNCHANGED <<server, reserved, ratingType, nAcctTimeouts, bounds,
                   funded, lost, spent, owed, forgone, pending>>

\* The unit cost is asked for once more; the next usage does not rely on it.
RefreshUnitCost ==
    /\ pc = "recost"
    /\ LET own == Reserve(usage.rg, 0) IN
       \E sua \in RatingOutcomes(own) : AskRating(own, sua)
    /\ NextUsage
    /\ UNCHANGED <<server, reserved, ratingType, nAcctTimeouts, bounds, history>>

(***************************************************************************)
(* Debit mode: price the usage, then refund what the reservation has left  *)
(* or settle what it lacks.                                                *)
(***************************************************************************)
QuotePrice ==
    /\ pc = "price"
    /\ LET own == Debit(usage.rg, usage.used) IN
       \E sua \in RatingOutcomes(own) :
          /\ AskRating(own, sua)
          /\ \/ sua = NoAnswer /\ NextUsage /\ GiveUp /\ UNCHANGED mishaps
             \/ /\ sua # NoAnswer
                /\ price' = sua.price
                /\ pc' = "settle"
                /\ Note("misrated", sua # own)
                /\ UNCHANGED <<final, report, usage, unitCost, finalUnit, granted,
                               forgone>>
    /\ UNCHANGED <<server, reserved, ratingType, nAcctTimeouts, bounds,
                   funded, lost, spent, owed, pending>>

\* A refund puts the group back in reserve mode before it is even sent.
Settle ==
    /\ pc = "settle"
    /\ LET left == reserved[usage.rg] - price IN
       \/ /\ left > 0
          /\ ratingType' = [ratingType EXCEPT ![usage.rg] = "RESERVE"]
          /\ \/ SendCCR("refund", left, "debit") /\ UNCHANGED forgone
             \/ DialFails /\ GiveUp
       \/ /\ left <= 0
          /\ UNCHANGED ratingType
          /\ \/ SendCCR("settle", -left, "debit") /\ UNCHANGED forgone
             \/ DialFails /\ GiveUp
    /\ UNCHANGED <<balance, toNotify, reserved, nAcctTimeouts, lateSua, bounds,
                   funded, lost, spent, owed, pending, mishaps>>

ReceiveSettlement(s) ==
    /\ pc = "debit"
    /\ TakeCCA(s)
    /\ reserved' = [reserved EXCEPT ![usage.rg] = 0]
    /\ spent' = [spent EXCEPT ![usage.rg] = @ + price]
    /\ NextUsage
    /\ UNCHANGED <<balance, toNotify, ratingType, nAcctTimeouts, lateSua, bounds,
                   funded, lost, owed, forgone>>

(***************************************************************************)
(* handleCCR of the account server: read the quota, work out the new one,  *)
(* write it back, answer success even if the write failed.                 *)
(***************************************************************************)
ReadQuota(s) ==
    /\ acct[s].phase = "sent"
    /\ acct' = [acct EXCEPT ![s].phase = "read", ![s].seen = balance[acct[s].rg]]
    /\ UNCHANGED <<balance, toNotify, context, request, bounds, history>>

Answered(s) ==
    /\ acct[s].phase = "read"
    /\ acct' = [acct EXCEPT ![s].phase = "answered"]
    /\ pending' = [pending EXCEPT ![acct[s].rg] = @ + Moved(acct[s])]

WriteQuota(s) ==
    /\ Answered(s)
    /\ balance' = [balance EXCEPT ![acct[s].rg] = acct[s].seen - Moved(acct[s])]
    /\ Note("falsified", balance[acct[s].rg] # acct[s].seen)
    /\ UNCHANGED <<toNotify, context, request, bounds, funded, lost, spent, owed,
                   forgone>>

FailWrite(s) ==
    /\ "mongo" \in Failures
    /\ Answered(s)
    /\ Note("falsified", TRUE)
    /\ UNCHANGED <<balance, toNotify, context, request, bounds, funded, lost, spent,
                   owed, forgone>>

(***************************************************************************)
(* A recharge: the operator's console adds to the quota in MongoDB, then   *)
(* calls PUT /recharge, which runs NotifyRecharge without the lock.        *)
(***************************************************************************)
Recharge(rg) ==
    /\ nRecharges < MaxRecharges
    /\ nRecharges' = nRecharges + 1
    /\ balance' = [balance EXCEPT ![rg] = @ + RechargeAmount]
    /\ funded' = [funded EXCEPT ![rg] = @ + RechargeAmount]
    /\ toNotify' = toNotify \cup {rg}
    /\ UNCHANGED <<acct, context, request, nUsages, nCrashes, spent, owed, forgone,
                   pending, lost, mishaps>>

NotifyRecharge(rg) ==
    /\ rg \in toNotify
    /\ toNotify' = toNotify \ {rg}
    /\ ratingType' = [ratingType EXCEPT ![rg] = "RESERVE"]
    /\ UNCHANGED <<balance, acct, reserved, nAcctTimeouts, lateSua, request, bounds,
                   history>>

(***************************************************************************)
(* The process ends: it is killed, its shutdown does not wait for the      *)
(* request, or Go ends it because NotifyRecharge and a request met at the  *)
(* map RatingType.  It comes up again with a new context for the           *)
(* subscriber.  The account server is part of it and loses what it was     *)
(* doing, and what was reserved stays out of the account.                  *)
(***************************************************************************)
Crash ==
    /\ nCrashes < MaxCrashes
    /\ nCrashes' = nCrashes + 1
    /\ acct' = [s \in Slots |-> NoExchange]
    /\ reserved' = [rg \in RatingGroups |-> 0]
    /\ ratingType' = [rg \in RatingGroups |-> "RESERVE"]
    /\ lateSua' = <<>>
    /\ CutOff
    /\ lost' = [rg \in RatingGroups |-> lost[rg] + reserved[rg] + pending[rg]]
    /\ pending' = [rg \in RatingGroups |-> 0]
    /\ UNCHANGED <<balance, toNotify, nAcctTimeouts, nUsages, nRecharges, funded, spent,
                   owed, mishaps>>

-----------------------------------------------------------------------------

Processor ==
    \/ TakeUsage
    \/ EndRequest
    \/ ReserveMode \/ SkipGranting \/ DebitMode
    \/ GetUnitCost \/ UseReservation \/ AskReservation
    \/ GrantUnits \/ RefreshUnitCost
    \/ QuotePrice \/ Settle
    \/ \E s \in Slots : ReceiveReservation(s) \/ PanicOnAnswer(s) \/ ReceiveSettlement(s)
    \/ AbandonAccount

Server == \E s \in Slots : ReadQuota(s) \/ WriteQuota(s) \/ FailWrite(s)

Operator == \E rg \in RatingGroups : Recharge(rg) \/ NotifyRecharge(rg)

\* Nothing is left to do within the bounds.
Finished == pc = "idle" /\ nUsages = MaxUsages /\ UNCHANGED vars

Next ==
    \/ \E isFinal \in BOOLEAN, n \in 0 .. MaxUsages - nUsages :
          \E list \in [1 .. n -> Usages] : BeginRequest(isFinal, list)
    \/ Processor
    \/ Server
    \/ Operator
    \/ Crash
    \/ Finished

Spec == Init /\ [][Next]_vars

\* The goroutine of a running request is scheduled and its timers fire; the
\* account server, the operator and the SMF owe it nothing.
FairSpec == Spec /\ WF_vars(Processor)

-----------------------------------------------------------------------------

TypeOK ==
    /\ balance \in [RatingGroups -> Int]
    /\ acct \in [Slots -> Exchange \cup {NoExchange}]
    /\ toNotify \subseteq RatingGroups
    /\ reserved \in [RatingGroups -> Int]
    /\ ratingType \in [RatingGroups -> {"RESERVE", "DEBIT"}]
    /\ nAcctTimeouts \in Slots
    /\ lateSua \in Seq(Answer)
    /\ pc \in {"idle", "loop", "mode", "cost", "reserve", "ccr", "allow", "recost",
               "price", "settle", "debit"}
    /\ final \in BOOLEAN
    /\ report \in Seq(Usages)
    /\ usage \in Usage \cup {NoUsage}
    /\ unitCost \in Nat
    /\ price \in Nat
    /\ finalUnit \in BOOLEAN
    /\ granted \in Nat
    /\ nUsages \in 0 .. MaxUsages
    /\ nRecharges \in 0 .. MaxRecharges
    /\ nCrashes \in 0 .. MaxCrashes
    /\ funded \in [RatingGroups -> Nat]
    /\ spent \in [RatingGroups -> Nat]
    /\ owed \in [RatingGroups -> Nat]
    /\ forgone \in [RatingGroups -> Nat]
    /\ pending \in [RatingGroups -> Int]
    /\ lost \in [RatingGroups -> Int]
    /\ mishaps \subseteq Mishap

\* Nothing in `incidents' has happened so far.
Without(incidents) == mishaps \cap incidents = {}

\* Money is conserved.  However requests, timeouts, late answers, recharges,
\* dial failures and crashes interleave, what a group was paid is in its
\* account, in its reservation, spent on usage or on its way between the two,
\* or was so when the process ended, unless an answer was crossed or a quota
\* write falsified the account.
Conservation ==
    Without({"crossed", "falsified"}) =>
        \A rg \in RatingGroups :
            balance[rg] + reserved[rg] + spent[rg] + pending[rg] + lost[rg] = funded[rg]

\* What exchange m has moved for group rg and nobody has received yet.
InFlight(m, rg) == IF m.phase = "answered" /\ m.rg = rg THEN Moved(m) ELSE 0

\* What is on its way is what the answers nobody has received yet moved: none
\* is counted twice or forgotten, whatever was late, crossed or falsified.
PendingInFlight ==
    \A rg \in RatingGroups :
        pending[rg] = SumFunction([s \in Slots |-> InFlight(acct[s], rg)])

\* A request can be handed the answer of another one only after an account
\* request has timed out; until then the only exchange under way is the one
\* the running request waits for, about its own rating group and of the kind
\* its next step expects.
AnswersMatch ==
    nAcctTimeouts = 0 =>
        /\ "crossed" \notin mishaps
        /\ \A s \in Slots :
              acct[s] # NoExchange =>
                  /\ s = 0
                  /\ pc \in {"ccr", "debit"}
                  /\ acct[s].rg = usage.rg
                  /\ (acct[s].kind = "reserve") = (pc = "ccr")

\* No usage costs as much as an Unsigned32 can hold.
NoWrap == \A u \in Usages : u.used * Tariff[u.rg] < U32

\* Between two usages, what a group was charged, what the request at hand has
\* still to take up and what was given up uncharged is what all the usage ever
\* reported for it costs, from the moment its request came; a usage whose cost
\* does not fit 32 bits costs less a multiple of 2^32: what wraps, in the
\* processor or in the rating function, is lost to the subscriber's favour.
\* Usage is given up uncharged only by a debit that is not settled (no rating
\* answer, no connection or a timeout), by a report in reserve mode that asks
\* for nothing, and with the rest of its request by the end of the process or
\* by a panic on another request's answer.  A reservation that timed out, an
\* exhausted account or a recharge give up nothing.  Nothing is said once a
\* rating answer that the usage was charged by was missing or another's.
UsageCharged ==
    pc \in {"idle", "loop"} /\ Without({"misrated"}) =>
        \A rg \in RatingGroups :
            LET accounted == spent[rg] + CostOf(report, rg) + forgone[rg] IN
            /\ accounted <= owed[rg]
            /\ (owed[rg] - accounted) % U32 = 0
            /\ NoWrap => accounted = owed[rg]

\* Units are granted, and not announced as the last, only against a
\* reservation that still holds money, whatever was late or lost; save where
\* the price of what is requested wraps to 0, which reserves nothing, and the
\* units come out of a rating answer that was for another request.
GrantBacked ==
    pc = "recost" /\ granted > 0 /\ ~finalUnit /\ Without({"crossed"}) =>
        \/ reserved[usage.rg] > 0
        \/ RequestedQuota = 0 /\ "misrated" \in mishaps

\* The account is overdrawn only by settling usage nothing was reserved for:
\* no reservation or refund, however late, leaves less than before and below
\* zero, as long as no write is lost.
NoOverdraft ==
    [][\A rg \in RatingGroups :
         balance'[rg] < balance[rg] /\ balance'[rg] < 0 =>
            \/ "falsified" \in mishaps'
            \/ \E s \in Slots : /\ acct[s].phase = "read"
                                /\ acct'[s].phase = "answered"
                                /\ acct[s].kind = "settle"]_vars

\* A request that has taken CULock lets go of it.
LockReleased == pc # "idle" ~> pc = "idle"

\* The charging of one subscriber is an exact ledger: see Ledger.  What is
\* held is the reservation and what is on its way to or from it.
Books == INSTANCE Ledger WITH
            available <- balance,
            held <- [rg \in RatingGroups |-> reserved[rg] + pending[rg]],
            trusted <- Without({"crossed", "falsified"})

ImplementsLedger == Books!Spec

-----------------------------------------------------------------------------
(* What comments of the source say and the code does not do. *)

\* "If it is previosly set to debit mode due to quota exhausted, need to
\* reverse to the reserve mode" (NotifyRecharge): a group does not go into
\* debit mode for exhaustion when its account has money again and the
\* notification of that has been and gone.
RechargeNotLost ==
    [][pc = "ccr" /\ pc' = "allow" /\ ratingType'[usage.rg] = "DEBIT" =>
         balance[usage.rg] <= 0 \/ usage.rg \in toNotify]_vars
=============================================================================
