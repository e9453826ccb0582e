-------------------- MODULE ChargingSessionsUsageProofs --------------------
(***************************************************************************)
(* Theorems about what ChargingSessions does with a report, a reference    *)
(* and the size of a CDR: how often a report is charged and recorded,      *)
(* which references are given out, what fits.                              *)
(***************************************************************************)
EXTENDS ChargingSessionsProofs

USE SizesAssumption, BoundsAssumption, HandlersAssumption

\* Before its report is charged, if it ever is.
BeforeCharge == {"find", "new", "lock", "ref", "open", "lookup", "charge"}
BeforeRecord == BeforeCharge \cup {"record"}

Unrecorded(r) ==
    \A i \in DOMAIN record : \A j \in DOMAIN record[i].reports :
        record[i].reports[j].id # r

\* A report is charged when its request passes charging, and not again.
ChargedOnce ==
    /\ \A r \in Reports : charged[r] <= 1 /\ (r > nRequests => charged[r] = 0)
    /\ \A h \in Handlers : req[h] # Idle =>
          /\ req[h].at \in BeforeCharge => charged[req[h].report.id] = 0
          /\ req[h].at \notin BeforeCharge /\ req[h].op \notin Creating =>
                charged[req[h].report.id] = 1

\* A report has one place in the CDRs, and none while its request is not there.
RecordedOnce ==
    /\ \A r \in Reports : r > nRequests => Unrecorded(r)
    /\ \A h \in Handlers : req[h].at \in BeforeRecord => Unrecorded(req[h].report.id)
    /\ \A i, k \in DOMAIN record :
          \A j \in DOMAIN record[i].reports, l \in DOMAIN record[k].reports :
             record[i].reports[j].id = record[k].reports[l].id => i = k /\ j = l

\* A request that was refused is over.
Unrefused ==
    /\ \A r \in refused : r <= nRequests
    /\ \A h \in Handlers : req[h] # Idle => req[h].report.id \notin refused

RefusedClean ==
    Without({"panic", "disk", "unknown"}) =>
        \A r \in refused : charged[r] = 0 /\ Unrecorded(r)

\* As long as a subscriber has one context, its requests work under one lock.
OneContext ==
    Without({"duplicate"}) =>
        \A h \in Handlers :
            req[h] # Idle /\ req[h].at \notin Looking => req[h].ue = pool[req[h].supi]

\* In one life of the CHF a subscriber's references have growing numbers: one
\* chosen, and not yet given out, is above all that were.
Chosen(h) == req[h].at \in {"open", "send"} /\ req[h].op = "create"
NumbersDiffer ==
    \A i, j \in DOMAIN issued :
        i # j /\ issued[i].life = issued[j].life /\ issued[i].ref.supi = issued[j].ref.supi
        => issued[i].ref.n # issued[j].ref.n
RefsGrow ==
    Without({"duplicate"}) =>
        /\ \A i \in DOMAIN issued :
              /\ issued[i].life <= nCrashes
              /\ issued[i].life = nCrashes => issued[i].ref.n < localSeq
        /\ \A h \in Handlers : Chosen(h) =>
              /\ req[h].ref.n <= localSeq
              /\ req[h].at = "send" => req[h].ref.n < localSeq
              /\ \A i \in DOMAIN issued :
                    issued[i].life = nCrashes /\ issued[i].ref.supi = req[h].supi =>
                        issued[i].ref.n < req[h].ref.n
        /\ NumbersDiffer

\* A record with reports of several requests, lengthened by no release, is
\* within bounds.
Share(rec) == IF rec.number > 0 THEN NumberSize ELSE 0
Bounded(rec) == Len(rec.reports) > 1 => rec.size <= MaxSize + Share(rec)
RecordsBounded ==
    Without({"unchecked"}) => \A i \in DOMAIN record : Bounded(record[i])

UsageInv ==
    /\ ChargedOnce
    /\ RecordedOnce
    /\ Unrefused
    /\ RefusedClean
    /\ OneContext
    /\ RefsGrow
    /\ RecordsBounded
    /\ RecordsFit

-----------------------------------------------------------------------------
(* How a request moves.                                                    *)

\* A request goes on to one of the places, or is over ("idle").
Moved(h, places) ==
    /\ Beside(h)
    /\ req[h] \in Request /\ req[h] # Idle /\ Place(req[h])
    /\ req'[h].at \in places
    /\ \/ req'[h] = Idle
       \/ /\ req'[h] \in Request
          /\ req'[h].op = req[h].op /\ req'[h].supi = req[h].supi
          /\ req'[h].report = req[h].report
          /\ req[h].at \notin Looking => req'[h].ue = req[h].ue
    /\ nRequests' = nRequests
    /\ incidents \subseteq incidents'

LEMMA MovesOn ==
    ASSUME IInv, NEW h \in Handlers, req[h] # Idle, NEW place \in {"new"} \cup Critical,
           Goto(h, place), nRequests' = nRequests, incidents \subseteq incidents'
    PROVE  /\ Moved(h, {place})
           /\ req'[h] \in Request /\ req'[h].ref = req[h].ref /\ req'[h].ue = req[h].ue
<1>1. req[h] \in Request /\ Place(req[h])
    BY ServesRequest DEF IInv, Placed
<1>2. GoneOn(h, place) /\ Beside(h)
    BY <1>1, GoesOn DEF IInv, Looking
<1> QED
    BY <1>1, <1>2 DEF Moved, GoneOn

LEMMA MovesOut ==
    ASSUME IInv, NEW h \in Handlers, req[h] # Idle, Refuse(h) \/ Succeed(h),
           nRequests' = nRequests, incidents \subseteq incidents'
    PROVE  Moved(h, {"idle"}) /\ req'[h] = Idle
<1>1. req[h] \in Request /\ Place(req[h])
    BY ServesRequest DEF IInv, Placed
<1>2. Beside(h) /\ req'[h] = Idle
    BY IsDone DEF IInv
<1> QED
    BY <1>1, <1>2 DEF Moved, Idle

\* The step of each action, seen so.
LEMMA FindContextMoves ==
    ASSUME IInv, NEW h \in Handlers, FindContext(h)
    PROVE  /\ req[h].at = "find" /\ Moved(h, {"new", "lock", "idle"})
           /\ req'[h].at = "lock" =>
                 req'[h].ue = pool[req[h].supi] /\ pool[req[h].supi] # NoContext
<1> USE DEF bounds, history
<1>1. req[h] \in Request /\ req[h].at = "find" /\ req[h] # Idle
    BY ServesRequest DEF IInv, FindContext, Looking
<1>2. Place(req[h]) /\ req[h].supi \in Supis
    BY <1>1, RequestFields DEF IInv, Placed
<1> DEFINE u == pool[req[h].supi]
<1>3. u \in Contexts \cup {NoContext}
    BY <1>2 DEF IInv, TypeOK
<1> HIDE DEF u
<1>4. nRequests' = nRequests /\ incidents' = incidents
    BY DEF FindContext
<1>5. CASE u # NoContext /\ req' = [req EXCEPT ![h].at = "lock", ![h].ue = u]
    <2>1. Beside(h) /\ req'[h] \in Request /\ req'[h].at = "lock" /\ req'[h].ue = u
          /\ req'[h].op = req[h].op /\ req'[h].supi = req[h].supi
          /\ req'[h].report = req[h].report
        BY <1>1, <1>3, <1>5, GetsContext DEF IInv
    <2> QED
        BY <1>1, <1>2, <1>4, <1>5, <2>1 DEF Moved, Looking, u
<1>6. CASE Goto(h, "new")
    <2>1. Moved(h, {"new"})
        BY <1>1, <1>4, <1>6, MovesOn
    <2> QED
        BY <1>1, <2>1 DEF Moved
<1>7. CASE Refuse(h)
    <2>1. Moved(h, {"idle"})
        BY <1>1, <1>4, <1>7, MovesOut
    <2> QED
        BY <1>1, <2>1 DEF Moved
<1> QED
    BY <1>5, <1>6, <1>7 DEF FindContext, u

LEMMA NewContextMoves ==
    ASSUME IInv, IInv', NEW h \in Handlers, NewContext(h)
    PROVE  /\ req[h].at = "new" /\ Moved(h, {"lock"})
           /\ req'[h].ue = nContexts + 1 /\ pool' = [pool EXCEPT ![req[h].supi] = nContexts + 1]
<1>1. req[h] \in Request /\ req[h].at = "new" /\ req[h] # Idle
    BY ServesRequest DEF IInv, NewContext, Looking
<1>2. Place(req[h]) /\ req[h].supi \in Supis
    BY <1>1, RequestFields DEF IInv, Placed
<1> DEFINE u == nContexts + 1
<1>3. req' = [req EXCEPT ![h].at = "lock", ![h].ue = u]
      /\ pool' = [pool EXCEPT ![req[h].supi] = u]
    BY DEF NewContext
<1>4. nRequests' = nRequests /\ incidents \subseteq incidents'
    BY DEF NewContext, Note, bounds
<1>5. u \in Contexts
    <2>1. pool'[req[h].supi] = u
        BY <1>2, <1>3 DEF IInv, TypeOK
    <2>2. pool'[req[h].supi] \in Contexts \cup {NoContext}
        BY <1>2 DEF IInv, TypeOK
    <2>3. u # NoContext
        BY DEF IInv, TypeOK, NoContext
    <2> QED
        BY <2>1, <2>2, <2>3
<1> HIDE DEF u
<1>6. Beside(h) /\ req'[h] \in Request /\ req'[h].at = "lock" /\ req'[h].ue = u
      /\ req'[h].op = req[h].op /\ req'[h].supi = req[h].supi
      /\ req'[h].report = req[h].report
    BY <1>1, <1>3, <1>5, GetsContext DEF IInv
<1> QED
    BY <1>1, <1>2, <1>3, <1>4, <1>6 DEF Moved, Looking, u

LEMMA LockContextMoves ==
    ASSUME IInv, NEW h \in Handlers, LockContext(h)
    PROVE  req[h].at = "lock" /\ Moved(h, {"ref", "lookup", "charge"})
<1>1. req[h] \in Request /\ req[h].at = "lock" /\ req[h] # Idle
    BY ServesRequest DEF IInv, LockContext
<1> DEFINE place == AfterLock(req[h].op)
<1>2. place \in {"ref", "lookup", "charge"} /\ place \in Critical
    BY <1>1 DEF Request, AfterLock, Critical
<1>3. Goto(h, place) /\ nRequests' = nRequests /\ incidents' = incidents
    BY DEF LockContext, bounds, history
<1> HIDE DEF place
<1>4. Moved(h, {place})
    BY <1>1, <1>2, <1>3, MovesOn
<1> QED
    BY <1>1, <1>2, <1>4 DEF Moved

LEMMA ChooseRefMoves ==
    ASSUME IInv, NEW h \in Handlers, ChooseRef(h)
    PROVE  /\ req[h].at = "ref" /\ Moved(h, {"open"}) /\ req'[h] \in Request
           /\ req[h].op = "create" => req'[h].ref = [supi |-> req[h].supi,
                                           consumer |-> req[h].consumer, n |-> localSeq]
<1> USE DEF memory, disk, bounds, history
<1>1. req[h].at = "ref" /\ req[h].at \in Critical
    BY DEF ChooseRef, Critical
<1>2. /\ req[h] \in Request /\ Place(req[h]) /\ req[h].supi \in Supis /\ localSeq \in Nat
      /\ req[h].consumer \in Consumers /\ req[h] # Idle
    BY <1>1, CriticalPlace DEF IInv, TypeOK, Request
<1> DEFINE ref == IF req[h].op = "event" THEN NoRef
                  ELSE [supi |-> req[h].supi, consumer |-> req[h].consumer, n |-> localSeq]
           r == [req[h] EXCEPT !.at = "open", !.ref = ref]
<1>3. ref \in Ref \cup {NoRef}
    BY <1>2 DEF Ref
<1>4. req' = [req EXCEPT ![h] = r]
    BY DEF IInv, TypeOK, ChooseRef
<1> HIDE DEF ref
<1>5. /\ r \in Request /\ r.at = "open" /\ r.ref = ref /\ r.op = req[h].op
      /\ r.supi = req[h].supi /\ r.report = req[h].report /\ r.ue = req[h].ue
    BY <1>2, <1>3 DEF Request
<1> HIDE DEF r
<1>6. Beside(h) /\ req'[h] = r
    BY <1>4, <1>5 DEF IInv, TypeOK, Beside
<1>7. req'[h] \in Request /\ req'[h].ref = ref
    BY <1>5, <1>6
<1>8. nRequests' = nRequests /\ incidents' = incidents
    BY DEF ChooseRef
<1>9. Moved(h, {"open"})
    BY <1>1, <1>2, <1>5, <1>6, <1>8 DEF Moved
<1> QED
    BY <1>1, <1>7, <1>9 DEF ref

LEMMA OpenCDRMoves ==
    ASSUME IInv, NEW h \in Handlers, OpenCDR(h)
    PROVE  /\ req[h].at = "open" /\ Moved(h, {"send"}) /\ req'[h].ref = req[h].ref
           /\ req[h].op \in Creating
<1>1. req[h].at = "open" /\ Goto(h, "send") /\ nRequests' = nRequests /\ incidents' = incidents
    BY DEF OpenCDR, bounds, history
<1>2. req[h] # Idle /\ Place(req[h])
    BY <1>1, CriticalPlace DEF Critical
<1> QED
    BY <1>1, <1>2, MovesOn DEF Critical, Place

LEMMA RejectCreateMoves ==
    ASSUME IInv, NEW h \in Handlers, RejectCreate(h)
    PROVE  req[h].at = "open" /\ Moved(h, {"idle"}) /\ req'[h] = Idle
<1>1. req[h].at = "open" /\ Refuse(h) /\ nRequests' = nRequests /\ incidents' = incidents
    BY DEF RejectCreate, bounds
<1> QED
    BY <1>1, MovesOut DEF Idle

LEMMA LookupSessionMoves ==
    ASSUME IInv, NEW h \in Handlers, LookupSession(h)
    PROVE  req[h].at = "lookup" /\ Moved(h, {"charge", "idle"})
<1>1. req[h].at = "lookup" /\ req[h] # Idle /\ nRequests' = nRequests /\ incidents' = incidents
    BY DEF LookupSession, bounds, history, Idle
<1>2. CASE Goto(h, "charge")
    BY <1>1, <1>2, MovesOn DEF Critical, Moved
<1>3. CASE Refuse(h)
    BY <1>1, <1>3, MovesOut DEF Moved
<1> QED
    BY <1>1, <1>2, <1>3 DEF LookupSession

LEMMA ChargeMoves ==
    ASSUME IInv, NEW h \in Handlers, Charge(h)
    PROVE  req[h].at = "charge" /\ Moved(h, {"record"})
<1>1. req[h].at = "charge" /\ req[h] # Idle /\ Goto(h, "record")
      /\ nRequests' = nRequests /\ incidents' = incidents
    BY DEF Charge, bounds, Idle
<1> QED
    BY <1>1, MovesOn DEF Critical

LEMMA PanicMoves ==
    ASSUME IInv, NEW h \in Handlers, Panic(h)
    PROVE  req[h].at = "charge" /\ Moved(h, {"idle"}) /\ req'[h] = Idle
<1>1. req[h].at = "charge" /\ req[h] # Idle /\ Refuse(h)
      /\ nRequests' = nRequests /\ incidents \subseteq incidents'
    BY DEF Panic, Note, bounds, Idle
<1> QED
    BY <1>1, MovesOut

LEMMA RecordUpdateMoves ==
    ASSUME IInv, NEW h \in Handlers, RecordUpdate(h)
    PROVE  req[h].at = "record" /\ Moved(h, {"reopen", "dump"})
<1>1. req[h].at = "record" /\ req[h] # Idle /\ nRequests' = nRequests /\ incidents' = incidents
      /\ (Goto(h, "reopen") \/ Goto(h, "dump"))
    BY DEF RecordUpdate, bounds, history, Idle
<1>2. CASE Goto(h, "reopen")
    BY <1>1, <1>2, MovesOn DEF Critical, Moved
<1>3. CASE Goto(h, "dump")
    BY <1>1, <1>3, MovesOn DEF Critical, Moved
<1> QED
    BY <1>1, <1>2, <1>3

LEMMA ReopenCDRMoves ==
    ASSUME IInv, NEW h \in Handlers, ReopenCDR(h)
    PROVE  req[h].at = "reopen" /\ Moved(h, {"dump"})
<1>1. req[h].at = "reopen" /\ req[h] # Idle /\ Goto(h, "dump")
      /\ nRequests' = nRequests /\ incidents \subseteq incidents'
    BY DEF ReopenCDR, history, bounds, Idle
<1> QED
    BY <1>1, MovesOn DEF Critical

LEMMA DumpRecordsMoves ==
    ASSUME IInv, NEW h \in Handlers, DumpRecords(h)
    PROVE  /\ req[h].at = "dump" /\ req[h].op = "update" /\ Moved(h, {"send"})
           /\ req'[h].ue = req[h].ue
<1>1. req[h].at = "dump" /\ req[h] # Idle /\ Goto(h, "send")
      /\ nRequests' = nRequests /\ incidents' = incidents
    BY DEF DumpRecords, bounds, history, Idle
<1>2. Place(req[h])
    BY <1>1 DEF IInv, Placed
<1> QED
    BY <1>1, <1>2, MovesOn DEF Critical, Place

LEMMA FailDumpMoves ==
    ASSUME IInv, NEW h \in Handlers, FailDump(h)
    PROVE  req[h].at \in {"reopen", "dump"} /\ Moved(h, {"idle"}) /\ req'[h] = Idle
<1>1. req[h].at \in {"reopen", "dump"} /\ req[h] # Idle /\ Refuse(h)
      /\ nRequests' = nRequests /\ incidents \subseteq incidents'
    BY DEF FailDump, Note, bounds, Idle
<1> QED
    BY <1>1, MovesOut

LEMMA SendCDRMoves ==
    ASSUME IInv, NEW h \in Handlers, SendCDR(h)
    PROVE  req[h].at = "send" /\ Moved(h, {"idle"}) /\ req'[h] = Idle
<1>1. req[h].at = "send" /\ req[h] # Idle /\ Succeed(h)
      /\ nRequests' = nRequests /\ incidents \subseteq incidents'
    BY DEF SendCDR, Note, bounds, Idle
<1> QED
    BY <1>1, MovesOut

LEMMA RecordReleaseMoves ==
    ASSUME IInv, NEW h \in Handlers, RecordRelease(h)
    PROVE  req[h].at = "record" /\ Moved(h, {"idle"}) /\ req'[h] = Idle
<1>1. req[h].at = "record" /\ req[h] # Idle /\ (Refuse(h) \/ Succeed(h))
      /\ nRequests' = nRequests /\ incidents \subseteq incidents'
    BY DEF RecordRelease, Note, bounds, Idle
<1> QED
    BY <1>1, MovesOut

\* A request arrives.
Arrived(h) ==
    /\ Beside(h)
    /\ req[h] = Idle
    /\ req'[h] \in Request /\ req'[h].at = "find" /\ req'[h].report.id = nRequests + 1
    /\ nRequests' = nRequests + 1
    /\ UNCHANGED <<memory, disk, nCrashes, history>>

LEMMA Arrives ==
    ASSUME IInv, IInv', NEW h \in Handlers, Arrive(h)
    PROVE  Arrived(h)
<1>1. PICK op, supi, consumer, ref, size, partial :
         Receive(h, op, supi, consumer, ref, size, partial)
    BY DEF Arrive, ReceiveCreate, ReceiveUpdate, ReceiveRelease
<1> DEFINE r == [at |-> "find", op |-> op, supi |-> supi, consumer |-> consumer, ref |-> ref,
                 report |-> [id |-> nRequests + 1, size |-> size],
                 partial |-> partial, ue |-> NoContext]
<1>2. /\ req[h] = Idle /\ nRequests' = nRequests + 1 /\ req' = [req EXCEPT ![h] = r]
      /\ UNCHANGED <<memory, disk, nCrashes, history>>
    BY <1>1 DEF Receive
<1>3. r.at = "find" /\ r.report.id = nRequests + 1
    OBVIOUS
<1> HIDE DEF r
<1>4. req'[h] = r /\ Beside(h)
    BY <1>2 DEF IInv, TypeOK, Beside
<1>5. r \in Request
    <2>1. req'[h] \in Request \cup {Idle}
        BY DEF IInv, TypeOK
    <2>2. r # Idle
        BY <1>3 DEF Idle
    <2> QED
        BY <1>4, <2>1, <2>2
<1> QED
    BY <1>2, <1>3, <1>4, <1>5 DEF Arrived

\* Two requests have two reports.
LEMMA OwnReport ==
    ASSUME IInv, NEW g \in Handlers, NEW h \in Handlers, req[g] # Idle, req[h] # Idle, g # h
    PROVE  req[g].report.id # req[h].report.id
BY DEF IInv, Numbered

LEMMA ReportInRange ==
    ASSUME IInv, NEW h \in Handlers, req[h] # Idle
    PROVE  /\ req[h].report.id \in Reports /\ req[h].report.id <= nRequests
           /\ nRequests \in Nat /\ req[h] \in Request /\ Place(req[h])
BY ServesRequest, RequestFields DEF IInv, TypeOK, Numbered, Placed

-----------------------------------------------------------------------------
(* What a step does to the records.                                        *)

\* Nothing that is in a record is lost.
Kept ==
    \A i \in DOMAIN record :
        /\ i \in DOMAIN record' /\ record'[i].supi = record[i].supi
        /\ \A j \in DOMAIN record[i].reports :
              j \in DOMAIN record'[i].reports /\ record'[i].reports[j] = record[i].reports[j]

\* One place at most is new, and the report is there.
Written(i, j) == i \in DOMAIN record /\ j \in DOMAIN record[i].reports
OneMore(report) ==
    \A i, k \in DOMAIN record' :
        \A j \in DOMAIN record'[i].reports, l \in DOMAIN record'[k].reports :
            /\ ~Written(i, j) => record'[i].reports[j] = report
            /\ ~Written(i, j) /\ ~Written(k, l) => i = k /\ j = l

LEMMA AddsReport ==
    ASSUME Tables, NEW u \in Contexts, NEW x \in Record, Added(u, x), NEW report \in Report,
           x.reports = <<>> \/ x.reports = Append(<<>>, report)
    PROVE  Kept /\ OneMore(report)
<1> DEFINE new == Len(record) + 1
           first == 1
<1>1. /\ DOMAIN record' = DOMAIN record \cup {new} /\ new \notin DOMAIN record
      /\ \A i \in DOMAIN record : record'[i] = record[i]
      /\ record'[new] = x
    BY AddRecord
<1> HIDE DEF new
<1>2. \A j \in DOMAIN x.reports : j = first /\ x.reports[j] = report
    OBVIOUS
<1> HIDE DEF first
<1>3. Kept
    BY <1>1 DEF Kept
<1>4. \A i \in DOMAIN record' : \A j \in DOMAIN record'[i].reports :
         Written(i, j) \/ (i = new /\ j = first /\ record'[i].reports[j] = report)
    BY <1>1, <1>2 DEF Written
<1>5. OneMore(report)
    BY <1>4 DEF OneMore
<1> QED
    BY <1>3, <1>5

LEMMA ExtendsRecord ==
    ASSUME Tables, NEW k \in DOMAIN record, NEW x \in Record,
           DOMAIN record' = DOMAIN record, record'[k] = x,
           \A i \in DOMAIN record \ {k} : record'[i] = record[i], NEW report \in Report,
           x.supi = record[k].supi,
           x.reports = record[k].reports \/ x.reports = Append(record[k].reports, report)
    PROVE  Kept /\ OneMore(report)
<1> DEFINE old == record[k].reports
<1>0. PICK next : next = Len(old) + 1
    OBVIOUS
<1>2. old \in Seq(Report)
    <2>1. record[k] \in Record
        BY LenProperties, ElementOfSeq DEF Tables
    <2> QED
        BY <2>1 DEF Record
<1>3. /\ Len(old) \in Nat /\ DOMAIN old = 1 .. Len(old)
      /\ DOMAIN x.reports \subseteq DOMAIN old \cup {next} /\ DOMAIN old \subseteq DOMAIN x.reports
      /\ \A j \in DOMAIN old : x.reports[j] = old[j]
      /\ next \in DOMAIN x.reports => x.reports[next] = report
    <2>1. Len(old) \in Nat /\ DOMAIN old = 1 .. Len(old)
        BY <1>2, LenProperties
    <2>2. CASE x.reports = old
        BY <1>0, <2>1, <2>2
    <2>3. CASE x.reports = Append(old, report)
        <3>1. /\ x.reports \in Seq(Report) /\ Len(x.reports) = next
              /\ \A j \in 1 .. Len(old) : x.reports[j] = old[j]
              /\ x.reports[next] = report
            BY <1>0, <1>2, <2>3, AppendProperties
        <3>2. DOMAIN x.reports = 1 .. next
            BY <3>1, LenProperties
        <3> QED
            BY <1>0, <2>1, <3>1, <3>2
    <2> QED
        BY <2>2, <2>3
<1>4. Kept
    BY <1>3 DEF Kept
<1>5. \A i \in DOMAIN record' : \A j \in DOMAIN record'[i].reports :
         Written(i, j) \/ (i = k /\ j = next /\ record'[i].reports[j] = report)
    BY <1>3 DEF Written
<1>6. OneMore(report)
    BY <1>5 DEF OneMore
<1> QED
    BY <1>4, <1>6

\* What the actions that write records put there.
LEMMA OpenCDRWrites ==
    ASSUME IInv, NEW h \in Handlers, OpenCDR(h)
    PROVE  Kept /\ OneMore(req[h].report)
<1>1. req[h].at \in Critical /\ req[h].at = "open"
    BY DEF OpenCDR, Critical
<1>2. /\ req[h].ue \in Contexts /\ req[h].report \in Report /\ req[h] \in Request
      /\ req[h].ref \in Ref \cup {NoRef}
    BY <1>1, CriticalPlace DEF Place
<1> DEFINE new == NewRecord(req[h])
           x == Extended(new, req[h].report)
<1>3. new \in Record /\ new.reports = <<>>
    BY <1>2, NewRecordType DEF IInv
<1> HIDE DEF new
<1>4. x.reports = <<>> \/ x.reports = Append(<<>>, req[h].report)
    BY <1>2, <1>3, ExtendedRecord
<1>5. x \in Record /\ Added(req[h].ue, x)
    BY OpenCDRAdds DEF new
<1> HIDE DEF x
<1> QED
    BY <1>2, <1>4, <1>5, TablesNow, AddsReport

LEMMA RecordUpdateWrites ==
    ASSUME IInv, NEW h \in Handlers, RecordUpdate(h)
    PROVE  Kept /\ OneMore(req[h].report)
<1>1. req[h].at \in Critical /\ Known(h)
    BY RecordUpdateDoes
<1>2. req[h].ue \in Contexts /\ req[h].report \in Report
      /\ Current(h) \in DOMAIN record /\ record[Current(h)] \in Record
    BY <1>1, CriticalPlace, CurrentRecord
<1>3. CASE record' = [record EXCEPT ![Current(h)] =
                        Extended(record[Current(h)], req[h].report)]
    <2> DEFINE x == Extended(record[Current(h)], req[h].report)
    <2>1. /\ x \in Record /\ x.supi = record[Current(h)].supi
          /\ \/ x.reports = record[Current(h)].reports
             \/ x.reports = Append(record[Current(h)].reports, req[h].report)
        BY <1>2, ExtendedRecord
    <2>2. record' = [record EXCEPT ![Current(h)] = x]
        BY <1>3
    <2>3. record \in Seq(Record)
        BY DEF IInv, TypeOK
    <2> HIDE DEF x
    <2>4. /\ DOMAIN record' = DOMAIN record /\ record'[Current(h)] = x
          /\ \A i \in DOMAIN record \ {Current(h)} : record'[i] = record[i]
        BY <1>2, <2>2, <2>3
    <2> QED
        BY <1>2, <2>1, <2>4, TablesNow, ExtendsRecord
<1>4. CASE /\ Added(req[h].ue, Extended(Split(record[Current(h)]), req[h].report))
           /\ Extended(Split(record[Current(h)]), req[h].report) \in Record
    <2> DEFINE split == Split(record[Current(h)])
               x == Extended(split, req[h].report)
    <2>1. split \in Record /\ split.reports = <<>>
        BY <1>2, SplitRecord
    <2> HIDE DEF split
    <2>2. x.reports = <<>> \/ x.reports = Append(<<>>, req[h].report)
        <3>1. req[h].report \in Report
            BY <1>2
        <3>2. x.reports = IF req[h].report.size = 0 THEN split.reports
                          ELSE Append(split.reports, req[h].report)
            BY <2>1, <3>1, ExtendedRecord
        <3> QED
            BY <2>1, <3>2
    <2>3. x \in Record /\ Added(req[h].ue, x)
        BY <1>4 DEF split
    <2> HIDE DEF x
    <2> QED
        BY <1>2, <2>2, <2>3, TablesNow, AddsReport
<1> QED
    BY <1>3, <1>4, RecordUpdateDoes

LEMMA RecordReleaseWrites ==
    ASSUME IInv, NEW h \in Handlers, RecordRelease(h)
    PROVE  Kept /\ OneMore(req[h].report)
<1>1. CASE UNCHANGED record
    BY <1>1 DEF Kept, OneMore, Written
<1>2. CASE Known(h) /\ record' = [record EXCEPT ![Current(h)] =
                                    Extended(record[Current(h)], req[h].report)]
    <2>1. req[h].at \in Critical
        BY RecordReleaseDoes
    <2>2. req[h].report \in Report
          /\ Current(h) \in DOMAIN record /\ record[Current(h)] \in Record
        BY <1>2, <2>1, CriticalPlace, CurrentRecord
    <2> DEFINE x == Extended(record[Current(h)], req[h].report)
    <2>3. /\ x \in Record /\ x.supi = record[Current(h)].supi
          /\ \/ x.reports = record[Current(h)].reports
             \/ x.reports = Append(record[Current(h)].reports, req[h].report)
        BY <2>2, ExtendedRecord
    <2>4. record' = [record EXCEPT ![Current(h)] = x]
        BY <1>2
    <2>5. record \in Seq(Record)
        BY DEF IInv, TypeOK
    <2> HIDE DEF x
    <2>6. /\ DOMAIN record' = DOMAIN record /\ record'[Current(h)] = x
          /\ \A i \in DOMAIN record \ {Current(h)} : record'[i] = record[i]
        BY <2>2, <2>4, <2>5
    <2> QED
        BY <2>2, <2>3, <2>6, TablesNow, ExtendsRecord
<1> QED
    BY <1>1, <1>2, RecordReleaseDoes

\* The reports stay where they are.
SameReports ==
    /\ DOMAIN record' = DOMAIN record
    /\ \A i \in DOMAIN record :
          record'[i].reports = record[i].reports /\ record'[i].supi = record[i].supi

LEMMA ReopenCDRWrites ==
    ASSUME IInv, NEW h \in Handlers, ReopenCDR(h)
    PROVE  SameReports
<1>1. Known(h) /\ req[h].at \in Critical
    BY ReopenCDRDoes
<1>2. Current(h) \in DOMAIN record
    BY <1>1, CriticalPlace, CurrentRecord
<1>3. record \in Seq(Record)
    BY DEF IInv, TypeOK
<1> QED
    BY <1>2, <1>3, ReopenCDRDoes DEF SameReports

-----------------------------------------------------------------------------
(* Charged once, recorded once, refused clean.                             *)

OnceInv == ChargedOnce /\ RecordedOnce /\ Unrefused /\ RefusedClean

ChargesWell(h) ==
    \/ /\ UNCHANGED charged
       /\ req'[h].at \in BeforeCharge => req[h].at \in BeforeCharge
       /\ req'[h] # Idle /\ req'[h].at \notin BeforeCharge =>
             req[h].at \notin BeforeCharge \/ req[h].op \in Creating
    \/ /\ req[h].at = "charge" /\ req'[h].at \notin BeforeCharge
       /\ charged' = [charged EXCEPT ![req[h].report.id] = @ + 1]

RecordsWell(h) ==
    \/ SameReports /\ (req'[h].at \in BeforeRecord => req[h].at \in BeforeRecord)
    \/ /\ req[h].at \in BeforeRecord /\ req'[h].at \notin BeforeRecord
       /\ Kept /\ OneMore(req[h].report)

RefusesWell(h) ==
    \/ UNCHANGED refused
    \/ /\ req'[h] = Idle /\ refused' = refused \cup {req[h].report.id}
       /\ \A r \in {req[h].report.id} :
             Without({"panic", "disk", "unknown"})' => charged'[r] = 0 /\ Unrecorded(r)'

LEMMA ChargedStep ==
    ASSUME IInv, ChargedOnce, NEW h \in Handlers, NEW places, Moved(h, places), ChargesWell(h)
    PROVE  ChargedOnce'
<1> DEFINE id == req[h].report.id
<1>1. id \in Reports /\ id <= nRequests /\ charged \in [Reports -> Nat]
    BY ReportInRange DEF IInv, TypeOK, Moved
<1>2. /\ \A r \in Reports \ {id} : charged'[r] = charged[r]
      /\ \/ charged'[id] = charged[id]
         \/ req[h].at = "charge" /\ charged'[id] = charged[id] + 1
    BY <1>1 DEF ChargesWell
<1>3. req[h].at = "charge" => charged[id] = 0
    BY DEF ChargedOnce, Moved, BeforeCharge
<1>4. \A r \in Reports : charged'[r] <= 1 /\ (r > nRequests' => charged'[r] = 0)
    <2>1. ASSUME NEW r \in Reports
          PROVE  charged'[r] <= 1 /\ (r > nRequests' => charged'[r] = 0)
        <3>1. CASE r = id
            <4>1. nRequests \in Nat /\ ~(id > nRequests)
                BY <1>1 DEF IInv, TypeOK, Reports
            <4>2. charged'[id] <= 1
                BY <1>1, <1>2, <1>3 DEF ChargedOnce
            <4> QED
                BY <3>1, <4>1, <4>2 DEF Moved
        <3>2. CASE r # id
            BY <1>2, <3>2 DEF ChargedOnce, Moved
        <3> QED
            BY <3>1, <3>2
    <2> QED
        BY <2>1
<1>5. ASSUME NEW g \in Handlers, req'[g] # Idle
      PROVE  /\ req'[g].at \in BeforeCharge => charged'[req'[g].report.id] = 0
             /\ req'[g].at \notin BeforeCharge /\ req'[g].op \notin Creating =>
                   charged'[req'[g].report.id] = 1
    <2>1. CASE g # h
        <3>1. req'[g] = req[g] /\ req[g] # Idle /\ req[h] # Idle
            BY <1>5, <2>1 DEF Moved, Beside
        <3>2. req[g].report.id \in Reports \ {id}
            BY <2>1, <3>1, OwnReport, ReportInRange
        <3> QED
            BY <1>2, <3>1, <3>2 DEF ChargedOnce
    <2>2. CASE g = h
        <3>1. req'[h].report = req[h].report /\ req'[h].op = req[h].op /\ req[h] # Idle
            BY <1>5, <2>2 DEF Moved
        <3>2. CASE UNCHANGED charged
            <4>1. /\ req'[h].at \in BeforeCharge => req[h].at \in BeforeCharge
                  /\ req'[h].at \notin BeforeCharge =>
                        req[h].at \notin BeforeCharge \/ req[h].op \in Creating
                BY <1>1, <1>5, <2>2, <3>2 DEF ChargesWell
            <4> QED
                BY <2>2, <3>1, <3>2, <4>1 DEF ChargedOnce
        <3>3. CASE /\ req[h].at = "charge" /\ req'[h].at \notin BeforeCharge
                   /\ charged' = [charged EXCEPT ![id] = @ + 1]
            BY <1>1, <1>3, <2>2, <3>1, <3>3
        <3> QED
            BY <3>2, <3>3 DEF ChargesWell
    <2> QED
        BY <2>1, <2>2
<1> QED
    BY <1>4, <1>5 DEF ChargedOnce

LEMMA RecordedStep ==
    ASSUME IInv, RecordedOnce, NEW h \in Handlers, NEW places, Moved(h, places), RecordsWell(h)
    PROVE  RecordedOnce' /\ \A r : Unrecorded(r) /\ r # req[h].report.id => Unrecorded(r)'
<1> DEFINE id == req[h].report.id
<1>1. id \in Reports /\ id <= nRequests /\ id \in Nat
    BY ReportInRange DEF Moved, Reports
<1>2. CASE SameReports /\ (req'[h].at \in BeforeRecord => req[h].at \in BeforeRecord)
    <2>1. \A r : Unrecorded(r) => Unrecorded(r)'
        BY <1>2 DEF SameReports, Unrecorded
    <2>2. \A i, k \in DOMAIN record' :
             \A j \in DOMAIN record'[i].reports, l \in DOMAIN record'[k].reports :
                record'[i].reports[j].id = record'[k].reports[l].id => i = k /\ j = l
        BY <1>2 DEF SameReports, RecordedOnce
    <2>3. ASSUME NEW g \in Handlers, req'[g].at \in BeforeRecord
          PROVE  Unrecorded(req[g].report.id)'
        <3>1. CASE g = h
            BY <1>2, <2>1, <2>3, <3>1 DEF Moved, RecordedOnce, BeforeRecord,
                                          BeforeCharge, Idle
        <3>2. CASE g # h
            BY <2>1, <2>3, <3>2 DEF Moved, Beside, RecordedOnce
        <3> QED
            BY <3>1, <3>2
    <2> QED
        BY <2>1, <2>2, <2>3 DEF RecordedOnce, Moved
<1>3. CASE /\ req[h].at \in BeforeRecord /\ req'[h].at \notin BeforeRecord
           /\ Kept /\ OneMore(req[h].report)
    <2>1. Unrecorded(id)
        BY <1>3 DEF RecordedOnce
    <2>2. \A i \in DOMAIN record' : \A j \in DOMAIN record'[i].reports :
             \/ /\ Written(i, j) /\ record'[i].reports[j] = record[i].reports[j]
                /\ record'[i].reports[j].id # id
             \/ ~Written(i, j) /\ record'[i].reports[j].id = id
        BY <1>3, <2>1 DEF Kept, OneMore, Written, Unrecorded
    <2>3. \A r : Unrecorded(r) /\ r # id => Unrecorded(r)'
        BY <2>2 DEF Unrecorded, Written
    <2>4. ASSUME NEW i \in DOMAIN record', NEW k \in DOMAIN record',
                 NEW j \in DOMAIN record'[i].reports, NEW l \in DOMAIN record'[k].reports,
                 record'[i].reports[j].id = record'[k].reports[l].id
          PROVE  i = k /\ j = l
        <3>1. CASE Written(i, j) /\ Written(k, l)
            BY <2>2, <2>4, <3>1 DEF RecordedOnce, Written
        <3>2. CASE ~Written(i, j) /\ ~Written(k, l)
            BY <1>3, <3>2 DEF OneMore
        <3> QED
            BY <2>2, <2>4, <3>1, <3>2
    <2>5. ASSUME NEW g \in Handlers, req'[g].at \in BeforeRecord
          PROVE  Unrecorded(req[g].report.id)'
        <3>1. g # h
            BY <1>3, <2>5
        <3>2. req'[g] = req[g] /\ req[g] # Idle /\ req[h] # Idle
            BY <2>5, <3>1 DEF Moved, Beside, BeforeRecord, BeforeCharge, Idle
        <3>3. req[g].report.id # id
            BY <3>1, <3>2, OwnReport
        <3> QED
            BY <2>3, <2>5, <3>2, <3>3 DEF RecordedOnce
    <2>6. \A r \in Reports : r > nRequests' => Unrecorded(r)'
        <3>1. \A r \in Reports : r > nRequests => r # id
            BY <1>1, ReportInRange DEF Moved, Reports
        <3> QED
            BY <2>3, <3>1 DEF RecordedOnce, Moved
    <2> QED
        BY <2>3, <2>4, <2>5, <2>6 DEF RecordedOnce
<1> QED
    BY <1>2, <1>3 DEF RecordsWell

LEMMA RefusedStep ==
    ASSUME IInv, OnceInv, NEW h \in Handlers, NEW places, Moved(h, places), ChargesWell(h),
           RefusesWell(h), \A r : Unrecorded(r) /\ r # req[h].report.id => Unrecorded(r)'
    PROVE  Unrefused' /\ RefusedClean'
<1> DEFINE id == req[h].report.id
<1>1. /\ id \in Reports /\ id <= nRequests /\ req[h] # Idle /\ id \notin refused
      /\ charged \in [Reports -> Nat] /\ refused \subseteq Reports
    BY ReportInRange DEF IInv, TypeOK, OnceInv, Unrefused, Moved
<1>2. \A r \in Reports \ {id} : charged'[r] = charged[r]
    BY <1>1 DEF ChargesWell
<1>3. Without({"panic", "disk", "unknown"})' => Without({"panic", "disk", "unknown"})
    BY DEF Moved, Without
<1>4. Unrefused'
    <2>1. \A r \in refused' : r <= nRequests'
        BY <1>1 DEF OnceInv, Unrefused, RefusesWell, Moved
    <2>2. ASSUME NEW g \in Handlers, req'[g] # Idle
          PROVE  req'[g].report.id \notin refused'
        <3>1. CASE g = h
            BY <1>1, <2>2, <3>1 DEF RefusesWell, Moved
        <3>2. CASE g # h
            <4>1. req'[g] = req[g] /\ req[g].report.id # id /\ req[g] # Idle
                BY <1>1, <2>2, <3>2, OwnReport DEF Moved, Beside
            <4> QED
                BY <4>1 DEF RefusesWell, OnceInv, Unrefused
        <3> QED
            BY <3>1, <3>2
    <2> QED
        BY <2>1, <2>2 DEF Unrefused
<1>5. RefusedClean'
    <2>1. SUFFICES ASSUME Without({"panic", "disk", "unknown"})', NEW r \in refused'
                   PROVE  charged'[r] = 0 /\ Unrecorded(r)'
        BY DEF RefusedClean
    <2>2. CASE r \in refused
        BY <1>1, <1>2, <1>3, <2>1, <2>2 DEF OnceInv, RefusedClean
    <2>3. CASE r \notin refused
        BY <2>1, <2>3 DEF RefusesWell
    <2> QED
        BY <2>2, <2>3
<1> QED
    BY <1>4, <1>5

LEMMA OnceStep ==
    ASSUME IInv, OnceInv, NEW h \in Handlers, NEW places, Moved(h, places),
           ChargesWell(h), RecordsWell(h), RefusesWell(h)
    PROVE  OnceInv'
BY ChargedStep, RecordedStep, RefusedStep DEF OnceInv

LEMMA SameRecord == UNCHANGED record => SameReports
BY DEF SameReports

LEMMA OnceArrive ==
    ASSUME IInv, OnceInv, NEW h \in Handlers, Arrived(h)
    PROVE  OnceInv'
<1> DEFINE id == nRequests + 1
<1>1. /\ nRequests \in Nat /\ id \in Reports /\ id > nRequests
      /\ \A r \in Reports : r > nRequests' => r > nRequests
      /\ \A r \in refused : r <= nRequests => r <= nRequests' /\ r # id
    <2>1. req'[h].report.id \in Reports
        BY RequestFields DEF Arrived
    <2> QED
        BY <2>1 DEF IInv, TypeOK, Arrived, Reports
<1>2. UNCHANGED <<record, charged, refused, incidents>>
    BY DEF Arrived, memory, history
<1>3. \A g \in Handlers \ {h} : req'[g] = req[g]
    BY DEF Arrived, Beside
<1>4. /\ req'[h] # Idle /\ req'[h].at = "find" /\ req'[h].report.id = id
      /\ nRequests' = id
    BY RequestFields DEF Arrived
<1>5. charged[id] = 0 /\ Unrecorded(id)
    BY <1>1 DEF OnceInv, ChargedOnce, RecordedOnce
<1> HIDE DEF id
<1>6. ChargedOnce'
    BY <1>1, <1>2, <1>3, <1>4, <1>5 DEF OnceInv, ChargedOnce, BeforeCharge
<1>7. RecordedOnce'
    BY <1>1, <1>2, <1>3, <1>4, <1>5 DEF OnceInv, RecordedOnce, Unrecorded
<1>8. Unrefused'
    BY <1>1, <1>2, <1>3, <1>4 DEF OnceInv, Unrefused
<1>9. RefusedClean'
    BY <1>2 DEF OnceInv, RefusedClean, Unrecorded, Without
<1> QED
    BY <1>6, <1>7, <1>8, <1>9 DEF OnceInv

\* Who is refused before charging is refused clean.
LEMMA RefusedBefore ==
    ASSUME OnceInv, NEW h \in Handlers, req[h] # Idle, req[h].at \in BeforeCharge,
           Refuse(h), UNCHANGED <<record, charged>>, req'[h] = Idle
    PROVE  RefusesWell(h)
<1>1. \A r \in {req[h].report.id} : charged[r] = 0 /\ Unrecorded(r)
    BY DEF OnceInv, ChargedOnce, RecordedOnce, BeforeRecord
<1>2. \A r : Unrecorded(r) => Unrecorded(r)'
    BY DEF Unrecorded
<1> QED
    BY <1>1, <1>2 DEF RefusesWell, Refuse

\* Who is refused after an incident does not count.
LEMMA RefusedAfter ==
    ASSUME NEW h \in Handlers, Refuse(h), req'[h] = Idle,
           incidents' \cap {"panic", "disk", "unknown"} # {}
    PROVE  RefusesWell(h)
BY DEF RefusesWell, Refuse, Without

LEMMA OnceKept ==
    ASSUME IInv, IInv', OnceInv, NEW h \in Handlers, LockContext(h) \/ Work(h)
    PROVE  OnceInv'
<1> USE DEF BeforeCharge, BeforeRecord
<1>1. CASE FindContext(h)
    <2>1. req[h].at = "find" /\ Moved(h, {"new", "lock", "idle"}) /\ UNCHANGED record
        BY <1>1, FindContextMoves DEF FindContext, memory
    <2>2. UNCHANGED charged /\ (UNCHANGED refused \/ Refuse(h))
        BY <1>1 DEF FindContext, history
    <2>3. ChargesWell(h) /\ RecordsWell(h)
        BY <2>1, <2>2, SameRecord DEF ChargesWell, RecordsWell, Moved, Request
    <2>4. RefusesWell(h)
        <3>1. Refuse(h) => req'[h] = Idle
            BY IsDone DEF IInv
        <3> QED
            BY <2>1, <2>2, <3>1, RefusedBefore DEF RefusesWell, Moved
    <2> QED
        BY <2>1, <2>3, <2>4, OnceStep
<1>2. CASE NewContext(h)
    <2>1. req[h].at = "new" /\ Moved(h, {"lock"}) /\ UNCHANGED <<record, charged, refused>>
        BY <1>2, NewContextMoves DEF NewContext
    <2>2. ChargesWell(h) /\ RecordsWell(h) /\ RefusesWell(h)
        BY <2>1, SameRecord DEF ChargesWell, RecordsWell, RefusesWell, Moved
    <2> QED
        BY <2>1, <2>2, OnceStep
<1>3. CASE LockContext(h)
    <2>1. /\ req[h].at = "lock" /\ Moved(h, {"ref", "lookup", "charge"})
          /\ UNCHANGED <<record, charged, refused>>
        BY <1>3, LockContextMoves DEF LockContext, history
    <2>2. ChargesWell(h) /\ RecordsWell(h) /\ RefusesWell(h)
        BY <2>1, SameRecord DEF ChargesWell, RecordsWell, RefusesWell, Moved
    <2> QED
        BY <2>1, <2>2, OnceStep
<1>4. CASE ChooseRef(h)
    <2>1. req[h].at = "ref" /\ Moved(h, {"open"}) /\ UNCHANGED <<record, charged, refused>>
        BY <1>4, ChooseRefMoves DEF ChooseRef, memory, history
    <2>2. ChargesWell(h) /\ RecordsWell(h) /\ RefusesWell(h)
        BY <2>1, SameRecord DEF ChargesWell, RecordsWell, RefusesWell, Moved
    <2> QED
        BY <2>1, <2>2, OnceStep
<1>5. CASE OpenCDR(h)
    <2>1. /\ req[h].at = "open" /\ Moved(h, {"send"}) /\ req[h].op \in Creating
          /\ Kept /\ OneMore(req[h].report) /\ UNCHANGED <<charged, refused>>
        BY <1>5, OpenCDRMoves, OpenCDRWrites DEF OpenCDR, history
    <2>2. ChargesWell(h) /\ RecordsWell(h) /\ RefusesWell(h)
        BY <2>1 DEF ChargesWell, RecordsWell, RefusesWell, Moved
    <2> QED
        BY <2>1, <2>2, OnceStep
<1>6. CASE RejectCreate(h)
    <2>1. /\ req[h].at = "open" /\ Moved(h, {"idle"}) /\ req'[h] = Idle
          /\ Refuse(h) /\ UNCHANGED <<record, charged>>
        BY <1>6, RejectCreateMoves DEF RejectCreate
    <2>2. ChargesWell(h) /\ RecordsWell(h) /\ RefusesWell(h)
        BY <2>1, SameRecord, RefusedBefore DEF ChargesWell, RecordsWell, Moved
    <2> QED
        BY <2>1, <2>2, OnceStep
<1>7. CASE LookupSession(h)
    <2>1. /\ req[h].at = "lookup" /\ Moved(h, {"charge", "idle"})
          /\ UNCHANGED <<record, charged>> /\ (UNCHANGED refused \/ Refuse(h))
        BY <1>7, LookupSessionMoves DEF LookupSession, history
    <2>2. ChargesWell(h) /\ RecordsWell(h)
        BY <2>1, SameRecord DEF ChargesWell, RecordsWell, Moved, Request
    <2>3. RefusesWell(h)
        <3>1. Refuse(h) => req'[h] = Idle
            BY IsDone DEF IInv
        <3> QED
            BY <2>1, <3>1, RefusedBefore DEF RefusesWell, Moved
    <2> QED
        BY <2>1, <2>2, <2>3, OnceStep
<1>8. CASE Charge(h)
    <2>1. /\ req[h].at = "charge" /\ Moved(h, {"record"}) /\ UNCHANGED <<record, refused>>
          /\ charged' = [charged EXCEPT ![req[h].report.id] = @ + 1]
        BY <1>8, ChargeMoves DEF Charge, memory
    <2>2. ChargesWell(h) /\ RecordsWell(h) /\ RefusesWell(h)
        BY <2>1, SameRecord DEF ChargesWell, RecordsWell, RefusesWell, Moved
    <2> QED
        BY <2>1, <2>2, OnceStep
<1>9. CASE Panic(h)
    <2>1. /\ req[h].at = "charge" /\ Moved(h, {"idle"}) /\ req'[h] = Idle /\ Refuse(h)
          /\ UNCHANGED record /\ charged' = [charged EXCEPT ![req[h].report.id] = @ + 1]
          /\ "panic" \in incidents'
        BY <1>9, PanicMoves DEF Panic, Note
    <2>2. ChargesWell(h) /\ RecordsWell(h) /\ RefusesWell(h)
        BY <2>1, SameRecord, RefusedAfter DEF ChargesWell, RecordsWell, Moved
    <2> QED
        BY <2>1, <2>2, OnceStep
<1>10. CASE RecordUpdate(h)
    <2>1. /\ req[h].at = "record" /\ Moved(h, {"reopen", "dump"})
          /\ Kept /\ OneMore(req[h].report) /\ UNCHANGED <<charged, refused>>
        BY <1>10, RecordUpdateMoves, RecordUpdateWrites DEF RecordUpdate, history
    <2>2. ChargesWell(h) /\ RecordsWell(h) /\ RefusesWell(h)
        BY <2>1 DEF ChargesWell, RecordsWell, RefusesWell, Moved
    <2> QED
        BY <2>1, <2>2, OnceStep
<1>11. CASE ReopenCDR(h)
    <2>1. /\ req[h].at = "reopen" /\ Moved(h, {"dump"}) /\ SameReports
          /\ UNCHANGED <<charged, refused>>
        BY <1>11, ReopenCDRMoves, ReopenCDRWrites DEF ReopenCDR, history
    <2>2. ChargesWell(h) /\ RecordsWell(h) /\ RefusesWell(h)
        BY <2>1 DEF ChargesWell, RecordsWell, RefusesWell, Moved
    <2> QED
        BY <2>1, <2>2, OnceStep
<1>12. CASE DumpRecords(h)
    <2>1. /\ req[h].at = "dump" /\ Moved(h, {"send"}) /\ UNCHANGED <<record, charged, refused>>
        BY <1>12, DumpRecordsMoves DEF DumpRecords, memory, history
    <2>2. ChargesWell(h) /\ RecordsWell(h) /\ RefusesWell(h)
        BY <2>1, SameRecord DEF ChargesWell, RecordsWell, RefusesWell, Moved
    <2> QED
        BY <2>1, <2>2, OnceStep
<1>13. CASE FailDump(h)
    <2>1. /\ req[h].at \in {"reopen", "dump"} /\ Moved(h, {"idle"}) /\ req'[h] = Idle
          /\ Refuse(h) /\ UNCHANGED <<record, charged>> /\ "disk" \in incidents'
        BY <1>13, FailDumpMoves DEF FailDump, Note
    <2>2. ChargesWell(h) /\ RecordsWell(h) /\ RefusesWell(h)
        BY <2>1, SameRecord, RefusedAfter DEF ChargesWell, RecordsWell, Idle
    <2> QED
        BY <2>1, <2>2, OnceStep
<1>14. CASE SendCDR(h)
    <2>1. /\ req[h].at = "send" /\ Moved(h, {"idle"}) /\ req'[h] = Idle
          /\ UNCHANGED <<record, charged, refused>>
        BY <1>14, SendCDRMoves DEF SendCDR, Succeed
    <2>2. ChargesWell(h) /\ RecordsWell(h) /\ RefusesWell(h)
        BY <2>1, SameRecord DEF ChargesWell, RecordsWell, RefusesWell, Idle
    <2> QED
        BY <2>1, <2>2, OnceStep
<1>15. CASE RecordRelease(h)
    <2>1. /\ req[h].at = "record" /\ Moved(h, {"idle"}) /\ req'[h] = Idle
          /\ Kept /\ OneMore(req[h].report) /\ UNCHANGED charged
        BY <1>15, RecordReleaseMoves, RecordReleaseWrites DEF RecordRelease
    <2>2. ChargesWell(h) /\ RecordsWell(h)
        BY <2>1 DEF ChargesWell, RecordsWell, Idle
    <2>3. \/ UNCHANGED refused
          \/ Refuse(h) /\ incidents' \cap {"panic", "disk", "unknown"} # {}
        BY <1>15 DEF RecordRelease, Note, Succeed
    <2>4. RefusesWell(h)
        BY <2>1, <2>3, RefusedAfter DEF RefusesWell
    <2> QED
        BY <2>1, <2>2, <2>4, OnceStep
<1> QED
    BY <1>1, <1>2, <1>3, <1>4, <1>5, <1>6, <1>7, <1>8, <1>9, <1>10, <1>11, <1>12, <1>13,
       <1>14, <1>15 DEF Work

LEMMA OnceCrash ==
    ASSUME IInv, OnceInv, Crash
    PROVE  OnceInv'
<1>1. /\ record' = <<>> /\ UNCHANGED <<nRequests, charged, refused>>
      /\ incidents \subseteq incidents' /\ \A h \in Handlers : req'[h] = Idle
    BY DEF Crash, Note
<1>2. \A r : Unrecorded(r)'
    BY <1>1 DEF Unrecorded
<1>3. ChargedOnce' /\ Unrefused'
    BY <1>1 DEF OnceInv, ChargedOnce, Unrefused
<1>4. RecordedOnce'
    BY <1>1, <1>2 DEF RecordedOnce, BeforeRecord, BeforeCharge, Idle
<1>5. RefusedClean'
    BY <1>1, <1>2 DEF OnceInv, RefusedClean, Without
<1> QED
    BY <1>3, <1>4, <1>5 DEF OnceInv

-----------------------------------------------------------------------------
(* One context, one lock, growing references.                              *)

LEMMA OneContextStep ==
    ASSUME IInv, OneContext, NEW h \in Handlers, NEW places, Moved(h, places), UNCHANGED pool,
           req'[h] # Idle /\ req'[h].at \notin Looking =>
               req[h].at \notin Looking \/ req'[h].ue = pool[req[h].supi]
    PROVE  OneContext'
<1>1. SUFFICES ASSUME Without({"duplicate"})', NEW g \in Handlers,
                      req'[g] # Idle, req'[g].at \notin Looking
               PROVE  req'[g].ue = pool'[req'[g].supi]
    BY DEF OneContext
<1>2. Without({"duplicate"})
    BY <1>1 DEF Moved, Without
<1>3. CASE g = h
    BY <1>1, <1>2, <1>3 DEF OneContext, Moved
<1>4. CASE g # h
    BY <1>1, <1>2, <1>4 DEF OneContext, Moved, Beside
<1> QED
    BY <1>3, <1>4

LEMMA OneContextNew ==
    ASSUME IInv, IInv', OneContext, NEW h \in Handlers, NewContext(h)
    PROVE  OneContext'
<1>1. /\ req[h].at = "new" /\ Moved(h, {"lock"})
      /\ req'[h].ue = nContexts + 1 /\ pool' = [pool EXCEPT ![req[h].supi] = nContexts + 1]
    BY NewContextMoves
<1>2. req[h].supi \in Supis /\ pool \in [Supis -> Contexts \cup {NoContext}]
    BY <1>1, RequestFields DEF IInv, TypeOK, Moved
<1>3. SUFFICES ASSUME Without({"duplicate"})', NEW g \in Handlers,
                      req'[g] # Idle, req'[g].at \notin Looking
               PROVE  req'[g].ue = pool'[req'[g].supi]
    BY DEF OneContext
<1>4. Without({"duplicate"}) /\ pool[req[h].supi] = NoContext
    BY <1>3 DEF NewContext, Note, Without
<1>5. CASE g = h
    BY <1>1, <1>2, <1>3, <1>5 DEF Moved
<1>6. CASE g # h
    <2>1. req'[g] = req[g] /\ req[g] # Idle /\ req[g].at \notin Looking
        BY <1>1, <1>3, <1>6 DEF Moved, Beside
    <2>2. req[g].ue = pool[req[g].supi] /\ req[g].ue # NoContext
        BY <1>4, <2>1, HasContext DEF OneContext
    <2> QED
        BY <1>1, <1>2, <1>4, <2>1, <2>2
<1> QED
    BY <1>5, <1>6

\* Two requests of one subscriber are never both under its lock.
LEMMA Exclusion ==
    ASSUME IInv, OneContext, Without({"duplicate"}), NEW g \in Handlers, NEW h \in Handlers,
           req[g].at \in Critical, req[h].at \in Critical, req[g].supi = req[h].supi
    PROVE  g = h
BY CriticalPlace DEF IInv, Locked, OneContext

LEMMA RefTypes ==
    ASSUME IInv
    PROVE  /\ localSeq \in Nat /\ nCrashes \in Nat
           /\ \A i \in DOMAIN issued : /\ issued[i].ref \in Ref /\ issued[i].ref.n \in Nat
                                      /\ issued[i].life \in Nat
           /\ \A h \in Handlers : Chosen(h) =>
                 /\ req[h].ref \in Ref /\ req[h].ref.n \in Nat /\ req[h].ref.supi = req[h].supi
                 /\ req[h].at \in Critical
<1>1. localSeq \in Nat /\ nCrashes \in Nat /\ \A i \in DOMAIN issued : issued[i] \in Issue
    BY LenProperties, ElementOfSeq DEF IInv, TypeOK
<1>2. \A h \in Handlers : Chosen(h) =>
          req[h].ref \in Ref /\ req[h].ref.supi = req[h].supi /\ req[h].at \in Critical
    BY DEF IInv, Placed, Place, Chosen, Idle, Critical
<1>3. \A e \in Issue : e.ref \in Ref /\ e.ref.n \in Nat /\ e.life \in Nat
    BY DEF Issue, Ref
<1> QED
    BY <1>1, <1>2, <1>3 DEF Ref

\* A request that has no new reference leaves them as they are.
LEMMA RefsStep ==
    ASSUME IInv, RefsGrow, NEW h \in Handlers, NEW places, Moved(h, places), UNCHANGED <<issued, nCrashes>>,
           ~Chosen(h)', localSeq' = localSeq \/ localSeq' = localSeq + 1
    PROVE  RefsGrow'
<1>1. SUFFICES ASSUME Without({"duplicate"})'
               PROVE  RefsGrow'
    BY DEF RefsGrow
<1>2. Without({"duplicate"})
    BY <1>1 DEF Moved, Without
<1>3. \A i \in DOMAIN issued :
          /\ issued[i].life <= nCrashes
          /\ issued[i].life = nCrashes => issued[i].ref.n < localSeq'
    BY <1>2, RefTypes DEF RefsGrow
<1>4. ASSUME NEW g \in Handlers, Chosen(g)'
      PROVE  /\ req'[g].ref.n <= localSeq'
             /\ req'[g].at = "send" => req'[g].ref.n < localSeq'
             /\ \A i \in DOMAIN issued :
                   issued[i].life = nCrashes /\ issued[i].ref.supi = req'[g].supi =>
                       issued[i].ref.n < req'[g].ref.n
    <2>1. g # h
        BY <1>4
    <2>2. req'[g] = req[g] /\ Chosen(g)
        BY <1>4, <2>1 DEF Moved, Beside, Chosen
    <2>3. /\ req[g].ref.n <= localSeq
          /\ req[g].at = "send" => req[g].ref.n < localSeq
          /\ \A i \in DOMAIN issued :
                issued[i].life = nCrashes /\ issued[i].ref.supi = req[g].supi =>
                    issued[i].ref.n < req[g].ref.n
        BY <1>2, <2>2 DEF RefsGrow
    <2>4. localSeq \in Nat /\ req[g].ref.n \in Nat
        BY <2>2, RefTypes
    <2> QED
        BY <2>2, <2>3, <2>4
<1>5. NumbersDiffer'
    BY <1>2 DEF RefsGrow, NumbersDiffer
<1> QED
    BY <1>3, <1>4, <1>5 DEF RefsGrow, Chosen

LEMMA RefsChoose ==
    ASSUME IInv, RefsGrow, NEW h \in Handlers, ChooseRef(h)
    PROVE  RefsGrow'
<1>1. /\ req[h].at = "ref" /\ Moved(h, {"open"}) /\ UNCHANGED <<issued, localSeq, incidents, nCrashes>>
      /\ req[h].op = "create" => req'[h].ref.n = localSeq /\ req'[h].ref.supi = req[h].supi
    <2>1. /\ req[h].at = "ref" /\ Moved(h, {"open"})
          /\ req[h].op = "create" => req'[h].ref = [supi |-> req[h].supi,
                                          consumer |-> req[h].consumer, n |-> localSeq]
        BY ChooseRefMoves
    <2>2. UNCHANGED <<issued, localSeq, incidents, nCrashes>>
        BY DEF ChooseRef, memory, history, bounds
    <2> QED
        BY <2>1, <2>2
<1>2. SUFFICES ASSUME Without({"duplicate"})
               PROVE  RefsGrow'
    BY <1>1 DEF RefsGrow, Without
<1>3. ASSUME NEW g \in Handlers, Chosen(g)'
      PROVE  /\ req'[g].ref.n <= localSeq
             /\ req'[g].at = "send" => req'[g].ref.n < localSeq
             /\ \A i \in DOMAIN issued :
                   issued[i].life = nCrashes /\ issued[i].ref.supi = req'[g].supi =>
                       issued[i].ref.n < req'[g].ref.n
    <2>1. CASE g = h
        BY <1>1, <1>2, <1>3, <2>1, RefTypes DEF Moved, Chosen, RefsGrow, Idle
    <2>2. CASE g # h
        BY <1>1, <1>2, <1>3, <2>2 DEF Moved, Beside, Chosen, RefsGrow
    <2> QED
        BY <2>1, <2>2
<1> QED
    BY <1>1, <1>2, <1>3 DEF RefsGrow, NumbersDiffer, Chosen

LEMMA RefsOpen ==
    ASSUME IInv, RefsGrow, NEW h \in Handlers, OpenCDR(h)
    PROVE  RefsGrow'
<1>1. /\ req[h].at = "open" /\ Moved(h, {"send"}) /\ UNCHANGED <<issued, incidents, nCrashes>>
      /\ localSeq' = localSeq + 1 /\ req'[h].ref = req[h].ref
    BY OpenCDRMoves DEF OpenCDR, history, bounds
<1>2. SUFFICES ASSUME Without({"duplicate"})
               PROVE  RefsGrow'
    BY <1>1 DEF RefsGrow, Without
<1>3. \A i \in DOMAIN issued :
          /\ issued[i].life <= nCrashes
          /\ issued[i].life = nCrashes => issued[i].ref.n < localSeq'
    BY <1>1, <1>2, RefTypes DEF RefsGrow
<1>4. ASSUME NEW g \in Handlers, Chosen(g)'
      PROVE  /\ req'[g].ref.n <= localSeq'
             /\ req'[g].at = "send" => req'[g].ref.n < localSeq'
             /\ \A i \in DOMAIN issued :
                   issued[i].life = nCrashes /\ issued[i].ref.supi = req'[g].supi =>
                       issued[i].ref.n < req'[g].ref.n
    <2>1. /\ Chosen(g) /\ req'[g].ref = req[g].ref /\ req'[g].supi = req[g].supi
          /\ g # h => req'[g].at = req[g].at
        BY <1>1, <1>4 DEF Moved, Beside, Chosen, Idle
    <2>2. /\ localSeq \in Nat /\ req[g].ref.n \in Nat /\ req[g].ref.n <= localSeq
          /\ req[g].at = "send" => req[g].ref.n < localSeq
          /\ \A i \in DOMAIN issued :
                issued[i].life = nCrashes /\ issued[i].ref.supi = req[g].supi =>
                    issued[i].ref.n < req[g].ref.n
        BY <1>2, <2>1, RefTypes DEF RefsGrow
    <2> QED
        BY <1>1, <2>1, <2>2
<1> QED
    BY <1>1, <1>2, <1>3, <1>4 DEF RefsGrow, NumbersDiffer, Chosen

LEMMA RefsSend ==
    ASSUME IInv, OneContext, RefsGrow, NEW h \in Handlers, SendCDR(h)
    PROVE  RefsGrow'
<1>1. /\ req[h].at = "send" /\ Moved(h, {"idle"}) /\ req'[h] = Idle
      /\ UNCHANGED <<localSeq, nCrashes>>
      /\ issued' = IF req[h].op = "create"
                   THEN Append(issued, [ref |-> req[h].ref, life |-> nCrashes]) ELSE issued
    BY SendCDRMoves DEF SendCDR, bounds
<1>2. CASE req[h].op # "create"
    BY <1>1, <1>2, RefsStep DEF Chosen, Idle
<1>3. CASE req[h].op = "create"
    <2>1. SUFFICES ASSUME Without({"duplicate"})'
                   PROVE  RefsGrow'
        BY DEF RefsGrow
    <2>2. Without({"duplicate"})
        BY <1>1, <2>1 DEF Moved, Without
    <2> DEFINE ref == req[h].ref
               entry == [ref |-> ref, life |-> nCrashes]
               last == Len(issued) + 1
    <2>3. /\ Chosen(h) /\ ref \in Ref /\ ref.n \in Nat /\ ref.supi = req[h].supi
          /\ ref.n < localSeq /\ req[h].at \in Critical
          /\ \A i \in DOMAIN issued :
                issued[i].life = nCrashes /\ issued[i].ref.supi = ref.supi =>
                    issued[i].ref.n < ref.n
        BY <1>1, <1>3, <2>2, RefTypes DEF Chosen, RefsGrow
    <2>4. /\ DOMAIN issued' = DOMAIN issued \cup {last} /\ last \notin DOMAIN issued
          /\ issued'[last] = entry /\ \A i \in DOMAIN issued : issued'[i] = issued[i]
        <3>1. issued \in Seq(Issue) /\ issued' = Append(issued, entry) /\ entry \in Issue
            BY <1>1, <1>3, <2>3 DEF IInv, TypeOK, Issue
        <3> HIDE DEF entry, ref
        <3>2. /\ DOMAIN issued = 1 .. Len(issued) /\ Len(issued) \in Nat
              /\ issued' \in Seq(Issue) /\ Len(issued') = last /\ issued'[last] = entry
              /\ \A i \in 1 .. Len(issued) : issued'[i] = issued[i]
            BY <3>1, AppendProperties, LenProperties
        <3>3. DOMAIN issued' = 1 .. last
            BY <3>2, LenProperties
        <3> QED
            BY <3>1, <3>2, <3>3
    <2>8. issued'[last].ref = ref /\ issued'[last].life = nCrashes /\ nCrashes \in Nat
        BY <2>4, RefTypes
    <2> HIDE DEF ref, last, entry
    <2>5. \A i \in DOMAIN issued' :
              /\ issued'[i].life <= nCrashes'
              /\ issued'[i].life = nCrashes' => issued'[i].ref.n < localSeq'
        BY <1>1, <2>2, <2>3, <2>4, <2>8 DEF RefsGrow
    <2>6. NumbersDiffer'
        <3>1. \A i \in DOMAIN issued :
                  issued[i].life = nCrashes /\ issued[i].ref.supi = ref.supi =>
                      issued[i].ref.n # ref.n
            BY <2>3, <2>4, RefTypes
        <3> QED
            BY <2>2, <2>4, <2>8, <3>1 DEF RefsGrow, NumbersDiffer
    <2>7. ASSUME NEW g \in Handlers, Chosen(g)'
          PROVE  /\ req'[g].ref.n <= localSeq'
                 /\ req'[g].at = "send" => req'[g].ref.n < localSeq'
                 /\ \A i \in DOMAIN issued' :
                       issued'[i].life = nCrashes' /\ issued'[i].ref.supi = req'[g].supi =>
                           issued'[i].ref.n < req'[g].ref.n
        <3>1. g # h
            BY <1>1, <2>7 DEF Chosen, Idle
        <3>2. req'[g] = req[g] /\ Chosen(g) /\ req[g].at \in Critical
            BY <1>1, <2>7, <3>1, RefTypes DEF Moved, Beside, Chosen
        <3>3. req[g].supi # ref.supi
            BY <2>2, <2>3, <3>1, <3>2, Exclusion
        <3> QED
            BY <1>1, <2>2, <2>4, <2>8, <3>2, <3>3 DEF RefsGrow
    <2> QED
        BY <2>5, <2>6, <2>7 DEF RefsGrow, Chosen
<1> QED
    BY <1>2, <1>3

LEMMA BoundsKept ==
    ASSUME NEW h \in Handlers, LockContext(h) \/ Work(h)
    PROVE  UNCHANGED bounds
BY DEF Work, LockContext, FindContext, NewContext, ChooseRef, OpenCDR, RejectCreate,
   LookupSession, Charge, Panic, RecordUpdate, ReopenCDR, DumpRecords, FailDump, SendCDR,
   RecordRelease

LEMMA RefsKept ==
    ASSUME IInv, IInv', OneContext, RefsGrow, NEW h \in Handlers, LockContext(h) \/ Work(h)
    PROVE  OneContext' /\ RefsGrow'
<1>16. nCrashes' = nCrashes
    BY BoundsKept DEF bounds
<1>1. CASE FindContext(h)
    <2>1. /\ Moved(h, {"new", "lock", "idle"}) /\ UNCHANGED <<localSeq, pool, issued>>
          /\ req'[h].at = "lock" => req'[h].ue = pool[req[h].supi]
        BY <1>1, FindContextMoves DEF FindContext, memory, history, Refuse
    <2> QED
        BY <2>1, OneContextStep, RefsStep, <1>16 DEF Moved, Chosen, Looking, Request
<1>2. CASE NewContext(h)
    <2>1. Moved(h, {"lock"}) /\ UNCHANGED <<localSeq, issued>>
        BY <1>2, NewContextMoves DEF NewContext
    <2> QED
        BY <1>2, <2>1, OneContextNew, RefsStep, <1>16 DEF Moved, Chosen
<1>3. CASE LockContext(h)
    <2>1. /\ req[h].at = "lock" /\ Moved(h, {"ref", "lookup", "charge"})
          /\ UNCHANGED <<localSeq, pool, issued>>
        BY <1>3, LockContextMoves DEF LockContext, history
    <2> QED
        BY <2>1, OneContextStep, RefsStep, <1>16 DEF Moved, Chosen, Looking
<1>4. CASE ChooseRef(h)
    <2>1. req[h].at = "ref" /\ Moved(h, {"open"}) /\ UNCHANGED pool
        BY <1>4, ChooseRefMoves DEF ChooseRef, memory
    <2> QED
        BY <1>4, <2>1, OneContextStep, RefsChoose DEF Looking
<1>5. CASE OpenCDR(h)
    <2>1. req[h].at = "open" /\ Moved(h, {"send"}) /\ UNCHANGED pool
        BY <1>5, OpenCDRMoves DEF OpenCDR
    <2> QED
        BY <1>5, <2>1, OneContextStep, RefsOpen DEF Looking
<1>6. CASE RejectCreate(h)
    <2>1. /\ req[h].at = "open" /\ Moved(h, {"idle"}) /\ req'[h] = Idle
          /\ UNCHANGED <<pool, issued>> /\ localSeq' = localSeq + 1
        BY <1>6, RejectCreateMoves DEF RejectCreate, Refuse
    <2> QED
        BY <2>1, OneContextStep, RefsStep, <1>16 DEF Looking, Chosen, Idle
<1>7. CASE LookupSession(h)
    <2>1. /\ req[h].at = "lookup" /\ Moved(h, {"charge", "idle"})
          /\ UNCHANGED <<localSeq, pool, issued>>
        BY <1>7, LookupSessionMoves DEF LookupSession, history, Refuse
    <2> QED
        BY <2>1, OneContextStep, RefsStep, <1>16 DEF Moved, Looking, Chosen
<1>8. CASE Charge(h)
    <2>1. req[h].at = "charge" /\ Moved(h, {"record"}) /\ UNCHANGED <<localSeq, pool, issued>>
        BY <1>8, ChargeMoves DEF Charge, memory
    <2> QED
        BY <2>1, OneContextStep, RefsStep, <1>16 DEF Moved, Looking, Chosen
<1>9. CASE Panic(h)
    <2>1. /\ req[h].at = "charge" /\ Moved(h, {"idle"}) /\ req'[h] = Idle
          /\ UNCHANGED <<localSeq, pool, issued>>
        BY <1>9, PanicMoves DEF Panic, Refuse
    <2> QED
        BY <2>1, OneContextStep, RefsStep, <1>16 DEF Looking, Chosen, Idle
<1>10. CASE RecordUpdate(h)
    <2>1. /\ req[h].at = "record" /\ Moved(h, {"reopen", "dump"})
          /\ UNCHANGED <<localSeq, pool, issued>>
        BY <1>10, RecordUpdateMoves DEF RecordUpdate, history
    <2> QED
        BY <2>1, OneContextStep, RefsStep, <1>16 DEF Moved, Looking, Chosen
<1>11. CASE ReopenCDR(h)
    <2>1. req[h].at = "reopen" /\ Moved(h, {"dump"}) /\ UNCHANGED <<localSeq, pool, issued>>
        BY <1>11, ReopenCDRMoves DEF ReopenCDR, history
    <2> QED
        BY <2>1, OneContextStep, RefsStep, <1>16 DEF Moved, Looking, Chosen
<1>12. CASE DumpRecords(h)
    <2>1. /\ req[h].at = "dump" /\ req[h].op = "update" /\ Moved(h, {"send"})
          /\ UNCHANGED <<localSeq, pool, issued>>
        BY <1>12, DumpRecordsMoves DEF DumpRecords, memory, history
    <2> QED
        <3>1. ~Chosen(h)'
            BY <2>1 DEF Moved, Chosen, Idle
        <3> QED
            BY <2>1, <3>1, OneContextStep, RefsStep, <1>16 DEF Looking
<1>13. CASE FailDump(h)
    <2>1. /\ req[h].at \in {"reopen", "dump"} /\ Moved(h, {"idle"}) /\ req'[h] = Idle
          /\ UNCHANGED <<localSeq, pool, issued>>
        BY <1>13, FailDumpMoves DEF FailDump, Refuse
    <2> QED
        BY <2>1, OneContextStep, RefsStep, <1>16 DEF Looking, Chosen, Idle
<1>14. CASE SendCDR(h)
    <2>1. req[h].at = "send" /\ Moved(h, {"idle"}) /\ req'[h] = Idle /\ UNCHANGED pool
        BY <1>14, SendCDRMoves DEF SendCDR
    <2> QED
        BY <1>14, <2>1, OneContextStep, RefsSend DEF Looking, Idle
<1>15. CASE RecordRelease(h)
    <2>1. /\ req[h].at = "record" /\ Moved(h, {"idle"}) /\ req'[h] = Idle
          /\ UNCHANGED <<localSeq, pool, issued>>
        BY <1>15, RecordReleaseMoves DEF RecordRelease, Refuse
    <2> QED
        BY <2>1, OneContextStep, RefsStep, <1>16 DEF Looking, Chosen, Idle
<1> QED
    BY <1>1, <1>2, <1>3, <1>4, <1>5, <1>6, <1>7, <1>8, <1>9, <1>10, <1>11, <1>12, <1>13,
       <1>14, <1>15 DEF Work

LEMMA RefsArrive ==
    ASSUME IInv, OneContext, RefsGrow, NEW h \in Handlers, Arrived(h)
    PROVE  OneContext' /\ RefsGrow'
<1>1. /\ UNCHANGED <<localSeq, pool, issued, incidents, nCrashes>> /\ req'[h].at = "find"
      /\ \A g \in Handlers \ {h} : req'[g] = req[g]
    BY DEF Arrived, memory, history, Beside
<1>2. OneContext'
    BY <1>1 DEF OneContext, Without, Looking
<1>3. RefsGrow'
    BY <1>1 DEF RefsGrow, NumbersDiffer, Chosen, Without
<1> QED
    BY <1>2, <1>3

\* A new life of the CHF: the numbers begin again.
LEMMA RefsCrash ==
    ASSUME IInv, RefsGrow, Crash
    PROVE  RefsGrow'
<1>1. /\ nCrashes' = nCrashes + 1 /\ issued' = issued
      /\ \A h \in Handlers : req'[h] = Idle
      /\ Without({"duplicate"})' => Without({"duplicate"})
    BY DEF Crash, Note, Without
<1>2. \A h \in Handlers : ~Chosen(h)'
    BY <1>1 DEF Chosen, Idle
<1>3. SUFFICES ASSUME Without({"duplicate"})
               PROVE  /\ \A i \in DOMAIN issued' :
                            /\ issued'[i].life <= nCrashes'
                            /\ issued'[i].life = nCrashes' => issued'[i].ref.n < localSeq'
                      /\ NumbersDiffer'
    BY <1>1, <1>2 DEF RefsGrow
<1>4. \A i \in DOMAIN issued' : issued'[i].life < nCrashes'
    BY <1>1, <1>3, RefTypes DEF RefsGrow
<1>5. \A i \in DOMAIN issued' : issued'[i].life \in Nat
    BY <1>1, RefTypes
<1>6. nCrashes' \in Nat
    BY <1>1, RefTypes
<1> QED
    BY <1>1, <1>3, <1>4, <1>5, <1>6 DEF RefsGrow, NumbersDiffer

-----------------------------------------------------------------------------
(* What fits.                                                              *)

Fits(content) == \A i \in DOMAIN content : Bounded(content[i])

LEMMA FitStep ==
    ASSUME RecordsBounded, RecordsFit, incidents \subseteq incidents',
           Without({"unchecked"})' =>
              /\ \A i \in DOMAIN record' :
                    Bounded(record'[i]) \/ (i \in DOMAIN record /\ record'[i] = record[i])
              /\ \A s \in Supis : file'[s] = file[s] \/ Fits(file'[s])
    PROVE  RecordsBounded' /\ RecordsFit'
<1>1. Without({"unchecked"})' => Without({"unchecked"})
    BY DEF Without
<1>2. RecordsBounded'
    BY <1>1 DEF RecordsBounded
<1>3. RecordsFit'
    BY <1>1 DEF RecordsFit, Fits, Bounded, Share
<1> QED
    BY <1>2, <1>3

LEMMA ContentFits ==
    ASSUME IInv, RecordsBounded, Without({"unchecked"}), NEW numbers \in Seq(DOMAIN record)
    PROVE  Content(numbers) \in Seq(Record) /\ Fits(Content(numbers))
<1>1. /\ Content(numbers) \in Seq(Record) /\ DOMAIN Content(numbers) = DOMAIN numbers
      /\ \A i \in DOMAIN numbers : Content(numbers)[i] = record[numbers[i]]
    BY ContentType DEF IInv, TypeOK
<1>2. \A i \in DOMAIN numbers : numbers[i] \in DOMAIN record
    BY LenProperties, ElementOfSeq
<1> QED
    BY <1>1, <1>2 DEF RecordsBounded, Fits

LEMMA FailedWriteFits ==
    ASSUME IInv, NEW supi \in Supis, NEW content \in Seq(Record), Fits(content),
           WriteFails(supi, content)
    PROVE  \A s \in Supis : file'[s] = file[s] \/ Fits(file'[s])
<1>1. Len(content) \in Nat /\ DOMAIN content = 1 .. Len(content)
    BY LenProperties
<1>2. \A n \in 0 .. Len(content) - 1 : Fits(SubSeq(content, 1, n))
    <2>1. ASSUME NEW n \in 0 .. Len(content) - 1
          PROVE  Fits(SubSeq(content, 1, n))
        <3>1. n \in 0 .. Len(content) /\ 1 .. n \subseteq 1 .. Len(content)
            BY <1>1
        <3>2. /\ DOMAIN SubSeq(content, 1, n) = 1 .. n
              /\ \A i \in 1 .. n : SubSeq(content, 1, n)[i] = content[i]
            BY <3>1, PartOfContent
        <3> QED
            BY <1>1, <3>1, <3>2 DEF Fits
    <2> QED
        BY <2>1
<1>3. file \in [Supis -> Seq(Record) \cup {NoFile}]
    BY DEF IInv, TypeOK
<1> QED
    BY <1>2, <1>3 DEF WriteFails

\* A record with one report, or none, is within bounds whatever its size.
LEMMA FreshBounded ==
    ASSUME NEW x, NEW report \in Report, x.reports = <<>> \/ x.reports = Append(<<>>, report)
    PROVE  Bounded(x)
<1> DEFINE none == <<>>
           reports == x.reports
<1>1. none \in Seq(Report) /\ Len(none) = 0
    BY EmptySeq
<1>2. reports = none \/ reports = Append(none, report)
    OBVIOUS
<1> HIDE DEF none, reports
<1>3. Len(Append(none, report)) = Len(none) + 1
    BY <1>1, AppendProperties
<1>4. Len(reports) = 0 \/ Len(reports) = 1
    BY <1>1, <1>2, <1>3
<1>5. ~(Len(reports) > 1)
    <2>1. CASE Len(reports) = 0
        BY <2>1
    <2>2. CASE Len(reports) = 1
        BY <2>2
    <2> QED
        BY <1>4, <2>1, <2>2
<1> QED
    BY <1>5 DEF Bounded, reports

LEMMA FitOpen ==
    ASSUME IInv, RecordsBounded, RecordsFit, NEW h \in Handlers, OpenCDR(h)
    PROVE  RecordsBounded' /\ RecordsFit'
<1>1. req[h].at \in Critical /\ req[h].at = "open" /\ UNCHANGED <<file, incidents>>
    BY DEF OpenCDR, Critical, disk, history
<1>2. /\ req[h].ue \in Contexts /\ req[h].report \in Report /\ req[h] \in Request
      /\ req[h].ref \in Ref \cup {NoRef} /\ req[h] # Idle
    BY <1>1, CriticalPlace DEF Place
<1> DEFINE new == NewRecord(req[h])
           x == Extended(new, req[h].report)
<1>3. new \in Record /\ new.reports = <<>>
    BY <1>2, NewRecordType DEF IInv
<1> HIDE DEF new
<1>4. x.reports = <<>> \/ x.reports = Append(<<>>, req[h].report)
    BY <1>2, <1>3, ExtendedRecord
<1>5. x \in Record /\ Added(req[h].ue, x)
    BY OpenCDRAdds DEF new
<1> HIDE DEF x
<1>6. Bounded(x)
    BY <1>2, <1>4, FreshBounded
<1>7. /\ DOMAIN record' = DOMAIN record \cup {Len(record) + 1}
      /\ \A i \in DOMAIN record : record'[i] = record[i]
      /\ record'[Len(record) + 1] = x
    BY <1>2, <1>5, TablesNow, AddRecord
<1> QED
    BY <1>1, <1>6, <1>7, FitStep

LEMMA FitUpdate ==
    ASSUME IInv, RecordsBounded, RecordsFit, NEW h \in Handlers, RecordUpdate(h)
    PROVE  RecordsBounded' /\ RecordsFit'
<1>1. UNCHANGED <<file, incidents>>
    BY DEF RecordUpdate, disk, history
<1>2. SUFFICES ASSUME Without({"unchecked"})
               PROVE  RecordsBounded' /\ RecordsFit'
    BY <1>1, FitStep DEF Without
<1>3. req[h].at \in Critical /\ Known(h)
    BY RecordUpdateDoes
<1>4. /\ req[h] # Idle /\ req[h].ue \in Contexts /\ req[h].report \in Report
      /\ Current(h) \in DOMAIN record /\ record[Current(h)] \in Record
    BY <1>2, <1>3, CriticalPlace, CurrentRecord
<1> DEFINE old == record[Current(h)]
<1>5. CASE ~MustSplit(old, req[h].report)
           /\ record' = [record EXCEPT ![Current(h)] = Extended(old, req[h].report)]
    <2> DEFINE x == Extended(old, req[h].report)
    <2>1. x.size = old.size + req[h].report.size /\ x \in Record
        BY <1>4, ExtendedRecord
    <2>2. old.size + req[h].report.size <= MaxSize
        <3>1. req[h].report.size \in Nat /\ MaxSize \in Nat
            BY <1>4 DEF Report
        <3>2. old.size \in Nat
            BY <1>4 DEF Record
        <3> QED
            BY <1>5, <3>1, <3>2 DEF MustSplit
    <2>3. Bounded(x)
        <3>1. Share(x) \in Nat /\ MaxSize \in Nat /\ x.size \in Nat
            BY <2>1 DEF Share, Record
        <3> QED
            BY <2>1, <2>2, <3>1 DEF Bounded
    <2>4. record' = [record EXCEPT ![Current(h)] = x] /\ record \in Seq(Record)
        BY <1>5 DEF IInv, TypeOK
    <2> HIDE DEF x
    <2>5. DOMAIN record' = DOMAIN record /\ record'[Current(h)] = x
          /\ \A i \in DOMAIN record \ {Current(h)} : record'[i] = record[i]
        BY <1>4, <2>4
    <2> QED
        BY <1>1, <2>3, <2>5, FitStep
<1>6. CASE /\ Added(req[h].ue, Extended(Split(old), req[h].report))
           /\ Extended(Split(old), req[h].report) \in Record
    <2> DEFINE split == Split(old)
               x == Extended(split, req[h].report)
    <2>1. split \in Record /\ split.reports = <<>>
        BY <1>4, SplitRecord
    <2> HIDE DEF split
    <2>2. x.reports = <<>> \/ x.reports = Append(<<>>, req[h].report)
        BY <1>4, <2>1, ExtendedRecord
    <2>3. Bounded(x)
        BY <1>4, <2>2, FreshBounded
    <2>4. x \in Record /\ Added(req[h].ue, x)
        BY <1>6 DEF split
    <2> HIDE DEF x
    <2>5. /\ DOMAIN record' = DOMAIN record \cup {Len(record) + 1}
          /\ \A i \in DOMAIN record : record'[i] = record[i]
          /\ record'[Len(record) + 1] = x
        BY <1>4, <2>4, TablesNow, AddRecord
    <2> QED
        BY <1>1, <2>3, <2>5, FitStep
<1> QED
    BY <1>5, <1>6, RecordUpdateDoes

LEMMA FitReopen ==
    ASSUME IInv, RecordsBounded, RecordsFit, NEW h \in Handlers, ReopenCDR(h)
    PROVE  RecordsBounded' /\ RecordsFit'
<1>1. incidents' = incidents
    BY DEF ReopenCDR, history
<1>2. SUFFICES ASSUME Without({"unchecked"})
               PROVE  RecordsBounded' /\ RecordsFit'
    BY <1>1, FitStep DEF Without
<1>3. Known(h) /\ req[h].at \in Critical
    BY ReopenCDRDoes
<1>4. /\ Current(h) \in DOMAIN record /\ record[Current(h)] \in Record
      /\ req[h].supi \in Supis
    BY <1>3, CriticalPlace, CurrentRecord
<1> DEFINE old == record[Current(h)]
<1>5. PICK x \in Record :
        /\ record' = [record EXCEPT ![Current(h)] = x]
        /\ x.reports = old.reports /\ x.number = 1
        /\ x.size = IF old.number = 0 THEN old.size + NumberSize ELSE old.size
    BY ReopenCDRDoes
<1>6. Bounded(old)
    BY <1>2, <1>4 DEF RecordsBounded
<1>7. Bounded(x)
    <2>1. old.size \in Nat /\ old.number \in Nat /\ NumberSize \in Nat /\ MaxSize \in Nat
        BY <1>4 DEF Record
    <2> QED
        BY <1>5, <1>6, <2>1 DEF Bounded, Share
<1>8. /\ DOMAIN record' = DOMAIN record /\ record'[Current(h)] = x
      /\ \A i \in DOMAIN record \ {Current(h)} : record'[i] = record[i]
    BY <1>4, <1>5 DEF IInv, TypeOK
<1>9. \A s \in Supis : file'[s] = file[s] \/ Fits(file'[s])
    <2>1. <<old>> = Content(<<Current(h)>>)
        BY ReopenCDRDoes
    <2>2. Fits(<<old>>)
        BY <1>6 DEF Fits
    <2>3. file' = [file EXCEPT ![req[h].supi] = <<old>>]
        BY <2>1 DEF ReopenCDR
    <2> QED
        BY <1>4, <2>2, <2>3 DEF IInv, TypeOK
<1> QED
    BY <1>1, <1>7, <1>8, <1>9, FitStep

LEMMA FitDump ==
    ASSUME IInv, RecordsBounded, RecordsFit, NEW h \in Handlers, DumpRecords(h) \/ FailDump(h)
    PROVE  RecordsBounded' /\ RecordsFit'
<1>1. /\ req[h].at \in Critical /\ record' = record /\ incidents \subseteq incidents'
    BY DEF DumpRecords, FailDump, memory, history, Note, Critical
<1>2. SUFFICES ASSUME Without({"unchecked"})
               PROVE  \A s \in Supis : file'[s] = file[s] \/ Fits(file'[s])
    <2>1. Without({"unchecked"})' => Without({"unchecked"})
        BY <1>1 DEF Without
    <2> QED
        BY <1>1, <2>1, FitStep
<1>3. req[h].supi \in Supis /\ req[h].ue \in Contexts /\ Place(req[h])
      /\ file \in [Supis -> Seq(Record) \cup {NoFile}]
    BY <1>1, CriticalPlace DEF IInv, TypeOK
<1>4. /\ Content(records[req[h].ue]) \in Seq(Record)
      /\ Fits(Content(records[req[h].ue]))
    BY <1>2, <1>3, ContentFits DEF IInv, TypeOK
<1>5. CASE DumpRecords(h)
    BY <1>3, <1>4, <1>5 DEF DumpRecords
<1>6. CASE req[h].at = "reopen" /\ WriteFails(req[h].supi, Content(<<Current(h)>>))
    <2>1. Known(h)
        BY <1>3, <1>6 DEF Place, Known
    <2>2. Current(h) \in DOMAIN record
        BY <1>1, <2>1, CriticalPlace, CurrentRecord
    <2>3. <<Current(h)>> \in Seq(DOMAIN record)
        BY <2>2
    <2>4. Content(<<Current(h)>>) \in Seq(Record) /\ Fits(Content(<<Current(h)>>))
        BY <1>2, <2>3, ContentFits
    <2> QED
        BY <1>3, <1>6, <2>4, FailedWriteFits
<1>7. CASE WriteFails(req[h].supi, Content(records[req[h].ue]))
    BY <1>3, <1>4, <1>7, FailedWriteFits
<1> QED
    BY <1>5, <1>6, <1>7 DEF FailDump

LEMMA FitRelease ==
    ASSUME IInv, RecordsBounded, RecordsFit, NEW h \in Handlers, RecordRelease(h)
    PROVE  RecordsBounded' /\ RecordsFit'
<1>1. incidents \subseteq incidents' /\ req[h].at \in Critical
    BY RecordReleaseDoes DEF RecordRelease, Note
<1>2. SUFFICES ASSUME Without({"unchecked"})', Known(h)
               PROVE  RecordsBounded' /\ RecordsFit'
    BY <1>1, FitStep DEF RecordRelease
<1>3. /\ Current(h) \in DOMAIN record /\ record[Current(h)] \in Record
      /\ req[h].report \in Report /\ req[h].report.size \in Nat /\ req[h].supi \in Supis
    BY <1>1, <1>2, CriticalPlace, CurrentRecord, RequestFields
<1>4. req[h].report.size = 0
    BY <1>2, <1>3 DEF RecordRelease, Note, Without
<1> DEFINE closed == Extended(record[Current(h)], req[h].report)
<1>5. closed = record[Current(h)]
    BY <1>4 DEF Extended
<1>6. record' = record
    <2>1. record' = [record EXCEPT ![Current(h)] = closed]
        BY <1>2, RecordReleaseDoes
    <2>2. record \in Seq(Record)
        BY DEF IInv, TypeOK
    <2> QED
        BY <1>5, <2>1, <2>2
<1>7. Without({"unchecked"})
    BY <1>1, <1>2 DEF Without
<1>8. <<closed>> \in Seq(Record) /\ Fits(<<closed>>)
    BY <1>3, <1>5, <1>7 DEF RecordsBounded, Fits
<1>9. \A s \in Supis : file'[s] = file[s] \/ Fits(file'[s])
    <2>1. CASE file' = [file EXCEPT ![req[h].supi] = <<closed>>]
        BY <1>8, <2>1 DEF IInv, TypeOK
    <2>2. CASE WriteFails(req[h].supi, <<closed>>)
        BY <1>3, <1>8, <2>2, FailedWriteFits
    <2> QED
        BY <1>2, <2>1, <2>2 DEF RecordRelease
<1> QED
    BY <1>1, <1>6, <1>9, FitStep

LEMMA FitKept ==
    ASSUME IInv, RecordsBounded, RecordsFit, NEW h \in Handlers, LockContext(h) \/ Work(h)
    PROVE  RecordsBounded' /\ RecordsFit'
<1> USE DEF memory, disk, history
<1>1. CASE FindContext(h)
    BY <1>1, FitStep DEF FindContext, Refuse
<1>2. CASE NewContext(h)
    BY <1>2, FitStep DEF NewContext, Note
<1>3. CASE LockContext(h)
    BY <1>3, FitStep DEF LockContext
<1>4. CASE ChooseRef(h)
    BY <1>4, FitStep DEF ChooseRef
<1>5. CASE RejectCreate(h)
    BY <1>5, FitStep DEF RejectCreate
<1>6. CASE LookupSession(h)
    BY <1>6, FitStep DEF LookupSession
<1>7. CASE Charge(h)
    BY <1>7, FitStep DEF Charge
<1>8. CASE Panic(h)
    BY <1>8, FitStep DEF Panic, Note
<1>9. CASE SendCDR(h)
    BY <1>9, FitStep DEF SendCDR, Note
<1> QED
    BY <1>1, <1>2, <1>3, <1>4, <1>5, <1>6, <1>7, <1>8, <1>9, FitOpen, FitUpdate, FitReopen,
       FitDump, FitRelease DEF Work

-----------------------------------------------------------------------------

LEMMA InitUsageInv == Init => UsageInv
<1> SUFFICES ASSUME Init
             PROVE  UsageInv
    OBVIOUS
<1>1. DOMAIN record = {} /\ DOMAIN issued = {}
    BY DEF Init
<1>2. ChargedOnce /\ RecordedOnce /\ Unrefused /\ RefusedClean
    BY <1>1 DEF Init, ChargedOnce, RecordedOnce, Unrefused, RefusedClean, Unrecorded,
       BeforeRecord, BeforeCharge, Idle
<1>3. OneContext /\ RefsGrow
    BY <1>1 DEF Init, OneContext, RefsGrow, NumbersDiffer, Chosen, Idle
<1>4. RecordsBounded /\ RecordsFit
    BY <1>1 DEF Init, RecordsBounded, RecordsFit
<1> QED
    BY <1>2, <1>3, <1>4 DEF UsageInv

LEMMA NextUsageInv == IInv /\ IInv' /\ UsageInv /\ [Next]_vars => UsageInv'
<1> SUFFICES ASSUME IInv, IInv', UsageInv, [Next]_vars
             PROVE  UsageInv'
    OBVIOUS
<1>1. OnceInv
    BY DEF UsageInv, OnceInv
<1>2. CASE \E h \in Handlers : LockContext(h) \/ Work(h)
    BY <1>1, <1>2, OnceKept, RefsKept, FitKept DEF UsageInv, OnceInv
<1>3. CASE \E h \in Handlers : Arrive(h)
    <2>1. PICK h \in Handlers : Arrived(h)
        BY <1>3, Arrives
    <2>2. UNCHANGED <<record, file, incidents>>
        BY <2>1 DEF Arrived, memory, disk, history
    <2>3. RecordsBounded' /\ RecordsFit'
        BY <2>2, FitStep DEF UsageInv
    <2> QED
        BY <1>1, <2>1, <2>3, OnceArrive, RefsArrive DEF UsageInv, OnceInv
<1>4. CASE Crash
    <2>1. /\ record' = <<>> /\ UNCHANGED file /\ incidents \subseteq incidents'
          /\ \A h \in Handlers : req'[h] = Idle
        BY <1>4 DEF Crash, Note, disk
    <2>2. OneContext' /\ RefsGrow'
        BY <1>4, <2>1, RefsCrash DEF OneContext, UsageInv
    <2>3. RecordsBounded' /\ RecordsFit'
        BY <2>1, FitStep DEF UsageInv
    <2> QED
        BY <1>1, <1>4, <2>2, <2>3, OnceCrash DEF UsageInv, OnceInv
<1>5. CASE UNCHANGED vars
    BY <1>5 DEF vars, memory, disk, bounds, history, UsageInv, ChargedOnce, RecordedOnce,
       Unrefused, RefusedClean, Unrecorded, OneContext, RefsGrow, NumbersDiffer, Chosen,
       RecordsBounded, RecordsFit, Without
<1> QED
    BY <1>2, <1>3, <1>4, <1>5 DEF Next, Finished

\* The inductive invariant holds throughout.
THEOREM UsageInvariance == Spec => []UsageInv
<1>1. IInv /\ IInv' /\ UsageInv /\ [Next]_vars => UsageInv'
    BY NextUsageInv
<1> QED
    BY <1>1, InitUsageInv, Invariance, PTL DEF Spec

\* No report is charged twice or stands in the CDRs twice, however records are
\* split, reopened and released and whichever context a request found.
THEOREM RecordedAtMostOnce == Spec => []UsageRecordedOnce
<1>1. IInv /\ UsageInv => UsageRecordedOnce
    <2>1. SUFFICES ASSUME IInv, UsageInv, NEW r \in Reports
                   PROVE  charged[r] <= 1 /\ Cardinality(Occurrences(r)) <= 1
        BY DEF UsageRecordedOnce
    <2>2. charged[r] <= 1
        BY <2>1 DEF UsageInv, ChargedOnce
    <2>3. \A a, b \in Occurrences(r) : a = b
        BY <2>1 DEF Occurrences, UsageInv, RecordedOnce
    <2>4. CASE Occurrences(r) = {}
        BY <2>2, <2>4, FS_EmptySet
    <2>5. CASE Occurrences(r) # {}
        <3>1. PICK a : Occurrences(r) = {a}
            BY <2>3, <2>5
        <3> QED
            BY <2>2, <3>1, FS_Singleton
    <2> QED
        BY <2>4, <2>5
<1> QED
    BY <1>1, Invariance, UsageInvariance, PTL

\* A report that was refused was neither charged nor recorded, but after a
\* panic, a failed write or a release of a session that does not exist.
THEOREM RefusedIsFree == Spec => []RefusedUncharged
<1>1. UsageInv => RefusedUncharged
    BY DEF UsageInv, RefusedClean, RefusedUncharged, Unrecorded, Occurrences
<1> QED
    BY <1>1, UsageInvariance, PTL

LEMMA QuotientIs ==
    ASSUME NEW n \in Nat, NEW base \in Nat, base > 1
    PROVE  /\ n \div base \in Nat /\ n = base * (n \div base) + (n % base)
           /\ n % base \in 0 .. base - 1
           /\ n >= base => n \div base >= 1 /\ n \div base < n
<1> DEFINE q == n \div base
           m == n % base
<1>1. q \in Int /\ m \in 0 .. base - 1 /\ n = base * q + m
    OBVIOUS
<1> HIDE DEF q, m
<1>2. q >= 0
    <2>1. SUFFICES ASSUME q <= -1
                   PROVE  FALSE
        BY <1>1
    <2>2. base * q <= -base
        BY <1>1, <2>1
    <2> QED
        BY <1>1, <2>2
<1>3. ASSUME n >= base
      PROVE  q >= 1 /\ q < n
    <2>1. q # 0
        BY <1>1, <1>3
    <2>2. base * q >= 2 * q
        BY <1>1, <1>2
    <2> QED
        BY <1>1, <1>2, <2>1, <2>2
<1> QED
    BY <1>1, <1>2, <1>3 DEF q, m

LEMMA ItoaWritten ==
    ASSUME NEW n \in Nat
    PROVE  Len(Itoa(n)) >= 1
<1> DEFINE base == Base
<1>1. base \in Nat /\ base > 1 /\ Digit = 0 .. base - 1
    BY NamesAssumption DEF Digit
<1>2. Itoa(n) = IF n < base THEN <<n>> ELSE Append(Itoa(n \div base), n % base)
    BY ItoaIs
<1> HIDE DEF base
<1>3. n \div base \in Nat /\ n % base \in Digit
    BY <1>1, QuotientIs
<1>4. CASE n < base
    BY <1>2, <1>4
<1>5. CASE n >= base
    <2>1. Itoa(n \div base) \in Seq(Digit)
        BY <1>3, ItoaIs
    <2>2. Len(Append(Itoa(n \div base), n % base)) = Len(Itoa(n \div base)) + 1
          /\ Len(Itoa(n \div base)) \in Nat
        BY <1>3, <2>1, AppendProperties, LenProperties
    <2> QED
        BY <1>1, <1>2, <1>5, <2>2
<1> QED
    BY <1>1, <1>4, <1>5

\* Numbers are written in different ways.
LEMMA ItoaInjective ==
    ASSUME NEW n \in Nat, NEW m \in Nat, Itoa(n) = Itoa(m)
    PROVE  n = m
<1> DEFINE T == {k \in Nat : \E l \in Nat : k # l /\ Itoa(k) = Itoa(l)}
<1>1. SUFFICES ASSUME T # {}
               PROVE  FALSE
    OBVIOUS
<1>2. PICK k \in T : \A l \in T : k <= l
    <2>1. T \in SUBSET Nat
        OBVIOUS
    <2> HIDE DEF T
    <2> QED
        BY <1>1, <2>1, P!LeastOf
<1>3. PICK l \in Nat : k \in Nat /\ k # l /\ Itoa(k) = Itoa(l)
    OBVIOUS
<1>4. l \in T
    BY <1>3
<1>5. k < l
    BY <1>2, <1>3, <1>4
<1> DEFINE a == k \div Base
           b == l \div Base
           base == Base
<1>6. base \in Nat /\ base > 1
    BY NamesAssumption
<1>7. /\ k < base => Itoa(k) = <<k>>
      /\ ~(k < base) => Itoa(k) = Append(Itoa(a), k % base)
      /\ l < base => Itoa(l) = <<l>>
      /\ ~(l < base) => Itoa(l) = Append(Itoa(b), l % base)
    BY <1>3, ItoaIs
<1> HIDE DEF base
<1>8. /\ a \in Nat /\ k = base * a + (k % base) /\ k % base \in 0 .. base - 1
      /\ (k >= base => a >= 1 /\ a < k)
    BY <1>3, <1>6, QuotientIs DEF base
<1>9. /\ b \in Nat /\ l = base * b + (l % base) /\ l % base \in 0 .. base - 1
    BY <1>3, <1>6, QuotientIs DEF base
<1> HIDE DEF a, b
<1>10. Itoa(a) \in Seq(Digit) /\ Itoa(b) \in Seq(Digit) /\ Len(Itoa(a)) >= 1 /\ Len(Itoa(b)) >= 1
    BY <1>8, <1>9, ItoaIs, ItoaWritten
<1>11. CASE l < base
    <2>1. k < base
        BY <1>3, <1>5, <1>6, <1>11
    <2>2. <<k>> = <<l>>
        BY <1>3, <1>7, <1>11, <2>1
    <2> QED
        BY <1>3, <2>2
<1>12. CASE k < base /\ l >= base
    <2>1. Len(Itoa(k)) = 1
        BY <1>7, <1>12
    <2>2. Itoa(l) = Append(Itoa(b), l % base)
        BY <1>3, <1>7, <1>12
    <2>3. l % base \in Digit
        BY <1>9 DEF base, Digit
    <2>4. Len(Itoa(l)) = Len(Itoa(b)) + 1
        BY <1>10, <2>2, <2>3, AppendProperties
    <2> QED
        BY <1>3, <1>10, <2>1, <2>4, LenProperties
<1>13. CASE k >= base
    <2>1. l >= base
        BY <1>3, <1>5, <1>6, <1>13
    <2>2. Append(Itoa(a), k % base) = Append(Itoa(b), l % base)
        BY <1>3, <1>6, <1>7, <1>13, <2>1
    <2>3. k % base \in Digit /\ l % base \in Digit
        BY <1>8, <1>9 DEF base, Digit
    <2>4. Itoa(a) = Itoa(b) /\ k % base = l % base
        BY <1>10, <2>2, <2>3, AppendInjective
    <2>5. a # b
        BY <1>3, <1>8, <1>9, <2>4
    <2>6. a \in T
        BY <1>8, <1>9, <2>4, <2>5
    <2> QED
        BY <1>2, <1>3, <1>8, <1>13, <2>6
<1> QED
    BY <1>3, <1>6, <1>11, <1>12, <1>13

\* Two texts that are one, of one subscriber but with different numbers: one
\* consumer's name is the other's with digits after it.
LEMMA TextsDiffer ==
    ASSUME NEW r \in Ref, NEW s \in Ref, r.supi = s.supi, r.n # s.n, Text(r) = Text(s),
           Len(r.consumer) <= Len(s.consumer)
    PROVE  RunsInto(r.consumer, s.consumer)
<1> DEFINE u == r.supi
           c == r.consumer
           d == s.consumer
           x == Itoa(r.n)
           y == Itoa(s.n)
<1>1. /\ u \in Seq(Chars) /\ c \in Seq(Chars) /\ d \in Seq(Chars)
      /\ r.n \in Nat /\ s.n \in Nat
    BY NamesAssumption DEF Ref
<1>2. x \in Seq(Digit) /\ y \in Seq(Digit) /\ x # y
    BY <1>1, ItoaIs, ItoaInjective
<1>3. u \o c \o x = u \o d \o y
    BY TextIs
<1> HIDE DEF u, c, d, x, y
<1>4. x \in Seq(Chars) /\ y \in Seq(Chars)
    BY <1>2, SeqMonotonic DEF Chars
<1> DEFINE a == u \o c
           b == u \o d
           lu == Len(u)
           lc == Len(c)
           ld == Len(d)
           lx == Len(x)
           ly == Len(y)
<1>5. /\ a \in Seq(Chars) /\ Len(a) = lu + lc
      /\ \A i \in 1 .. lu + lc : a[i] = IF i <= lu THEN u[i] ELSE c[i - lu]
      /\ b \in Seq(Chars) /\ Len(b) = lu + ld
      /\ \A i \in 1 .. lu + ld : b[i] = IF i <= lu THEN u[i] ELSE d[i - lu]
    <2>1. /\ a \in Seq(Chars) /\ Len(a) = lu + lc
          /\ \A i \in 1 .. lu + lc : a[i] = IF i <= lu THEN u[i] ELSE c[i - lu]
        BY <1>1, ConcatProperties
    <2>2. /\ b \in Seq(Chars) /\ Len(b) = lu + ld
          /\ \A i \in 1 .. lu + ld : b[i] = IF i <= lu THEN u[i] ELSE d[i - lu]
        BY <1>1, ConcatProperties
    <2> QED
        BY <2>1, <2>2
<1>6. /\ lu \in Nat /\ lc \in Nat /\ ld \in Nat /\ lx \in Nat /\ ly \in Nat
      /\ DOMAIN x = 1 .. lx /\ DOMAIN y = 1 .. ly /\ DOMAIN d = 1 .. ld
      /\ lc <= ld
    BY <1>1, <1>2, LenProperties DEF c, d
<1> HIDE DEF a, b
<1> HIDE DEF lu, lc, ld, lx, ly
<1>7. /\ Len(a \o x) = lu + lc + lx /\ Len(b \o y) = lu + ld + ly
      /\ \A i \in 1 .. lu + lc + lx : (a \o x)[i] = IF i <= lu + lc THEN a[i]
                                                    ELSE x[i - (lu + lc)]
      /\ \A i \in 1 .. lu + ld + ly : (b \o y)[i] = IF i <= lu + ld THEN b[i]
                                                    ELSE y[i - (lu + ld)]
    <2>1. a \in Seq(Chars) /\ b \in Seq(Chars) /\ x \in Seq(Chars) /\ y \in Seq(Chars)
        BY <1>4, <1>5
    <2>2. /\ Len(a \o x) = Len(a) + lx
          /\ \A i \in 1 .. Len(a) + lx : (a \o x)[i] = IF i <= Len(a) THEN a[i]
                                                       ELSE x[i - Len(a)]
        BY <2>1, ConcatProperties DEF lx
    <2>3. /\ Len(b \o y) = Len(b) + ly
          /\ \A i \in 1 .. Len(b) + ly : (b \o y)[i] = IF i <= Len(b) THEN b[i]
                                                       ELSE y[i - Len(b)]
        BY <2>1, ConcatProperties DEF ly
    <2> QED
        BY <1>5, <2>2, <2>3
<1>8. a \o x = b \o y
    BY <1>3 DEF a, b
<1> DEFINE z == a \o x
<1>9. /\ Len(z) = lu + lc + lx /\ Len(z) = lu + ld + ly
      /\ \A i \in 1 .. lu + lc + lx : z[i] = IF i <= lu + lc THEN a[i] ELSE x[i - (lu + lc)]
      /\ \A i \in 1 .. lu + ld + ly : z[i] = IF i <= lu + ld THEN b[i] ELSE y[i - (lu + ld)]
    BY <1>7, <1>8
<1> HIDE DEF z
<1>10. lc + lx = ld + ly
    <2>1. lu + lc + lx = lu + ld + ly
        BY <1>9
    <2> QED
        BY <1>6, <2>1
<1>11. lc < ld
    <2>1. SUFFICES ASSUME lc = ld
                   PROVE  FALSE
        BY <1>6
    <2>2. lx = ly
        BY <1>6, <1>10, <2>1
    <2>3. ASSUME NEW i \in 1 .. lx
          PROVE  x[i] = y[i]
        <3> DEFINE k == lu + lc + i
        <3>1. k \in 1 .. lu + lc + lx /\ k \in 1 .. lu + ld + ly /\ ~(k <= lu + lc)
              /\ ~(k <= lu + ld) /\ k - (lu + lc) = i /\ k - (lu + ld) = i
            BY <1>6, <2>1, <2>2, <2>3
        <3> HIDE DEF k
        <3> QED
            BY <1>9, <3>1
    <2>4. x = y
        BY <1>2, <1>6, <2>2, <2>3, SeqEqual DEF lx, ly
    <2> QED
        BY <1>2, <2>4
<1>12. ASSUME NEW k \in 1 .. ld
       PROVE  IF k <= lc THEN d[k] = c[k] ELSE d[k] \in Digit
    <2> DEFINE i == lu + k
    <2>1. /\ i \in 1 .. lu + ld /\ i \in 1 .. lu + ld + ly /\ i \in 1 .. lu + lc + lx
          /\ i <= lu + ld /\ ~(i <= lu) /\ i - lu = k
        BY <1>6, <1>10, <1>12
    <2> HIDE DEF i
    <2>2. z[i] = d[k]
        BY <1>5, <1>9, <2>1
    <2>3. CASE k <= lc
        <3>1. i <= lu + lc /\ i \in 1 .. lu + lc
            BY <1>6, <1>12, <2>1, <2>3
        <3>2. z[i] = c[k]
            BY <1>5, <1>9, <2>1, <3>1
        <3> QED
            BY <2>2, <2>3, <3>2
    <2>4. CASE ~(k <= lc)
        <3>1. ~(i <= lu + lc) /\ i - (lu + lc) \in 1 .. lx
            BY <1>6, <1>10, <1>12, <2>1, <2>4
        <3>2. z[i] = x[i - (lu + lc)]
            BY <1>9, <2>1, <3>1
        <3>3. x[i - (lu + lc)] \in Digit
            BY <1>2, <1>6, <3>1, ElementOfSeq DEF lx
        <3> QED
            BY <2>2, <2>4, <3>2, <3>3
    <2> QED
        BY <2>3, <2>4
<1> QED
    BY <1>6, <1>11, <1>12 DEF RunsInto, c, d, lc, ld

\* In one life of the CHF, as long as a subscriber has one context, two of its
\* sessions have one reference only if one consumer's name is the other's with
\* digits after it.
THEOREM RefsAreUnique == Spec => []RefsUniqueInContext
<1>1. IInv /\ UsageInv => RefsUniqueInContext
    <2>1. SUFFICES ASSUME IInv, UsageInv, Without({"duplicate"}),
                          NEW i \in DOMAIN issued, NEW j \in DOMAIN issued,
                          i # j, issued[i].life = issued[j].life,
                          issued[i].ref.supi = issued[j].ref.supi,
                          Text(issued[i].ref) = Text(issued[j].ref)
                   PROVE  \/ RunsInto(issued[i].ref.consumer, issued[j].ref.consumer)
                          \/ RunsInto(issued[j].ref.consumer, issued[i].ref.consumer)
        BY DEF RefsUniqueInContext
    <2> DEFINE r == issued[i].ref
               s == issued[j].ref
    <2>2. r \in Ref /\ s \in Ref /\ r.n # s.n
        BY <2>1, RefTypes DEF UsageInv, RefsGrow, NumbersDiffer
    <2>3. r.supi = s.supi /\ Text(r) = Text(s)
        BY <2>1
    <2> HIDE DEF r, s
    <2>4. Len(r.consumer) \in Nat /\ Len(s.consumer) \in Nat
        <3>1. r.consumer \in Seq(Chars) /\ s.consumer \in Seq(Chars)
            BY <2>2, NamesAssumption DEF Ref
        <3> QED
            BY <3>1, LenProperties
    <2>5. CASE Len(r.consumer) <= Len(s.consumer)
        BY <2>2, <2>3, <2>5, TextsDiffer DEF r, s
    <2>6. CASE Len(s.consumer) <= Len(r.consumer)
        BY <2>2, <2>3, <2>6, TextsDiffer DEF r, s
    <2> QED
        BY <2>4, <2>5, <2>6
<1> QED
    BY <1>1, Invariance, UsageInvariance, PTL

\* A CDR in a file with reports of several requests is no longer than its
\* length field can say, its RecordSequenceNumber apart, unless a release made
\* it grow.
THEOREM CdrsFit == Spec => []RecordsFit
<1>1. UsageInv => RecordsFit
    BY DEF UsageInv
<1> QED
    BY <1>1, UsageInvariance, PTL
=============================================================================
