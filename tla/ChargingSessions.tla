-------------------------- MODULE ChargingSessions --------------------------
(***************************************************************************)
(* Charging sessions and their CDRs: the create, update and release of     *)
(* charging data (internal/sbi/processor/converged_charging.go, cdr.go) by *)
(* the handler goroutines of the SBI server, the subscribers' contexts     *)
(* they share (internal/context) and the CDR file of each subscriber with  *)
(* its upload to the billing domain (internal/cgf).  What the charging     *)
(* itself does is OnlineCharging's subject; here it is one step.           *)
(***************************************************************************)
EXTENDS Naturals, Sequences, FiniteSets, Functions

CONSTANTS
    Handlers,       \* goroutines serving requests
    Letters,        \* what names are written in, beside digits
    Base,           \* of the numbers in references: 10
    Supis,          \* subscribers
    Consumers,      \* names of the network functions that report
    ReportSizes,    \* octets a report's unit usages take in a CDR; 0: it has none
    BaseSize,       \* octets of a CDR without unit usages
    NumberSize,     \* octets of its RecordSequenceNumber
    MaxSize,        \* math.MaxUint16
    Failures,       \* which of "open", "panic", "disk", "cgf" may happen
    MaxRequests,    \* bound: requests
    MaxCrashes      \* bound: crashes of the CHF

Digit == 0 .. (Base - 1)
Chars == Letters \cup Digit

ASSUME NamesAssumption ==
    /\ Base \in Nat \ {0, 1}
    /\ Supis \cup Consumers \subseteq Seq(Chars)
ASSUME SizesAssumption ==
    ReportSizes \subseteq Nat /\ {BaseSize, NumberSize, MaxSize} \subseteq Nat
ASSUME BoundsAssumption == MaxRequests \in Nat /\ MaxCrashes \in Nat

Free == "free"          \* the holder of a mutex that is not locked
ASSUME HandlersAssumption == Free \notin Handlers

VARIABLES
    \* the CHF's memory
    localSeq,       \* LocalRecordSequenceNumber
    nContexts,      \* ChfUe objects made: they are numbered from 1
    pool,           \* UePool: the context of each subscriber, or NoContext
    lock,           \* CULock of each context: the handler that holds it, or Free
    cdr,            \* Cdr of each context: a record per charging data reference
    records,        \* Records of each context
    record,         \* the CHFRecords made, by number
    \* its surroundings
    file,           \* the CDR file of each subscriber, or NoFile
    uploaded,       \* the copy of it in the billing domain
    req,            \* what each handler is doing
    nRequests, nCrashes,
    \* history, read by no action
    issued,         \* the charging data references given out, in order, and
                    \* the life of the CHF, from one crash to the next, it was in
    acked, refused, \* reports answered with success, and with an error
    charged,        \* how often each report went through charging
    incidents       \* see Incident

memory == <<localSeq, nContexts, pool, lock, cdr, records, record>>
disk == <<file, uploaded>>
bounds == <<nRequests, nCrashes>>
history == <<issued, acked, refused, charged, incidents>>
vars == <<memory, disk, req, bounds, history>>

NoContext == 0
NoFile == [i \in {0} |-> "none"]      \* not a sequence of CDRs, as files are
Idle == [at |-> "idle"]
Contexts == 1 .. MaxRequests
Reports == 1 .. MaxRequests

(***************************************************************************)
(* A charging data reference is made of the SUPI, the consumer's name and  *)
(* a number, and its text is the three strung together with nothing        *)
(* between them: "smf" and 12 read as "smf1" and 2 do.  A one-time event   *)
(* has the empty text.  The CHF keeps its sessions by these texts.         *)
(***************************************************************************)
Ref == [supi: Supis, consumer: Consumers, n: Nat]
NoRef == [n |-> "none"]
UnknownRef == [n |-> "unknown"]

B == INSTANCE Ber

Text(ref) ==
    IF ref = NoRef THEN <<>>
    ELSE IF ref = UnknownRef THEN <<Base>>      \* no digit: not the text of a Ref
    ELSE ref.supi \o ref.consumer \o B!Digits(ref.n, Base)

Issue == [ref: Ref, life: 0 .. MaxCrashes]
Report == [id: Reports, size: Nat]
Record == [supi: Supis, ref: Seq(Chars), seq: Nat, reports: Seq(Report),
           size: Nat, number: Nat]

(***************************************************************************)
(* After an incident of these kinds a property may no longer stand.        *)
(*   duplicate   two contexts were made for one subscriber                 *)
(*   crash       the CHF lost its memory                                   *)
(*   panic       a request panicked while charging                         *)
(*   disk, cgf   the CDR file was not written, or not (all) uploaded       *)
(*   unknown     a release named a reference that does not exist           *)
(*   unchecked   a release made a record grow without a look at its size   *)
(***************************************************************************)
Incident == {"duplicate", "crash", "panic", "disk", "cgf", "unknown", "unchecked"}
Note(incident, happened) ==
    incidents' = IF happened THEN incidents \cup {incident} ELSE incidents

Init ==
    /\ localSeq = 0
    /\ nContexts = 0
    /\ pool = [s \in Supis |-> NoContext]
    /\ lock = [u \in Contexts |-> Free]
    /\ cdr = [u \in Contexts |-> <<>>]
    /\ records = [u \in Contexts |-> <<>>]
    /\ record = <<>>
    /\ file = [s \in Supis |-> NoFile]
    /\ uploaded = [s \in Supis |-> NoFile]
    /\ req = [h \in Handlers |-> Idle]
    /\ nRequests = 0
    /\ nCrashes = 0
    /\ issued = <<>>
    /\ acked = {}
    /\ refused = {}
    /\ charged = [r \in Reports |-> 0]
    /\ incidents = {}

-----------------------------------------------------------------------------
(* Requests arrive, find their subscriber's context and take its CULock.   *)

Request == [at: {"find", "new", "lock", "ref", "open", "lookup", "charge", "record",
                 "reopen", "dump", "send"},
            op: {"create", "event", "update", "release"}, supi: Supis,
            consumer: Consumers, ref: Ref \cup {NoRef, UnknownRef}, report: Report,
            partial: BOOLEAN, ue: Contexts \cup {NoContext}]

Goto(h, place) == req' = [req EXCEPT ![h].at = place]

\* The SMF, or another consumer, sends a request with a report.
Receive(h, op, supi, consumer, ref, size, partial) ==
    /\ req[h] = Idle
    /\ nRequests < MaxRequests
    /\ nRequests' = nRequests + 1
    /\ req' = [req EXCEPT ![h] =
                 [at |-> "find", op |-> op, supi |-> supi, consumer |-> consumer,
                  ref |-> ref, report |-> [id |-> nRequests + 1, size |-> size],
                  partial |-> partial, ue |-> NoContext]]
    /\ UNCHANGED <<memory, disk, nCrashes, history>>

\* A new charging session, or a one-time event: it has no reference yet.
ReceiveCreate(h) ==
    \E op \in {"create", "event"}, supi \in Supis, consumer \in Consumers,
       size \in ReportSizes :
        Receive(h, op, supi, consumer, NoRef, size, FALSE)

\* An update of a session, with a trigger that asks for a partial record or
\* not: a trigger, of any kind but FINAL, beside an online container.
ReceiveUpdate(h) ==
    \E entry \in Range(issued), size \in ReportSizes, partial \in BOOLEAN :
        LET ref == entry.ref IN
        /\ partial => size > 0
        /\ Receive(h, "update", ref.supi, ref.consumer, ref, size, partial)

\* A release, of a session or of one the CHF does not know.
ReceiveRelease(h) ==
    \E entry \in Range(issued), size \in ReportSizes, known \in BOOLEAN :
        LET ref == entry.ref IN
        Receive(h, "release", ref.supi, ref.consumer, IF known THEN ref
                                                         ELSE UnknownRef, size, FALSE)

Refuse(h) ==
    /\ req' = [req EXCEPT ![h] = Idle]
    /\ refused' = refused \cup {req[h].report.id}
    /\ UNCHANGED <<issued, acked>>

Succeed(h) ==
    /\ req' = [req EXCEPT ![h] = Idle]
    /\ acked' = acked \cup {req[h].report.id}
    /\ UNCHANGED refused

Unlock(h) == lock' = [lock EXCEPT ![req[h].ue] = Free]

\* ChfUeFindBySupi: a create goes on to make a context, others are refused.
FindContext(h) ==
    /\ req[h].at = "find"
    /\ LET ue == pool[req[h].supi] IN
       \/ /\ ue # NoContext
          /\ req' = [req EXCEPT ![h].at = "lock", ![h].ue = ue]
          /\ UNCHANGED history
       \/ /\ ue = NoContext
          /\ \/ req[h].op \in {"create", "event"} /\ Goto(h, "new") /\ UNCHANGED history
             \/ /\ req[h].op \in {"update", "release"}
                /\ Refuse(h)
                /\ UNCHANGED <<charged, incidents>>
    /\ UNCHANGED <<memory, disk, bounds>>

\* Another create may have put a context there since this one looked.
NewContext(h) ==
    /\ req[h].at = "new"
    /\ nContexts' = nContexts + 1
    /\ pool' = [pool EXCEPT ![req[h].supi] = nContexts + 1]
    /\ req' = [req EXCEPT ![h].at = "lock", ![h].ue = nContexts + 1]
    /\ Note("duplicate", pool[req[h].supi] # NoContext)
    /\ UNCHANGED <<localSeq, lock, cdr, records, record, disk, bounds, issued,
                   acked, refused, charged>>

AfterLock(op) ==
    CASE op \in {"create", "event"} -> "ref"
      [] op = "update" -> "lookup"
      [] op = "release" -> "charge"

\* Fault: CULock is not waited for.
LockContextAtOnce(h) ==
    /\ req[h].at = "lock"
    /\ lock' = [lock EXCEPT ![req[h].ue] = h]
    /\ Goto(h, AfterLock(req[h].op))
    /\ UNCHANGED <<localSeq, nContexts, pool, cdr, records, record, disk, bounds, history>>

LockContext(h) ==
    /\ req[h].at = "lock"
    /\ lock[req[h].ue] = Free
    /\ lock' = [lock EXCEPT ![req[h].ue] = h]
    /\ Goto(h, AfterLock(req[h].op))
    /\ UNCHANGED <<localSeq, nContexts, pool, cdr, records, record, disk, bounds, history>>

-----------------------------------------------------------------------------
(* ChargingDataCreate. *)

\* LocalRecordSequenceNumber is read here, without its lock, and counted up
\* only when the CDR is opened.
ChooseRef(h) ==
    /\ req[h].at = "ref"
    /\ req' = [req EXCEPT ![h].at = "open",
                          ![h].ref = IF req[h].op = "event" THEN NoRef
                                     ELSE [supi |-> req[h].supi,
                                           consumer |-> req[h].consumer, n |-> localSeq]]
    /\ UNCHANGED <<memory, disk, bounds, history>>

NewRecord(r) == [supi |-> r.supi, ref |-> Text(r.ref), seq |-> localSeq + 1, reports |-> <<>>,
                 size |-> BaseSize, number |-> 0]

\* UpdateCDR: a report without unit usages adds nothing.
Extended(rec, report) ==
    IF report.size = 0 THEN rec
    ELSE [rec EXCEPT !.reports = Append(@, report), !.size = @ + report.size]

\* Fault: the context is given a record that is not kept.
OpenCDRLost(h) ==
    /\ req[h].at = "open"
    /\ localSeq' = localSeq + 1
    /\ LET ue == req[h].ue
           text == Text(req[h].ref)
           new == Len(record) + 1 IN
       /\ cdr' = [cdr EXCEPT ![ue] = [ref \in DOMAIN @ \cup {text} |->
                                        IF ref = text THEN new ELSE @[ref]]]
       /\ records' = [records EXCEPT ![ue] = Append(@, new)]
    /\ Goto(h, "send")
    /\ UNCHANGED <<nContexts, pool, lock, record, disk, bounds, history>>

\* OpenCDR, UpdateCDR and CloseCDR, and the new record's place in the context.
OpenCDR(h) ==
    /\ req[h].at = "open"
    /\ localSeq' = localSeq + 1
    /\ record' = Append(record, Extended(NewRecord(req[h]), req[h].report))
    /\ LET ue == req[h].ue
           text == Text(req[h].ref)
           new == Len(record) + 1 IN
       /\ cdr' = [cdr EXCEPT ![ue] = [ref \in DOMAIN @ \cup {text} |->
                                        IF ref = text THEN new ELSE @[ref]]]
       /\ records' = [records EXCEPT ![ue] = Append(@, new)]
    /\ Goto(h, "send")
    /\ UNCHANGED <<nContexts, pool, lock, disk, bounds, history>>

\* OpenCDR finds the request incomplete after it has taken a number.
RejectCreate(h) ==
    /\ "open" \in Failures
    /\ req[h].at = "open"
    /\ localSeq' = localSeq + 1
    /\ Unlock(h)
    /\ Refuse(h)
    /\ UNCHANGED <<nContexts, pool, cdr, records, record, disk, bounds, charged, incidents>>

-----------------------------------------------------------------------------
(* ChargingDataUpdate and ChargingDataRelease. *)

Known(h) == Text(req[h].ref) \in DOMAIN cdr[req[h].ue]
Current(h) == cdr[req[h].ue][Text(req[h].ref)]

\* Fault: charging comes before the question whether the session exists.
LookupSessionLate(h) ==
    /\ req[h].at = "lookup"
    /\ \/ Known(h) /\ Goto(h, "charge") /\ UNCHANGED <<lock, history>>
       \/ /\ ~Known(h)
          /\ charged' = [charged EXCEPT ![req[h].report.id] = @ + 1]
          /\ Unlock(h)
          /\ Refuse(h)
          /\ UNCHANGED incidents
    /\ UNCHANGED <<localSeq, nContexts, pool, cdr, records, record, disk, bounds>>

LookupSession(h) ==
    /\ req[h].at = "lookup"
    /\ \/ Known(h) /\ Goto(h, "charge") /\ UNCHANGED <<lock, history>>
       \/ ~Known(h) /\ Unlock(h) /\ Refuse(h) /\ UNCHANGED <<charged, incidents>>
    /\ UNCHANGED <<localSeq, nContexts, pool, cdr, records, record, disk, bounds>>

\* sessionChargingReservation.
Charge(h) ==
    /\ req[h].at = "charge"
    /\ charged' = [charged EXCEPT ![req[h].report.id] = @ + 1]
    /\ Goto(h, "record")
    /\ UNCHANGED <<memory, disk, bounds, issued, acked, refused, incidents>>

\* Fault: CULock is let go of after charging, and not by a defer.
PanicLocked(h) ==
    /\ "panic" \in Failures
    /\ req[h].at = "charge"
    /\ charged' = [charged EXCEPT ![req[h].report.id] = @ + 1]
    /\ Refuse(h)
    /\ Note("panic", TRUE)
    /\ UNCHANGED <<memory, disk, bounds>>

\* It panics halfway (OnlineCharging's PanicOnAnswer): the deferred unlock
\* runs, and the HTTP server answers for the handler.
Panic(h) ==
    /\ "panic" \in Failures
    /\ req[h].at = "charge"
    /\ charged' = [charged EXCEPT ![req[h].report.id] = @ + 1]
    /\ Unlock(h)
    /\ Refuse(h)
    /\ Note("panic", TRUE)
    /\ UNCHANGED <<localSeq, nContexts, pool, cdr, records, record, disk, bounds>>

Content(numbers) == [i \in DOMAIN numbers |-> record[numbers[i]]]

\* Fault: a split record keeps the unit usages of the one it continues.
SplitKept(rec) == rec

\* Fault: the split looks at the record and not at what is added to it.
MustSplitLate(rec, report) == rec.size > MaxSize

\* The record that continues one that is full: a copy without its usages.
Split(rec) == [rec EXCEPT !.reports = <<>>,
                          !.size = IF rec.number > 0 THEN BaseSize + NumberSize ELSE BaseSize]

MustSplit(rec, report) == rec.size + report.size > MaxSize

\* Fault: the record that is full is dropped from the subscriber's records.
RecordUpdateReplacing(h) ==
    /\ req[h].at = "record"
    /\ req[h].op = "update"
    /\ LET old == record[Current(h)]
           new == Len(record) + 1 IN
       \/ /\ ~MustSplit(old, req[h].report)
          /\ record' = [record EXCEPT ![Current(h)] = Extended(old, req[h].report)]
          /\ UNCHANGED <<cdr, records>>
       \/ /\ MustSplit(old, req[h].report)
          /\ record' = Append(record, Extended(Split(old), req[h].report))
          /\ cdr' = [cdr EXCEPT ![req[h].ue][Text(req[h].ref)] = new]
          /\ records' = [records EXCEPT ![req[h].ue] =
                           [i \in DOMAIN @ |-> IF @[i] = Current(h) THEN new ELSE @[i]]]
    /\ Goto(h, IF req[h].partial THEN "reopen" ELSE "dump")
    /\ UNCHANGED <<localSeq, nContexts, pool, lock, disk, bounds, history>>

\* An update's report goes into the session's record, or into a new one if
\* the two together would not fit a CDR's length field.
RecordUpdate(h) ==
    /\ req[h].at = "record"
    /\ req[h].op = "update"
    /\ LET old == record[Current(h)]
           new == Len(record) + 1 IN
       \/ /\ ~MustSplit(old, req[h].report)
          /\ record' = [record EXCEPT ![Current(h)] = Extended(old, req[h].report)]
          /\ UNCHANGED <<cdr, records>>
       \/ /\ MustSplit(old, req[h].report)
          /\ record' = Append(record, Extended(Split(old), req[h].report))
          /\ cdr' = [cdr EXCEPT ![req[h].ue][Text(req[h].ref)] = new]
          /\ records' = [records EXCEPT ![req[h].ue] = Append(@, new)]
    /\ Goto(h, IF req[h].partial THEN "reopen" ELSE "dump")
    /\ UNCHANGED <<localSeq, nContexts, pool, lock, disk, bounds, history>>

\* The partial record is closed and dumped, alone, and "reopened": it stays
\* the same record, with RecordSequenceNumber one more than an entry of a map
\* that nothing ever writes.
ReopenCDR(h) ==
    /\ req[h].at = "reopen"
    /\ file' = [file EXCEPT ![req[h].supi] = Content(<<Current(h)>>)]
    /\ record' = [record EXCEPT
                    ![Current(h)].number = 1,
                    ![Current(h)].size = IF record[Current(h)].number = 0
                                         THEN @ + NumberSize ELSE @]
    /\ Goto(h, "dump")
    /\ UNCHANGED <<localSeq, nContexts, pool, lock, cdr, records, uploaded, bounds, history>>

\* Fault: an update dumps the session's record, as a release does.
DumpRecordsCurrent(h) ==
    /\ req[h].at = "dump"
    /\ file' = [file EXCEPT ![req[h].supi] = Content(<<Current(h)>>)]
    /\ Goto(h, "send")
    /\ UNCHANGED <<memory, uploaded, bounds, history>>

\* All the subscriber's records make up its new file.
DumpRecords(h) ==
    /\ req[h].at = "dump"
    /\ file' = [file EXCEPT ![req[h].supi] = Content(records[req[h].ue])]
    /\ Goto(h, "send")
    /\ UNCHANGED <<memory, uploaded, bounds, history>>

\* Fault: that the file could not be written is not looked at.
FailDumpIgnored(h) ==
    /\ "disk" \in Failures
    /\ req[h].at \in {"reopen", "dump"}
    /\ Goto(h, "send")
    /\ Note("disk", TRUE)
    /\ UNCHANGED <<memory, disk, bounds, issued, acked, refused, charged>>

\* os.WriteFile fails: the old file is still there, or the new one breaks off.
WriteFails(supi, content) ==
    /\ "disk" \in Failures
    /\ \/ UNCHANGED file
       \/ \E n \in 0 .. Len(content) - 1 :
             file' = [file EXCEPT ![supi] = SubSeq(content, 1, n)]

\* A file cannot be written: the request has been charged and is refused.
FailDump(h) ==
    /\ \/ req[h].at = "reopen" /\ WriteFails(req[h].supi, Content(<<Current(h)>>))
       \/ req[h].at = "dump" /\ WriteFails(req[h].supi, Content(records[req[h].ue]))
    /\ Unlock(h)
    /\ Refuse(h)
    /\ Note("disk", TRUE)
    /\ UNCHANGED <<localSeq, nContexts, pool, cdr, records, record, uploaded, bounds, charged>>

\* SendCDR stores the file as it is; there may be none yet.  Its errors are
\* logged, or not even that; a transfer that breaks off leaves a part of the
\* file in the place of the old one.
SendCDR(h) ==
    /\ req[h].at = "send"
    /\ LET content == file[req[h].supi] IN
       \/ /\ uploaded' = [uploaded EXCEPT ![req[h].supi] =
                            IF content = NoFile THEN @ ELSE content]
          /\ UNCHANGED incidents
       \/ /\ "cgf" \in Failures
          /\ \/ UNCHANGED uploaded
             \/ /\ content # NoFile
                /\ \E n \in 0 .. Len(content) :
                      uploaded' = [uploaded EXCEPT ![req[h].supi] = SubSeq(content, 1, n)]
          /\ Note("cgf", TRUE)
    /\ issued' = IF req[h].op = "create"
                 THEN Append(issued, [ref |-> req[h].ref, life |-> nCrashes]) ELSE issued
    /\ Unlock(h)
    /\ Succeed(h)
    /\ UNCHANGED <<localSeq, nContexts, pool, cdr, records, record, file, bounds, charged>>

\* A release closes the session's record, if there is one, and makes it the
\* whole file.  It sends nothing and forgets nothing.
RecordRelease(h) ==
    /\ req[h].at = "record"
    /\ req[h].op = "release"
    /\ Unlock(h)
    /\ \/ /\ ~Known(h)
          /\ Refuse(h)
          /\ Note("unknown", TRUE)
          /\ UNCHANGED <<record, file>>
       \/ /\ Known(h)
          /\ LET closed == Extended(record[Current(h)], req[h].report) IN
             /\ record' = [record EXCEPT ![Current(h)] = closed]
             /\ \/ /\ file' = [file EXCEPT ![req[h].supi] = <<closed>>]
                   /\ Succeed(h)
                   /\ Note("unchecked", req[h].report.size > 0)
                   /\ UNCHANGED issued
                \/ /\ WriteFails(req[h].supi, <<closed>>)
                   /\ Refuse(h)
                   /\ incidents' = incidents \cup {"disk"} \cup
                        (IF req[h].report.size > 0 THEN {"unchecked"} ELSE {})
    /\ UNCHANGED <<localSeq, nContexts, pool, cdr, records, uploaded, bounds, charged>>

-----------------------------------------------------------------------------

\* The CHF goes down, with every request in it, and comes up again empty.
Crash ==
    /\ nCrashes < MaxCrashes
    /\ nCrashes' = nCrashes + 1
    /\ localSeq' = 0
    /\ nContexts' = 0
    /\ pool' = [s \in Supis |-> NoContext]
    /\ lock' = [u \in Contexts |-> Free]
    /\ cdr' = [u \in Contexts |-> <<>>]
    /\ records' = [u \in Contexts |-> <<>>]
    /\ record' = <<>>
    /\ req' = [h \in Handlers |-> Idle]
    /\ Note("crash", TRUE)
    /\ UNCHANGED <<disk, nRequests, issued, acked, refused, charged>>

Arrive(h) == ReceiveCreate(h) \/ ReceiveUpdate(h) \/ ReceiveRelease(h)

Work(h) ==
    \/ FindContext(h) \/ NewContext(h)
    \/ ChooseRef(h) \/ OpenCDR(h) \/ RejectCreate(h)
    \/ LookupSession(h) \/ Charge(h) \/ Panic(h)
    \/ RecordUpdate(h) \/ ReopenCDR(h) \/ DumpRecords(h) \/ FailDump(h) \/ SendCDR(h)
    \/ RecordRelease(h)

Finished == nRequests = MaxRequests /\ req = [h \in Handlers |-> Idle] /\ UNCHANGED vars

Next ==
    \/ \E h \in Handlers : Arrive(h) \/ LockContext(h) \/ Work(h)
    \/ Crash
    \/ Finished

Spec == Init /\ [][Next]_vars

\* Goroutines are scheduled, charging comes to an end (OnlineCharging's
\* LockReleased), and a sync.Mutex hands over to the longest waiter once it
\* has waited a millisecond: no waiter is passed over for ever.
FairSpec ==
    /\ Spec
    /\ \A h \in Handlers : WF_vars(Work(h)) /\ SF_vars(LockContext(h))

-----------------------------------------------------------------------------

TypeOK ==
    /\ localSeq \in Nat
    /\ nContexts \in Nat
    /\ pool \in [Supis -> Contexts \cup {NoContext}]
    /\ lock \in [Contexts -> Handlers \cup {Free}]
    /\ DOMAIN cdr = Contexts
    /\ \A u \in Contexts : \A ref \in DOMAIN cdr[u] :
          ref \in Seq(Chars) /\ cdr[u][ref] \in DOMAIN record
    /\ records \in [Contexts -> Seq(DOMAIN record)]
    /\ record \in Seq(Record)
    /\ file \in [Supis -> Seq(Record) \cup {NoFile}]
    /\ uploaded \in [Supis -> Seq(Record) \cup {NoFile}]
    /\ req \in [Handlers -> Request \cup {Idle}]
    /\ nRequests \in 0 .. MaxRequests
    /\ nCrashes \in 0 .. MaxCrashes
    /\ issued \in Seq(Issue)
    /\ acked \subseteq Reports /\ refused \subseteq Reports
    /\ charged \in [Reports -> Nat]
    /\ incidents \subseteq Incident

Without(kinds) == incidents \cap kinds = {}

\* Consumer d's name is c's with digits after it: "smf1" is "smf"'s.
RunsInto(c, d) ==
    /\ Len(c) < Len(d)
    /\ \A k \in DOMAIN d : IF k <= Len(c) THEN d[k] = c[k] ELSE d[k] \in Digit

\* As long as a subscriber has one context, no two of its sessions get the
\* same reference in one life of the CHF, although the number in it is read
\* and counted up in two steps and the parts are strung together unseparated:
\* only CULock keeps creates of one subscriber apart, and only a consumer's
\* name that is another's with digits after it can read as a number's
\* beginning.  (After a restart the numbers, and so the references, begin
\* again.)
RefsUniqueInContext ==
    Without({"duplicate"}) =>
        \A i, j \in DOMAIN issued :
            LET r == issued[i].ref
                s == issued[j].ref IN
            /\ i # j /\ issued[i].life = issued[j].life
            /\ r.supi = s.supi /\ Text(r) = Text(s)
            => RunsInto(r.consumer, s.consumer) \/ RunsInto(s.consumer, r.consumer)

\* Where report r stands in the CDRs.
Occurrences(r) ==
    {at \in (DOMAIN record) \X Reports :
        /\ at[2] \in DOMAIN record[at[1]].reports
        /\ record[at[1]].reports[at[2]].id = r}

\* However records are split, reopened and released, and whichever context a
\* request found: no report is charged twice, and none stands in the CDRs twice.
UsageRecordedOnce ==
    \A r \in Reports : charged[r] <= 1 /\ Cardinality(Occurrences(r)) <= 1

\* A report that was refused was neither charged nor recorded.  What breaks
\* that is listed: a panic, a CDR file that could not be written (the report
\* is charged and recorded all the same) and a release of a session the CHF
\* does not know (charged first, looked up afterwards).
RefusedUncharged ==
    Without({"panic", "disk", "unknown"}) =>
        \A r \in refused : charged[r] = 0 /\ Occurrences(r) = {}

Holds(content, r) ==
    content # NoFile /\
    \E i \in DOMAIN content :
        \E j \in DOMAIN content[i].reports : content[i].reports[j].id = r

Acknowledges(h, op) ==
    req[h] # Idle /\ req[h].op = op /\ req[h].report.id \in acked' \ acked

\* An update or a release is acknowledged only when its report has been
\* charged once and, as long as the subscriber has one context, is in its CDR
\* file.  With two the requests of the one overwrite the file of the other.
AckedIsOnFile ==
    [][\A h \in Handlers :
         Acknowledges(h, "update") \/ Acknowledges(h, "release") =>
            /\ charged[req[h].report.id] = 1
            /\ req[h].report.size > 0 /\ Without({"duplicate"}) =>
                  Holds(file'[req[h].supi], req[h].report.id)]_vars

\* When an update is acknowledged the subscriber's file has every report of
\* every CDR made for it, also of sessions that were released and of one-time
\* events, and so has the billing domain unless the upload failed: whatever a
\* partial record or a release had cut out of the file is back.
UpdateWritesAll ==
    [][\A h \in Handlers :
         Acknowledges(h, "update") /\ Without({"duplicate"}) =>
            \A i \in DOMAIN record : record[i].supi = req[h].supi =>
                \A report \in Range(record[i].reports) :
                    /\ Holds(file'[req[h].supi], report.id)
                    /\ "cgf" \in incidents' \/ Holds(uploaded'[req[h].supi], report.id)]_vars

\* What the billing domain has of a subscriber it keeps, over splits, partial
\* records, releases and failures of the disk, as long as no upload fails.
\* Only a create can take reports back, by sending the file of one CDR that a
\* release has left, or the one a failed write has; the next update that
\* succeeds brings them back (UpdateWritesAll).
BillingKeeps ==
    [][\A s \in Supis, r \in Reports :
         /\ Holds(uploaded[s], r) /\ ~Holds(uploaded'[s], r)
         /\ incidents' \cap {"duplicate", "crash", "cgf"} = {}
         => /\ Len(file[s]) = 1 \/ "disk" \in incidents
            /\ \E h \in Handlers :
                  Acknowledges(h, "create") \/ Acknowledges(h, "event")]_vars

\* Every CDR in a file with reports of several requests is no longer than its
\* 16 bit length field can say, RecordSequenceNumber apart, unless a release
\* made it grow without a look.  A report that outgrows a CDR by itself is
\* written all the same, in a CDR of its own: a create does not look, and an
\* update that splits puts it into the new record.  Sizes are what the code
\* adds up; that the length octets around a record's first usages may grow
\* with them it leaves out, and that too is a CDR with one report.
RecordsFit ==
    Without({"unchecked"}) =>
        \A s \in Supis : file[s] # NoFile =>
            \A i \in DOMAIN file[s] :
                Len(file[s][i].reports) > 1 =>
                    file[s][i].size <=
                        MaxSize + (IF file[s][i].number > 0 THEN NumberSize ELSE 0)

\* Every request that is being served is answered.
RequestsAnswered == \A h \in Handlers : req[h] # Idle ~> req[h] = Idle

-----------------------------------------------------------------------------
(* What comments of the source say and the code does not do. *)

\* "ChargingDataRef(charging session id): A unique identifier for a charging
\* data resource in a PLMN".
UniqueRefs == IsInjective([i \in DOMAIN issued |-> Text(issued[i].ref)])
=============================================================================
