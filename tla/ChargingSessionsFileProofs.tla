--------------------- MODULE ChargingSessionsFileProofs ---------------------
(***************************************************************************)
(* Theorems about the CDR files of ChargingSessions and their upload: what *)
(* stands in a subscriber's file when a request is acknowledged, and what  *)
(* the billing domain keeps.                                               *)
(***************************************************************************)
EXTENDS ChargingSessionsUsageProofs

USE SizesAssumption, BoundsAssumption, HandlersAssumption

\* Report r stands in record k; in one of subscriber s.
Stands(k, r) ==
    k \in DOMAIN record /\ \E j \in DOMAIN record[k].reports : record[k].reports[j].id = r
Recorded(s, r) == \E k \in DOMAIN record : record[k].supi = s /\ Stands(k, r)

\* Past RecordUpdate, an update's report stands in a record of its context.
Writing == {"reopen", "dump", "send"}
OnRecord ==
    \A h \in Handlers :
        req[h].at \in Writing /\ req[h].op = "update" /\ req[h].report.size > 0 =>
            \E k \in Range(records[req[h].ue]) : Stands(k, req[h].report.id)

\* A context is of one subscriber, and lists that one's records.
PoolInjective == \A s, t \in Supis : pool[s] = pool[t] /\ pool[s] # NoContext => s = t
ListedAll ==
    Without({"duplicate"}) =>
        /\ \A k \in DOMAIN record :
              /\ pool[record[k].supi] # NoContext
              /\ k \in Range(records[pool[record[k].supi]])
        /\ \A u \in Contexts : \A k \in Range(records[u]) : pool[record[k].supi] = u

\* The file that an update sends is complete.
FileComplete ==
    Without({"duplicate"}) =>
        \A h \in Handlers : req[h].at = "send" /\ req[h].op = "update" =>
            \A r \in Reports : Recorded(req[h].supi, r) => Holds(file[req[h].supi], r)

\* Files, here and in the billing domain, say nothing that no record says.
FilesRecorded ==
    Without({"duplicate", "crash"}) =>
        \A s \in Supis, r \in Reports :
            Holds(file[s], r) \/ Holds(uploaded[s], r) => Recorded(s, r)

\* A file of more than one CDR has all that the billing domain has.
Ahead(s) ==
    \/ file[s] = NoFile
    \/ Len(file[s]) = 1
    \/ \A r \in Reports : Holds(uploaded[s], r) => Holds(file[s], r)
FileAhead == Without({"duplicate", "crash", "cgf", "disk"}) => \A s \in Supis : Ahead(s)

\* A request that was acknowledged is over.
Unacked ==
    /\ \A r \in acked : r <= nRequests
    /\ \A h \in Handlers : req[h] # Idle => req[h].report.id \notin acked

FileInv ==
    /\ OnRecord
    /\ PoolInjective
    /\ ListedAll
    /\ FileComplete
    /\ FilesRecorded
    /\ FileAhead
    /\ Unacked

-----------------------------------------------------------------------------
(* What a file holds.                                                      *)

LEMMA SeqIsFile ==
    ASSUME NEW content \in Seq(Record)
    PROVE  content # NoFile
<1>1. DOMAIN content = 1 .. Len(content) /\ Len(content) \in Nat
    BY LenProperties
<1>2. 0 \in DOMAIN NoFile /\ 0 \notin 1 .. Len(content)
    BY <1>1 DEF NoFile
<1> QED
    BY <1>1, <1>2

LEMMA ContentHolds ==
    ASSUME IInv, NEW numbers \in Seq(DOMAIN record), NEW r
    PROVE  Holds(Content(numbers), r) <=> \E k \in Range(numbers) : Stands(k, r)
<1>1. /\ Content(numbers) \in Seq(Record) /\ DOMAIN Content(numbers) = DOMAIN numbers
      /\ \A i \in DOMAIN numbers : Content(numbers)[i] = record[numbers[i]]
    BY ContentType DEF IInv, TypeOK
<1>2. Content(numbers) # NoFile
    BY <1>1, SeqIsFile
<1>3. \A i \in DOMAIN numbers : numbers[i] \in DOMAIN record
    BY LenProperties, ElementOfSeq
<1> QED
    BY <1>1, <1>2, <1>3 DEF Holds, Stands, Range

LEMMA PartHolds ==
    ASSUME NEW content \in Seq(Record), NEW n \in 0 .. Len(content), NEW r,
           Holds(SubSeq(content, 1, n), r)
    PROVE  Holds(content, r)
<1>1. /\ DOMAIN SubSeq(content, 1, n) = 1 .. n
      /\ \A i \in 1 .. n : SubSeq(content, 1, n)[i] = content[i]
    BY PartOfContent
<1>2. DOMAIN content = 1 .. Len(content) /\ Len(content) \in Nat
    BY LenProperties
<1>3. 1 .. n \subseteq DOMAIN content
    BY <1>2
<1>4. content # NoFile
    BY SeqIsFile
<1> QED
    BY <1>1, <1>3, <1>4 DEF Holds

LEMMA FailedWriteHolds ==
    ASSUME IInv, NEW supi \in Supis, NEW content \in Seq(Record), WriteFails(supi, content)
    PROVE  /\ \A s \in Supis \ {supi} : file'[s] = file[s]
           /\ \A r : Holds(file'[supi], r) => Holds(file[supi], r) \/ Holds(content, r)
<1>1. file \in [Supis -> Seq(Record) \cup {NoFile}] /\ Len(content) \in Nat
    BY LenProperties DEF IInv, TypeOK
<1>2. CASE UNCHANGED file
    BY <1>2
<1>3. ASSUME NEW n \in 0 .. Len(content) - 1, file' = [file EXCEPT ![supi] = SubSeq(content, 1, n)]
      PROVE  /\ \A s \in Supis \ {supi} : file'[s] = file[s]
             /\ \A r : Holds(file'[supi], r) => Holds(content, r)
    <2>1. n \in 0 .. Len(content)
        BY <1>1
    <2> DEFINE part == SubSeq(content, 1, n)
    <2>2. \A r : Holds(part, r) => Holds(content, r)
        BY <2>1, PartHolds
    <2> HIDE DEF part
    <2>3. file'[supi] = part /\ \A s \in Supis \ {supi} : file'[s] = file[s]
        BY <1>1, <1>3 DEF part
    <2> QED
        BY <2>2, <2>3
<1> QED
    BY <1>2, <1>3 DEF WriteFails

-----------------------------------------------------------------------------
(* Whose records, whose file.                                              *)

LEMMA RecordTypes ==
    ASSUME IInv
    PROVE  /\ \A k \in DOMAIN record : record[k] \in Record /\ record[k].supi \in Supis
           /\ \A u \in Contexts : records[u] \in Seq(DOMAIN record)
                                  /\ Range(records[u]) \subseteq DOMAIN record
<1>1. \A k \in DOMAIN record : record[k] \in Record
    BY LenProperties, ElementOfSeq DEF IInv, TypeOK
<1>2. \A u \in Contexts : records[u] \in Seq(DOMAIN record)
    BY DEF IInv, TypeOK
<1>3. \A u \in Contexts : Range(records[u]) \subseteq DOMAIN record
    BY <1>2, RangeOfSeq
<1> QED
    BY <1>1, <1>2, <1>3 DEF Record

\* What a context lists is its subscriber's.
LEMMA OwnRecords ==
    ASSUME IInv, OneContext, PoolInjective, ListedAll, Without({"duplicate"}),
           NEW h \in Handlers, req[h].at \in Critical
    PROVE  \A k \in DOMAIN record : k \in Range(records[req[h].ue]) <=> record[k].supi = req[h].supi
<1>1. /\ req[h].ue \in Contexts /\ req[h].supi \in Supis
      /\ req[h].ue = pool[req[h].supi] /\ req[h].ue # NoContext
    BY CriticalPlace, HasContext DEF OneContext
<1> QED
    BY <1>1, RecordTypes DEF ListedAll, PoolInjective

\* A step that writes in the CDRs and files of its own subscriber only.
OnlyOwn(h) ==
    /\ Kept
    /\ \A u \in Contexts : Range(records[u]) \subseteq Range(records'[u])
    /\ \A s \in Supis \ {req[h].supi} : file'[s] = file[s] /\ uploaded'[s] = uploaded[s]
    /\ Without({"duplicate"}) =>
          \A k \in DOMAIN record' :
              record'[k].supi = req[h].supi \/ (k \in DOMAIN record /\ record'[k] = record[k])

LEMMA NothingWritten ==
    ASSUME NEW h, UNCHANGED <<record, records, disk>>
    PROVE  OnlyOwn(h)
BY DEF OnlyOwn, Kept, disk

\* A record that stays listed keeps its reports.
LEMMA StandsStill ==
    ASSUME Kept, NEW k, NEW r, Stands(k, r)
    PROVE  Stands(k, r)'
BY DEF Kept, Stands

LEMMA RecordedStill ==
    ASSUME Kept, NEW s, NEW r, Recorded(s, r)
    PROVE  Recorded(s, r)'
BY StandsStill DEF Kept, Recorded, Stands

LEMMA OnRecordStep ==
    ASSUME IInv, IInv', OnRecord, NEW h \in Handlers, NEW places, Moved(h, places), OnlyOwn(h),
           \A u \in {req[h].ue}, r \in {req[h].report.id} :
              req'[h].at \in Writing /\ req[h].op = "update" /\ req[h].report.size > 0 =>
                  \/ req[h].at \in Writing
                  \/ req[h].at \in Critical /\ \E k \in Range(records'[u]) : Stands(k, r)'
    PROVE  OnRecord'
<1>1. SUFFICES ASSUME NEW g \in Handlers, NEW u, NEW r,
                      req'[g].at \in Writing, req'[g].op = "update", req'[g].report.size > 0,
                      u = req'[g].ue, r = req'[g].report.id
               PROVE  \E k \in Range(records'[u]) : Stands(k, r)'
    BY DEF OnRecord
<1>2. req'[g] # Idle
    BY <1>1 DEF Writing, Idle
<1>3. CASE req[g].at \in Writing /\ req'[g].op = req[g].op /\ req'[g].report = req[g].report
           /\ req'[g].ue = req[g].ue
    <2>1. PICK k \in Range(records[u]) : Stands(k, r)
        BY <1>1, <1>3 DEF OnRecord
    <2>2. u \in Contexts
        BY <1>1, <1>3, CriticalPlace DEF Writing, Critical
    <2>3. k \in Range(records'[u]) /\ Stands(k, r)'
        BY <2>1, <2>2, StandsStill DEF OnlyOwn
    <2> QED
        BY <2>3
<1>4. CASE g # h
    BY <1>1, <1>3, <1>4 DEF Moved, Beside
<1>5. CASE g = h
    <2>1. /\ req'[h].op = req[h].op /\ req'[h].report = req[h].report
          /\ req[h].at \notin Looking => req'[h].ue = req[h].ue
        BY <1>2, <1>5 DEF Moved
    <2>2. CASE req[h].at \in Writing
        BY <1>3, <1>5, <2>1, <2>2 DEF Writing, Looking
    <2>3. CASE req[h].at \notin Writing
        <3>1. req'[h].at \in Writing /\ req[h].op = "update" /\ req[h].report.size > 0
            BY <1>1, <1>5, <2>1
        <3>2. req[h].at \in Critical /\ r = req[h].report.id
            BY <1>1, <1>5, <2>1, <2>3, <3>1
        <3>3. u = req[h].ue
            BY <1>1, <1>5, <2>1, <3>2 DEF Critical, Looking
        <3> QED
            BY <2>3, <3>1, <3>2, <3>3
    <2> QED
        BY <2>2, <2>3
<1> QED
    BY <1>4, <1>5

LEMMA CompleteStep ==
    ASSUME IInv, OneContext, FileComplete, NEW h \in Handlers, NEW places, Moved(h, places),
           req[h].at \in Critical, OnlyOwn(h),
           \A s \in {req[h].supi} :
              /\ req'[h].at = "send" /\ req[h].op = "update" /\ Without({"duplicate"})
              => \A r \in Reports : Recorded(s, r)' => Holds(file'[s], r)
    PROVE  FileComplete'
<1>1. SUFFICES ASSUME Without({"duplicate"})', NEW g \in Handlers,
                      req'[g].at = "send", req'[g].op = "update", NEW s, s = req'[g].supi,
                      NEW r \in Reports, Recorded(s, r)'
               PROVE  Holds(file'[s], r)
    BY DEF FileComplete
<1>2. Without({"duplicate"}) /\ req'[g] # Idle
    BY <1>1 DEF Moved, Without, Idle
<1>3. CASE g = h
    BY <1>1, <1>2, <1>3 DEF Moved
<1>4. CASE g # h
    <2>1. req'[g] = req[g] /\ req[g].at \in Critical /\ s = req[g].supi
        BY <1>1, <1>4 DEF Moved, Beside, Critical
    <2>2. s # req[h].supi /\ s \in Supis
        BY <1>2, <1>4, <2>1, Exclusion, CriticalPlace
    <2>3. Recorded(s, r)
        BY <1>1, <1>2, <2>2 DEF Recorded, Stands, OnlyOwn
    <2>4. Holds(file[s], r)
        BY <1>1, <1>2, <2>1, <2>3 DEF FileComplete
    <2> QED
        BY <2>2, <2>4 DEF OnlyOwn
<1> QED
    BY <1>3, <1>4

\* A step that writes nothing and does not come from the disk.
LEMMA CompleteQuiet ==
    ASSUME FileComplete, NEW h \in Handlers, NEW places, Moved(h, places),
           UNCHANGED <<record, disk>>, req'[h].at # "send"
    PROVE  FileComplete'
<1>1. SUFFICES ASSUME Without({"duplicate"})', NEW g \in Handlers,
                      req'[g].at = "send", req'[g].op = "update", NEW s, s = req'[g].supi,
                      NEW r \in Reports, Recorded(s, r)'
               PROVE  Holds(file'[s], r)
    BY DEF FileComplete
<1>2. Without({"duplicate"}) /\ req'[g] = req[g] /\ Recorded(s, r)
    BY <1>1 DEF Moved, Beside, Without, Recorded, Stands
<1> QED
    BY <1>1, <1>2 DEF FileComplete, disk

LEMMA FilesStep ==
    ASSUME FilesRecorded, Kept, incidents \subseteq incidents',
           Without({"duplicate", "crash"})' =>
              \A s \in Supis, r \in Reports :
                 /\ Holds(file'[s], r) => Holds(file[s], r) \/ Recorded(s, r)'
                 /\ Holds(uploaded'[s], r) => Holds(uploaded[s], r) \/ Holds(file[s], r)
    PROVE  FilesRecorded'
<1>1. SUFFICES ASSUME Without({"duplicate", "crash"})', NEW s \in Supis, NEW r \in Reports,
                      Holds(file'[s], r) \/ Holds(uploaded'[s], r)
               PROVE  Recorded(s, r)'
    BY DEF FilesRecorded
<1>2. Without({"duplicate", "crash"})
    BY <1>1 DEF Without
<1>3. Recorded(s, r) => Recorded(s, r)'
    BY RecordedStill
<1> QED
    BY <1>1, <1>2, <1>3 DEF FilesRecorded

LEMMA AheadStep ==
    ASSUME FileAhead, incidents \subseteq incidents',
           Without({"duplicate", "crash", "cgf", "disk"})' =>
              \A s \in Supis : Ahead(s)' \/ (file'[s] = file[s] /\ uploaded'[s] = uploaded[s])
    PROVE  FileAhead'
<1>1. SUFFICES ASSUME Without({"duplicate", "crash", "cgf", "disk"})', NEW s \in Supis
               PROVE  Ahead(s)'
    BY DEF FileAhead
<1>2. Ahead(s)
    BY <1>1 DEF FileAhead, Without
<1> QED
    BY <1>1, <1>2 DEF Ahead

LEMMA UnackedStep ==
    ASSUME IInv, Unacked, NEW h \in Handlers, NEW places, Moved(h, places),
           acked' = acked \/ (acked' = acked \cup {req[h].report.id} /\ req'[h] = Idle)
    PROVE  Unacked'
<1> DEFINE id == req[h].report.id
<1>1. id <= nRequests /\ req[h] # Idle /\ id \notin acked
    BY ReportInRange DEF Unacked, Moved
<1>2. \A r \in acked' : r <= nRequests'
    BY <1>1 DEF Unacked, Moved
<1>3. ASSUME NEW g \in Handlers, req'[g] # Idle
      PROVE  req'[g].report.id \notin acked'
    <2>1. CASE g = h
        BY <1>1, <1>3, <2>1 DEF Moved
    <2>2. CASE g # h
        <3>1. req'[g] = req[g] /\ req[g].report.id # id /\ req[g] # Idle
            BY <1>1, <1>3, <2>2, OwnReport DEF Moved, Beside
        <3> QED
            BY <3>1 DEF Unacked
    <2> QED
        BY <2>1, <2>2
<1> QED
    BY <1>2, <1>3 DEF Unacked

\* The subscribers' contexts, and what they list.
LEMMA ListedSame ==
    ASSUME IInv, PoolInjective, ListedAll, UNCHANGED <<pool, records>>,
           DOMAIN record' = DOMAIN record,
           \A k \in DOMAIN record : record'[k].supi = record[k].supi,
           incidents \subseteq incidents'
    PROVE  PoolInjective' /\ ListedAll'
<1>1. Without({"duplicate"})' => Without({"duplicate"})
    BY DEF Without
<1>2. \A u \in Contexts : Range(records[u]) \subseteq DOMAIN record
    BY RecordTypes
<1> QED
    BY <1>1, <1>2 DEF PoolInjective, ListedAll

LEMMA ListedMore ==
    ASSUME IInv, PoolInjective, ListedAll, NEW u \in Contexts, NEW x \in Record, Added(u, x),
           Without({"duplicate"}) => pool[x.supi] = u,
           UNCHANGED pool, incidents \subseteq incidents'
    PROVE  PoolInjective' /\ ListedAll'
<1> DEFINE new == Len(record) + 1
<1>1. /\ DOMAIN record' = DOMAIN record \cup {new} /\ new \notin DOMAIN record
      /\ \A i \in DOMAIN record : record'[i] = record[i]
      /\ record'[new] = x
      /\ Range(records'[u]) = Range(records[u]) \cup {new}
      /\ \A v \in Contexts \ {u} : records'[v] = records[v]
    BY TablesNow, AddRecord
<1> HIDE DEF new
<1>2. u # NoContext /\ \A v \in Contexts : Range(records[v]) \subseteq DOMAIN record
    BY RecordTypes DEF Contexts, NoContext
<1>3. SUFFICES ASSUME Without({"duplicate"})'
               PROVE  ListedAll'
    BY DEF PoolInjective, ListedAll
<1>4. Without({"duplicate"}) /\ pool[x.supi] = u
    BY <1>3 DEF Without
<1>5. ASSUME NEW k \in DOMAIN record'
      PROVE  pool[record'[k].supi] # NoContext /\ k \in Range(records'[pool[record'[k].supi]])
    <2>1. CASE k = new
        BY <1>1, <1>2, <1>4, <2>1
    <2>2. CASE k \in DOMAIN record
        <3>1. record'[k] = record[k] /\ pool[record[k].supi] # NoContext
              /\ k \in Range(records[pool[record[k].supi]])
            BY <1>1, <1>4, <2>2 DEF ListedAll
        <3>2. pool[record[k].supi] \in Contexts
            BY <2>2, <3>1, RecordTypes DEF IInv, TypeOK
        <3> QED
            BY <1>1, <3>1, <3>2
    <2> QED
        BY <1>1, <2>1, <2>2
<1>6. ASSUME NEW v \in Contexts, NEW k \in Range(records'[v])
      PROVE  pool[record'[k].supi] = v
    <2>1. CASE k = new
        BY <1>1, <1>2, <1>4, <1>6, <2>1
    <2>2. CASE k # new
        <3>1. k \in Range(records[v]) /\ k \in DOMAIN record /\ record'[k] = record[k]
            BY <1>1, <1>2, <1>6, <2>2
        <3> QED
            BY <1>4, <3>1 DEF ListedAll
    <2> QED
        BY <2>1, <2>2
<1> QED
    BY <1>5, <1>6 DEF ListedAll

LEMMA ListedNewContext ==
    ASSUME IInv, IInv', PoolInjective, ListedAll, NEW h \in Handlers, NewContext(h)
    PROVE  PoolInjective' /\ ListedAll'
<1> DEFINE u == nContexts + 1
<1>1. /\ pool' = [pool EXCEPT ![req[h].supi] = u] /\ Moved(h, {"lock"})
      /\ UNCHANGED <<record, records>> /\ req'[h].ue = u
    BY NewContextMoves DEF NewContext
<1>2. /\ req[h].supi \in Supis /\ pool \in [Supis -> Contexts \cup {NoContext}]
      /\ \A s \in Supis : pool[s] # u
    <2>1. req[h].supi \in Supis
        BY <1>1, RequestFields DEF Moved
    <2>2. /\ pool \in [Supis -> Contexts \cup {NoContext}] /\ nContexts \in Nat
          /\ \A s \in Supis : pool[s] <= nContexts
        BY DEF IInv, TypeOK, ContextsCounted
    <2> QED
        BY <2>1, <2>2 DEF Contexts, NoContext
<1> HIDE DEF u
<1>3. PoolInjective'
    BY <1>1, <1>2 DEF PoolInjective
<1>4. ListedAll'
    <2>1. SUFFICES ASSUME Without({"duplicate"})'
                   PROVE  ListedAll'
        BY DEF ListedAll
    <2>2. Without({"duplicate"}) /\ pool[req[h].supi] = NoContext
        BY <2>1 DEF NewContext, Note, Without
    <2>3. \A k \in DOMAIN record : record[k].supi # req[h].supi
        BY <2>2 DEF ListedAll
    <2>4. \A k \in DOMAIN record : pool'[record[k].supi] = pool[record[k].supi]
        BY <1>1, <1>2, <2>3, RecordTypes
    <2>5. \A v \in Contexts : Range(records[v]) \subseteq DOMAIN record
        BY RecordTypes
    <2> QED
        BY <1>1, <2>2, <2>4, <2>5 DEF ListedAll
<1> QED
    BY <1>3, <1>4

\* A step that writes nothing, neither there nor on the disk.
LEMMA QuietStep ==
    ASSUME IInv, IInv', FileInv, NEW h \in Handlers, NEW places, Moved(h, places),
           UNCHANGED <<record, records, disk, acked>>, req'[h].at \notin Writing,
           PoolInjective' /\ ListedAll'
    PROVE  FileInv'
<1>1. OnlyOwn(h) /\ Kept /\ UNCHANGED <<file, uploaded>> /\ incidents \subseteq incidents'
    BY NothingWritten DEF OnlyOwn, disk, Moved
<1>2. OnRecord'
    BY <1>1, OnRecordStep DEF FileInv
<1>3. FileComplete'
    BY CompleteQuiet DEF FileInv, Writing
<1>4. FilesRecorded' /\ FileAhead' /\ Unacked'
    BY <1>1, FilesStep, AheadStep, UnackedStep DEF FileInv
<1> QED
    BY <1>2, <1>3, <1>4 DEF FileInv

-----------------------------------------------------------------------------
(* Each action keeps the invariant.                                        *)

LEMMA QuietKeeps ==
    ASSUME IInv, IInv', FileInv, NEW h \in Handlers,
           \/ FindContext(h) \/ NewContext(h) \/ LockContext(h) \/ ChooseRef(h)
           \/ RejectCreate(h) \/ LookupSession(h) \/ Charge(h) \/ Panic(h)
    PROVE  FileInv'
<1> USE DEF memory, history
<1>1. CASE NewContext(h)
    <2>1. Moved(h, {"lock"}) /\ UNCHANGED <<record, records, disk, acked>>
        BY <1>1, NewContextMoves DEF NewContext
    <2>2. req'[h].at \notin Writing
        BY <2>1 DEF Moved, Writing
    <2>3. PoolInjective' /\ ListedAll'
        BY <1>1, ListedNewContext DEF FileInv
    <2> QED
        BY <2>1, <2>2, <2>3, QuietStep
<1>2. ASSUME NEW places, Moved(h, places), places \cap Writing = {},
             UNCHANGED <<pool, record, records, disk, acked>>
      PROVE  FileInv'
    <2>1. PoolInjective' /\ ListedAll'
        BY <1>2, ListedSame DEF FileInv, Moved
    <2>2. req'[h].at \notin Writing
        BY <1>2 DEF Moved
    <2> QED
        BY <1>2, <2>1, <2>2, QuietStep
<1>3. CASE FindContext(h)
    <2>1. UNCHANGED <<pool, record, records, disk, acked>>
        BY <1>3 DEF FindContext, Refuse
    <2>2. {"new", "lock", "idle"} \cap Writing = {}
        BY DEF Writing
    <2> QED
        BY <1>2, <1>3, <2>1, <2>2, FindContextMoves
<1>4. CASE LockContext(h)
    <2>1. UNCHANGED <<pool, record, records, disk, acked>>
        BY <1>4 DEF LockContext
    <2>2. {"ref", "lookup", "charge"} \cap Writing = {}
        BY DEF Writing
    <2> QED
        BY <1>2, <1>4, <2>1, <2>2, LockContextMoves
<1>5. CASE ChooseRef(h)
    <2>1. UNCHANGED <<pool, record, records, disk, acked>>
        BY <1>5 DEF ChooseRef
    <2>2. {"open"} \cap Writing = {}
        BY DEF Writing
    <2> QED
        BY <1>2, <1>5, <2>1, <2>2, ChooseRefMoves
<1>6. CASE RejectCreate(h)
    <2>1. UNCHANGED <<pool, record, records, disk, acked>>
        BY <1>6 DEF RejectCreate, Refuse
    <2>2. {"idle"} \cap Writing = {}
        BY DEF Writing
    <2> QED
        BY <1>2, <1>6, <2>1, <2>2, RejectCreateMoves
<1>7. CASE LookupSession(h)
    <2>1. UNCHANGED <<pool, record, records, disk, acked>>
        BY <1>7 DEF LookupSession, Refuse
    <2>2. {"charge", "idle"} \cap Writing = {}
        BY DEF Writing
    <2> QED
        BY <1>2, <1>7, <2>1, <2>2, LookupSessionMoves
<1>8. CASE Charge(h)
    <2>1. UNCHANGED <<pool, record, records, disk, acked>>
        BY <1>8 DEF Charge
    <2>2. {"record"} \cap Writing = {}
        BY DEF Writing
    <2> QED
        BY <1>2, <1>8, <2>1, <2>2, ChargeMoves
<1>9. CASE Panic(h)
    <2>1. UNCHANGED <<pool, record, records, disk, acked>>
        BY <1>9 DEF Panic, Refuse
    <2>2. {"idle"} \cap Writing = {}
        BY DEF Writing
    <2> QED
        BY <1>2, <1>9, <2>1, <2>2, PanicMoves
<1> QED
    BY <1>1, <1>3, <1>4, <1>5, <1>6, <1>7, <1>8, <1>9

LEMMA OpenCDRFile ==
    ASSUME IInv, IInv', OneContext, FileInv, NEW h \in Handlers, OpenCDR(h)
    PROVE  FileInv'
<1>1. /\ req[h].at = "open" /\ Moved(h, {"send"}) /\ req[h].op \in Creating
      /\ Kept /\ UNCHANGED <<pool, file, uploaded, acked, incidents>>
      /\ req[h].at \in Critical
    BY OpenCDRMoves, OpenCDRWrites DEF OpenCDR, disk, history, Critical
<1>2. /\ req[h].ue \in Contexts /\ req[h].report \in Report /\ req[h] \in Request
      /\ req[h].ref \in Ref \cup {NoRef} /\ req[h].supi \in Supis
    BY <1>1, CriticalPlace DEF Place
<1> DEFINE new == NewRecord(req[h])
           x == Extended(new, req[h].report)
<1>3. new \in Record /\ new.supi = req[h].supi
    BY <1>2, NewRecordType DEF IInv
<1> HIDE DEF new
<1>4. x.supi = req[h].supi
    BY <1>2, <1>3, ExtendedRecord
<1>5. x \in Record /\ Added(req[h].ue, x)
    BY OpenCDRAdds DEF new
<1> HIDE DEF x
<1>6. /\ DOMAIN record' = DOMAIN record \cup {Len(record) + 1}
      /\ \A i \in DOMAIN record : record'[i] = record[i]
      /\ record'[Len(record) + 1] = x
      /\ \A v \in Contexts : Range(records[v]) \subseteq Range(records'[v])
    BY <1>2, <1>5, TablesNow, AddRecord
<1>7. OnlyOwn(h)
    BY <1>1, <1>4, <1>6 DEF OnlyOwn
<1>8. OnRecord'
    <2>1. req[h].op # "update"
        BY <1>1 DEF Creating
    <2> QED
        BY <1>1, <1>7, <2>1, OnRecordStep DEF FileInv
<1>9. PoolInjective' /\ ListedAll'
    <2>1. Without({"duplicate"}) => pool[x.supi] = req[h].ue
        BY <1>1, <1>4, CriticalPlace DEF OneContext
    <2> QED
        BY <1>1, <1>2, <1>5, <2>1, ListedMore DEF FileInv
<1>10. FileComplete'
    BY <1>1, <1>7, CompleteStep DEF FileInv, Creating
<1>11. FilesRecorded' /\ FileAhead' /\ Unacked'
    BY <1>1, FilesStep, AheadStep, UnackedStep DEF FileInv
<1> QED
    BY <1>8, <1>9, <1>10, <1>11 DEF FileInv

\* The record of the session a request goes on in is its subscriber's.
LEMMA CurrentOwn ==
    ASSUME IInv, OneContext, FileInv, NEW h \in Handlers, req[h].at \in Critical, Known(h)
    PROVE  /\ Current(h) \in DOMAIN record /\ record[Current(h)] \in Record
           /\ Current(h) \in Range(records[req[h].ue])
           /\ Without({"duplicate"}) => record[Current(h)].supi = req[h].supi
<1>1. /\ Current(h) \in DOMAIN record /\ record[Current(h)] \in Record
      /\ Current(h) \in Range(records[req[h].ue])
    BY CriticalPlace, CurrentRecord
<1> QED
    BY <1>1, OwnRecords DEF FileInv

\* A report that extends a record stands in it.
LEMMA ExtendedHas ==
    ASSUME NEW rec \in Record, NEW report \in Report, report.size > 0
    PROVE  \E j \in DOMAIN Extended(rec, report).reports :
              Extended(rec, report).reports[j].id = report.id
<1>1. rec.reports \in Seq(Report) /\ report.size # 0
    BY DEF Record, Report
<1> DEFINE old == rec.reports
           longer == Append(old, report)
<1>2. Extended(rec, report).reports = longer
    BY <1>1, ExtendedRecord
<1>3. /\ longer \in Seq(Report) /\ Len(old) \in Nat /\ Len(longer) = Len(old) + 1
      /\ longer[Len(old) + 1] = report
    BY <1>1, AppendProperties, LenProperties
<1> HIDE DEF longer, old
<1>4. Len(old) + 1 \in DOMAIN longer
    BY <1>3, LenProperties
<1> QED
    BY <1>2, <1>3, <1>4

LEMMA RecordUpdateFile ==
    ASSUME IInv, IInv', OneContext, FileInv, NEW h \in Handlers, RecordUpdate(h)
    PROVE  FileInv'
<1>1. /\ req[h].at = "record" /\ Moved(h, {"reopen", "dump"}) /\ Kept
      /\ UNCHANGED <<pool, file, uploaded, acked, incidents>>
      /\ req[h].at \in Critical /\ Known(h)
    BY RecordUpdateMoves, RecordUpdateWrites, RecordUpdateDoes DEF RecordUpdate, disk,
       history
<1>2. /\ Current(h) \in DOMAIN record /\ record[Current(h)] \in Record
      /\ Current(h) \in Range(records[req[h].ue])
      /\ Without({"duplicate"}) => record[Current(h)].supi = req[h].supi
      /\ req[h].ue \in Contexts /\ req[h].report \in Report /\ req[h].supi \in Supis
    BY <1>1, CurrentOwn, CriticalPlace
<1> DEFINE old == record[Current(h)]
           Home(x, k) ==
               /\ record'[k] = x /\ k \in DOMAIN record'
               /\ k \in Range(records'[req[h].ue])
               /\ x.supi = old.supi
               /\ req[h].report.size > 0 =>
                     \E j \in DOMAIN x.reports : x.reports[j].id = req[h].report.id
<1>3. /\ OnlyOwn(h) /\ PoolInjective' /\ ListedAll'
      /\ \E x, k : Home(x, k)
    <2>1. CASE /\ record' = [record EXCEPT ![Current(h)] = Extended(old, req[h].report)]
               /\ UNCHANGED <<cdr, records>>
        <3> DEFINE x == Extended(old, req[h].report)
        <3>1. /\ x \in Record /\ x.supi = old.supi
              /\ req[h].report.size > 0 =>
                    \E j \in DOMAIN x.reports : x.reports[j].id = req[h].report.id
            BY <1>2, ExtendedRecord, ExtendedHas
        <3>2. record' = [record EXCEPT ![Current(h)] = x] /\ record \in Seq(Record)
            BY <2>1 DEF IInv, TypeOK
        <3> HIDE DEF x
        <3>3. DOMAIN record' = DOMAIN record /\ record'[Current(h)] = x
              /\ \A i \in DOMAIN record \ {Current(h)} : record'[i] = record[i]
            BY <1>2, <3>2
        <3>4. Home(x, Current(h))
            BY <1>2, <2>1, <3>1, <3>3
        <3>5. OnlyOwn(h)
            BY <1>1, <1>2, <2>1, <3>1, <3>3 DEF OnlyOwn
        <3>6. PoolInjective' /\ ListedAll'
            <4>1. \A i \in DOMAIN record : record'[i].supi = record[i].supi
                BY <3>1, <3>3
            <4> QED
                BY <1>1, <2>1, <3>3, <4>1, ListedSame DEF FileInv
        <3> QED
            BY <3>4, <3>5, <3>6
    <2>2. CASE /\ Added(req[h].ue, Extended(Split(old), req[h].report))
               /\ Extended(Split(old), req[h].report) \in Record
        <3> DEFINE split == Split(old)
                   x == Extended(split, req[h].report)
                   new == Len(record) + 1
        <3>1. split \in Record /\ split.supi = old.supi
            BY <1>2, SplitRecord
        <3> HIDE DEF split
        <3>2. /\ x.supi = old.supi
              /\ req[h].report.size > 0 =>
                    \E j \in DOMAIN x.reports : x.reports[j].id = req[h].report.id
            BY <1>2, <3>1, ExtendedRecord, ExtendedHas
        <3>3. x \in Record /\ Added(req[h].ue, x)
            BY <2>2 DEF split
        <3> HIDE DEF x
        <3>4. /\ DOMAIN record' = DOMAIN record \cup {new}
              /\ \A i \in DOMAIN record : record'[i] = record[i]
              /\ record'[new] = x
              /\ \A v \in Contexts : Range(records[v]) \subseteq Range(records'[v])
              /\ Range(records'[req[h].ue]) = Range(records[req[h].ue]) \cup {new}
            BY <1>2, <3>3, TablesNow, AddRecord
        <3> HIDE DEF new
        <3>5. Home(x, new)
            BY <3>2, <3>4
        <3>6. OnlyOwn(h)
            BY <1>1, <1>2, <3>2, <3>4 DEF OnlyOwn
        <3>7. PoolInjective' /\ ListedAll'
            <4>1. Without({"duplicate"}) => pool[x.supi] = req[h].ue
                BY <1>1, <1>2, <3>2, CriticalPlace DEF OneContext
            <4> QED
                BY <1>1, <1>2, <3>3, <4>1, ListedMore DEF FileInv
        <3> QED
            BY <3>5, <3>6, <3>7
    <2> QED
        BY <2>1, <2>2, RecordUpdateDoes
<1>4. OnRecord'
    <2>1. PICK x, k : Home(x, k)
        BY <1>3
    <2>2. \A u \in {req[h].ue}, r \in {req[h].report.id} :
             req[h].report.size > 0 => \E i \in Range(records'[u]) : Stands(i, r)'
        <3>1. k \in Range(records'[req[h].ue])
            BY <2>1
        <3>2. \A r \in {req[h].report.id} : req[h].report.size > 0 => Stands(k, r)'
            BY <2>1 DEF Stands
        <3> QED
            BY <3>1, <3>2
    <2> QED
        BY <1>1, <1>3, <2>2, OnRecordStep DEF FileInv
<1>5. FileComplete'
    <2>1. req'[h].at # "send"
        BY <1>1 DEF Moved
    <2> QED
        BY <1>1, <1>3, <2>1, CompleteStep DEF FileInv
<1>6. FilesRecorded' /\ FileAhead' /\ Unacked'
    BY <1>1, FilesStep, AheadStep, UnackedStep DEF FileInv
<1> QED
    BY <1>3, <1>4, <1>5, <1>6 DEF FileInv

LEMMA ReopenCDRFile ==
    ASSUME IInv, IInv', OneContext, FileInv, NEW h \in Handlers, ReopenCDR(h)
    PROVE  FileInv'
<1>1. /\ req[h].at = "reopen" /\ Moved(h, {"dump"}) /\ SameReports
      /\ UNCHANGED <<pool, records, uploaded, acked>> /\ incidents \subseteq incidents'
      /\ req[h].at \in Critical /\ Known(h)
      /\ file' = [file EXCEPT ![req[h].supi] = Content(<<Current(h)>>)]
    BY ReopenCDRMoves, ReopenCDRWrites, ReopenCDRDoes DEF ReopenCDR, history
<1>2. /\ Current(h) \in DOMAIN record /\ record[Current(h)] \in Record
      /\ Without({"duplicate"}) => record[Current(h)].supi = req[h].supi
      /\ req[h].supi \in Supis
    BY <1>1, CurrentOwn, CriticalPlace
<1> DEFINE content == Content(<<Current(h)>>)
<1>3. /\ content # NoFile /\ Len(content) = 1
      /\ \A r : Holds(content, r) => Stands(Current(h), r)
    <2>1. <<Current(h)>> \in Seq(DOMAIN record) /\ Range(<<Current(h)>>) = {Current(h)}
        BY <1>2 DEF Range
    <2>2. content \in Seq(Record) /\ Len(content) = 1
        BY <2>1, ContentType DEF IInv, TypeOK
    <2> QED
        BY <2>1, <2>2, ContentHolds, SeqIsFile
<1> HIDE DEF content
<1>4. file'[req[h].supi] = content /\ \A s \in Supis \ {req[h].supi} : file'[s] = file[s]
    BY <1>1, <1>2 DEF IInv, TypeOK, content
<1>5. Kept
    BY <1>1 DEF SameReports, Kept
<1>6. OnlyOwn(h)
    <2>1. ASSUME NEW k \in DOMAIN record', Without({"duplicate"})
          PROVE  record'[k].supi = req[h].supi \/ (k \in DOMAIN record /\ record'[k] = record[k])
        <3>1. CASE k = Current(h)
            BY <1>1, <1>2, <2>1, <3>1 DEF SameReports
        <3>2. CASE k # Current(h)
            <4>1. PICK x : record' = [record EXCEPT ![Current(h)] = x]
                BY ReopenCDRDoes
            <4>2. record \in Seq(Record)
                BY DEF IInv, TypeOK
            <4>3. k \in DOMAIN record
                BY <1>1, <2>1 DEF SameReports
            <4> QED
                BY <3>2, <4>1, <4>2, <4>3
        <3> QED
            BY <3>1, <3>2
    <2> QED
        BY <1>1, <1>4, <1>5, <2>1 DEF OnlyOwn
<1>7. OnRecord'
    BY <1>1, <1>6, OnRecordStep DEF FileInv, Writing
<1>8. PoolInjective' /\ ListedAll'
    BY <1>1, ListedSame DEF FileInv, SameReports
<1>9. FileComplete'
    <2>1. req'[h].at # "send"
        BY <1>1 DEF Moved
    <2> QED
        BY <1>1, <1>6, <2>1, CompleteStep DEF FileInv
<1>10. FilesRecorded'
    <2>1. ASSUME Without({"duplicate", "crash"})', NEW s \in Supis, NEW r \in Reports,
                 Holds(file'[s], r)
          PROVE  Holds(file[s], r) \/ Recorded(s, r)'
        <3>1. CASE s = req[h].supi
            <4>1. Stands(Current(h), r) /\ Without({"duplicate"})
                BY <1>1, <1>3, <1>4, <2>1, <3>1 DEF Without
            <4>2. Recorded(s, r)
                BY <1>2, <3>1, <4>1 DEF Recorded
            <4> QED
                BY <1>5, <4>2, RecordedStill
        <3>2. CASE s # req[h].supi
            BY <1>4, <2>1, <3>2
        <3> QED
            BY <3>1, <3>2
    <2> QED
        BY <1>1, <1>5, <2>1, FilesStep DEF FileInv
<1>11. FileAhead'
    BY <1>1, <1>3, <1>4, AheadStep DEF FileInv, Ahead
<1>12. Unacked'
    BY <1>1, UnackedStep DEF FileInv
<1> QED
    BY <1>7, <1>8, <1>9, <1>10, <1>11, <1>12 DEF FileInv

LEMMA DumpRecordsFile ==
    ASSUME IInv, IInv', OneContext, FileInv, NEW h \in Handlers, DumpRecords(h)
    PROVE  FileInv'
<1>1. /\ req[h].at = "dump" /\ Moved(h, {"send"}) /\ req[h].at \in Critical
      /\ UNCHANGED <<pool, record, records, uploaded, acked, incidents>>
      /\ file' = [file EXCEPT ![req[h].supi] = Content(records[req[h].ue])]
    BY DumpRecordsMoves DEF DumpRecords, memory, history, Critical
<1>2. req[h].supi \in Supis /\ req[h].ue \in Contexts
    BY <1>1, CriticalPlace
<1> DEFINE content == Content(records[req[h].ue])
<1>3. Without({"duplicate"}) => \A r : Holds(content, r) <=> Recorded(req[h].supi, r)
    <2>1. records[req[h].ue] \in Seq(DOMAIN record)
          /\ Range(records[req[h].ue]) \subseteq DOMAIN record
        BY <1>2, RecordTypes
    <2>2. \A r : Holds(content, r) <=> \E k \in Range(records[req[h].ue]) : Stands(k, r)
        BY <2>1, ContentHolds
    <2> HIDE DEF content
    <2> QED
        BY <1>1, <2>1, <2>2, OwnRecords DEF FileInv, Recorded
<1> HIDE DEF content
<1>4. file'[req[h].supi] = content /\ \A s \in Supis \ {req[h].supi} : file'[s] = file[s]
    BY <1>1, <1>2 DEF IInv, TypeOK, content
<1>5. Kept /\ OnlyOwn(h)
    BY <1>1, <1>4 DEF Kept, OnlyOwn
<1>6. \A s, r : Recorded(s, r)' <=> Recorded(s, r)
    BY <1>1 DEF Recorded, Stands
<1>7. OnRecord'
    BY <1>1, <1>5, OnRecordStep DEF FileInv, Writing
<1>8. PoolInjective' /\ ListedAll'
    BY <1>1, ListedSame DEF FileInv
<1>9. FileComplete'
    BY <1>1, <1>3, <1>4, <1>5, <1>6, CompleteStep DEF FileInv
<1>10. FilesRecorded'
    <2>1. ASSUME Without({"duplicate", "crash"})', NEW s \in Supis, NEW r \in Reports,
                 Holds(file'[s], r)
          PROVE  Holds(file[s], r) \/ Recorded(s, r)'
        BY <1>1, <1>3, <1>4, <1>6, <2>1 DEF Without
    <2> QED
        BY <1>1, <1>5, <2>1, FilesStep DEF FileInv
<1>11. FileAhead'
    <2>1. ASSUME Without({"duplicate", "crash", "cgf", "disk"})', NEW s \in Supis, s = req[h].supi
          PROVE  Ahead(s)'
        <3>1. Without({"duplicate", "crash"}) /\ Without({"duplicate"})
            BY <1>1, <2>1 DEF Without
        <3>2. \A r \in Reports : Holds(uploaded[s], r) => Holds(file'[s], r)
            BY <1>3, <1>4, <2>1, <3>1 DEF FileInv, FilesRecorded
        <3> QED
            BY <1>1, <3>2 DEF Ahead
    <2> QED
        BY <1>1, <1>4, <2>1, AheadStep DEF FileInv
<1>12. Unacked'
    BY <1>1, UnackedStep DEF FileInv
<1> QED
    BY <1>7, <1>8, <1>9, <1>10, <1>11, <1>12 DEF FileInv

LEMMA FailDumpFile ==
    ASSUME IInv, IInv', OneContext, FileInv, NEW h \in Handlers, FailDump(h)
    PROVE  FileInv'
<1>1. /\ Moved(h, {"idle"}) /\ req'[h] = Idle /\ req[h].at \in Critical
      /\ UNCHANGED <<pool, record, records, uploaded, acked>>
      /\ incidents \subseteq incidents' /\ "disk" \in incidents'
    BY FailDumpMoves DEF FailDump, Refuse, Note, Critical
<1>2. req[h].supi \in Supis /\ req[h].ue \in Contexts /\ Place(req[h])
    BY <1>1, CriticalPlace
<1>3. PICK numbers \in Seq(DOMAIN record) :
         /\ WriteFails(req[h].supi, Content(numbers))
         /\ Range(numbers) \subseteq Range(records[req[h].ue])
    <2>1. CASE req[h].at = "reopen" /\ WriteFails(req[h].supi, Content(<<Current(h)>>))
        <3>1. Known(h)
            BY <1>2, <2>1 DEF Place, Known
        <3>2. Current(h) \in DOMAIN record /\ Current(h) \in Range(records[req[h].ue])
            BY <1>1, <3>1, CriticalPlace, CurrentRecord
        <3>3. <<Current(h)>> \in Seq(DOMAIN record) /\ Range(<<Current(h)>>) = {Current(h)}
            BY <3>2 DEF Range
        <3> QED
            BY <2>1, <3>2, <3>3
    <2>2. CASE WriteFails(req[h].supi, Content(records[req[h].ue]))
        BY <1>2, <2>2, RecordTypes
    <2> QED
        BY <2>1, <2>2 DEF FailDump
<1>4. /\ \A s \in Supis \ {req[h].supi} : file'[s] = file[s]
      /\ \A r : Holds(file'[req[h].supi], r) =>
            Holds(file[req[h].supi], r) \/ Holds(Content(numbers), r)
    <2>1. Content(numbers) \in Seq(Record)
        BY <1>3, ContentType DEF IInv, TypeOK
    <2> QED
        BY <1>2, <1>3, <2>1, FailedWriteHolds
<1>5. Without({"duplicate"}) => \A r : Holds(Content(numbers), r) => Recorded(req[h].supi, r)
    <2>1. \A k \in Range(numbers) : k \in DOMAIN record /\ k \in Range(records[req[h].ue])
        BY <1>2, <1>3, RecordTypes
    <2> QED
        BY <1>1, <1>3, <2>1, ContentHolds, OwnRecords DEF FileInv, Recorded
<1>6. Kept /\ OnlyOwn(h)
    BY <1>1, <1>4 DEF Kept, OnlyOwn
<1>7. \A s, r : Recorded(s, r)' <=> Recorded(s, r)
    BY <1>1 DEF Recorded, Stands
<1>8. OnRecord'
    BY <1>1, <1>6, OnRecordStep DEF FileInv, Writing, Idle
<1>9. PoolInjective' /\ ListedAll'
    BY <1>1, ListedSame DEF FileInv
<1>10. FileComplete'
    BY <1>1, <1>6, CompleteStep DEF FileInv, Idle
<1>11. FilesRecorded'
    <2>1. ASSUME Without({"duplicate", "crash"})', NEW s \in Supis, NEW r \in Reports,
                 Holds(file'[s], r)
          PROVE  Holds(file[s], r) \/ Recorded(s, r)'
        <3>1. Without({"duplicate"})
            BY <1>1, <2>1 DEF Without
        <3> QED
            BY <1>4, <1>5, <1>7, <2>1, <3>1
    <2> QED
        BY <1>1, <1>6, <2>1, FilesStep DEF FileInv
<1>12. FileAhead'
    BY <1>1, AheadStep DEF FileInv, Without
<1>13. Unacked'
    BY <1>1, UnackedStep DEF FileInv
<1> QED
    BY <1>8, <1>9, <1>10, <1>11, <1>12, <1>13 DEF FileInv

\* What an upload leaves: the file, a part of it or what was there.
LEMMA SendCDRUploads ==
    ASSUME IInv, NEW h \in Handlers, SendCDR(h)
    PROVE  /\ \A s \in Supis \ {req[h].supi} : uploaded'[s] = uploaded[s]
           /\ \A r : Holds(uploaded'[req[h].supi], r) =>
                 Holds(uploaded[req[h].supi], r) \/ Holds(file[req[h].supi], r)
           /\ \/ "cgf" \in incidents'
              \/ file[req[h].supi] = NoFile /\ uploaded'[req[h].supi] = uploaded[req[h].supi]
              \/ uploaded'[req[h].supi] = file[req[h].supi]
<1>1. req[h].supi \in Supis
    BY CriticalPlace DEF SendCDR, Critical
<1> DEFINE supi == req[h].supi
           content == file[supi]
<1>2. uploaded \in [Supis -> Seq(Record) \cup {NoFile}] /\ content \in Seq(Record) \cup {NoFile}
    BY <1>1 DEF IInv, TypeOK
<1> HIDE DEF content
<1>3. CASE uploaded' = [uploaded EXCEPT ![supi] = IF content = NoFile THEN @ ELSE content]
    <2>1. CASE content = NoFile
        BY <1>1, <1>2, <1>3, <2>1 DEF content
    <2>2. CASE content # NoFile
        BY <1>1, <1>2, <1>3, <2>2 DEF content
    <2> QED
        BY <2>1, <2>2
<1>4. CASE "cgf" \in incidents' /\ UNCHANGED uploaded
    BY <1>4
<1>5. ASSUME "cgf" \in incidents', content # NoFile, NEW n \in 0 .. Len(content),
             uploaded' = [uploaded EXCEPT ![supi] = SubSeq(content, 1, n)]
      PROVE  /\ \A s \in Supis \ {supi} : uploaded'[s] = uploaded[s]
             /\ \A r : Holds(uploaded'[supi], r) => Holds(content, r)
    <2> DEFINE part == SubSeq(content, 1, n)
    <2>1. \A r : Holds(part, r) => Holds(content, r)
        BY <1>2, <1>5, PartHolds
    <2> HIDE DEF part
    <2>2. uploaded'[supi] = part /\ \A s \in Supis \ {supi} : uploaded'[s] = uploaded[s]
        BY <1>1, <1>2, <1>5 DEF part
    <2> QED
        BY <2>1, <2>2
<1> QED
    BY <1>3, <1>4, <1>5 DEF SendCDR, Note, content

LEMMA SendCDRFile ==
    ASSUME IInv, IInv', OneContext, FileInv, NEW h \in Handlers, SendCDR(h)
    PROVE  FileInv'
<1>1. /\ Moved(h, {"idle"}) /\ req'[h] = Idle /\ req[h].at \in Critical
      /\ UNCHANGED <<pool, record, records, file>> /\ incidents \subseteq incidents'
      /\ acked' = acked \cup {req[h].report.id}
    BY SendCDRMoves DEF SendCDR, Succeed, Moved, Critical
<1>2. Kept /\ OnlyOwn(h)
    BY <1>1, SendCDRUploads DEF Kept, OnlyOwn
<1>3. OnRecord'
    BY <1>1, <1>2, OnRecordStep DEF FileInv, Writing, Idle
<1>4. PoolInjective' /\ ListedAll'
    BY <1>1, ListedSame DEF FileInv
<1>5. FileComplete'
    BY <1>1, <1>2, CompleteStep DEF FileInv, Idle
<1>6. FilesRecorded'
    BY <1>1, <1>2, SendCDRUploads, FilesStep DEF FileInv
<1>7. FileAhead'
    <2>1. ASSUME Without({"duplicate", "crash", "cgf", "disk"})', NEW s \in Supis
          PROVE  Ahead(s)' \/ (file'[s] = file[s] /\ uploaded'[s] = uploaded[s])
        <3>1. "cgf" \notin incidents'
            BY <2>1 DEF Without
        <3> QED
            BY <1>1, <2>1, <3>1, SendCDRUploads DEF Ahead
    <2> QED
        BY <1>1, <2>1, AheadStep DEF FileInv
<1>8. Unacked'
    BY <1>1, UnackedStep DEF FileInv
<1> QED
    BY <1>3, <1>4, <1>5, <1>6, <1>7, <1>8 DEF FileInv

\* A release that finds its session: the record, closed, is the file.
LEMMA ReleaseCloses ==
    ASSUME IInv, OneContext, FileInv, NEW h \in Handlers, RecordRelease(h), Known(h),
           NEW closed, closed = Extended(record[Current(h)], req[h].report)
    PROVE  /\ closed \in Record /\ closed.supi = record[Current(h)].supi
           /\ <<closed>> \in Seq(Record) /\ <<closed>> # NoFile
           /\ DOMAIN record' = DOMAIN record /\ record'[Current(h)] = closed
           /\ \A i \in DOMAIN record \ {Current(h)} : record'[i] = record[i]
           /\ \A r : Holds(<<closed>>, r) <=> \E j \in DOMAIN closed.reports : closed.reports[j].id = r
           /\ \/ file' = [file EXCEPT ![req[h].supi] = <<closed>>] /\ Succeed(h)
              \/ WriteFails(req[h].supi, <<closed>>) /\ Refuse(h) /\ "disk" \in incidents'
<1>1. req[h].at \in Critical /\ req[h].report \in Report
    BY RecordReleaseDoes, CriticalPlace
<1>2. Current(h) \in DOMAIN record /\ record[Current(h)] \in Record
    BY <1>1, CurrentOwn
<1>3. closed \in Record /\ closed.supi = record[Current(h)].supi
    BY <1>1, <1>2, ExtendedRecord
<1>4. <<closed>> \in Seq(Record) /\ <<closed>> # NoFile
    <2> DEFINE content == <<closed>>
    <2>1. content \in Seq(Record)
        BY <1>3
    <2> HIDE DEF content
    <2>2. content # NoFile
        BY <2>1, SeqIsFile
    <2> QED
        BY <2>1, <2>2 DEF content
<1>5. record' = [record EXCEPT ![Current(h)] = closed] /\ record \in Seq(Record)
    BY RecordReleaseDoes DEF IInv, TypeOK
<1>6. /\ DOMAIN record' = DOMAIN record /\ record'[Current(h)] = closed
      /\ \A i \in DOMAIN record \ {Current(h)} : record'[i] = record[i]
    BY <1>2, <1>5
<1>7. \A r : Holds(<<closed>>, r) <=> \E j \in DOMAIN closed.reports : closed.reports[j].id = r
    BY <1>4 DEF Holds
<1>8. \/ file' = [file EXCEPT ![req[h].supi] = <<closed>>] /\ Succeed(h)
      \/ WriteFails(req[h].supi, <<closed>>) /\ Refuse(h) /\ "disk" \in incidents'
    BY DEF RecordRelease
<1> QED
    BY <1>3, <1>4, <1>6, <1>7, <1>8

LEMMA RecordReleaseFile ==
    ASSUME IInv, IInv', OneContext, FileInv, NEW h \in Handlers, RecordRelease(h)
    PROVE  FileInv'
<1>1. /\ Moved(h, {"idle"}) /\ req'[h] = Idle /\ req[h].at \in Critical
      /\ UNCHANGED <<pool, records, uploaded>> /\ incidents \subseteq incidents'
      /\ acked' = acked \/ acked' = acked \cup {req[h].report.id}
      /\ Kept /\ req[h].supi \in Supis
    BY RecordReleaseMoves, RecordReleaseWrites, RecordReleaseDoes, CriticalPlace
       DEF RecordRelease, Succeed, Refuse, Moved
<1>2. /\ DOMAIN record' = DOMAIN record
      /\ \A k \in DOMAIN record : record'[k].supi = record[k].supi
      /\ \A k \in DOMAIN record :
            \/ record'[k] = record[k]
            \/ Without({"duplicate"}) => record[k].supi = req[h].supi
      /\ \A s \in Supis \ {req[h].supi} : file'[s] = file[s]
      /\ Without({"duplicate"}) =>
            \A s \in {req[h].supi} : \A r :
                Holds(file'[s], r) => Holds(file[s], r) \/ Recorded(s, r)'
      /\ \/ file' = file
         \/ "disk" \in incidents'
         \/ Len(file'[req[h].supi]) = 1
    <2>1. CASE ~Known(h)
        BY <2>1 DEF RecordRelease
    <2>2. CASE Known(h)
        <3>1. PICK closed : closed = Extended(record[Current(h)], req[h].report)
            OBVIOUS
        <3> DEFINE new == <<closed>>
        <3>2. /\ closed.supi = record[Current(h)].supi /\ new \in Seq(Record)
              /\ DOMAIN record' = DOMAIN record /\ record'[Current(h)] = closed
              /\ \A i \in DOMAIN record \ {Current(h)} : record'[i] = record[i]
              /\ \A r : Holds(new, r) <=> \E j \in DOMAIN closed.reports : closed.reports[j].id = r
              /\ Len(new) = 1
            BY <2>2, <3>1, ReleaseCloses
        <3>3. /\ Current(h) \in DOMAIN record
              /\ Without({"duplicate"}) => record[Current(h)].supi = req[h].supi
            BY <1>1, <2>2, CurrentOwn
        <3>4. Without({"duplicate"}) =>
                 \A s \in {req[h].supi} : \A r : Holds(new, r) => Recorded(s, r)'
            <4> HIDE DEF new
            <4>1. \A k \in {Current(h)} : \A r : Holds(new, r) => Stands(k, r)'
                BY <3>2, <3>3 DEF Stands
            <4>2. /\ Current(h) \in DOMAIN record'
                  /\ Without({"duplicate"}) => record'[Current(h)].supi = req[h].supi
                BY <3>2, <3>3
            <4> QED
                BY <4>1, <4>2 DEF Recorded
        <3>5. \/ file' = [file EXCEPT ![req[h].supi] = new]
              \/ WriteFails(req[h].supi, new) /\ "disk" \in incidents'
            BY <2>2, <3>1, ReleaseCloses
        <3> HIDE DEF new
        <3>6. /\ \A s \in Supis \ {req[h].supi} : file'[s] = file[s]
              /\ \A r : Holds(file'[req[h].supi], r) =>
                    Holds(file[req[h].supi], r) \/ Holds(new, r)
              /\ "disk" \in incidents' \/ Len(file'[req[h].supi]) = 1
            <4>1. CASE file' = [file EXCEPT ![req[h].supi] = new]
                BY <1>1, <3>2, <4>1 DEF IInv, TypeOK
            <4>2. CASE WriteFails(req[h].supi, new) /\ "disk" \in incidents'
                BY <1>1, <3>2, <4>2, FailedWriteHolds
            <4> QED
                BY <3>5, <4>1, <4>2
        <3> QED
            BY <3>2, <3>3, <3>4, <3>6
    <2> QED
        BY <2>1, <2>2
<1>3. OnlyOwn(h)
    BY <1>1, <1>2 DEF OnlyOwn
<1>4. OnRecord'
    BY <1>1, <1>3, OnRecordStep DEF FileInv, Writing, Idle
<1>5. PoolInjective' /\ ListedAll'
    BY <1>1, <1>2, ListedSame DEF FileInv
<1>6. FileComplete'
    BY <1>1, <1>3, CompleteStep DEF FileInv, Idle
<1>7. FilesRecorded'
    <2>1. ASSUME Without({"duplicate", "crash"})', NEW s \in Supis, NEW r \in Reports,
                 Holds(file'[s], r)
          PROVE  Holds(file[s], r) \/ Recorded(s, r)'
        <3>1. Without({"duplicate"})
            BY <1>1, <2>1 DEF Without
        <3>2. CASE s = req[h].supi
            BY <1>2, <2>1, <3>1, <3>2
        <3>3. CASE s # req[h].supi
            BY <1>2, <2>1, <3>3
        <3> QED
            BY <3>2, <3>3
    <2> QED
        BY <1>1, <2>1, FilesStep DEF FileInv
<1>8. FileAhead'
    <2>1. ASSUME Without({"duplicate", "crash", "cgf", "disk"})', NEW s \in Supis
          PROVE  Ahead(s)' \/ (file'[s] = file[s] /\ uploaded'[s] = uploaded[s])
        <3>1. "disk" \notin incidents'
            BY <2>1 DEF Without
        <3> QED
            BY <1>1, <1>2, <2>1, <3>1 DEF Ahead
    <2> QED
        BY <1>1, <2>1, AheadStep DEF FileInv
<1>9. Unacked'
    BY <1>1, UnackedStep DEF FileInv
<1> QED
    BY <1>4, <1>5, <1>6, <1>7, <1>8, <1>9 DEF FileInv

LEMMA ArriveFile ==
    ASSUME IInv, FileInv, NEW h \in Handlers, Arrived(h)
    PROVE  FileInv'
<1> USE DEF memory, disk, history
<1>1. /\ \A g \in Handlers \ {h} : req'[g] = req[g]
      /\ req'[h].at = "find" /\ req'[h].report.id = nRequests + 1
      /\ nRequests' = nRequests + 1 /\ nRequests \in Nat
      /\ UNCHANGED <<pool, records, record, file, uploaded, acked, incidents>>
    BY DEF Arrived, Beside, IInv, TypeOK
<1>2. \A g \in Handlers : req'[g].at \in Writing => req'[g] = req[g]
    BY <1>1 DEF Writing
<1>3. /\ \A k, r : Stands(k, r)' <=> Stands(k, r)
      /\ \A s, r : Recorded(s, r)' <=> Recorded(s, r)
    BY <1>1 DEF Stands, Recorded
<1>4. OnRecord'
    BY <1>1, <1>2, <1>3 DEF FileInv, OnRecord
<1>5. PoolInjective' /\ ListedAll'
    BY <1>1, ListedSame DEF FileInv
<1>6. FileComplete'
    BY <1>1, <1>2, <1>3 DEF FileInv, FileComplete, Writing, Without
<1>7. FilesRecorded'
    BY <1>1, <1>3 DEF FileInv, FilesRecorded, Without
<1>8. FileAhead'
    BY <1>1 DEF FileInv, FileAhead, Ahead, Without
<1>9. Unacked'
    <2>1. acked \subseteq Nat /\ \A r \in acked : r <= nRequests
        BY DEF FileInv, Unacked, IInv, TypeOK, Reports
    <2> QED
        BY <1>1, <2>1 DEF FileInv, Unacked
<1> QED
    BY <1>4, <1>5, <1>6, <1>7, <1>8, <1>9 DEF FileInv

LEMMA CrashFile ==
    ASSUME FileInv, Crash
    PROVE  FileInv'
<1>1. /\ \A h \in Handlers : req'[h] = Idle
      /\ record' = <<>> /\ \A u \in Contexts : records'[u] = <<>>
      /\ \A s \in Supis : pool'[s] = NoContext
      /\ UNCHANGED <<nRequests, acked>> /\ "crash" \in incidents'
    BY DEF Crash, Note
<1>2. DOMAIN record' = {} /\ \A u \in Contexts : Range(records'[u]) = {}
    BY <1>1 DEF Range
<1>3. OnRecord' /\ FileComplete'
    BY <1>1 DEF OnRecord, FileComplete, Writing, Idle
<1>4. PoolInjective'
    <2>1. \A a : a \in DOMAIN pool' => pool'[a] = NoContext
        BY DEF Crash
    <2> QED
        BY <2>1 DEF PoolInjective, Crash
<1>5. ListedAll'
    BY <1>2 DEF ListedAll
<1>6. FilesRecorded' /\ FileAhead'
    BY <1>1 DEF FilesRecorded, FileAhead, Without
<1>7. Unacked'
    BY <1>1 DEF FileInv, Unacked
<1> QED
    BY <1>3, <1>4, <1>5, <1>6, <1>7 DEF FileInv

LEMMA StutterFile ==
    ASSUME FileInv, UNCHANGED vars
    PROVE  FileInv'
<1> USE DEF vars, memory, disk, bounds, history
<1>1. OnRecord' /\ PoolInjective' /\ ListedAll'
    BY DEF FileInv, OnRecord, Stands, PoolInjective, ListedAll, Without
<1>2. FileComplete' /\ FilesRecorded'
    BY DEF FileInv, FileComplete, FilesRecorded, Recorded, Stands, Without
<1>3. FileAhead' /\ Unacked'
    BY DEF FileInv, FileAhead, Ahead, Unacked, Without
<1> QED
    BY <1>1, <1>2, <1>3 DEF FileInv

LEMMA InitFileInv == Init => FileInv
<1> SUFFICES ASSUME Init
             PROVE  FileInv
    OBVIOUS
<1>1. /\ DOMAIN record = {} /\ \A u \in Contexts : Range(records[u]) = {}
      /\ \A h \in Handlers : req[h] = Idle
      /\ \A s \in Supis : file[s] = NoFile /\ uploaded[s] = NoFile
    BY DEF Init, Range
<1>2. OnRecord /\ FileComplete /\ ListedAll
    BY <1>1 DEF OnRecord, FileComplete, ListedAll, Writing, Idle
<1>3. PoolInjective
    BY DEF Init, PoolInjective
<1>4. FilesRecorded /\ FileAhead
    BY <1>1 DEF FilesRecorded, FileAhead, Ahead, Holds
<1>5. Unacked
    BY <1>1 DEF Init, Unacked
<1> QED
    BY <1>2, <1>3, <1>4, <1>5 DEF FileInv

LEMMA NextFileInv ==
    IInv /\ IInv' /\ UsageInv /\ FileInv /\ [Next]_vars => FileInv'
<1> SUFFICES ASSUME IInv, IInv', UsageInv, FileInv, [Next]_vars
             PROVE  FileInv'
    OBVIOUS
<1>1. OneContext
    BY DEF UsageInv
<1>2. CASE \E h \in Handlers : LockContext(h) \/ Work(h)
    BY <1>1, <1>2, QuietKeeps, OpenCDRFile, RecordUpdateFile, ReopenCDRFile,
       DumpRecordsFile, FailDumpFile, SendCDRFile, RecordReleaseFile DEF Work
<1>3. CASE \E h \in Handlers : Arrive(h)
    <2>1. PICK h \in Handlers : Arrived(h)
        BY <1>3, Arrives
    <2> QED
        BY <2>1, ArriveFile
<1>4. CASE Crash
    BY <1>4, CrashFile
<1>5. CASE UNCHANGED vars
    BY <1>5, StutterFile
<1> QED
    BY <1>2, <1>3, <1>4, <1>5 DEF Next, Finished

\* The inductive invariant holds throughout.
THEOREM FileInvariance == Spec => []FileInv
<1>1. IInv /\ IInv' /\ UsageInv /\ FileInv /\ [Next]_vars => FileInv'
    BY NextFileInv
<1> QED
    BY <1>1, InitFileInv, Invariance, UsageInvariance, PTL DEF Spec

-----------------------------------------------------------------------------
(* Which steps acknowledge a request, and which upload a file.             *)

LEMMA AckSteps ==
    ASSUME IInv, [Next]_vars, NEW h \in Handlers, req[h] # Idle,
           req[h].report.id \in acked' \ acked
    PROVE  SendCDR(h) \/ (RecordRelease(h) /\ Known(h) /\ Succeed(h))
<1> USE DEF vars, memory, disk, bounds, history
<1>1. acked' # acked
    OBVIOUS
<1>2. PICK g \in Handlers : SendCDR(g) \/ RecordRelease(g)
    <2>1. CASE \E g \in Handlers : Arrive(g) \/ LockContext(g)
        BY <1>1, <2>1 DEF Arrive, ReceiveCreate, ReceiveUpdate, ReceiveRelease, Receive,
           LockContext
    <2>2. ASSUME NEW g \in Handlers, Work(g)
          PROVE  SendCDR(g) \/ RecordRelease(g)
        <3>1. ~FindContext(g) /\ ~NewContext(g) /\ ~ChooseRef(g) /\ ~OpenCDR(g)
            BY <1>1 DEF FindContext, NewContext, ChooseRef, OpenCDR, Refuse
        <3>2. ~RejectCreate(g) /\ ~LookupSession(g) /\ ~Charge(g) /\ ~Panic(g)
            BY <1>1 DEF RejectCreate, LookupSession, Charge, Panic, Refuse
        <3>3. ~RecordUpdate(g) /\ ~ReopenCDR(g) /\ ~DumpRecords(g) /\ ~FailDump(g)
            BY <1>1 DEF RecordUpdate, ReopenCDR, DumpRecords, FailDump, Refuse
        <3> QED
            BY <2>2, <3>1, <3>2, <3>3 DEF Work
    <2>3. CASE Crash \/ Finished \/ UNCHANGED vars
        BY <1>1, <2>3 DEF Crash, Finished
    <2> QED
        BY <2>1, <2>2, <2>3 DEF Next
<1>3. acked' = acked \cup {req[g].report.id} /\ req[g] # Idle
    <2>1. CASE SendCDR(g)
        BY <2>1 DEF SendCDR, Succeed, Idle
    <2>2. CASE RecordRelease(g)
        <3>1. req[g] # Idle
            BY <2>2 DEF RecordRelease, Idle
        <3>2. acked' = acked \/ acked' = acked \cup {req[g].report.id}
            BY <2>2 DEF RecordRelease, Refuse, Succeed
        <3> QED
            BY <1>1, <3>1, <3>2
    <2> QED
        BY <1>2, <2>1, <2>2
<1>4. g = h
    BY <1>3, OwnReport
<1>5. CASE RecordRelease(h)
    BY <1>1, <1>5 DEF RecordRelease, Refuse
<1> QED
    BY <1>2, <1>4, <1>5

LEMMA UploadSteps ==
    ASSUME [Next]_vars, uploaded' # uploaded
    PROVE  \E h \in Handlers : SendCDR(h)
<1> USE DEF vars, memory, disk, bounds, history
<1>1. CASE \E h \in Handlers : Arrive(h) \/ LockContext(h)
    BY <1>1 DEF Arrive, ReceiveCreate, ReceiveUpdate, ReceiveRelease, Receive, LockContext
<1>2. ASSUME NEW h \in Handlers, Work(h)
      PROVE  SendCDR(h)
    <2>1. ~FindContext(h) /\ ~NewContext(h) /\ ~ChooseRef(h) /\ ~OpenCDR(h)
        BY DEF FindContext, NewContext, ChooseRef, OpenCDR
    <2>2. ~RejectCreate(h) /\ ~LookupSession(h) /\ ~Charge(h) /\ ~Panic(h)
        BY DEF RejectCreate, LookupSession, Charge, Panic
    <2>3. ~RecordUpdate(h) /\ ~ReopenCDR(h) /\ ~DumpRecords(h) /\ ~FailDump(h)
        BY DEF RecordUpdate, ReopenCDR, DumpRecords, FailDump
    <2>4. ~RecordRelease(h)
        BY DEF RecordRelease
    <2> QED
        BY <1>2, <2>1, <2>2, <2>3, <2>4 DEF Work
<1>3. CASE Crash \/ Finished \/ UNCHANGED vars
    BY <1>3 DEF Crash, Finished
<1> QED
    BY <1>1, <1>2, <1>3 DEF Next

\* A report that is in the records of a subscriber is in the file that an
\* update of that one sends.
LEMMA UpdateSendsAll ==
    ASSUME IInv, FileInv, NEW h \in Handlers, SendCDR(h), req[h].op = "update",
           Without({"duplicate"}), NEW r \in Reports, Recorded(req[h].supi, r)
    PROVE  /\ Holds(file'[req[h].supi], r)
           /\ "cgf" \in incidents' \/ Holds(uploaded'[req[h].supi], r)
<1>1. Holds(file[req[h].supi], r) /\ UNCHANGED file
    BY DEF SendCDR, FileInv, FileComplete
<1>2. file[req[h].supi] # NoFile
    BY <1>1 DEF Holds
<1> QED
    BY <1>1, <1>2, SendCDRUploads

-----------------------------------------------------------------------------

LEMMA AckCharged ==
    ASSUME IInv, UsageInv, [Next]_vars, NEW h \in Handlers,
           Acknowledges(h, "update") \/ Acknowledges(h, "release")
    PROVE  charged[req[h].report.id] = 1
<1>1. req[h] # Idle /\ req[h].at \in {"send", "record"} /\ req[h].op \notin Creating
    BY AckSteps DEF Acknowledges, SendCDR, RecordRelease, Creating
<1> QED
    BY <1>1 DEF UsageInv, ChargedOnce, BeforeCharge

LEMMA AckFiled ==
    ASSUME IInv, UsageInv, FileInv, [Next]_vars, NEW h \in Handlers,
           Acknowledges(h, "update") \/ Acknowledges(h, "release"),
           req[h].report.size > 0, Without({"duplicate"})
    PROVE  Holds(file'[req[h].supi], req[h].report.id)
<1> DEFINE id == req[h].report.id
<1>1. id \in acked' \ acked /\ req[h] # Idle /\ id \in Reports /\ Place(req[h])
    BY ReportInRange DEF Acknowledges
<1>2. CASE SendCDR(h)
    <2>1. req[h].op = "update" /\ req[h].at = "send"
        BY <1>1, <1>2 DEF SendCDR, Place, Acknowledges
    <2>2. PICK k \in Range(records[req[h].ue]) : Stands(k, id)
        BY <2>1 DEF FileInv, OnRecord, Writing
    <2>3. Recorded(req[h].supi, id)
        <3>1. req[h].at \in Critical /\ k \in DOMAIN record
            BY <2>1, <2>2 DEF Critical, Stands
        <3>2. record[k].supi = req[h].supi
            BY <2>2, <3>1, OwnRecords DEF FileInv, UsageInv
        <3> QED
            BY <2>2, <3>1, <3>2 DEF Recorded
    <2> QED
        BY <1>1, <1>2, <2>1, <2>3, UpdateSendsAll
<1>3. CASE RecordRelease(h) /\ Known(h) /\ Succeed(h)
    <2>1. PICK closed : closed = Extended(record[Current(h)], req[h].report)
        OBVIOUS
    <2>2. /\ file' = [file EXCEPT ![req[h].supi] = <<closed>>]
          /\ \A r : Holds(<<closed>>, r) <=>
                \E j \in DOMAIN closed.reports : closed.reports[j].id = r
        <3>1. ~Refuse(h)
            BY <1>1 DEF Refuse
        <3> QED
            BY <1>3, <2>1, <3>1, ReleaseCloses DEF UsageInv
    <2>3. req[h].at \in Critical /\ req[h].supi \in Supis /\ req[h].report \in Report
        BY <1>3, RecordReleaseDoes, CriticalPlace
    <2>4. record[Current(h)] \in Record
        BY <1>3, <2>3, CurrentOwn DEF UsageInv
    <2>5. \E j \in DOMAIN closed.reports : closed.reports[j].id = id
        BY <2>1, <2>3, <2>4, ExtendedHas
    <2>6. file'[req[h].supi] = <<closed>>
        BY <2>2, <2>3 DEF IInv, TypeOK
    <2> QED
        BY <2>2, <2>5, <2>6
<1> QED
    BY <1>1, <1>2, <1>3, AckSteps

\* An acknowledged update or release was charged once and, as long as its
\* subscriber has one context, its report is in the CDR file.
THEOREM AckedIsFiled == Spec => AckedIsOnFile
<1> DEFINE Filed ==
               \A h \in Handlers :
                  Acknowledges(h, "update") \/ Acknowledges(h, "release") =>
                     /\ charged[req[h].report.id] = 1
                     /\ req[h].report.size > 0 /\ Without({"duplicate"}) =>
                           Holds(file'[req[h].supi], req[h].report.id)
<1>1. IInv /\ UsageInv /\ FileInv /\ [Next]_vars => Filed
    BY AckCharged, AckFiled
<1>2. IInv /\ UsageInv /\ FileInv /\ [Next]_vars => [Filed]_vars
    BY <1>1
<1> QED
    BY <1>2, Invariance, UsageInvariance, FileInvariance, PTL DEF Spec, AckedIsOnFile

\* When an update is acknowledged, every report of every CDR of its subscriber
\* is in the file, and in the billing domain unless the upload failed.
THEOREM UpdatesWriteAll == Spec => UpdateWritesAll
<1> DEFINE All ==
               \A h \in Handlers :
                  Acknowledges(h, "update") /\ Without({"duplicate"}) =>
                     \A i \in DOMAIN record : record[i].supi = req[h].supi =>
                         \A report \in Range(record[i].reports) :
                             /\ Holds(file'[req[h].supi], report.id)
                             /\ "cgf" \in incidents' \/ Holds(uploaded'[req[h].supi], report.id)
<1>1. ASSUME IInv, UsageInv, FileInv, [Next]_vars, NEW h \in Handlers,
             Acknowledges(h, "update"), Without({"duplicate"}), NEW i \in DOMAIN record,
             record[i].supi = req[h].supi, NEW report \in Range(record[i].reports)
      PROVE  /\ Holds(file'[req[h].supi], report.id)
             /\ "cgf" \in incidents' \/ Holds(uploaded'[req[h].supi], report.id)
    <2>1. SendCDR(h) /\ req[h].op = "update"
        BY <1>1, AckSteps DEF Acknowledges, RecordRelease
    <2>2. record[i].reports \in Seq(Report)
        BY <1>1, RecordTypes DEF Record
    <2>3. PICK j \in DOMAIN record[i].reports : report = record[i].reports[j]
        BY <1>1 DEF Range
    <2>4. report \in Report /\ report.id \in Reports
        <3>1. PICK reports \in Seq(Report) : reports = record[i].reports
            BY <2>2
        <3>2. report \in Report
            BY <2>3, <3>1, LenProperties, ElementOfSeq
        <3> QED
            BY <3>2 DEF Report
    <2>5. Recorded(req[h].supi, report.id)
        BY <1>1, <2>3 DEF Recorded, Stands
    <2> QED
        BY <1>1, <2>1, <2>4, <2>5, UpdateSendsAll
<1>2. IInv /\ UsageInv /\ FileInv /\ [Next]_vars => All
    BY <1>1
<1>3. IInv /\ UsageInv /\ FileInv /\ [Next]_vars => [All]_vars
    BY <1>2
<1> QED
    BY <1>3, Invariance, UsageInvariance, FileInvariance, PTL DEF Spec, UpdateWritesAll

\* The billing domain loses a report only to the upload of a create, or of a
\* one-time event, that finds the file of one CDR or one a failed write left.
THEOREM BillingKeepsReports == Spec => BillingKeeps
<1> DEFINE Loses(s, r) ==
               /\ Holds(uploaded[s], r) /\ ~Holds(uploaded'[s], r)
               /\ incidents' \cap {"duplicate", "crash", "cgf"} = {}
           Excused(s) ==
               /\ Len(file[s]) = 1 \/ "disk" \in incidents
               /\ \E h \in Handlers :
                     Acknowledges(h, "create") \/ Acknowledges(h, "event")
<1>1. ASSUME IInv, FileInv, [Next]_vars, NEW s \in Supis, NEW r \in Reports, Loses(s, r)
      PROVE  Excused(s)
    <2>1. PICK h \in Handlers : SendCDR(h)
        BY <1>1, UploadSteps
    <2>2. req[h].at = "send" /\ req[h] # Idle /\ req[h] \in Request /\ Place(req[h])
          /\ req[h].report.id \in acked' \ acked
        <3>1. req[h].at = "send" /\ req[h] # Idle
            BY <2>1 DEF SendCDR, Idle
        <3> QED
            BY <1>1, <2>1, <3>1, ReportInRange DEF SendCDR, Succeed, FileInv, Unacked
    <2>3. incidents \subseteq incidents'
        BY <2>1 DEF SendCDR, Note
    <2>4. s = req[h].supi /\ file[s] # NoFile /\ ~Holds(file[s], r)
        <3>1. s = req[h].supi
            BY <1>1, <2>1, SendCDRUploads
        <3>2. "cgf" \notin incidents'
            BY <1>1
        <3>3. \/ file[s] = NoFile /\ uploaded'[s] = uploaded[s]
              \/ uploaded'[s] = file[s]
            BY <1>1, <2>1, <3>1, <3>2, SendCDRUploads
        <3>4. uploaded'[s] # uploaded[s]
            BY <1>1
        <3>5. uploaded'[s] = file[s] /\ ~Holds(file[s], r)
            BY <1>1, <3>3, <3>4
        <3>6. file[s] # NoFile
            <4>1. uploaded' = [uploaded EXCEPT ![s] = IF file[s] = NoFile THEN @ ELSE file[s]]
                BY <2>1, <3>1, <3>2 DEF SendCDR, Note
            <4> QED
                BY <1>1, <3>4, <4>1 DEF IInv, TypeOK
        <3> QED
            BY <3>1, <3>5, <3>6
    <2>5. Len(file[s]) = 1 \/ "disk" \in incidents
        BY <1>1, <2>3, <2>4 DEF FileInv, FileAhead, Ahead, Without
    <2>6. req[h].op # "update"
        <3>1. Recorded(s, r)
            BY <1>1, <2>3 DEF FileInv, FilesRecorded, Without
        <3>2. Without({"duplicate"})
            BY <1>1, <2>3 DEF Without
        <3> QED
            BY <1>1, <2>2, <2>4, <3>1, <3>2 DEF FileInv, FileComplete
    <2>7. req[h].op \in {"create", "event"}
        BY <2>2, <2>6, RequestFields DEF Place, Request
    <2> QED
        BY <2>2, <2>5, <2>7 DEF Acknowledges
<1> DEFINE Keeps == \A s \in Supis, r \in Reports : Loses(s, r) => Excused(s)
<1>2. IInv /\ FileInv /\ [Next]_vars => Keeps
    BY <1>1
<1>3. IInv /\ FileInv /\ [Next]_vars => [Keeps]_vars
    BY <1>2
<1> QED
    BY <1>3, Invariance, FileInvariance, PTL DEF Spec, BillingKeeps
=============================================================================
