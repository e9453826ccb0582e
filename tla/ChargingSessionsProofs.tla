----------------------- MODULE ChargingSessionsProofs -----------------------
(***************************************************************************)
(* Theorems about ChargingSessions, for any number of handlers,            *)
(* subscribers, requests and crashes: who holds what, what is charged and  *)
(* recorded how often, which references are given out.                     *)
(***************************************************************************)
EXTENDS ChargingSessions, SequenceTheorems, FiniteSetTheorems, TLAPS

P == INSTANCE BerProofs

\* A reference's text: letters and digits; the number's digits are its end.
Itoa(n) == B!Digits(n, Base)

LEMMA ItoaIs ==
    /\ \A n \in Nat : Itoa(n) \in Seq(Digit)
    /\ \A n \in Nat : Itoa(n) = IF n < Base THEN <<n>>
                              ELSE Append(Itoa(n \div Base), n % Base)
<1> DEFINE base == Base
<1>1. base \in Nat /\ base > 1 /\ base \in Nat \ {0, 1}
    BY NamesAssumption
<1>2. P!Under(base) = Digit
    BY <1>1 DEF P!Under, Digit
<1> HIDE DEF base
<1>3. /\ \A n \in Nat : P!Digits(n, base) \in Seq(P!Under(base))
      /\ \A n \in Nat : P!Digits(n, base) = IF n < base THEN <<n>>
                                         ELSE Append(P!Digits(n \div base, base), n % base)
    BY <1>1, P!DigitsOctets
<1>4. \A n : P!Digits(n, base) = B!Digits(n, base)
    BY DEF P!Digits, B!Digits
<1>5. \A n \in Nat : B!Digits(n, base) \in Seq(Digit)
    BY <1>2, <1>3, <1>4
<1>6. \A n \in Nat : B!Digits(n, base) = IF n < base THEN <<n>>
                                       ELSE Append(B!Digits(n \div base, base), n % base)
    BY <1>3, <1>4
<1> QED
    BY <1>5, <1>6 DEF Itoa, base

LEMMA TextIs ==
    ASSUME NEW ref \in Ref
    PROVE  Text(ref) = ref.supi \o ref.consumer \o Itoa(ref.n)
<1>1. DOMAIN ref = {"supi", "consumer", "n"} /\ DOMAIN NoRef = {"n"} /\ DOMAIN UnknownRef = {"n"}
    BY DEF Ref, NoRef, UnknownRef
<1>2. ref # NoRef /\ ref # UnknownRef
    BY <1>1
<1> QED
    BY <1>2 DEF Text, Itoa

LEMMA TextType ==
    ASSUME NEW ref \in Ref \cup {NoRef}
    PROVE  Text(ref) \in Seq(Chars)
<1>1. CASE ref = NoRef
    BY <1>1, EmptySeq DEF Text
<1>2. CASE ref \in Ref
    <2>1. ref.supi \in Seq(Chars) /\ ref.consumer \in Seq(Chars) /\ ref.n \in Nat
        BY <1>2, NamesAssumption DEF Ref
    <2>2. Itoa(ref.n) \in Seq(Digit) /\ Digit \subseteq Chars
        BY <2>1, ItoaIs DEF Chars
    <2>3. Itoa(ref.n) \in Seq(Chars)
        BY <2>2, SeqMonotonic
    <2>4. ref.supi \o ref.consumer \in Seq(Chars)
        BY <2>1, ConcatProperties
    <2> QED
        BY <1>2, <2>3, <2>4, TextIs, ConcatProperties
<1> QED
    BY <1>1, <1>2

USE SizesAssumption, BoundsAssumption, HandlersAssumption

\* Where a request is looking for its subscriber's context, and where it works
\* under that context's CULock.
Looking == {"find", "new"}
Critical == {"ref", "open", "lookup", "charge", "record", "reopen", "dump", "send"}
Creating == {"create", "event"}

\* Every record a session goes on in is listed among its context's records.
CurrentListed ==
    \A u \in Contexts : \A ref \in DOMAIN cdr[u] : cdr[u][ref] \in Range(records[u])

\* A request is where its kind takes it, with what it needs there: a context,
\* a reference of its own, a session that exists.
Place(r) ==
    /\ r.at \notin Looking => r.ue \in 1 .. nContexts
    /\ r.at \in {"new", "ref", "open"} => r.op \in Creating
    /\ r.at \in {"lookup", "reopen", "dump"} => r.op = "update"
    /\ r.at \in {"charge", "record"} => r.op \in {"update", "release"}
    /\ r.at = "send" => r.op # "release"
    /\ r.at = "open" => r.ref \in Ref \cup {NoRef}
    /\ r.at \in {"open", "send"} /\ r.op = "create" => r.ref \in Ref /\ r.ref.supi = r.supi
    /\ r.at \in {"charge", "record", "reopen", "dump"} /\ r.op = "update" =>
          Text(r.ref) \in DOMAIN cdr[r.ue]
    /\ r.report.size \in ReportSizes
Placed == \A h \in Handlers : req[h] # Idle => Place(req[h])

\* CULock is held by the one request that works under it.
Locked == \A h \in Handlers : req[h].at \in Critical => lock[req[h].ue] = h

\* Every report is of one request.
Numbered ==
    /\ \A h \in Handlers : req[h] # Idle => req[h].report.id <= nRequests
    /\ \A g, h \in Handlers :
          req[g] # Idle /\ req[h] # Idle /\ req[g].report.id = req[h].report.id => g = h

\* No more contexts than requests, those still looking for one set apart.
LookingIds == {req[h].report.id : h \in {g \in Handlers : req[g].at \in Looking}}
ContextsCounted ==
    /\ nContexts + Cardinality(LookingIds) <= nRequests
    /\ \A s \in Supis : pool[s] <= nContexts

\* The inductive invariant: types and control.
IInv ==
    /\ TypeOK
    /\ CurrentListed
    /\ Placed
    /\ Locked
    /\ Numbered
    /\ ContextsCounted

-----------------------------------------------------------------------------
(* Requests.                                                               *)

\* A handler that is anywhere serves a request.
LEMMA ServesRequest ==
    ASSUME TypeOK, NEW h \in Handlers,
           req[h] # Idle \/ req[h].at \in Looking \cup {"lock"} \cup Critical
    PROVE  req[h] \in Request /\ req[h] # Idle
BY DEF TypeOK, Idle, Looking, Critical

LEMMA RequestFields ==
    ASSUME NEW r \in Request
    PROVE  /\ r.supi \in Supis /\ r.report \in Report /\ r.ue \in Contexts \cup {NoContext}
           /\ r.report.id \in Reports /\ r.report.id \in Nat /\ r.report.size \in Nat
           /\ r # Idle
BY DEF Request, Report, Reports, Idle

\* A handler goes on with its request, or is done with it.
GoneOn(h, place) ==
    /\ req'[h] \in Request
    /\ req'[h].at = place
    /\ req'[h].op = req[h].op /\ req'[h].supi = req[h].supi /\ req'[h].ref = req[h].ref
    /\ req'[h].report = req[h].report /\ req'[h].ue = req[h].ue
Beside(h) ==
    /\ req' \in [Handlers -> Request \cup {Idle}]
    /\ \A g \in Handlers \ {h} : req'[g] = req[g]

LEMMA GoesOn ==
    ASSUME TypeOK, NEW h \in Handlers, req[h] \in Request,
           NEW place \in Looking \cup {"lock"} \cup Critical, Goto(h, place)
    PROVE  GoneOn(h, place) /\ Beside(h)
<1> DEFINE r == [req[h] EXCEPT !.at = place]
<1>1. /\ r \in Request
      /\ r.at = place /\ r.op = req[h].op /\ r.supi = req[h].supi /\ r.ref = req[h].ref
      /\ r.report = req[h].report /\ r.ue = req[h].ue
    BY DEF Request, Looking, Critical
<1>2. req \in [Handlers -> Request \cup {Idle}] /\ req' = [req EXCEPT ![h] = r]
    BY DEF TypeOK, Goto
<1> HIDE DEF r
<1>3. Beside(h) /\ req'[h] = r
    BY <1>1, <1>2 DEF Beside
<1> QED
    BY <1>1, <1>3 DEF GoneOn

LEMMA GetsContext ==
    ASSUME TypeOK, NEW h \in Handlers, req[h] \in Request, NEW u \in Contexts,
           req' = [req EXCEPT ![h].at = "lock", ![h].ue = u]
    PROVE  /\ Beside(h)
           /\ req'[h] \in Request /\ req'[h].at = "lock" /\ req'[h].ue = u
           /\ req'[h].op = req[h].op /\ req'[h].supi = req[h].supi
           /\ req'[h].report = req[h].report
<1> DEFINE r == [req[h] EXCEPT !.at = "lock", !.ue = u]
<1>1. /\ r \in Request /\ r.at = "lock" /\ r.ue = u
      /\ r.op = req[h].op /\ r.supi = req[h].supi /\ r.report = req[h].report
    BY DEF Request
<1>2. req \in [Handlers -> Request \cup {Idle}] /\ req' = [req EXCEPT ![h] = r]
    BY DEF TypeOK
<1> HIDE DEF r
<1> QED
    BY <1>1, <1>2 DEF Beside

LEMMA IsDone ==
    ASSUME TypeOK, NEW h \in Handlers, Refuse(h) \/ Succeed(h)
    PROVE  Beside(h) /\ req'[h] = Idle
BY DEF TypeOK, Refuse, Succeed, Beside

\* What the answer to a request leaves of the books.
LEMMA AnswerTypes ==
    ASSUME TypeOK, NEW h \in Handlers, req[h] \in Request
    PROVE  /\ refused \cup {req[h].report.id} \subseteq Reports
           /\ acked \cup {req[h].report.id} \subseteq Reports
BY RequestFields DEF TypeOK

\* A request past its search has a context.
LEMMA HasContext ==
    ASSUME IInv, NEW h \in Handlers, req[h] # Idle, req[h].at \notin Looking
    PROVE  req[h].ue \in Contexts /\ req[h].ue # NoContext
<1>1. req[h].ue \in 1 .. nContexts
    BY DEF IInv, Placed, Place
<1>2. req[h].ue \in Contexts \cup {NoContext}
    BY ServesRequest, RequestFields DEF IInv
<1>3. NoContext \notin 1 .. nContexts
    BY DEF IInv, TypeOK, NoContext
<1> QED
    BY <1>1, <1>2, <1>3

-----------------------------------------------------------------------------
(* Counting contexts.                                                      *)

LEMMA OneLess ==
    ASSUME NEW S, IsFiniteSet(S), NEW x \in S
    PROVE  Cardinality(S \ {x}) = Cardinality(S) - 1
BY FS_RemoveElement

LEMMA LookersFinite ==
    ASSUME TypeOK
    PROVE  /\ LookingIds \subseteq Reports
           /\ IsFiniteSet(LookingIds)
           /\ Cardinality(LookingIds) \in Nat
<1>1. LookingIds \subseteq Reports
    BY ServesRequest, RequestFields DEF LookingIds
<1>2. IsFiniteSet(Reports)
    BY FS_Interval DEF Reports
<1> QED
    BY <1>1, <1>2, FS_Subset, FS_CardinalityType

\* Nobody starts looking and no context is made.
LEMMA NoMoreLookers ==
    ASSUME IInv, TypeOK', UNCHANGED <<nContexts, pool, nRequests>>,
           \A g \in Handlers : req'[g].at \in Looking =>
               req[g].at \in Looking /\ req'[g].report = req[g].report
    PROVE  ContextsCounted'
<1>1. LookingIds' \subseteq LookingIds
    BY DEF LookingIds
<1>2. Cardinality(LookingIds') <= Cardinality(LookingIds)
    BY <1>1, LookersFinite, FS_Subset DEF IInv
<1>3. Cardinality(LookingIds') \in Nat
    BY <1>1, LookersFinite, FS_Subset, FS_CardinalityType DEF IInv
<1>4. nContexts \in Nat /\ nRequests \in Nat /\ Cardinality(LookingIds) \in Nat
    BY LookersFinite DEF IInv, TypeOK
<1>5. nContexts' + Cardinality(LookingIds') <= nRequests'
    BY <1>2, <1>3, <1>4 DEF IInv, ContextsCounted
<1> QED
    BY <1>5 DEF IInv, ContextsCounted

\* One that looked for a context has made one.
LEMMA OneLookerLess ==
    ASSUME IInv, NEW h \in Handlers, req[h].at \in Looking, Beside(h),
           req'[h].at \notin Looking
    PROVE  /\ LookingIds' \subseteq LookingIds \ {req[h].report.id}
           /\ nContexts + 1 + Cardinality(LookingIds') <= nRequests
           /\ nContexts + 1 \in Contexts
<1> DEFINE id == req[h].report.id
<1>1. id \in LookingIds
    BY DEF LookingIds
<1>2. LookingIds' \subseteq LookingIds \ {id}
    <2>1. SUFFICES ASSUME NEW g \in Handlers, req'[g].at \in Looking
                   PROVE  req'[g].report.id \in LookingIds \ {id}
        BY DEF LookingIds
    <2>2. g # h /\ req'[g] = req[g]
        BY <2>1 DEF Beside
    <2>3. req[g] # Idle /\ req[h] # Idle
        BY <2>1, <2>2, ServesRequest DEF IInv
    <2>4. req[g].report.id # id
        BY <2>2, <2>3 DEF IInv, Numbered
    <2> QED
        BY <2>1, <2>2, <2>4 DEF LookingIds
<1> HIDE DEF id
<1>3. /\ IsFiniteSet(LookingIds) /\ Cardinality(LookingIds) \in Nat
      /\ IsFiniteSet(LookingIds \ {id})
      /\ Cardinality(LookingIds \ {id}) = Cardinality(LookingIds) - 1
    BY <1>1, LookersFinite, FS_RemoveElement DEF IInv
<1>4. IsFiniteSet(LookingIds') /\ Cardinality(LookingIds') <= Cardinality(LookingIds) - 1
    BY <1>2, <1>3, FS_Subset
<1>5. Cardinality(LookingIds') \in Nat
    BY <1>4, FS_CardinalityType
<1>6. nContexts \in Nat /\ nRequests \in 0 .. MaxRequests
      /\ nContexts + Cardinality(LookingIds) <= nRequests
    BY DEF IInv, TypeOK, ContextsCounted
<1>7. nContexts + 1 + Cardinality(LookingIds') <= nRequests
    BY <1>3, <1>4, <1>5, <1>6
<1>8. nContexts + 1 \in Contexts
    BY <1>5, <1>6, <1>7 DEF Contexts
<1> QED
    BY <1>2, <1>7, <1>8 DEF id

-----------------------------------------------------------------------------
(* Records and tables.                                                     *)

LEMMA ExtendedRecord ==
    ASSUME NEW rec \in Record, NEW report \in Report
    PROVE  /\ Extended(rec, report) \in Record
           /\ Extended(rec, report).size = rec.size + report.size
           /\ Extended(rec, report).number = rec.number
           /\ Extended(rec, report).supi = rec.supi
           /\ Extended(rec, report).reports =
                 IF report.size = 0 THEN rec.reports ELSE Append(rec.reports, report)
<1>1. rec.reports \in Seq(Report) /\ rec.size \in Nat /\ report.size \in Nat
    BY DEF Record, Report
<1>2. Append(rec.reports, report) \in Seq(Report)
    BY <1>1, AppendProperties
<1>3. CASE report.size = 0
    BY <1>1, <1>3 DEF Extended
<1>4. CASE report.size # 0
    <2> DEFINE x == [rec EXCEPT !.reports = Append(@, report), !.size = @ + report.size]
    <2>1. Extended(rec, report) = x
        BY <1>4 DEF Extended
    <2> DEFINE y == Append(rec.reports, report)
               n == rec.size + report.size
    <2>2. x = [rec EXCEPT !.reports = y, !.size = n]
        OBVIOUS
    <2>3. y \in Seq(Report) /\ n \in Nat
        BY <1>1, <1>2
    <2> HIDE DEF x, y, n
    <2>4. x \in Record /\ x.size = n /\ x.number = rec.number /\ x.supi = rec.supi
          /\ x.reports = y
        BY <2>2, <2>3 DEF Record
    <2> QED
        BY <1>4, <2>1, <2>4 DEF y, n
<1> QED
    BY <1>3, <1>4

LEMMA SplitRecord ==
    ASSUME NEW rec \in Record
    PROVE  /\ Split(rec) \in Record
           /\ Split(rec).reports = <<>>
           /\ Split(rec).number = rec.number
           /\ Split(rec).supi = rec.supi
           /\ rec.number = 0 => Split(rec).size = BaseSize
<1> DEFINE none == <<>>
           n == IF rec.number > 0 THEN BaseSize + NumberSize ELSE BaseSize
<1>1. none \in Seq(Report)
    BY EmptySeq
<1>2. n \in Nat /\ (rec.number = 0 => n = BaseSize)
    <2>1. BaseSize \in Nat /\ NumberSize \in Nat
        OBVIOUS
    <2> QED
        BY <2>1
<1>3. Split(rec) = [rec EXCEPT !.reports = none, !.size = n]
    BY DEF Split
<1> HIDE DEF none, n
<1>4. /\ Split(rec) \in Record /\ Split(rec).reports = none /\ Split(rec).size = n
      /\ Split(rec).number = rec.number /\ Split(rec).supi = rec.supi
    BY <1>1, <1>2, <1>3 DEF Record
<1> QED
    BY <1>2, <1>4 DEF none

LEMMA NewRecordType ==
    ASSUME TypeOK, NEW r \in Request, r.ref \in Ref \cup {NoRef}
    PROVE  /\ NewRecord(r) \in Record
           /\ NewRecord(r).reports = <<>> /\ NewRecord(r).size = BaseSize
           /\ NewRecord(r).number = 0 /\ NewRecord(r).supi = r.supi
<1>1. <<>> \in Seq(Report)
    BY EmptySeq
<1> QED
    BY <1>1, TextType DEF TypeOK, NewRecord, Record, Request

\* The tables of the contexts are as they should be.
Tables ==
    /\ DOMAIN cdr = Contexts
    /\ \A u \in Contexts : \A ref \in DOMAIN cdr[u] :
          ref \in Seq(Chars) /\ cdr[u][ref] \in DOMAIN record
    /\ records \in [Contexts -> Seq(DOMAIN record)]
    /\ record \in Seq(Record)
    /\ CurrentListed

\* A record is added, for a session of context u.
Added(u, x) ==
    /\ record' = Append(record, x)
    /\ records' = [records EXCEPT ![u] = Append(records[u], Len(record) + 1)]
    /\ DOMAIN cdr' = DOMAIN cdr
    /\ \A v \in Contexts \ {u} : cdr'[v] = cdr[v]
    /\ DOMAIN cdr[u] \subseteq DOMAIN cdr'[u]
    /\ \A ref \in DOMAIN cdr'[u] :
          /\ ref \in Seq(Chars)
          /\ \/ cdr'[u][ref] = Len(record) + 1
             \/ ref \in DOMAIN cdr[u] /\ cdr'[u][ref] = cdr[u][ref]

LEMMA AddRecord ==
    ASSUME Tables, NEW u \in Contexts, NEW x \in Record, Added(u, x)
    PROVE  /\ Tables'
           /\ DOMAIN record' = DOMAIN record \cup {Len(record) + 1}
           /\ Len(record) + 1 \notin DOMAIN record
           /\ \A i \in DOMAIN record : record'[i] = record[i]
           /\ record'[Len(record) + 1] = x
           /\ \A v \in Contexts : DOMAIN cdr[v] \subseteq DOMAIN cdr'[v]
           /\ \A v \in Contexts : Range(records[v]) \subseteq Range(records'[v])
           /\ Range(records'[u]) = Range(records[u]) \cup {Len(record) + 1}
           /\ \A v \in Contexts \ {u} : records'[v] = records[v]
<1> DEFINE new == Len(record) + 1
<1>1. /\ record' \in Seq(Record) /\ Len(record) \in Nat /\ Len(record') = new
      /\ DOMAIN record = 1 .. Len(record) /\ DOMAIN record' = 1 .. new
      /\ \A i \in DOMAIN record : record'[i] = record[i]
      /\ record'[new] = x
    BY AppendProperties, LenProperties DEF Tables, Added
<1>2. DOMAIN record' = DOMAIN record \cup {new} /\ new \notin DOMAIN record
    BY <1>1
<1>3. /\ records[u] \in Seq(DOMAIN record') /\ new \in DOMAIN record'
      /\ \A v \in Contexts : records[v] \in Seq(DOMAIN record')
    BY <1>2, SeqMonotonic DEF Tables
<1>4. Append(records[u], new) \in Seq(DOMAIN record')
    BY <1>3, AppendProperties
<1> HIDE DEF new
<1>5. /\ records' \in [Contexts -> Seq(DOMAIN record')]
      /\ records'[u] = Append(records[u], new)
      /\ \A v \in Contexts \ {u} : records'[v] = records[v]
    BY <1>3, <1>4 DEF Tables, Added, new
<1>6. Range(records'[u]) = Range(records[u]) \cup {new}
    <2>1. /\ Len(records[u]) \in Nat /\ DOMAIN records[u] = 1 .. Len(records[u])
          /\ DOMAIN records'[u] = 1 .. Len(records[u]) + 1
          /\ \A i \in 1 .. Len(records[u]) : records'[u][i] = records[u][i]
          /\ records'[u][Len(records[u]) + 1] = new
        BY <1>3, <1>4, <1>5, AppendProperties, LenProperties
    <2>2. DOMAIN records'[u] = DOMAIN records[u] \cup {Len(records[u]) + 1}
        BY <2>1
    <2>3. ASSUME NEW e
          PROVE  e \in Range(records'[u]) <=> e \in Range(records[u]) \/ e = new
        BY <2>1, <2>2 DEF Range
    <2> QED
        BY <2>3
<1>7. \A v \in Contexts : Range(records[v]) \subseteq Range(records'[v])
    BY <1>5, <1>6
<1>8. \A v \in Contexts : DOMAIN cdr[v] \subseteq DOMAIN cdr'[v]
    BY DEF Added
<1>9. ASSUME NEW v \in Contexts, NEW ref \in DOMAIN cdr'[v]
      PROVE  /\ ref \in Seq(Chars)
             /\ cdr'[v][ref] \in DOMAIN record'
             /\ cdr'[v][ref] \in Range(records'[v])
    <2>1. CASE v = u
        BY <1>2, <1>6, <1>9, <2>1 DEF Tables, Added, CurrentListed, new
    <2>2. CASE v # u
        BY <1>2, <1>5, <1>9, <2>2 DEF Tables, Added, CurrentListed
    <2> QED
        BY <2>1, <2>2
<1>10. Tables'
    BY <1>1, <1>5, <1>9 DEF Tables, Added, CurrentListed
<1> QED
    BY <1>1, <1>2, <1>5, <1>6, <1>7, <1>8, <1>10 DEF new

\* A record is rewritten where it is.
LEMMA RewriteRecord ==
    ASSUME Tables, NEW k \in DOMAIN record, NEW x \in Record,
           record' = [record EXCEPT ![k] = x], UNCHANGED <<cdr, records>>
    PROVE  /\ Tables'
           /\ DOMAIN record' = DOMAIN record
           /\ record'[k] = x
           /\ \A i \in DOMAIN record \ {k} : record'[i] = record[i]
<1>1. record \in Seq(Record) /\ DOMAIN record = 1 .. Len(record)
    BY LenProperties DEF Tables
<1>2. /\ record' \in Seq(Record) /\ Len(record') = Len(record)
      /\ \A i \in 1 .. Len(record) : record'[i] = IF i = k THEN x ELSE record[i]
    BY <1>1, ExceptSeq
<1>3. DOMAIN record' = DOMAIN record
    BY <1>1, <1>2, LenProperties
<1>4. Tables'
    BY <1>2, <1>3 DEF Tables, CurrentListed
<1> QED
    BY <1>1, <1>2, <1>3, <1>4

\* The session a request goes on in has a record.
LEMMA CurrentRecord ==
    ASSUME IInv, NEW h \in Handlers, req[h] # Idle, req[h].at \notin Looking, Known(h)
    PROVE  /\ Current(h) \in DOMAIN record
           /\ record[Current(h)] \in Record
           /\ Current(h) \in Range(records[req[h].ue])
<1>1. req[h].ue \in Contexts
    BY HasContext
<1>2. Current(h) \in DOMAIN record /\ Current(h) \in Range(records[req[h].ue])
    BY <1>1 DEF IInv, TypeOK, CurrentListed, Known, Current
<1>3. record[Current(h)] \in Record
    BY <1>2, LenProperties, ElementOfSeq DEF IInv, TypeOK
<1> QED
    BY <1>2, <1>3

\* What a file is written with.
LEMMA ContentType ==
    ASSUME record \in Seq(Record), NEW numbers \in Seq(DOMAIN record)
    PROVE  /\ Content(numbers) \in Seq(Record)
           /\ DOMAIN Content(numbers) = DOMAIN numbers
           /\ Len(Content(numbers)) = Len(numbers)
           /\ \A i \in DOMAIN numbers : Content(numbers)[i] = record[numbers[i]]
<1>1. DOMAIN numbers = 1 .. Len(numbers) /\ Len(numbers) \in Nat
    BY LenProperties
<1>2. \A i \in 1 .. Len(numbers) : record[numbers[i]] \in Record
    <2>1. ASSUME NEW i \in 1 .. Len(numbers)
          PROVE  record[numbers[i]] \in Record
        <3>1. numbers[i] \in DOMAIN record
            BY ElementOfSeq
        <3> QED
            BY <3>1, LenProperties, ElementOfSeq
    <2> QED
        BY <2>1
<1>3. Content(numbers) = [i \in 1 .. Len(numbers) |-> record[numbers[i]]]
    BY <1>1 DEF Content
<1>4. Content(numbers) \in [1 .. Len(numbers) -> Record]
    BY <1>2, <1>3
<1>5. Content(numbers) \in Seq(Record)
    <2>1. Seq(Record) = UNION {[1 .. n -> Record] : n \in Nat}
        BY SeqDef
    <2> HIDE DEF Record
    <2> QED
        BY <1>1, <1>4, <2>1
<1> QED
    BY <1>1, <1>3, <1>4, <1>5, LenProperties

LEMMA PartOfContent ==
    ASSUME NEW content \in Seq(Record), NEW n \in 0 .. Len(content)
    PROVE  /\ SubSeq(content, 1, n) \in Seq(Record)
           /\ DOMAIN SubSeq(content, 1, n) = 1 .. n
           /\ \A i \in 1 .. n : SubSeq(content, 1, n)[i] = content[i]
<1>1. Len(content) \in Nat /\ \A i \in 1 .. Len(content) : content[i] \in Record
    BY LenProperties, ElementOfSeq
<1>2. \A i \in 1 .. n : content[i] \in Record
    BY <1>1
<1>3. /\ SubSeq(content, 1, n) \in Seq(Record)
      /\ Len(SubSeq(content, 1, n)) = IF 1 <= n THEN n - 1 + 1 ELSE 0
      /\ \A i \in 1 .. n - 1 + 1 : SubSeq(content, 1, n)[i] = content[1 + i - 1]
    BY <1>1, <1>2, SubSeqProperties
<1>4. n \in Nat /\ Len(SubSeq(content, 1, n)) = n
    BY <1>1, <1>3
<1>5. DOMAIN SubSeq(content, 1, n) = 1 .. n
    BY <1>3, <1>4, LenProperties
<1>6. \A i \in 1 .. n : SubSeq(content, 1, n)[i] = content[i]
    BY <1>3, <1>4
<1> QED
    BY <1>3, <1>5, <1>6

-----------------------------------------------------------------------------
(* Each action keeps the invariant.                                        *)

LEMMA ControlKept ==
    ASSUME IInv, NEW h \in Handlers, req[h] \in Request, Beside(h),
           req'[h] # Idle => req'[h].report = req[h].report /\ Place(req[h])',
           nRequests' = nRequests, nContexts' \in Nat, nContexts <= nContexts',
           \A u \in Contexts : DOMAIN cdr[u] \subseteq DOMAIN cdr'[u],
           \/ /\ lock' = lock
              /\ req'[h].at \in Critical => req[h].at \in Critical /\ req'[h].ue = req[h].ue
           \/ /\ lock' = [lock EXCEPT ![req[h].ue] = Free]
              /\ req[h].at \in Critical /\ req'[h] = Idle
           \/ /\ lock' = [lock EXCEPT ![req[h].ue] = h]
              /\ req[h].at = "lock" /\ lock[req[h].ue] = Free /\ req'[h].ue = req[h].ue
    PROVE  Placed' /\ Locked' /\ Numbered'
<1>1. Placed'
    <2>1. SUFFICES ASSUME NEW g \in Handlers, req'[g] # Idle
                   PROVE  Place(req[g])'
        BY DEF Placed
    <2>2. CASE g = h
        BY <2>1, <2>2
    <2>3. CASE g # h
        <3>1. req'[g] = req[g] /\ req[g] # Idle
            BY <2>1, <2>3 DEF Beside
        <3>2. Place(req[g])
            BY <3>1 DEF IInv, Placed
        <3>3. req[g].at \notin Looking => req[g].ue \in Contexts
            BY <3>1, HasContext
        <3>4. nContexts \in Nat
            BY DEF IInv, TypeOK
        <3>5. req[g].ue \in 1 .. nContexts => req[g].ue \in 1 .. nContexts'
            BY <3>4
        <3> QED
            BY <3>1, <3>2, <3>3, <3>5 DEF Place, Looking
    <2> QED
        BY <2>2, <2>3
<1>2. Locked'
    <2>1. SUFFICES ASSUME NEW g \in Handlers, req'[g].at \in Critical
                   PROVE  lock'[req'[g].ue] = g
        BY DEF Locked
    <2>2. req'[g] # Idle /\ (g # h => req'[g] = req[g])
        BY <2>1 DEF Beside, Critical, Idle
    <2>3. req[h].at \notin Looking => req[h].ue \in Contexts
        BY HasContext, RequestFields
    <2>4. lock \in [Contexts -> Handlers \cup {Free}]
        BY DEF IInv, TypeOK
    <2>5. CASE g # h
        <3>1. req[g].at \in Critical /\ req[g] # Idle /\ req'[g] = req[g]
            BY <2>1, <2>2, <2>5
        <3>2. lock[req[g].ue] = g /\ req[g].ue \in Contexts
            BY <3>1, HasContext DEF IInv, Locked, Critical, Looking
        <3>3. req[h].at \in Critical => lock[req[h].ue] = h
            BY DEF IInv, Locked
        <3>4. g # Free
            OBVIOUS
        <3> QED
            BY <2>3, <2>4, <2>5, <3>1, <3>2, <3>3, <3>4 DEF Critical, Looking
    <2>6. CASE g = h
        <3>1. req[h].at \in Critical => lock[req[h].ue] = h
            BY DEF IInv, Locked
        <3> QED
            BY <2>1, <2>2, <2>3, <2>4, <2>6, <3>1 DEF Looking
    <2> QED
        BY <2>5, <2>6
<1>3. Numbered'
    <2>1. \A g \in Handlers : req'[g] # Idle =>
             req[g] # Idle /\ req'[g].report = req[g].report
        BY RequestFields DEF Beside
    <2> QED
        BY <2>1 DEF IInv, Numbered
<1> QED
    BY <1>1, <1>2, <1>3

\* Who was not looking for a context is not looking afterwards.
LEMMA LookersKept ==
    ASSUME IInv, TypeOK', NEW h \in Handlers, Beside(h), req'[h].at \notin Looking,
           UNCHANGED <<nContexts, pool, nRequests>>
    PROVE  ContextsCounted'
BY NoMoreLookers DEF Beside

LEMMA ReceiveKeeps ==
    ASSUME IInv, NEW h \in Handlers,
           NEW op \in {"create", "event", "update", "release"}, NEW supi \in Supis,
           NEW consumer \in Consumers, NEW ref \in Ref \cup {NoRef, UnknownRef},
           NEW size \in ReportSizes, NEW partial \in BOOLEAN,
           Receive(h, op, supi, consumer, ref, size, partial)
    PROVE  IInv'
<1> USE DEF memory, disk, bounds, history
<1> DEFINE id == nRequests + 1
           r == [at |-> "find", op |-> op, supi |-> supi, consumer |-> consumer,
                 ref |-> ref, report |-> [id |-> id, size |-> size],
                 partial |-> partial, ue |-> NoContext]
<1>1. id \in Reports /\ nRequests \in Nat /\ id \in 0 .. MaxRequests
    BY DEF IInv, TypeOK, Receive, Reports
<1>2. r \in Request
    <2>1. [id |-> id, size |-> size] \in Report
        BY <1>1 DEF Report
    <2> QED
        BY <2>1 DEF Request
<1>3. /\ r.at = "find" /\ r.report.id = id /\ r.report.size = size
    OBVIOUS
<1>4. req' = [req EXCEPT ![h] = r] /\ nRequests' = id /\ req[h] = Idle
    BY DEF Receive
<1> HIDE DEF r
<1>5. Beside(h) /\ req'[h] = r
    BY <1>2, <1>4 DEF IInv, TypeOK, Beside
<1>6. TypeOK'
    BY <1>1, <1>4, <1>5 DEF IInv, TypeOK, Receive, Beside
<1>7. CurrentListed'
    BY DEF IInv, CurrentListed, Receive
<1>8. Placed'
    <2>1. Place(r)
        BY <1>3 DEF Place, Looking
    <2>2. SUFFICES ASSUME NEW g \in Handlers, req'[g] # Idle
                   PROVE  Place(req[g])'
        BY DEF Placed
    <2>3. Place(req'[g])
        <3>1. CASE g = h
            BY <1>5, <2>1, <3>1
        <3>2. CASE g # h
            BY <1>5, <2>2, <3>2 DEF IInv, Placed, Beside
        <3> QED
            BY <3>1, <3>2
    <2> QED
        BY <2>3 DEF Place, Receive
<1>9. Locked'
    BY <1>3, <1>5 DEF IInv, Locked, Receive, Beside, Critical
<1>10. Numbered'
    <2>1. \A g \in Handlers \ {h} : req'[g] = req[g] /\
              (req[g] # Idle => req[g].report.id \in Nat /\ req[g].report.id <= nRequests)
        BY <1>5, ServesRequest, RequestFields DEF IInv, Numbered, Beside
    <2> QED
        BY <1>1, <1>3, <1>4, <1>5, <2>1 DEF IInv, Numbered
<1>11. ContextsCounted'
    <2>1. LookingIds' = LookingIds \cup {id}
        <3>1. ASSUME NEW x \in LookingIds'
              PROVE  x \in LookingIds \cup {id}
            BY <1>3, <1>5, <3>1 DEF LookingIds, Beside
        <3>2. ASSUME NEW x \in LookingIds
              PROVE  x \in LookingIds'
            <4>1. PICK g \in Handlers : req[g].at \in Looking /\ x = req[g].report.id
                BY <3>2 DEF LookingIds
            <4>2. g # h
                BY <1>4, <4>1 DEF Idle, Looking
            <4> QED
                BY <1>5, <4>1, <4>2 DEF LookingIds, Beside
        <3>3. id \in LookingIds'
            BY <1>3, <1>5 DEF LookingIds, Looking
        <3> QED
            BY <3>1, <3>2, <3>3
    <2> HIDE DEF id
    <2>2. IsFiniteSet(LookingIds) /\ Cardinality(LookingIds) \in Nat
        BY LookersFinite DEF IInv
    <2>3. /\ Cardinality(LookingIds') \in Nat
          /\ Cardinality(LookingIds') <= Cardinality(LookingIds) + 1
        <3>1. Cardinality(LookingIds') = IF id \in LookingIds THEN Cardinality(LookingIds)
                                                             ELSE Cardinality(LookingIds) + 1
            BY <2>1, <2>2, FS_AddElement
        <3> QED
            BY <2>2, <3>1
    <2>4. nContexts' = nContexts /\ pool' = pool /\ nContexts \in Nat
        BY DEF IInv, TypeOK, Receive
    <2> QED
        BY <1>1, <1>4, <2>2, <2>3, <2>4 DEF IInv, ContextsCounted, id
<1> QED
    BY <1>6, <1>7, <1>8, <1>9, <1>10, <1>11 DEF IInv

LEMMA ArriveKeeps ==
    ASSUME IInv, NEW h \in Handlers, Arrive(h)
    PROVE  IInv'
<1>1. \A entry \in Range(issued) : /\ entry.ref \in Ref
                                  /\ entry.ref.supi \in Supis /\ entry.ref.consumer \in Consumers
    <2>1. Range(issued) \subseteq Issue
        BY RangeOfSeq DEF IInv, TypeOK
    <2> QED
        BY <2>1 DEF Issue, Ref
<1>2. CASE ReceiveCreate(h)
    BY <1>2, ReceiveKeeps DEF ReceiveCreate
<1>3. CASE ReceiveUpdate(h)
    BY <1>1, <1>3, ReceiveKeeps DEF ReceiveUpdate
<1>4. CASE ReceiveRelease(h)
    BY <1>1, <1>4, ReceiveKeeps DEF ReceiveRelease
<1> QED
    BY <1>2, <1>3, <1>4 DEF Arrive

LEMMA FindContextKeeps ==
    ASSUME IInv, NEW h \in Handlers, FindContext(h)
    PROVE  IInv'
<1> USE DEF memory, disk, bounds, history
<1> DEFINE u == pool[req[h].supi]
<1>1. req[h] \in Request /\ req[h].at = "find" /\ req[h].at \in Looking
    BY ServesRequest DEF IInv, FindContext, Looking
<1>2. Place(req[h]) /\ req[h].supi \in Supis
    BY <1>1, RequestFields DEF IInv, Placed
<1>3. u \in Contexts \cup {NoContext} /\ u <= nContexts /\ nContexts \in Nat
    BY <1>2 DEF IInv, TypeOK, ContextsCounted
<1> HIDE DEF u
<1>4. CASE u # NoContext /\ req' = [req EXCEPT ![h].at = "lock", ![h].ue = u] /\ UNCHANGED history
    <2>1. u \in Contexts /\ u \in 1 .. nContexts
        BY <1>3, <1>4 DEF Contexts, NoContext
    <2>2. /\ Beside(h)
          /\ req'[h] \in Request /\ req'[h].at = "lock" /\ req'[h].ue = u
          /\ req'[h].op = req[h].op /\ req'[h].supi = req[h].supi
          /\ req'[h].report = req[h].report
        BY <1>1, <1>4, <2>1, GetsContext DEF IInv
    <2>3. TypeOK' /\ CurrentListed'
        BY <1>4, <2>2 DEF IInv, TypeOK, CurrentListed, FindContext, Beside
    <2>4. Place(req[h])'
        BY <1>2, <2>1, <2>2 DEF Place, Looking, FindContext
    <2>5. Placed' /\ Locked' /\ Numbered'
        BY <1>1, <1>3, <2>2, <2>4, ControlKept DEF FindContext, Critical
    <2>6. ContextsCounted'
        BY <2>2, <2>3, LookersKept DEF FindContext, Looking
    <2> QED
        BY <2>3, <2>5, <2>6 DEF IInv
<1>5. CASE req[h].op \in Creating /\ Goto(h, "new") /\ UNCHANGED history
    <2>1. GoneOn(h, "new") /\ Beside(h)
        BY <1>1, <1>5, GoesOn DEF IInv, Looking
    <2>2. TypeOK' /\ CurrentListed'
        BY <1>5, <2>1 DEF IInv, TypeOK, CurrentListed, FindContext, Beside
    <2>3. Place(req[h])'
        BY <1>2, <1>5, <2>1 DEF Place, Looking, GoneOn, FindContext
    <2>4. Placed' /\ Locked' /\ Numbered'
        BY <1>1, <1>3, <2>1, <2>3, ControlKept DEF FindContext, Critical, GoneOn
    <2>5. ContextsCounted'
        BY <1>1, <2>1, <2>2, NoMoreLookers DEF FindContext, GoneOn, Beside
    <2> QED
        BY <2>2, <2>4, <2>5 DEF IInv
<1>6. CASE Refuse(h) /\ UNCHANGED <<charged, incidents>>
    <2>1. Beside(h) /\ req'[h] = Idle
        BY <1>6, IsDone DEF IInv
    <2>2. TypeOK' /\ CurrentListed'
        BY <1>1, <1>6, <2>1, AnswerTypes DEF IInv, TypeOK, CurrentListed, FindContext,
                                             Beside, Refuse
    <2>3. Placed' /\ Locked' /\ Numbered'
        BY <1>1, <1>3, <2>1, ControlKept DEF FindContext, Critical, Idle
    <2>4. ContextsCounted'
        BY <2>1, <2>2, LookersKept DEF FindContext, Looking, Idle
    <2> QED
        BY <2>2, <2>3, <2>4 DEF IInv
<1> QED
    BY <1>4, <1>5, <1>6 DEF FindContext, u, Creating

LEMMA NewContextKeeps ==
    ASSUME IInv, NEW h \in Handlers, NewContext(h)
    PROVE  IInv'
<1> USE DEF memory, disk, bounds, history
<1>1. req[h] \in Request /\ req[h].at = "new" /\ req[h].at \in Looking
    BY ServesRequest DEF IInv, NewContext, Looking
<1>2. Place(req[h]) /\ req[h].supi \in Supis /\ nContexts \in Nat
    BY <1>1, RequestFields DEF IInv, TypeOK, Placed
<1>3. /\ nContexts' = nContexts + 1
      /\ req' = [req EXCEPT ![h].at = "lock", ![h].ue = nContexts']
      /\ pool' = [pool EXCEPT ![req[h].supi] = nContexts']
    BY DEF NewContext
<1>4. nContexts + 1 \in Contexts
    <2>0. /\ IsFiniteSet(LookingIds) /\ Cardinality(LookingIds) \in Nat
          /\ nRequests \in Nat
          /\ nContexts + Cardinality(LookingIds) <= nRequests
        BY LookersFinite DEF IInv, TypeOK, ContextsCounted
    <2>1. nContexts + 1 + Cardinality(LookingIds \ {req[h].report.id}) <= nRequests
        <3>1. req[h].report.id \in LookingIds
            BY <1>1 DEF LookingIds
        <3>2. Cardinality(LookingIds \ {req[h].report.id}) = Cardinality(LookingIds) - 1
            BY <2>0, <3>1, OneLess
        <3> QED
            BY <1>2, <2>0, <3>2
    <2>2. Cardinality(LookingIds \ {req[h].report.id}) \in Nat
        BY LookersFinite, FS_RemoveElement, FS_CardinalityType DEF IInv
    <2> QED
        BY <1>2, <2>1, <2>2 DEF IInv, TypeOK, Contexts
<1>5. /\ Beside(h)
      /\ req'[h] \in Request /\ req'[h].at = "lock" /\ req'[h].ue = nContexts'
      /\ req'[h].op = req[h].op /\ req'[h].supi = req[h].supi
      /\ req'[h].report = req[h].report
    <2> DEFINE u == nContexts + 1
    <2>1. u \in Contexts /\ req' = [req EXCEPT ![h].at = "lock", ![h].ue = u]
        BY <1>3, <1>4
    <2>2. nContexts' = u
        BY <1>3
    <2> HIDE DEF u
    <2> QED
        BY <1>1, <2>1, <2>2, GetsContext DEF IInv
<1>6. LookingIds' \subseteq LookingIds /\ nContexts' + Cardinality(LookingIds') <= nRequests
    BY <1>1, <1>3, <1>5, OneLookerLess DEF Looking
<1>7. TypeOK' /\ CurrentListed'
    <2>1. pool' \in [Supis -> Contexts \cup {NoContext}]
        BY <1>2, <1>3, <1>4 DEF IInv, TypeOK
    <2>2. incidents' \subseteq Incident
        BY DEF IInv, TypeOK, NewContext, Note, Incident
    <2>3. nContexts' \in Nat
        BY <1>2, <1>3
    <2> QED
        BY <1>5, <2>1, <2>2, <2>3 DEF IInv, TypeOK, CurrentListed, NewContext, Beside
<1>8. Place(req[h])'
    BY <1>1, <1>2, <1>3, <1>5 DEF Place, Looking, NewContext
<1>9. Placed' /\ Locked' /\ Numbered'
    <2>1. /\ nRequests' = nRequests /\ lock' = lock /\ cdr' = cdr
          /\ nContexts' \in Nat /\ nContexts <= nContexts'
        BY <1>2, <1>3 DEF NewContext
    <2>2. req'[h].at \notin Critical
        BY <1>5 DEF Critical
    <2> QED
        BY <1>1, <1>5, <1>8, <2>1, <2>2, ControlKept
<1>10. ContextsCounted'
    <2>1. \A s \in Supis : pool'[s] <= nContexts'
        <3>1. \A s \in Supis : pool[s] \in Nat /\ pool[s] <= nContexts
            BY DEF IInv, TypeOK, ContextsCounted, Contexts, NoContext
        <3>2. \A s \in Supis : pool'[s] = IF s = req[h].supi THEN nContexts' ELSE pool[s]
            BY <1>3 DEF IInv, TypeOK
        <3> QED
            BY <1>2, <1>3, <3>1, <3>2
    <2> QED
        BY <1>6, <2>1 DEF ContextsCounted, NewContext
<1> QED
    BY <1>7, <1>9, <1>10 DEF IInv

LEMMA LockContextKeeps ==
    ASSUME IInv, NEW h \in Handlers, LockContext(h)
    PROVE  IInv'
<1> USE DEF memory, disk, bounds, history
<1>1. req[h] \in Request /\ req[h].at = "lock" /\ req[h] # Idle
    BY ServesRequest DEF IInv, LockContext
<1>2. Place(req[h]) /\ req[h].ue \in Contexts
    BY <1>1, HasContext DEF IInv, Placed, Looking
<1>3. req[h].op \in {"create", "event", "update", "release"}
    BY <1>1 DEF Request
<1> DEFINE place == AfterLock(req[h].op)
<1>4. /\ place \in Critical
      /\ place = "ref" => req[h].op \in Creating
      /\ place = "lookup" => req[h].op = "update"
      /\ place = "charge" => req[h].op = "release"
      /\ place \in {"ref", "lookup", "charge"}
    BY <1>3 DEF AfterLock, Critical, Creating
<1> HIDE DEF place
<1>5. GoneOn(h, place) /\ Beside(h)
    BY <1>1, <1>4, GoesOn DEF IInv, LockContext, place
<1>6. TypeOK' /\ CurrentListed'
    <2>1. lock' \in [Contexts -> Handlers \cup {Free}]
        BY <1>2 DEF IInv, TypeOK, LockContext
    <2> QED
        BY <1>5, <2>1 DEF IInv, TypeOK, CurrentListed, LockContext, Beside
<1>7. Place(req[h])'
    BY <1>1, <1>2, <1>4, <1>5 DEF Place, Looking, GoneOn, LockContext
<1>8. Placed' /\ Locked' /\ Numbered'
    <2>1. /\ nRequests' = nRequests /\ nContexts' = nContexts /\ cdr' = cdr
          /\ nContexts' \in Nat /\ nContexts <= nContexts' /\ lock[req[h].ue] = Free
          /\ lock' = [lock EXCEPT ![req[h].ue] = h]
        BY DEF IInv, TypeOK, LockContext
    <2>2. req'[h].ue = req[h].ue /\ req'[h].report = req[h].report
        BY <1>5 DEF GoneOn
    <2> QED
        BY <1>1, <1>5, <1>7, <2>1, <2>2, ControlKept
<1>9. ContextsCounted'
    BY <1>4, <1>5, <1>6, LookersKept DEF LockContext, GoneOn, Looking
<1> QED
    BY <1>6, <1>8, <1>9 DEF IInv

\* A step under CULock: on to the next place, or out.
LEMMA CriticalStep ==
    ASSUME IInv, TypeOK', CurrentListed', NEW h \in Handlers, req[h].at \in Critical, Beside(h),
           UNCHANGED <<nContexts, pool, nRequests>>,
           \A u \in Contexts : DOMAIN cdr[u] \subseteq DOMAIN cdr'[u],
           \/ /\ req'[h].at \in Critical /\ req'[h].ue = req[h].ue
              /\ req'[h].report = req[h].report
              /\ Place(req[h])' /\ lock' = lock
           \/ req'[h] = Idle /\ Unlock(h)
    PROVE  IInv'
<1>1. req[h] \in Request /\ req'[h].at \notin Looking
    BY ServesRequest DEF IInv, Critical, Looking, Idle
<1>2. nContexts' \in Nat /\ nContexts <= nContexts' /\ nRequests' = nRequests
    BY DEF IInv, TypeOK
<1>3. Placed' /\ Locked' /\ Numbered'
    <2>1. CASE req'[h] = Idle /\ Unlock(h)
        BY <1>1, <1>2, <2>1, ControlKept DEF Unlock
    <2>2. CASE /\ req'[h].at \in Critical /\ req'[h].ue = req[h].ue
               /\ req'[h].report = req[h].report
               /\ Place(req[h])' /\ lock' = lock
        BY <1>1, <1>2, <2>2, ControlKept
    <2> QED
        BY <2>1, <2>2
<1>4. ContextsCounted'
    BY <1>1, LookersKept
<1> QED
    BY <1>3, <1>4 DEF IInv

LEMMA CriticalPlace ==
    ASSUME IInv, NEW h \in Handlers, req[h].at \in Critical
    PROVE  /\ req[h] \in Request /\ req[h] # Idle /\ Place(req[h])
           /\ req[h].at \notin Looking /\ req[h].ue \in 1 .. nContexts
           /\ req[h].ue \in Contexts /\ req[h].supi \in Supis
           /\ req[h].report \in Report /\ req[h].report.id \in Reports
<1>1. req[h] \in Request /\ req[h] # Idle
    BY ServesRequest DEF IInv
<1>2. req[h].at \notin Looking
    BY DEF Critical, Looking
<1>3. req[h].ue \in Contexts /\ Place(req[h])
    BY <1>1, <1>2, HasContext DEF IInv, Placed
<1> QED
    BY <1>1, <1>2, <1>3, RequestFields DEF Place

LEMMA StepOn ==
    ASSUME IInv, TypeOK', CurrentListed', NEW h \in Handlers, req[h].at \in Critical,
           NEW place \in Critical, Goto(h, place), Place(req[h])',
           UNCHANGED <<nContexts, pool, nRequests, lock>>,
           \A u \in Contexts : DOMAIN cdr[u] \subseteq DOMAIN cdr'[u]
    PROVE  IInv'
<1>1. GoneOn(h, place) /\ Beside(h)
    BY CriticalPlace, GoesOn DEF IInv
<1> QED
    BY <1>1, CriticalStep DEF GoneOn

LEMMA StepOut ==
    ASSUME IInv, TypeOK', CurrentListed', NEW h \in Handlers, req[h].at \in Critical,
           Refuse(h) \/ Succeed(h), Unlock(h), UNCHANGED <<nContexts, pool, nRequests, cdr>>
    PROVE  IInv'
<1>1. Beside(h) /\ req'[h] = Idle
    BY IsDone DEF IInv
<1> QED
    BY <1>1, CriticalStep

\* What a step out leaves of the types.
LEMMA OutTypes ==
    ASSUME IInv, NEW h \in Handlers, req[h].at \in Critical, Refuse(h) \/ Succeed(h), Unlock(h)
    PROVE  /\ req' \in [Handlers -> Request \cup {Idle}]
           /\ lock' \in [Contexts -> Handlers \cup {Free}]
           /\ acked' \subseteq Reports /\ refused' \subseteq Reports
<1>1. req' \in [Handlers -> Request \cup {Idle}]
    BY IsDone DEF IInv, Beside
<1>2. lock' \in [Contexts -> Handlers \cup {Free}]
    BY CriticalPlace DEF IInv, TypeOK, Unlock
<1>3. acked' \subseteq Reports /\ refused' \subseteq Reports
    BY CriticalPlace, AnswerTypes DEF IInv, TypeOK, Refuse, Succeed
<1> QED
    BY <1>1, <1>2, <1>3

LEMMA OnTypes ==
    ASSUME IInv, NEW h \in Handlers, req[h].at \in Critical, NEW place \in Critical,
           Goto(h, place)
    PROVE  GoneOn(h, place) /\ Beside(h) /\ req' \in [Handlers -> Request \cup {Idle}]
BY CriticalPlace, GoesOn DEF IInv, Beside

LEMMA ChargeType ==
    ASSUME IInv, NEW h \in Handlers, req[h].at \in Critical,
           charged' = [charged EXCEPT ![req[h].report.id] = @ + 1]
    PROVE  charged' \in [Reports -> Nat]
<1>1. req[h].report.id \in Reports /\ charged \in [Reports -> Nat]
    BY CriticalPlace DEF IInv, TypeOK
<1> QED
    BY <1>1

LEMMA TablesNow == IInv => Tables
BY DEF IInv, TypeOK, Tables

LEMMA ChooseRefKeeps ==
    ASSUME IInv, NEW h \in Handlers, ChooseRef(h)
    PROVE  IInv'
<1> USE DEF memory, disk, bounds, history
<1>1. req[h].at = "ref" /\ req[h].at \in Critical
    BY DEF ChooseRef, Critical
<1>2. /\ req[h] \in Request /\ Place(req[h]) /\ req[h].supi \in Supis /\ localSeq \in Nat
      /\ req[h].consumer \in Consumers
    BY <1>1, CriticalPlace DEF IInv, TypeOK, Request
<1> DEFINE ref == IF req[h].op = "event" THEN NoRef
                  ELSE [supi |-> req[h].supi, consumer |-> req[h].consumer, n |-> localSeq]
           r == [req[h] EXCEPT !.at = "open", !.ref = ref]
<1>3. ref \in Ref \cup {NoRef} /\ (req[h].op = "create" => ref \in Ref /\ ref.supi = req[h].supi)
    BY <1>2 DEF Ref
<1>4. req' = [req EXCEPT ![h] = r]
    BY DEF IInv, TypeOK, ChooseRef
<1> HIDE DEF ref
<1>5. /\ r \in Request /\ r.at = "open" /\ r.ref = ref /\ r.op = req[h].op
      /\ r.supi = req[h].supi /\ r.report = req[h].report /\ r.ue = req[h].ue
    BY <1>2, <1>3 DEF Request
<1> HIDE DEF r
<1>6. Beside(h) /\ req'[h] = r
    BY <1>4, <1>5 DEF IInv, TypeOK, Beside
<1>7. TypeOK' /\ CurrentListed'
    BY <1>6 DEF IInv, TypeOK, CurrentListed, ChooseRef, Beside
<1>8. Place(req[h])'
    BY <1>1, <1>2, <1>3, <1>5, <1>6 DEF Place, Looking, ChooseRef
<1> QED
    BY <1>1, <1>5, <1>6, <1>7, <1>8, CriticalStep DEF ChooseRef, Critical

LEMMA OpenCDRAdds ==
    ASSUME IInv, NEW h \in Handlers, OpenCDR(h)
    PROVE  /\ req[h].at = "open" /\ req[h].at \in Critical
           /\ Extended(NewRecord(req[h]), req[h].report) \in Record
           /\ Added(req[h].ue, Extended(NewRecord(req[h]), req[h].report))
<1>1. req[h].at = "open" /\ req[h].at \in Critical
    BY DEF OpenCDR, Critical
<1>2. req[h].ref \in Ref \cup {NoRef} /\ req[h].ue \in Contexts /\ req[h] \in Request
      /\ req[h].report \in Report
    BY <1>1, CriticalPlace DEF Place
<1> DEFINE text == Text(req[h].ref)
<1>10. text \in Seq(Chars)
    BY <1>2, TextType
<1>3. Extended(NewRecord(req[h]), req[h].report) \in Record
    BY <1>2, NewRecordType, ExtendedRecord DEF IInv
<1> DEFINE u == req[h].ue
           new == Len(record) + 1
           f == [ref \in DOMAIN cdr[u] \cup {text} |->
                   IF ref = text THEN new ELSE cdr[u][ref]]
<1>4. cdr' = [cdr EXCEPT ![u] = f]
    BY DEF OpenCDR
<1>5. DOMAIN cdr = Contexts /\ \A ref \in DOMAIN cdr[u] : ref \in Seq(Chars)
    BY <1>2 DEF IInv, TypeOK
<1>6. /\ DOMAIN f = DOMAIN cdr[u] \cup {text}
      /\ \A ref \in DOMAIN f : IF ref = text THEN f[ref] = new ELSE f[ref] = cdr[u][ref]
    OBVIOUS
<1> HIDE DEF f, text
<1>7. DOMAIN cdr' = DOMAIN cdr /\ cdr'[u] = f /\ \A v \in Contexts \ {u} : cdr'[v] = cdr[v]
    BY <1>2, <1>4, <1>5
<1>8. DOMAIN cdr[u] \subseteq DOMAIN cdr'[u]
    BY <1>6, <1>7
<1>9. ASSUME NEW ref \in DOMAIN cdr'[u]
      PROVE  /\ ref \in Seq(Chars)
             /\ \/ cdr'[u][ref] = new
                \/ ref \in DOMAIN cdr[u] /\ cdr'[u][ref] = cdr[u][ref]
    <2>1. cdr'[u][ref] = f[ref] /\ ref \in DOMAIN f
        BY <1>7, <1>9
    <2>2. CASE ref = text
        BY <1>10, <1>6, <2>1, <2>2
    <2>3. CASE ref # text
        BY <1>5, <1>6, <2>1, <2>3
    <2> QED
        BY <2>2, <2>3
<1> QED
    BY <1>1, <1>3, <1>7, <1>8, <1>9 DEF OpenCDR, Added

LEMMA OpenCDRKeeps ==
    ASSUME IInv, NEW h \in Handlers, OpenCDR(h)
    PROVE  IInv'
<1> USE DEF memory, disk, bounds, history
<1>1. /\ req[h].at = "open" /\ req[h].at \in Critical /\ req[h].ue \in Contexts
      /\ Extended(NewRecord(req[h]), req[h].report) \in Record
      /\ Added(req[h].ue, Extended(NewRecord(req[h]), req[h].report))
    BY OpenCDRAdds, CriticalPlace
<1>2. Tables' /\ \A v \in Contexts : DOMAIN cdr[v] \subseteq DOMAIN cdr'[v]
    BY <1>1, TablesNow, AddRecord
<1>3. Goto(h, "send") /\ "send" \in Critical
    BY DEF OpenCDR, Critical
<1>4. GoneOn(h, "send") /\ req' \in [Handlers -> Request \cup {Idle}]
    BY <1>1, <1>3, OnTypes
<1>5. TypeOK' /\ CurrentListed'
    <2>1. localSeq' \in Nat
        BY DEF IInv, TypeOK, OpenCDR
    <2> QED
        BY <1>2, <1>4, <2>1 DEF IInv, TypeOK, Tables, OpenCDR
<1>6. Place(req[h])'
    <2>1. Place(req[h])
        BY <1>1, CriticalPlace
    <2> QED
        BY <1>1, <1>4, <2>1 DEF Place, GoneOn, Looking, Creating, OpenCDR
<1> QED
    BY <1>1, <1>2, <1>3, <1>5, <1>6, StepOn DEF OpenCDR

LEMMA RejectCreateKeeps ==
    ASSUME IInv, NEW h \in Handlers, RejectCreate(h)
    PROVE  IInv'
<1> USE DEF memory, disk, bounds, history
<1>1. req[h].at \in Critical /\ Refuse(h) /\ Unlock(h)
    BY DEF RejectCreate, Critical
<1>2. TypeOK' /\ CurrentListed'
    <2>1. localSeq' \in Nat
        BY DEF IInv, TypeOK, RejectCreate
    <2>2. /\ req' \in [Handlers -> Request \cup {Idle}]
          /\ lock' \in [Contexts -> Handlers \cup {Free}] /\ refused' \subseteq Reports
        BY <1>1, OutTypes
    <2> QED
        BY <2>1, <2>2 DEF IInv, TypeOK, CurrentListed, RejectCreate, Refuse
<1> QED
    BY <1>1, <1>2, StepOut DEF RejectCreate

LEMMA LookupSessionKeeps ==
    ASSUME IInv, NEW h \in Handlers, LookupSession(h)
    PROVE  IInv'
<1> USE DEF memory, disk, bounds, history
<1>1. req[h].at = "lookup" /\ req[h].at \in Critical
    BY DEF LookupSession, Critical
<1>2. CASE Known(h) /\ Goto(h, "charge") /\ UNCHANGED <<lock, history>>
    <2>1. GoneOn(h, "charge") /\ req' \in [Handlers -> Request \cup {Idle}] /\ "charge" \in Critical
        BY <1>1, <1>2, OnTypes DEF Critical
    <2>2. TypeOK' /\ CurrentListed'
        BY <1>2, <2>1 DEF IInv, TypeOK, CurrentListed, LookupSession
    <2>3. Place(req[h])'
        <3>1. Place(req[h])
            BY <1>1, CriticalPlace
        <3> QED
            BY <1>1, <1>2, <2>1, <3>1 DEF Place, GoneOn, Looking, Known, LookupSession
    <2> QED
        BY <1>1, <1>2, <2>1, <2>2, <2>3, StepOn DEF LookupSession
<1>3. CASE Unlock(h) /\ Refuse(h) /\ UNCHANGED <<charged, incidents>>
    <2>1. TypeOK' /\ CurrentListed'
        BY <1>1, <1>3, OutTypes DEF IInv, TypeOK, CurrentListed, LookupSession, Refuse
    <2> QED
        BY <1>1, <1>3, <2>1, StepOut DEF LookupSession
<1> QED
    BY <1>2, <1>3 DEF LookupSession

LEMMA ChargeKeeps ==
    ASSUME IInv, NEW h \in Handlers, Charge(h)
    PROVE  IInv'
<1> USE DEF memory, disk, bounds, history
<1>1. req[h].at = "charge" /\ req[h].at \in Critical /\ Goto(h, "record") /\ "record" \in Critical
    BY DEF Charge, Critical
<1>2. GoneOn(h, "record") /\ req' \in [Handlers -> Request \cup {Idle}]
    BY <1>1, OnTypes
<1>3. TypeOK' /\ CurrentListed'
    BY <1>1, <1>2, ChargeType DEF IInv, TypeOK, CurrentListed, Charge
<1>4. Place(req[h])'
    <2>1. Place(req[h])
        BY <1>1, CriticalPlace
    <2> QED
        BY <1>1, <1>2, <2>1 DEF Place, GoneOn, Looking, Charge
<1> QED
    BY <1>1, <1>3, <1>4, StepOn DEF Charge

LEMMA PanicKeeps ==
    ASSUME IInv, NEW h \in Handlers, Panic(h)
    PROVE  IInv'
<1> USE DEF memory, disk, bounds, history
<1>1. req[h].at \in Critical /\ Refuse(h) /\ Unlock(h)
    BY DEF Panic, Critical
<1>2. TypeOK' /\ CurrentListed'
    BY <1>1, OutTypes, ChargeType
       DEF IInv, TypeOK, CurrentListed, Panic, Refuse, Note, Incident
<1> QED
    BY <1>1, <1>2, StepOut DEF Panic

\* An update rewrites its session's record, or adds one that continues it.
LEMMA RecordUpdateDoes ==
    ASSUME IInv, NEW h \in Handlers, RecordUpdate(h)
    PROVE  /\ req[h].at = "record" /\ req[h].at \in Critical /\ Known(h)
           /\ \/ /\ ~MustSplit(record[Current(h)], req[h].report)
                 /\ record' = [record EXCEPT ![Current(h)] =
                                 Extended(record[Current(h)], req[h].report)]
                 /\ Extended(record[Current(h)], req[h].report) \in Record
                 /\ UNCHANGED <<cdr, records>>
              \/ /\ Added(req[h].ue, Extended(Split(record[Current(h)]), req[h].report))
                 /\ Extended(Split(record[Current(h)]), req[h].report) \in Record
<1>1. req[h].at = "record" /\ req[h].at \in Critical /\ req[h].op = "update"
    BY DEF RecordUpdate, Critical
<1>2. Known(h) /\ req[h].ue \in Contexts /\ req[h].report \in Report
    BY <1>1, CriticalPlace DEF Place, Known
<1>3. record[Current(h)] \in Record
    BY <1>1, <1>2, CriticalPlace, CurrentRecord
<1>4. /\ Extended(record[Current(h)], req[h].report) \in Record
      /\ Extended(Split(record[Current(h)]), req[h].report) \in Record
    BY <1>2, <1>3, ExtendedRecord, SplitRecord
<1> DEFINE u == req[h].ue
           new == Len(record) + 1
<1>5. CASE /\ MustSplit(record[Current(h)], req[h].report)
           /\ record' = Append(record, Extended(Split(record[Current(h)]), req[h].report))
           /\ cdr' = [cdr EXCEPT ![u][Text(req[h].ref)] = new]
           /\ records' = [records EXCEPT ![u] = Append(@, new)]
    <2> DEFINE f == [cdr[u] EXCEPT ![Text(req[h].ref)] = new]
    <2>1. cdr' = [cdr EXCEPT ![u] = f]
        BY <1>5
    <2>2. /\ DOMAIN f = DOMAIN cdr[u]
          /\ \A ref \in DOMAIN f : f[ref] = new \/ f[ref] = cdr[u][ref]
        OBVIOUS
    <2>3. DOMAIN cdr = Contexts /\ \A ref \in DOMAIN cdr[u] : ref \in Seq(Chars)
        BY <1>2 DEF IInv, TypeOK
    <2> HIDE DEF f
    <2>4. DOMAIN cdr' = DOMAIN cdr /\ cdr'[u] = f /\ \A v \in Contexts \ {u} : cdr'[v] = cdr[v]
        BY <1>2, <2>1, <2>3
    <2>5. Added(u, Extended(Split(record[Current(h)]), req[h].report))
        BY <1>5, <2>2, <2>3, <2>4 DEF Added
    <2> QED
        BY <1>1, <1>2, <1>4, <2>5
<1> QED
    BY <1>1, <1>2, <1>4, <1>5 DEF RecordUpdate

LEMMA RecordUpdateKeeps ==
    ASSUME IInv, NEW h \in Handlers, RecordUpdate(h)
    PROVE  IInv'
<1> USE DEF memory, disk, bounds, history
<1>1. req[h].at = "record" /\ req[h].at \in Critical /\ req[h].op = "update" /\ Known(h)
      /\ req[h].ue \in Contexts
    BY RecordUpdateDoes, CriticalPlace DEF RecordUpdate
<1>2. Tables' /\ \A v \in Contexts : DOMAIN cdr[v] \subseteq DOMAIN cdr'[v]
    <2>1. Current(h) \in DOMAIN record
        BY <1>1, CriticalPlace, CurrentRecord
    <2>2. CASE UNCHANGED <<cdr, records>>
        <3>1. Tables'
            BY <2>1, <2>2, RecordUpdateDoes, TablesNow, RewriteRecord, AddRecord, <1>1
        <3> QED
            BY <2>2, <3>1
    <2>3. CASE Added(req[h].ue, Extended(Split(record[Current(h)]), req[h].report))
        <3>1. Extended(Split(record[Current(h)]), req[h].report) \in Record
            BY <1>1, <2>1, CriticalPlace, CurrentRecord, SplitRecord, ExtendedRecord
        <3> QED
            BY <1>1, <2>3, <3>1, TablesNow, AddRecord
    <2> QED
        BY <2>2, <2>3, RecordUpdateDoes
<1> DEFINE place == IF req[h].partial THEN "reopen" ELSE "dump"
<1>3. Goto(h, place) /\ place \in Critical /\ place \in {"reopen", "dump"}
    BY DEF RecordUpdate, Critical
<1> HIDE DEF place
<1>4. GoneOn(h, place) /\ req' \in [Handlers -> Request \cup {Idle}]
    BY <1>1, <1>3, OnTypes
<1>5. TypeOK' /\ CurrentListed'
    BY <1>2, <1>4 DEF IInv, TypeOK, Tables, RecordUpdate
<1>6. Place(req[h])'
    <2>1. Place(req[h])
        BY <1>1, CriticalPlace
    <2> QED
        BY <1>1, <1>2, <1>3, <1>4, <2>1 DEF Place, GoneOn, Looking, Known, RecordUpdate
<1> QED
    BY <1>1, <1>2, <1>3, <1>5, <1>6, StepOn DEF RecordUpdate

\* A record that is reopened stays what it is but for its number.
LEMMA ReopenCDRDoes ==
    ASSUME IInv, NEW h \in Handlers, ReopenCDR(h)
    PROVE  /\ req[h].at = "reopen" /\ req[h].at \in Critical /\ Known(h)
           /\ \E x \in Record :
                 /\ record' = [record EXCEPT ![Current(h)] = x]
                 /\ x.reports = record[Current(h)].reports
                 /\ x.supi = record[Current(h)].supi
                 /\ x.number = 1
                 /\ x.size = IF record[Current(h)].number = 0
                             THEN record[Current(h)].size + NumberSize
                             ELSE record[Current(h)].size
           /\ Content(<<Current(h)>>) \in Seq(Record)
           /\ Content(<<Current(h)>>) = <<record[Current(h)]>>
<1>1. req[h].at = "reopen" /\ req[h].at \in Critical
    BY DEF ReopenCDR, Critical
<1>2. Known(h) /\ req[h].ue \in Contexts
    BY <1>1, CriticalPlace DEF Place, Known
<1> DEFINE k == Current(h)
<1>3. k \in DOMAIN record /\ record[k] \in Record
    BY <1>1, <1>2, CriticalPlace, CurrentRecord
<1> DEFINE size == IF record[k].number = 0 THEN record[k].size + NumberSize
                                           ELSE record[k].size
           x == [record[k] EXCEPT !.number = 1, !.size = size]
<1>4. size \in Nat
    <2>1. record[k].size \in Nat /\ NumberSize \in Nat
        BY <1>3 DEF Record
    <2> QED
        BY <2>1
<1>5. record' = [record EXCEPT ![k] = x]
    BY <1>3 DEF ReopenCDR
<1> HIDE DEF size
<1>6. /\ x \in Record /\ x.reports = record[k].reports /\ x.supi = record[k].supi
      /\ x.number = 1 /\ x.size = size
    BY <1>3, <1>4 DEF Record
<1>7. Content(<<k>>) = <<record[k]>> /\ <<record[k]>> \in Seq(Record)
    BY <1>3 DEF Content
<1> HIDE DEF x
<1> QED
    BY <1>1, <1>2, <1>5, <1>6, <1>7 DEF size

LEMMA ReopenCDRKeeps ==
    ASSUME IInv, NEW h \in Handlers, ReopenCDR(h)
    PROVE  IInv'
<1> USE DEF memory, disk, bounds, history
<1>1. /\ req[h].at = "reopen" /\ req[h].at \in Critical /\ Known(h)
      /\ Content(<<Current(h)>>) \in Seq(Record)
      /\ Goto(h, "dump") /\ "dump" \in Critical /\ UNCHANGED <<cdr, records>>
    BY ReopenCDRDoes DEF ReopenCDR, Critical
<1>2. Tables'
    <2>1. Current(h) \in DOMAIN record
        BY <1>1, CriticalPlace, CurrentRecord
    <2> QED
        BY <1>1, <2>1, ReopenCDRDoes, TablesNow, RewriteRecord
<1>3. GoneOn(h, "dump") /\ req' \in [Handlers -> Request \cup {Idle}] /\ req[h].supi \in Supis
    BY <1>1, OnTypes, CriticalPlace
<1>4. TypeOK' /\ CurrentListed'
    <2>1. file' \in [Supis -> Seq(Record) \cup {NoFile}]
        BY <1>1, <1>3 DEF IInv, TypeOK, ReopenCDR
    <2>2. incidents' \subseteq Incident
        BY DEF IInv, TypeOK, ReopenCDR, Note, Incident
    <2> QED
        BY <1>2, <1>3, <2>1, <2>2 DEF IInv, TypeOK, Tables, ReopenCDR
<1>5. Place(req[h])'
    <2>1. Place(req[h])
        BY <1>1, CriticalPlace
    <2> QED
        BY <1>1, <1>3, <2>1 DEF Place, GoneOn, Looking, ReopenCDR
<1> QED
    BY <1>1, <1>4, <1>5, StepOn DEF ReopenCDR

LEMMA DumpRecordsKeeps ==
    ASSUME IInv, NEW h \in Handlers, DumpRecords(h)
    PROVE  IInv'
<1> USE DEF memory, disk, bounds, history
<1>1. req[h].at = "dump" /\ req[h].at \in Critical /\ Goto(h, "send") /\ "send" \in Critical
    BY DEF DumpRecords, Critical
<1>2. /\ GoneOn(h, "send") /\ req' \in [Handlers -> Request \cup {Idle}]
      /\ req[h].supi \in Supis /\ req[h].ue \in Contexts
    BY <1>1, OnTypes, CriticalPlace
<1>3. Content(records[req[h].ue]) \in Seq(Record)
    BY <1>2, ContentType DEF IInv, TypeOK
<1>4. file' \in [Supis -> Seq(Record) \cup {NoFile}]
    BY <1>2, <1>3 DEF IInv, TypeOK, DumpRecords
<1>5. TypeOK' /\ CurrentListed'
    BY <1>2, <1>4 DEF IInv, TypeOK, CurrentListed, DumpRecords
<1>6. Place(req[h])'
    <2>1. Place(req[h])
        BY <1>1, CriticalPlace
    <2> QED
        BY <1>1, <1>2, <2>1 DEF Place, GoneOn, Looking, DumpRecords
<1> QED
    BY <1>1, <1>5, <1>6, StepOn DEF DumpRecords

LEMMA FailedWriteType ==
    ASSUME IInv, NEW supi \in Supis, NEW content \in Seq(Record), WriteFails(supi, content)
    PROVE  file' \in [Supis -> Seq(Record) \cup {NoFile}]
<1>1. Len(content) \in Nat
    BY LenProperties
<1>2. \A n \in 0 .. Len(content) - 1 : SubSeq(content, 1, n) \in Seq(Record)
    BY <1>1, PartOfContent
<1>3. file \in [Supis -> Seq(Record) \cup {NoFile}]
    BY DEF IInv, TypeOK
<1> QED
    BY <1>2, <1>3 DEF WriteFails

LEMMA FailDumpKeeps ==
    ASSUME IInv, NEW h \in Handlers, FailDump(h)
    PROVE  IInv'
<1> USE DEF memory, disk, bounds, history
<1>1. req[h].at \in Critical /\ Refuse(h) /\ Unlock(h)
    BY DEF FailDump, Critical
<1>2. req[h].supi \in Supis /\ req[h].ue \in Contexts /\ Place(req[h])
    BY <1>1, CriticalPlace
<1>3. file' \in [Supis -> Seq(Record) \cup {NoFile}]
    <2>1. CASE req[h].at = "reopen" /\ WriteFails(req[h].supi, Content(<<Current(h)>>))
        <3>1. Known(h)
            BY <1>2, <2>1 DEF Place, Known
        <3>2. Current(h) \in DOMAIN record
            BY <1>1, <3>1, CriticalPlace, CurrentRecord
        <3>3. <<Current(h)>> \in Seq(DOMAIN record)
            BY <3>2
        <3>4. Content(<<Current(h)>>) \in Seq(Record)
            BY <3>3, ContentType DEF IInv, TypeOK
        <3> QED
            BY <1>2, <2>1, <3>4, FailedWriteType
    <2>2. CASE req[h].at = "dump" /\ WriteFails(req[h].supi, Content(records[req[h].ue]))
        <3>1. Content(records[req[h].ue]) \in Seq(Record)
            BY <1>2, ContentType DEF IInv, TypeOK
        <3> QED
            BY <1>2, <2>2, <3>1, FailedWriteType
    <2> QED
        BY <2>1, <2>2 DEF FailDump
<1>4. TypeOK' /\ CurrentListed'
    <2>1. incidents' \subseteq Incident
        BY DEF IInv, TypeOK, FailDump, Note, Incident
    <2> QED
        BY <1>1, <1>3, <2>1, OutTypes DEF IInv, TypeOK, CurrentListed, FailDump, Refuse
<1> QED
    BY <1>1, <1>4, StepOut DEF FailDump

LEMMA SendCDRKeeps ==
    ASSUME IInv, NEW h \in Handlers, SendCDR(h)
    PROVE  IInv'
<1> USE DEF memory, disk, bounds, history
<1>1. req[h].at = "send" /\ req[h].at \in Critical /\ Succeed(h) /\ Unlock(h)
    BY DEF SendCDR, Critical
<1>2. req[h].supi \in Supis /\ Place(req[h])
    BY <1>1, CriticalPlace
<1> DEFINE content == file[req[h].supi]
<1>3. uploaded' \in [Supis -> Seq(Record) \cup {NoFile}]
    <2>1. content \in Seq(Record) \cup {NoFile}
        BY <1>2 DEF IInv, TypeOK
    <2>2. uploaded \in [Supis -> Seq(Record) \cup {NoFile}]
        BY DEF IInv, TypeOK
    <2> HIDE DEF content
    <2>3. CASE content = NoFile
        BY <1>2, <2>2, <2>3 DEF SendCDR, content
    <2>4. CASE content # NoFile
        <3>1. content \in Seq(Record)
            BY <2>1, <2>4
        <3>2. \A n \in 0 .. Len(content) : SubSeq(content, 1, n) \in Seq(Record)
            BY <3>1, PartOfContent
        <3> QED
            BY <1>2, <2>2, <2>4, <3>1, <3>2 DEF SendCDR, content
    <2> QED
        BY <2>3, <2>4
<1>4. issued' \in Seq(Issue)
    <2>1. issued \in Seq(Issue)
        BY DEF IInv, TypeOK
    <2>2. req[h].op = "create" => [ref |-> req[h].ref, life |-> nCrashes] \in Issue
        BY <1>1, <1>2 DEF Place, Issue, IInv, TypeOK
    <2> QED
        BY <2>1, <2>2, AppendProperties DEF SendCDR
<1>5. TypeOK' /\ CurrentListed'
    <2>1. incidents' \subseteq Incident
        BY DEF IInv, TypeOK, SendCDR, Note, Incident
    <2> QED
        BY <1>1, <1>3, <1>4, <2>1, OutTypes DEF IInv, TypeOK, CurrentListed, SendCDR,
                                                Succeed
<1> QED
    BY <1>1, <1>5, StepOut DEF SendCDR

\* A release extends its session's record, if there is one.
LEMMA RecordReleaseDoes ==
    ASSUME IInv, NEW h \in Handlers, RecordRelease(h)
    PROVE  /\ req[h].at = "record" /\ req[h].at \in Critical /\ req[h].op = "release"
           /\ \/ ~Known(h) /\ UNCHANGED <<record, file>>
              \/ /\ Known(h)
                 /\ Extended(record[Current(h)], req[h].report) \in Record
                 /\ record' = [record EXCEPT ![Current(h)] =
                                 Extended(record[Current(h)], req[h].report)]
<1>1. req[h].at = "record" /\ req[h].at \in Critical /\ req[h].op = "release"
    BY DEF RecordRelease, Critical
<1>2. Known(h) => Extended(record[Current(h)], req[h].report) \in Record
    BY <1>1, CriticalPlace, CurrentRecord, ExtendedRecord
<1> QED
    BY <1>1, <1>2 DEF RecordRelease

LEMMA RecordReleaseKeeps ==
    ASSUME IInv, NEW h \in Handlers, RecordRelease(h)
    PROVE  IInv'
<1> USE DEF memory, disk, bounds, history
<1>1. req[h].at \in Critical /\ (Refuse(h) \/ Succeed(h)) /\ Unlock(h)
    BY DEF RecordRelease, Critical
<1>2. Tables'
    <2>1. CASE UNCHANGED record
        BY <2>1, TablesNow DEF Tables, CurrentListed, RecordRelease
    <2>2. CASE Known(h) /\ Extended(record[Current(h)], req[h].report) \in Record
               /\ record' = [record EXCEPT ![Current(h)] =
                               Extended(record[Current(h)], req[h].report)]
        <3>1. Current(h) \in DOMAIN record
            BY <1>1, <2>2, CriticalPlace, CurrentRecord
        <3>2. UNCHANGED <<cdr, records>>
            BY DEF RecordRelease
        <3> QED
            BY <2>2, <3>1, <3>2, TablesNow, RewriteRecord
    <2> QED
        BY <2>1, <2>2, RecordReleaseDoes
<1>3. file' \in [Supis -> Seq(Record) \cup {NoFile}]
    <2>1. req[h].supi \in Supis
        BY <1>1, CriticalPlace
    <2>2. CASE UNCHANGED file
        BY <2>2 DEF IInv, TypeOK
    <2> DEFINE closed == Extended(record[Current(h)], req[h].report)
    <2>3. CASE Known(h)
        <3>1. closed \in Record
            BY <2>3, RecordReleaseDoes
        <3> HIDE DEF closed
        <3>2. <<closed>> \in Seq(Record)
            BY <3>1
        <3>3. CASE file' = [file EXCEPT ![req[h].supi] = <<closed>>]
            BY <2>1, <3>2, <3>3 DEF IInv, TypeOK
        <3>4. CASE WriteFails(req[h].supi, <<closed>>)
            BY <2>1, <3>2, <3>4, FailedWriteType
        <3> QED
            BY <2>3, <3>3, <3>4 DEF RecordRelease, closed
    <2> QED
        BY <2>2, <2>3 DEF RecordRelease
<1>4. TypeOK' /\ CurrentListed'
    <2>1. incidents' \subseteq Incident
        <3>1. incidents' \subseteq incidents \cup {"unknown", "disk", "unchecked"}
            BY DEF RecordRelease, Note
        <3> QED
            BY <3>1 DEF IInv, TypeOK, Incident
    <2>2. UNCHANGED <<issued, charged>>
        BY DEF RecordRelease, Refuse
    <2> QED
        BY <1>1, <1>2, <1>3, <2>1, <2>2, OutTypes DEF IInv, TypeOK, Tables, RecordRelease
<1> QED
    BY <1>1, <1>4, StepOut DEF RecordRelease

LEMMA CrashKeeps ==
    ASSUME IInv, Crash
    PROVE  IInv'
<1> USE DEF memory, disk, bounds, history
<1>1. \A h \in Handlers : req'[h] = Idle
    BY DEF Crash
<1>2. /\ record' = <<>> /\ nContexts' = 0 /\ UNCHANGED nRequests
      /\ \A u \in Contexts : cdr'[u] = <<>> /\ records'[u] = <<>>
      /\ \A s \in Supis : pool'[s] = 0
    BY DEF Crash, NoContext
<1>3. <<>> \in Seq(Record) /\ <<>> \in Seq(DOMAIN record') /\ DOMAIN <<>> = {}
    BY EmptySeq
<1>4. TypeOK'
    <2>1. /\ pool' \in [Supis -> Contexts \cup {NoContext}]
          /\ lock' \in [Contexts -> Handlers \cup {Free}]
          /\ req' \in [Handlers -> Request \cup {Idle}]
          /\ DOMAIN cdr' = Contexts
          /\ records' \in [Contexts -> Seq(DOMAIN record')]
        BY <1>2, <1>3 DEF Crash
    <2>2. incidents' \subseteq Incident
        BY DEF IInv, TypeOK, Crash, Note, Incident
    <2>3. nCrashes' \in 0 .. MaxCrashes
        BY DEF IInv, TypeOK, Crash
    <2> QED
        BY <1>2, <1>3, <2>1, <2>2, <2>3 DEF IInv, TypeOK, Crash
<1>5. CurrentListed'
    BY <1>2, <1>3 DEF CurrentListed
<1>6. Placed' /\ Locked' /\ Numbered'
    BY <1>1 DEF Placed, Locked, Numbered, Critical, Idle
<1>7. ContextsCounted'
    <2>1. LookingIds' = {}
        BY <1>1 DEF LookingIds, Looking, Idle
    <2> QED
        BY <1>2, <2>1, FS_EmptySet DEF IInv, TypeOK, ContextsCounted
<1> QED
    BY <1>4, <1>5, <1>6, <1>7 DEF IInv

-----------------------------------------------------------------------------

LEMMA InitIInv == Init => IInv
<1> SUFFICES ASSUME Init
             PROVE  IInv
    OBVIOUS
<1>1. <<>> \in Seq(Record) /\ <<>> \in Seq(DOMAIN record) /\ <<>> \in Seq(Issue) /\ DOMAIN <<>> = {}
    BY EmptySeq
<1>2. TypeOK
    <2>1. /\ pool \in [Supis -> Contexts \cup {NoContext}]
          /\ lock \in [Contexts -> Handlers \cup {Free}]
          /\ req \in [Handlers -> Request \cup {Idle}]
          /\ DOMAIN cdr = Contexts
          /\ records \in [Contexts -> Seq(DOMAIN record)]
          /\ file \in [Supis -> Seq(Record) \cup {NoFile}]
          /\ uploaded \in [Supis -> Seq(Record) \cup {NoFile}]
          /\ charged \in [Reports -> Nat]
        BY <1>1 DEF Init
    <2>2. \A u \in Contexts : DOMAIN cdr[u] = {}
        BY <1>1 DEF Init
    <2> QED
        BY <1>1, <2>1, <2>2 DEF Init, TypeOK
<1>3. CurrentListed
    BY <1>1 DEF Init, CurrentListed
<1>4. Placed /\ Locked /\ Numbered
    BY DEF Init, Placed, Locked, Numbered, Critical, Idle
<1>5. ContextsCounted
    <2>1. LookingIds = {}
        BY DEF Init, LookingIds, Looking, Idle
    <2> QED
        BY <2>1, FS_EmptySet DEF Init, ContextsCounted, NoContext
<1> QED
    BY <1>2, <1>3, <1>4, <1>5 DEF IInv

LEMMA NextIInv == IInv /\ [Next]_vars => IInv'
<1> SUFFICES ASSUME IInv, [Next]_vars
             PROVE  IInv'
    OBVIOUS
<1>1. ASSUME NEW h \in Handlers, Work(h)
      PROVE  IInv'
    BY <1>1, FindContextKeeps, NewContextKeeps, ChooseRefKeeps, OpenCDRKeeps,
       RejectCreateKeeps, LookupSessionKeeps, ChargeKeeps, PanicKeeps, RecordUpdateKeeps,
       ReopenCDRKeeps, DumpRecordsKeeps, FailDumpKeeps, SendCDRKeeps, RecordReleaseKeeps
       DEF Work
<1>2. CASE UNCHANGED vars
    <2> USE <1>2 DEF vars, memory, disk, bounds, history
    <2>1. TypeOK' /\ CurrentListed' /\ Placed' /\ Locked' /\ Numbered'
        BY DEF IInv, TypeOK, CurrentListed, Placed, Place, Locked, Numbered
    <2>2. ContextsCounted'
        BY DEF IInv, ContextsCounted, LookingIds
    <2> QED
        BY <2>1, <2>2 DEF IInv
<1> QED
    BY <1>1, <1>2, ArriveKeeps, LockContextKeeps, CrashKeeps DEF Next, Finished

\* The inductive invariant holds throughout.
THEOREM Invariance == Spec => []IInv
BY InitIInv, NextIInv, PTL DEF Spec

\* Every variable keeps its type: every session goes on in a record that
\* exists, whatever fails and however often the CHF is restarted.
THEOREM TypeCorrect == Spec => []TypeOK
<1>1. IInv => TypeOK
    BY DEF IInv
<1> QED
    BY <1>1, Invariance, PTL

=============================================================================
