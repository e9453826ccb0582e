# A formal model of the free5GC CHF

The CHF (charging function) of free5GC takes charging requests from the
network functions of a 5G core, above all the SMF, reserves and debits a
subscriber's quota for them, writes what they report into CDRs (charging data
records), and hands the CDR files to the billing domain. This directory holds
TLA+ modules of that program, the TLC configurations that check them and proofs
that TLAPS checks. Line numbers are those of the repository at the modelled
commit; paths such as `converged_charging.go` are short for the file of that
name under `internal/sbi/processor/`.

`PROJECT.json` is the index: components, runs, which lines each definition
models (`map`), wrong versions of the code that each property must catch
(`mutants`), hazards with the properties that cover them, findings, theorems.

## 1. The system

| part | code | state it keeps | operations |
|---|---|---|---|
| Converged charging | `converged_charging.go`, `cdr.go` | in the subscriber's context | create, update, release of charging data; recharge notification |
| Online charging | `sessionChargingReservation`, `converged_charging.go:451-804` | `ReservedQuota`, `UnitCost`, `RatingType` per rating group | rate, reserve, debit each unit usage |
| Contexts | `internal/context` | `UePool`; per subscriber `CULock`, `Cdr`, `Records`, Diameter channels; `LocalRecordSequenceNumber` | find or make a context |
| Diameter clients | `internal/abmf`, `internal/rating` | `AcctChan`, `RatingChan` | send a request, wait 5 s for the answer |
| Account server (ABMF) | `pkg/abmf` | `quota` in MongoDB | CCR: read quota, reserve, debit, refund, write quota |
| Rating server (RF) | `pkg/rf` | none (tariffs in MongoDB) | SUR: reserve, debit |
| CDR conversion | `cdr/cdrConvert`, `cdr.go` | none | OpenCDR, UpdateCDR, CloseCDR |
| BER codec | `cdr/asn` | none | Marshal, Unmarshal |
| CDR files | `cdr/cdrFile`, `dumpCdrFile` | a file per subscriber | encode, decode |
| CGF | `internal/cgf` | the FTP connection `conn`, `connMutex` | Login, SendCDR, Serve, Terminate |
| NRF consumer, heartbeat | `internal/sbi/consumer` | `OAuth2Required`, the heartbeat's runner | register, heartbeat, deregister |
| Process | `pkg/service/init.go`, `internal/sbi/server.go`, `cmd` | context, WaitGroup | start, terminate |

How they meet. A request comes to a handler goroutine of the SBI server. The
handler finds the subscriber's context (a create makes one), takes its
`CULock`, and holds it to the end. An update or release runs online charging,
which talks to the rating and account servers over Diameter, each exchange
bounded by a 5 s timer; then it extends the session's record, dumps the
subscriber's CDR file, and an update or create uploads it by FTP. Recharging
comes in beside all that: the operator's console changes the quota in MongoDB
and calls the CHF, which writes `RatingType` without `CULock`. At the other
end, the main goroutine, the shutdown listener, the heartbeat, the SBI server
and one watcher for each of CGF, RF and ABMF share a context and a WaitGroup.

What is hard, and what makes each part correct:

* **Online charging.** An answer that comes after its timer stays in a
  goroutine blocked on the channel and is handed to the next request. The
  account server's read-compute-write is not atomic. A recharge interleaves
  with all of it. Correct means: money is neither made nor lost; all that a
  request reports is charged to the cent or it is known why not; units are
  granted against a reservation that holds money; only settlements overdraw an
  account; the lock is let go of; a restart, which forgets all reservations,
  loses those and nothing else.
* **Sessions and CDRs.** Two steps to make a context, two to take a reference
  number; records that split, are "reopened", and a file that at times holds
  only one of them; failures after charging; a memory that a crash empties.
  Correct means: references, strung together from names and a number, are
  unique; no report is charged or recorded
  twice; a refused report leaves nothing behind; an acknowledged one is on
  file; nothing a file lost stays lost; requests are answered.
* **CGF.** One FTP connection for all handlers, looked at and pinged before the
  mutex is taken, replaced by logins, closed by Terminate without the mutex, on
  a library that does not allow concurrent calls; a failed or refused transfer
  that returns no error; requests that outlast the two seconds of Stop. Correct
  means: a file that SendCDR says was sent has arrived, or it is known why not;
  no connection is replaced under a transfer or while it is good; no request
  waits for ever; none is cut off before its time.
* **Lifecycle.** A shutdown at any moment of the start, requests abandoned in
  flight, an NRF that forgets. Correct means: the process ends, leaves nothing
  running, is not registered afterwards, and registers again when forgotten.
* **Codec.** Lengths and tags that grow, hand-counted header lengths. Correct
  means: what requests reported can be read out of the file.

## 2. Modules

| module | models | EXTENDS |
|---|---|---|
| `Rating` | RF's `handleSUR` and how a unit cost is read | |
| `Ledger` | *abstract*: what charging promises about money | |
| `OnlineCharging` | online charging, both Diameter clients, ABMF, recharge | `Rating`; `Ledger` by INSTANCE |
| `OnlineChargingProofs` | theorems: money, usage charged, units granted, money in flight | `OnlineCharging`, `TLAPS` |
| `ChargingSessions` | the charging handlers, contexts, CDR records and files | `Ber` by INSTANCE, for the digits of a number |
| `ChargingSessionsProofs` | theorems: types and control | `ChargingSessions`, `TLAPS` |
| `ChargingSessionsUsageProofs` | theorems: reports, references, sizes | `ChargingSessionsProofs` |
| `ChargingSessionsFileProofs` | theorems: CDR files and their upload | `ChargingSessionsUsageProofs` |
| `Cgf` | the CGF's FTP connection, its users, and what a shutdown does to both | |
| `CgfProofs` | theorems about it | `Cgf`, `TLAPS` |
| `Lifecycle` | process, NRF consumer, heartbeat, NRF | |
| `LifecycleProofs` | theorems about it | `Lifecycle`, `TLAPS` |
| `Ber`, `BerTests` | `cdr/asn`, and the cases of `ber_test.go` | |
| `BerProofs` | lemmas: what the encoder makes, and that the decoder reads it | `Ber`, `CdrFile`, `TLAPS` |
| `CdrFile` | `cdr/cdrFile` | |
| `CdrConvert` | `cdr/cdrConvert` and the CDR types the CHF fills in | `Ber`, `CdrFile` |
| `CdrCodec` | CDRs made, dumped and read back | `CdrConvert` |
| `CdrCodecProofs` | theorems: records, lengths, files, what is read out of them | `CdrCodec`, `BerProofs` |
| `MC...` | instances for TLC | |

Conventions. An operator whose comment starts with *Fault* is a wrong version
of the definition after it (a missing guard, a swapped order); no action uses
it. It stands there so that one can put it in the other's place and see the
property fail. *History* variables are read by no action; properties speak
through them. `mishaps` (OnlineCharging) and `incidents` (ChargingSessions)
are sets of the kinds of things that have gone wrong so far: a property that
starts `Without({...}) =>` names exactly the incidents after which the code
does not keep it, and each of those is a state of the runs. Where a property
can say more exactly what is excepted (which usage, which names, which
transfer), it does that in place of a `Without`.

### OnlineCharging

One subscriber. `CULock` allows one request at a time, so a request is its
position `pc` (`idle`, between usages `loop`, then the points at which
`sessionChargingReservation` waits or reads shared state again). One action is
one stretch between two such points.

| variables | code |
|---|---|
| `balance` | `quota` in MongoDB |
| `acct` | CCRs and CCAs: slot 0 the running request's, the others abandoned ones, served or waiting in a blocked `HandleCCA` |
| `reserved`, `ratingType` | `ReservedQuota`, `RatingType` |
| `unitCost`, `price`, `finalUnit`, `granted` | locals and `UnitCost` of the usage at hand |
| `report` | the entries of `multipleUnitUsage` that the request has not come to |
| `lateSua` | rating answers abandoned |
| `toNotify` | recharges paid in but not yet notified |
| `funded`, `spent`, `owed`, `forgone`, `pending`, `lost`, `mishaps` | history: the books |

The account server's `handleCCR` is `ReadQuota` then `WriteQuota` (or
`FailWrite`), so that a recharge, or the handler of an abandoned CCR, comes
between. An answer that is lost is one that is never received. `AbandonAccount`
may happen whenever a request waits: the timer and the answer race.
`TakeCCA(s)` with `s # 0` is the late answer of another request, whose place
the own answer then takes. An answer without a grant where one is expected
panics (`PanicOnAnswer`); `ChargingSessions` takes that up with its `Panic`.

What a request reports is owed from the moment it comes (`BeginRequest` adds
its whole list to `owed`). It is then spent, still in `report`, or given up
uncharged, in `forgone`: by `GiveUp`, where the code goes on to the next usage
without having charged this one (a debit without a rating answer, without a
connection or without an account answer in time; a report in reserve mode that
asks for nothing), and by `CutOff`, where the request ends with the usage at
hand and all that follow it (`PanicOnAnswer`, `Crash`). These actions are all
the ways there are, and `UsageCharged` is the sum.

`Crash` ends the process wherever the request is, whatever the reason, and
starts it again: the subscriber's context (`ue_context.go:30-48`), the request
and, since the account server runs in the same process, every Diameter exchange
are gone, and the quota in MongoDB and what the operator still has to notify
are as before. What was reserved or on its way is added to `lost`: the code
keeps no trace of it, so the subscriber has paid for it.

The subscriber has one context. Two first requests that meet can make two
(`ChargingSessions`, finding 2); `sessionChargingReservation` looks the
subscriber up again (line 485), so that a request which holds the lock of the
one then works on the maps of the other, beside the requests that hold that
one's. That is not modelled: after it, nothing here is promised.

Left out: `AcctRequestNum` (written, never read), offline containers (no
effect on charging), triggers (except FINAL, which decides modes) and
`RemainingBalance` (informational). Sums and prices are reduced modulo `U32`
where the code uses 32 bits; in `online_failures` the modulus is small enough
for a price to wrap, in the other runs no product reaches it.

`Ledger` knows what is available, held and spent, and no messages.
`ImplementsLedger` is its specification under the mapping available = `balance`,
held = `reserved` + `pending`, spent = `spent`, trusted = no answer crossed
and no quota falsified. Its `Forget` is what a restart may do: what is held is
gone, and nothing else is touched. Since an account may be overdrawn by a
settlement (`Overdraw`), and everything goes once the ledger is distrusted, most
of what the refinement adds to `Conservation` is which kinds of movement there
are and that each is one step.

### ChargingSessions

Any number of handlers, subscribers and consumers. A handler's request `req[h]`
goes `find`, `new`, `lock`, then `ref`, `open`, `send` for a create, `lookup`,
`charge`, `record`, `reopen`, `dump`, `send` for an update, `charge`, `record`
for a release: one step between any two reads and writes of state that other
handlers, the disk or a crash can come between. Charging is one step that
counts (`charged`) and may panic; dumping a file is one step. `record` is the
heap of CHFRecords, `cdr` and `records` the maps of a context, `file` and
`uploaded` the CDR file here and in the billing domain. A write that fails
leaves the old file or the first part of the new one (`WriteFails`); an upload
that fails may leave the first part of the file in the billing domain.
`BillingKeeps` says what no step may take away from the billing domain. Records
are measured in octets by `BaseSize`, `NumberSize` and the reports' sizes,
`MaxSize` stands for `math.MaxUint16`; a report may be of any size, also one
that outgrows a record by itself.

Sessions are kept by their reference, which is `Text`: the SUPI, the consumer's
name and the digits of a number, strung together as `converged_charging.go:188`
does. Names are sequences of letters and digits, so that "smf" and 12 have the
text of "smf1" and 2, and the session that comes later takes the place of the
other in the subscriber's map. `RunsInto` says when that can be; the instance
of `sessions_failures` has two such names, and writes numbers to base 2 to come
to it soon. `issued` keeps for each reference given out which life of the CHF,
from one restart to the next, it was in.

### Cgf

| variables | code |
|---|---|
| `conn`, `mutex` | `cgf.conn`, `connMutex` |
| `at`, `using` | where each handler, Serve's login and Terminate are, and on which connection each has a call of the FTP library under way |
| `then`, `tries` | what a login returns to; the logins Serve has left |
| `sbi`, `sends`, `onDisk`, `version` | the SBI server's shutdown; requests; CDR files here |
| `link`, `stored` | the connections to the billing domain's FTP server, the files it has |
| `fate` | history: what became of the last SendCDR of each subscriber |

A call of the FTP library takes two actions, its start and its end, so that
calls of several goroutines overlap. A connection two of them use at once is
`shared`, and each call on it then ends either way (`Works`, `Breaks`): the
library says nothing about that. A connection nobody holds any more counts as
closed, for it cannot be told from one. `CheckConn`, `PingNew` and `PingEnds`
are the part of SendCDR before the mutex, `EnterLogin` to `LeaveLogin` Login
with the NoOp that asks whether another login has come first, `StartTransfer`
to `Stored`, `StorBreaks` or `StorRefused` the Stor and the List under the
mutex. Any login may fail (`DialFails`), be it that the server cannot be reached
or that it will not have the user. `Outage` takes the connections there are.
`StorBreaks` is a transfer over a connection that was lost or is out of step;
`StorRefused` one that the server would not have, had no room for or got no
data of, over a connection that stays good: `cgf.go:213` returns nil for both.
`Terminate` is `StartQuit`, `QuitEnds` and `RemoveCdrFiles`, which removes all
files in one step since each handler uses only its own subscriber's. `Cancel`
is the cancelled context; it wakes the watcher of the CGF, which terminates it
at once, and the listener, which calls Stop (`StopServer`). In between, requests
still come while the connection is closed and the files go. After Stop requests
in progress have until `GraceOver`.

The charging part of a request is one place (`work`) here and the subject of
`OnlineCharging`; what its SendCDR makes of the CDR file over several requests
is the subject of `ChargingSessions`. Left out: an FTP server that takes a call
and never answers (the calls have no deadline, so that it would hold the
mutex, and with it the requests, as long as it likes).

### Lifecycle

Positions of the main goroutine, the shutdown listener, the heartbeat and the
watchers; the WaitGroup's counter; requests to the NRF (`client`), and those
the NRF still has after their caller returned (`abandoned`). Whether the NRF
wants tokens is chosen at the start and does not change. That the CHF's own
profile cannot be built, in which case it serves unregistered, is not modelled.
`SbiReturns` without
a shutdown is a server that cannot listen. `ServesAsTold` speaks of the time
outside a shutdown: during one, main may be given up at the registration.

### Ber, CdrFile, CdrConvert, CdrCodec

Pure operators. Go's reflection becomes a description of types
(`Struct(<<Field(0, Integer), ...>>)`), a nil pointer `<<>>`, another
`<<value>>`. `Outcome` says whether the encoder returns, errs or panics. The
recursion of `makeField` and `ParseField` over a type is written out in the 7
levels that `CHFRecord` has (`Marshal1` to `Marshal`, `ParseField1` to
`ParseField`): a level makes the contents of a value of what the one below
makes of its members (`Contents`, `Composed`). So no operator is RECURSIVE, and
the codec can be reasoned about. `BerTests` states as an assumption, which TLC
evaluates at the start of the codec runs, that the operators agree with
`ber_test.go` in both directions. `CdrCodec` is the small machine around them:
open, update and close records, dump a file (or write one as `cdrFile_test.go`
does), read it with the repository's own decoder. It leaves to
`ChargingSessions` how a file ages and how split records drop usage, and does
not reopen records: none is encoded with a RecordSequenceNumber. Left out:
explicit tags and object identifiers (no CDR type has them), CDR fields the CHF
never fills in, 64-bit integers beyond 32 bits.

## 3. What is checked

Twelve runs. "Holds": TLC has seen every reachable state of the instance.
"Refuted": the run states what a comment of the source says, and TLC shows a
behaviour of the code that contradicts it. States are distinct states.

| run | states | result | what it shows |
|---|---|---|---|
| `online_books` | 3.81 M | holds | `UsageCharged`, `GrantBacked`, `NoOverdraft` |
| `online_failures` | 705 k | holds | `Conservation`, `PendingInFlight`, `AnswersMatch`, `UsageCharged`, `ImplementsLedger`, `LockReleased` |
| `recharge_lost` | | refuted | `RechargeNotLost` |
| `sessions_failures` | 387 k | holds | `RefusedUncharged`, `RefsUniqueInContext`, `AckedIsOnFile`, `RequestsAnswered` |
| `sessions_split` | 3.27 M | holds | `UsageRecordedOnce`, `RecordsFit`, `UpdateWritesAll`, `BillingKeeps` |
| `refs_race` | | refuted | `UniqueRefs` |
| `cgf_shared` | 1.32 M | holds | `SentFilesArrive`, `TransfersKeepConn`, `LiveConnKept`, `CutOnlyAfterGrace`, `SendEnds` |
| `lifecycle` | 22 k | holds | `ExitsClean`, `ServesAsTold`, `StaysDeregistered`, `ReregistersWhenForgotten`, `ShutdownEnds` |
| `exit_hangs` | | refuted | `ShutdownCompletes` |
| `late_put` | | refuted | `NothingLandsAfterDeregistration` |
| `codec` | 2.7 k | holds | `RecordsCanBeEncoded`, `LengthsAreTrue`, `FilesReadBack`, `CdrsSayWhatWasReported` |
| `time_zone` | | refuted | `OpeningTimesAreBcd` |

### Bounds, and why they are enough

* `online_books`: one group (tariff 2, so that nothing equals the fallback unit
  cost of 1; balance 7, so that the third usage exhausts it and a refund, a
  settlement and an exactly used-up reservation all occur), three usages out of
  four kinds (first request, report that fits or overruns, nothing requested,
  last), in one request or several, a timeout of each server, one recharge of
  5, one crash.
* `online_failures`: two groups with different tariffs and balances, dial
  failures and MongoDB failures of both servers, two usages, in one request (so
  that a panic or a crash cuts the second off) or in two, one recharge, one
  crash, and two account timeouts: the least in which an answer is taken for
  another group's and two abandoned exchanges compete, and enough for every
  account request to go unanswered. `U32` is 5 and one usage costs 6, so that
  a price and a used quota wrap.
* `recharge_lost`: no failure and no timeout is needed.
* `sessions_failures`: two handlers, three requests, one subscriber: the third
  request finds what two concurrent ones left behind. Two consumers, one of
  whose names is the other's with a digit after it. Every failure, one crash.
* `sessions_split`: one handler and five requests; reports of 1 and 3 octets
  into records that have room for 2, so that a record is left short, exactly
  filled, and overrun, by two reports or by one alone; partial records, whose
  number takes an octet more, and releases in between; files that
  cannot be written or only in part. One handler
  suffices since `CULock` puts the requests of a context in sequence.
* `refs_race`: two handlers, two requests.
* `cgf_shared`: two subscribers, whose SendCDRs meet each other, the login of
  the start and Terminate; two requests, so that one finds what another, or
  itself, left of the connection; one outage, before, under or after any call;
  any login and any transfer may fail without one; two logins of Serve instead
  of three (`FTP_LOGIN_RETRY_NUMBER` is 3 in the code): one that is followed by
  another and one that is the last. TLC also finds `LiveConnKept` to depend on
  the NoOp in Login, and `TransfersKeepConn` on `connMutex`: their mutants
  leave these out.
* `lifecycle`, `exit_hangs`, `late_put`: all three servers; no bound, the
  states are finite. `lifecycle` lets servers fail to open, the SBI fail to
  listen, the NRF fail and tokens be refused.
* `codec`: up to two records with up to one added report, three requests that
  between them fill every CDR field, and numbers and lengths on both sides of
  127/128, 255/256, 32767/32768, 65535/65536, 2^31-1; three foreign file
  headers with and without release extensions; a zone of +08:00. Not in the run:
  CDRs of 65536 octets and more, for which there is no length field, negative
  volumes and addresses of the lengths listed under 4, which are not read back.
  `time_zone`: UTC and +05:30.

Deadlock is checked, except in `lifecycle` and `exit_hangs`, where a process
that waits for ever is the subject, and in the codec runs, whose behaviours
end when their bounds are used up. (The other models have a step that
stutters when the bounds are used up and nothing is under way.)

### Fairness

* `OnlineCharging!FairSpec`: weak fairness of the processor alone. Its
  goroutine is scheduled and its 5 s timers fire. Nothing is assumed of the
  account server, the operator or the SMF: `LockReleased` rests on the timers.
* `ChargingSessions!FairSpec`: weak fairness of each handler's work, where
  "charging comes to an end" is `LockReleased` above; strong fairness of
  taking `CULock`, since a Go `sync.Mutex` in starvation mode hands over to the
  longest waiter, so no waiter is overtaken for ever.
* `Cgf!FairSpec`: weak fairness of the program as a whole: some goroutine that
  can go on does, which includes that a call of the FTP library ends in some
  way and that the two seconds of Stop pass. That is enough, since requests are
  bounded: `SendEnds` does not rest on which goroutine gets `connMutex`.
  Nothing is assumed of the consumers, of outages or of a shutdown.
* `Lifecycle!FairSpec`: weak fairness of each goroutine; the SBI server returns
  once it is being stopped (`Shutdown` with a timeout), not otherwise. The NRF
  answers each request in some way, or refuses it (weak), and does not fail for
  ever (strong): without that a registration is retried for ever, as it should
  be.

`ShutdownEnds` does not lean on the last assumption: a cancelled caller gives
up without an answer, but the deregistration, which uses a context of its own,
needs one of any kind.

### Findings

1. **A recharge can be lost** (`recharge_lost`). `NotifyRecharge`
   (`converged_charging.go:48-49`) means to take an exhausted group back to
   reserve mode, without `CULock`. Between the account server's TERMINATE and
   line 652 the processor has yet to set debit mode: the notification comes
   first, is overwritten, and the recharged group stays in debit mode.
2. **Charging references are not unique** (`refs_race`). Two creates meet on a
   subscriber's first contact (`context.go:73-81`), make two contexts, lock
   each its own, and read the same number at `converged_charging.go:188`.
3. **A failed start hangs the shutdown** (`exit_hangs`). `abmf.go:50`,
   `rating.go:50` and the CGF return early without the `Done` that `init.go`
   counted on.
4. **A PUT or PATCH can land after the deregistration** (`late_put`).
   `init.go:225` says none may; waiting for the heartbeat goroutine does not
   wait for the request it gave up.
5. **Opening times are wrong in zones that are not of whole hours**
   (`time_zone`). `sbiToCdr.go:93` makes the minutes out of seconds; zones west
   of UTC give negative remainders as well.

Met while modelling and stated by no document, hence no finding; the
incidents the properties name include those that concern charging:

* A last usage sets debit mode (line 578), and only a refund takes it back: a
  price that reaches its reservation leaves the group in debit mode although
  its account may hold money. A `NotifyRecharge` in between makes the same
  usage be passed over instead (`SkipGranting`).
* A panic on a refund's or a settlement's late answer (line 642), like the end
  of the process, leaves every usage its request had not come to uncharged.
* A session's reference is three strings put together (line 188): "smf" and 12
  is "smf1" and 2, and the later session takes the earlier one's place.
* Nothing bounds a report: one that alone outgrows a CDR is written, by a create
  or after a split, into a CDR whose length field cannot hold its length.
* A release is charged before its session is looked up; released sessions are
  never removed and take further updates; a release does not upload.
* A create never writes the CDR file, so it uploads that of the request before.
* `RecordSequenceNumber` is always 1: `cdr.go:47` reads a map nothing writes.
* A startup PUT given up at shutdown can land after the DELETE, and nothing
  waits for it (`StaysDeregistered` allows it).
* `parseInt64` does not extend the sign (`ber_unmarshal.go:65-77`); a SEQUENCE
  OF CHOICE in a tagged field cannot be decoded, since the elements are parsed
  with the tag of the whole (`:300`); the contents of a CHOICE in a tagged
  field are looked for behind as many octets as its own tag and length take,
  where those of the field are meant (`:182-189`), so that an address of 126,
  127 or 253 to 255 octets is lost; bit strings of whole octets announce 8
  unused bits (`ber_marshal.go:167`); the extension of a low release identifier
  is read at the wrong place when there is none of the high one
  (`cdrFile.go:502`). The CHF's own CDRs meet two of these if a request brings
  it to: with a negative volume, or with an address of such a length, be it a
  domain name.
* `rf/rating.go:85` looks at another `err` than the listener's; a unit cost of
  0 divides by zero (`rf/rating.go:211`), and a `unitCost` that is not a number
  is one of 0; `buildTaffif` reads "1.5" as 15 times 10
  (`rf/rating.go:109-124`).
* `cgf.go:213` returns a nil `err` for a failed or refused transfer; Login
  never closes the connection it replaces (`cgf.go:173`); files are written to
  and sent from `/tmp`, while Terminate looks for them at the configured
  `CdrFilePath` (`cgf.go:297-303`), so that with another path there it removes
  none.
* `internal/abmf/abmf.go:56` checks `err` where it means `errMarshal`.
* What is reserved when the process ends is not given back by anything: see
  `Crash` and `lost`. The quota in MongoDB is that much short.

## 4. What is proved

Every safety property that a passing run checks is a theorem of its
specification, invariant or action property, and so is the refinement of
`Ledger`: 22 invariants, the types among them, and 6 properties of steps. They
hold for all sets of rating groups, tariffs, balances, usages, handlers,
subscribers, consumers and their names, report and record sizes, servers,
failures and bounds, and, in the codec, for all requests, usages, file headers
and numbers of records, under two hypotheses that the theorems state.

| module | theorem | statement |
|---|---|---|
| `OnlineChargingProofs` | `TypeCorrect` | `Spec => []TypeOK` |
| | `MoneyConserved` | `Spec => []Conservation` |
| | `AnswersBelong` | `Spec => []AnswersMatch` |
| | `OverdraftBySettlementOnly` | `Spec => NoOverdraft` |
| | `LedgerImplemented` | `Spec => ImplementsLedger` |
| | `UsageIsCharged` | `Spec => []UsageCharged` |
| | `GrantsAreBacked` | `Spec => []GrantBacked` |
| | `PendingIsInFlight` | `Spec => []PendingInFlight` |
| `ChargingSessionsProofs` | `TypeCorrect` | `Spec => []TypeOK` |
| `ChargingSessionsUsageProofs` | `RecordedAtMostOnce` | `Spec => []UsageRecordedOnce` |
| | `RefusedIsFree` | `Spec => []RefusedUncharged` |
| | `RefsAreUnique` | `Spec => []RefsUniqueInContext` |
| | `CdrsFit` | `Spec => []RecordsFit` |
| `ChargingSessionsFileProofs` | `AckedIsFiled` | `Spec => AckedIsOnFile` |
| | `UpdatesWriteAll` | `Spec => UpdateWritesAll` |
| | `BillingKeepsReports` | `Spec => BillingKeeps` |
| `CgfProofs` | `TypeCorrect` | `Spec => []TypeOK` |
| | `FilesArrive` | `Spec => []SentFilesArrive` |
| | `ConnKeptInTransfer` | `Spec => []TransfersKeepConn` |
| | `CutAfterGrace` | `Spec => []CutOnlyAfterGrace` |
| | `GoodConnKept` | `Spec => LiveConnKept` |
| `LifecycleProofs` | `TypeCorrect` | `Spec => []TypeOK` |
| | `CleanExit` | `Spec => []ExitsClean` |
| | `ServedAsTold` | `Spec => []ServesAsTold` |
| | `DeregistrationLasts` | `Spec => StaysDeregistered` |
| `CdrCodecProofs` | `EveryRecordCanBeEncoded` | `Spec => []RecordsCanBeEncoded` |
| | `EveryLengthIsTrue` | `Spec => [](CdrsFit => LengthsAreTrue)` |
| | `EveryFileReadsBack` | `Spec => [](CdrsFit => FilesReadBack)` |
| | `EveryCdrSaysWhatWasReported` | `ReadableInputs => (Spec => [](CdrsFit => CdrsSayWhatWasReported))` |
| | `FileReadBack` | a file with true headers decodes to what was encoded |
| | `RecordReadsBack` | the record of a report decodes to what was encoded |

Beside them `Invariance`, `UsageInvariance`, `FileInvariance` and `FileRecorded`
state the inductive invariants. TLC has checked these too, on the instances of
`online_failures` (with numbers up to 9 for the multiple in `Settled`),
`sessions_failures`, `sessions_split`, `cgf_shared` and `lifecycle`.

**Assumptions.** Each is named in the module of its constants, and TLC
evaluates it on every run of that module:

* `U32Assumption` (a positive modulus), `TariffAssumption` (no tariff is 0,
  which would make RF divide by zero), `UsagesAssumption` (the usages are of
  their type), `MoneyAssumption` (no account starts in debt, a recharge pays
  something in);
* `NamesAssumption` (names are of letters and digits, and numbers are written to
  a base of 2 or more), `SizesAssumption` (sizes are numbers; any numbers),
  `HandlersAssumption` (the names of handlers are not those of other parties;
  in `Cgf` there are finitely many, whose places in the code are counted),
  `RetryAssumption` (Serve tries at least once), `ServersAssumption`
  (the servers are the three there are);
* `RequestsAssumption`, `FileHeadersAssumption` (requests, usages and the
  headers of other makers' files are of their types);
* `BoundsAssumption` (the bounds are numbers; any numbers, so that no theorem
  rests on their being small).

There is a lemma for each action, with a step for each conjunct it disturbs;
one lemma (`NextIInv` and its like) puts them together.

### OnlineCharging: money

`Conservation` is not inductive. When a debit is acknowledged
(`ReceiveSettlement`) the code clears the reservation and the price is spent.
That balances only if the price equals the reservation plus what the exchange
has moved, and if the answer is this request's. So

    IInv == TypeOK /\ UsageAtHand /\ OwnExchange /\ FreeSlots /\ CrossedLate /\ Conservation

* `OwnExchange`: slot 0 is the exchange of the running request, of the group
  and kind its position expects, and `price = reserved + Moved` for a debit.
* `FreeSlots`: slots above the number of timeouts are empty, so that an
  abandoned exchange never overwrites another.
* `CrossedLate`: an answer is crossed only after a timeout.
* `UsageAtHand`: a request that works has a usage, and one that is granted
  units asked for some.

`AnswersBelong` follows from `OwnExchange`, `FreeSlots` and `CrossedLate`.
`OverdraftBySettlementOnly` needs that no other step lowers `balance`: a
reservation takes at most what it has seen, which, unless a quota was
falsified, is what is there.

**The refinement.** Each step either leaves the ledger's variables alone
(`LedgerStutters`), or is one of its movements (a charge is `Spend`, a write
of the account server `Hold`, `Refund` or `Overdraw`, a recharge `Fund`, a
restart `Forget`), or is
the first crossed answer or falsified quota, which is `Distrust`. After that
`MishapsStay` keeps it distrusted, and `Distrust` allows every further step.
The mapping is right because `pending` covers the time between the account
server's write and the processor's receipt: a receipt moves money from
`pending` to `reserved` and stutters; one that ends a debit spends.

### OnlineCharging: usage

* `UsageCharged` looks at the books between two usages only. `BooksAgree`
  extends it to every position: what a group owes is what is `Accounted` for,
  spent, given up, due of the usage at hand (`Due`) or in the rest of the report
  (`CostOf`), and a multiple of 2^32 for what has wrapped so far, which is 0
  under `NoWrap`. `RatedByTariff` is the same for the unit cost and price at
  hand. `CostOf` is a sum over a list of any length; that taking up its head
  takes its cost out of the sum is `CostOfTaken`.
* `GrantBacked` needs what a grant finds: the reservation asked for the rest
  (`AsksTheRest`), and whoever comes to `allow` holds something
  (`HoldsTheRest`). The proof failed at first where the price of the request
  wraps to 0: nothing is reserved then, and a rating answer that was for
  another request grants units all the same. The code does that, so the
  property names the case.
* `PendingInFlight` is a sum over all slots, of any number. Induction needs no
  operator parameter: `WFMin` gives every nonempty set of numbers a least
  element (`LeastOf`), hence a smallest set for which a statement about finite
  sets fails. With it `SumFunction` of the community modules is shown to be
  what it says: it exists (`SumsExist`), is one (`SumsAgree`), and changes
  with one of its numbers (`SumChange`, `SumHandedOver`). The steps are then
  about one slot (`FlightChanges`) or about slot 0 and the one that takes its
  place (`FlightHandedOver`: late answers and timeouts).

### ChargingSessions

Three layers, each inductive on the one below.

1. `IInv`, control. `Placed`: a request is where its kind takes it, with the
   context and the session it needs there. `Locked`: `CULock` is held by the
   one request that works under it. `Numbered`: each request has a report of
   its own. `CurrentListed`: the record a session goes on in is listed.
   `ContextsCounted`: no more contexts than requests that made them, which
   bounds the contexts and is the one place that counts a set.
2. `UsageInv`. `UsageRecordedOnce` is about finished requests; `ChargedOnce`
   and `RecordedOnce` say at each position how often the report has been
   charged and that it stands in one place of one record, across splits,
   reopened records and releases. `RefusedClean` and `Unrefused` do it for
   refusals. `OneContext`, `NumbersDiffer`, `RefsGrow`: as long as a subscriber
   has one context, a number chosen under its lock is above all that were given
   out in the same life of the CHF. From numbers to texts it takes arithmetic:
   `ItoaInjective` (numbers with the same digits are one; the digits are those
   of `Ber`, whose recursion `BerProofs` resolves) and `TextsDiffer` (two texts
   are the same only if the numbers are or one name runs into the other).
   `RecordsBounded`: what `RecordsFit` says of files, of the records too, where
   a split leaves the new record with one report (`FreshBounded`).
3. `FileInv`. An acknowledged report is on file because it stands in a record
   (`OnRecord`) that its context lists (`ListedAll`, `PoolInjective`), and the
   dump writes the whole list (`FileComplete`). What an upload replaces is the
   other direction: files say nothing that no record says (`FilesRecorded`),
   and a file of more than one CDR is ahead of the billing domain
   (`FileAhead`). `BillingKeeps` then names the one case that is left: a file
   of a single CDR, or one that a failed write left, sent by a create or a
   one-time event.

`AckedIsOnFile` was first stated for any number of contexts. The proof showed
that it does not hold when two creates made two contexts (finding 2): each
writes its own list to the same file, and the later write takes the other's
reports away. The property now says so.

Two statements became weaker when what they left out was modelled. References
were once triples, unique without more; as texts they are so up to names that
run into one another. Sizes were once bounded so that one report fits a record;
without that `RecordsFit` speaks of CDRs with the reports of several requests.

### Cgf and Lifecycle

* `Cgf`: `SentFilesArrive` rests on who may touch a connection. `Holders`: who
  logs in or sends has `connMutex`. `CallsUnderway`: a call is on a connection,
  and under the mutex on the current one. `OneLive`: no other is in good order.
  `LossNoticed`: a transfer over a lost one is known as disturbed. What remains
  are the three exceptions that the property names. `DrainedFirst`: a drained
  server has no busy handler, so that only the end of the grace period cuts one
  off.
* `Lifecycle`: `Counted` gives the WaitGroup its meaning, the number of
  watchers, listener, heartbeat and SBI goroutines that run. `ExitsClean` is
  that number at 0, with `OwnRequests` (each goroutine's request is the one it
  waits for). `HeartbeatOver` says that the heartbeat asks for nothing when the
  deregistration is sent, which gives `StaysDeregistered`; `Told` is
  `ServesAsTold` at every position of main.

### The codec

* **Recursion.** The codec recurses over descriptions of types and over octets
  (`Digits`, `Base128`, `Elements`). Types are taken level by level. For
  functions over octets `RecursionExists` and `RecursionsAgree` show, by the
  least number for which they would fail, that a recursive equation has one
  solution; the definitions are then the equations.
* **Encoding.** `EncodedAll`: a value that is of its type (`Value`, seven
  levels) is encoded without error or panic, to octets. `RecordsCanBeEncoded`
  follows, since every record made of requests is such a value (`AreRecords`).
* **Files.** `FileReadBack`: what the headers say they have is found where they
  say it is. It needs headers that tell the truth (`TrueFile`), which
  `FileRecorded` gives for every file written, with one hypothesis, `CdrsFit`:
  the file counts its octets in 32 bits, each CDR in 16. `dumpCdrFile` does not
  look, and a CDR of 65536 octets or more does get a wrong length (`RecordsFit`
  is about when that can be). Files with an extension of the low release
  identifier alone are left out, as in `FilesReadBack`: they are misread.
* **Decoding.** `Stands(e, number, contents)`: octets that are one element.
  `ElementRead` is one such element at the head of others, `ElementsReadBack`
  any number of them, `FieldFound` and `PlacesFound` a member of a structure by
  its tag. `ReadsBack(value, type, params)` is the round trip, proved by level
  (`Restored1` to `Restored7`) from the members' round trips for structures,
  sequences and choices. Each CDR type the CHF fills in has its lemma, up to
  `RecordReadsBack`.
* **What was reported.** `AllSaid` is inductive: each record is that of what was
  reported of it (`RecordOf`), across OpenCDR, UpdateCDR and CloseCDR, and each
  CDR of the file is the encoding of one. With `FilesReadBack` and
  `RecordReadsBack`, what a reader finds is what was reported; BCD and the
  nibbles of a PLMN have lemmas of their own (`BcdReadBack`, `PlmnReadBack`).
* **Hypothesis.** `ReadableInputs` says what requests report that can be read:
  numbers that are not negative, addresses that are not of the lengths 126, 127
  and 253 to 255, times in zones of whole hours east of Greenwich. Each is a
  place where the code does lose what was reported (section 3), and the run
  `codec` satisfies it.

### Only model-checked

* Liveness (`LockReleased`, `RequestsAnswered`, `SendEnds`,
  `ReregistersWhenForgotten`, `ShutdownEnds`), which rests on fairness and
  ENABLED and is out of the prover's reach.
* That the codec's operators are those of the code in the cases of
  `ber_test.go`: `BerTests`, an assumption that TLC evaluates.
* The five refutations, which are behaviours and need no proof.

## 5. What is not modelled

* Configuration, logging, metrics, utilities: no state the rest depends on.
* Offline charging and spending limits: handlers that answer Not Implemented.
* The HTTP side of the SBI: routing, decoding, the OAuth check of a request.
* Diameter below a request and its answer (dictionary, connections, watchdog),
  malformed AVPs, times of tariff switches; setting up a connection is one
  failure that may happen.
* CDR types the CHF never fills in.
* The FTP server the CHF itself opens on its files: a library that nothing else
  in the CHF talks to (`SendCDR` dials the billing domain's).
* NRF discovery, which charging does not use.
* A subscriber with two contexts in online charging (section 2), and a profile
  of the CHF that cannot be built.

Two hazards are listed in `PROJECT.json` without a property, with the reason:
an FTP server that hangs (`cgf.go:211`), about which the code promises nothing,
and the Diameter connections that every request opens and none closes
(`internal/abmf/abmf.go:27`), whose number nothing bounds.

## 6. How it was built, and what could follow

The order was: what charging does to money (`Rating`, `Ledger`,
`OnlineCharging`, its proofs), then what sessions do to CDRs
(`ChargingSessions`), the process around them (`Lifecycle`), the codec, and
the CGF with what a shutdown does to requests in progress (`Cgf`); then files
and uploads that fail halfway, prices that wrap, and a restart in the middle of
charging; then the proofs of every safety property of the four state machines,
and of the codec; last the whole of a request's report in the books, references
as the texts they are, reports of any size, and a billing domain that refuses.
What could follow:

1. An abstract specification of the CDR file of a subscriber (a set of reports
   that an acknowledged update makes complete), with `ChargingSessions` shown
   to implement it; `UpdateWritesAll` and `BillingKeeps` are its steps.
2. Two contexts of one subscriber in `OnlineCharging`.
3. Reopened records, with their RecordSequenceNumber, in `CdrCodec`.

## 7. Running it

    tlc -workers 2 -config OnlineCharging_books.cfg MCOnlineCharging
    tlapm OnlineChargingProofs.tla

and so for the other `...Proofs` modules (`CdrCodecProofs` and `BerProofs` take
several minutes each), after which `tlapm` has a
`...Proofs.tlaps` directory of what it has proved. Each `X_y.cfg` belongs to
`MCX`. The five refuted properties print the behaviour that refutes them.
