\* One handler and a longer sequence of requests, in which records are split,
\* reopened and released: two reports of 1 fill a record, one of 3 outgrows it
\* by itself.  The disk may fail.
CONSTANTS
    Handlers = {h1}
    imsi1 = imsi1
    smf = smf
    Letters <- McLetters
    Base = 10
    Supis <- McSupis
    Consumers <- OneConsumer
    ReportSizes = {1, 3}
    BaseSize = 2
    NumberSize = 1
    MaxSize = 4
    Failures = {"disk"}
    MaxRequests = 5
    MaxCrashes = 0
SPECIFICATION Spec
INVARIANT UsageRecordedOnce
INVARIANT RecordsFit
PROPERTY UpdateWritesAll
PROPERTY BillingKeeps
