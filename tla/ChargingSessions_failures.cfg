\* Two handlers and one subscriber, every failure and a crash of the CHF.
CONSTANTS
    Handlers = {h1, h2}
    imsi1 = imsi1
    smf = smf
    Letters <- McLetters
    Base = 2
    Supis <- McSupis
    Consumers <- TwoConsumers
    ReportSizes = {1}
    BaseSize = 2
    NumberSize = 1
    MaxSize = 3
    Failures = {"open", "panic", "disk", "cgf"}
    MaxRequests = 3
    MaxCrashes = 1
SPECIFICATION FairSpec
INVARIANT TypeOK
INVARIANT RefusedUncharged
INVARIANT RefsUniqueInContext
PROPERTY AckedIsOnFile
PROPERTY RequestsAnswered
