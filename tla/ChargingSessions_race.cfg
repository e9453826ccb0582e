\* Two consumers contact the CHF about one subscriber at the same time.
CONSTANTS
    Handlers = {h1, h2}
    imsi1 = imsi1
    smf = smf
    Letters <- McLetters
    Base = 10
    Supis <- McSupis
    Consumers <- OneConsumer
    ReportSizes = {0}
    BaseSize = 2
    NumberSize = 1
    MaxSize = 3
    Failures = {}
    MaxRequests = 2
    MaxCrashes = 0
SPECIFICATION Spec
INVARIANT UniqueRefs
