SPECIFICATION FairSpec
CONSTANTS
    Handlers <- TwoHandlers
    FTP_LOGIN_RETRY_NUMBER = 2
    MaxRequests = 2
    MaxOutages = 1
INVARIANTS
    TypeOK
    SentFilesArrive
    TransfersKeepConn
    CutOnlyAfterGrace
PROPERTIES
    LiveConnKept
    SendEnds
