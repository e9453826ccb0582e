\* A server cannot be opened, for want of its MongoDB.
CONSTANTS
    Servers = {"cgf", "rf", "abmf"}
    Failures = {"open"}
SPECIFICATION FairSpec
PROPERTY ShutdownCompletes
CHECK_DEADLOCK FALSE
