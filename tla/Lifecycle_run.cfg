\* Start, service and shutdown with an NRF that fails, forgets and wants tokens
\* or not, an SBI that may be unable to listen and servers that may not open: the
\* process then stays in WaitGroup.Wait, and nothing happens any more.
CONSTANTS
    Servers = {"cgf", "rf", "abmf"}
    Failures = {"open", "listen", "token", "nrf"}
SPECIFICATION FairSpec
INVARIANTS
    TypeOK
    ExitsClean
    ServesAsTold
PROPERTIES
    StaysDeregistered
    ReregistersWhenForgotten
    ShutdownEnds
CHECK_DEADLOCK FALSE
