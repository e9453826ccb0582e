-------------------------------- MODULE Cgf --------------------------------
(***************************************************************************)
(* The charging gateway function, internal/cgf: the one FTP connection to  *)
(* the billing domain that all handlers share, its mutex, the login at the *)
(* start, and the shutdown that closes the connection and removes the CDR  *)
(* files while the SBI server drains its requests (internal/sbi/server.go, *)
(* pkg/service/init.go).                                                   *)
(*                                                                         *)
(* A handler stands for one subscriber, whose CULock keeps its requests in *)
(* sequence.  The FTP library is not safe for concurrent calls on one      *)
(* connection; what two such calls do to each other is any outcome.  A     *)
(* call is under way from one action to another, so that calls overlap.    *)
(* Any login may fail, for as long as the server is down or refuses the    *)
(* CHF, but no call is kept waiting for ever.                              *)
(***************************************************************************)
EXTENDS Integers, FiniteSets

CONSTANTS
    Handlers,       \* subscribers, each with the handler that serves it
    FTP_LOGIN_RETRY_NUMBER, \* logins Serve tries at the start: 3 in the code
    MaxRequests,    \* bound: charging requests
    MaxOutages      \* bound: outages that cost the connections made so far

ASSUME HandlersAssumption == IsFiniteSet(Handlers) /\ Handlers \cap {"serve", "terminate", "free"} = {}
ASSUME RetryAssumption == FTP_LOGIN_RETRY_NUMBER \in Nat \ {0}
ASSUME BoundsAssumption == MaxRequests \in Nat /\ MaxOutages \in Nat

VARIABLES
    \* the gateway
    conn,           \* cgf.conn, or NoConn
    mutex,          \* connMutex: its holder, or Free
    at,             \* where each goroutine is: see Places
    then,           \* where a login that succeeds leads
    using,          \* the connection of the call under way
    tries,          \* logins that Serve has left
    \* the SBI server and the process
    sbi,            \* the SBI server: see TypeOK
    exited,         \* the process is gone
    sends,          \* the request a handler serves, or has served last, sends a CDR
    onDisk,         \* subscribers that have a CDR file
    version,        \* of each subscriber, the CDR file last written
    \* the billing domain
    link,           \* the state of each connection made to it
    stored,         \* of each subscriber, the CDR file it has
    nRequests, nOutages,
    \* history, read by no action
    fate            \* of each subscriber's last SendCDR: see Fates

gateway == <<conn, mutex, at, then, using, tries>>
process == <<sbi, exited, sends, onDisk, version>>
billing == <<link, stored>>
bounds == <<nRequests, nOutages>>
vars == <<gateway, process, billing, bounds, fate>>

Callers == Handlers \cup {"serve", "terminate"}
Conns == 1 .. Cardinality(Callers) + 1
NoConn == 0
Free == "free"
Torn == -1              \* a transfer broke off: the billing domain lacks the file

Places == {"idle", "work", "relogged", "ping", "login", "noop", "dial", "lock", "stor",
           "listen", "waiting", "quit", "remove", "done"}

(***************************************************************************)
(* What may have become of a SendCDR.                                      *)
(*   fine       nothing that would keep the file from being sent           *)
(*   failed     it returned an error, which its caller logs                *)
(*   disturbed  its connection was lost under the transfer, or shared with *)
(*              another call                                               *)
(*   refused    the server would not have all of the file, though the      *)
(*              connection was good: it returned nil, and nobody knows     *)
(***************************************************************************)
Fates == {"fine", "failed", "disturbed", "refused"}

Init ==
    /\ conn = NoConn
    /\ mutex = Free
    /\ at = [p \in Callers |-> CASE p = "serve" -> "login"
                                 [] p = "terminate" -> "waiting"
                                 [] OTHER -> "idle"]
    /\ then = [p \in Callers |-> "listen"]
    /\ using = [p \in Callers |-> NoConn]
    /\ tries = FTP_LOGIN_RETRY_NUMBER
    /\ sbi = "serving"
    /\ exited = FALSE
    /\ sends = [h \in Handlers |-> FALSE]
    /\ onDisk = {}
    /\ version = [h \in Handlers |-> 0]
    /\ link = [c \in Conns |-> "closed"]
    /\ stored = [h \in Handlers |-> 0]
    /\ nRequests = 0
    /\ nOutages = 0
    /\ fate = [h \in Handlers |-> "fine"]

Goto(p, place) == at' = [at EXCEPT ![p] = place]

-----------------------------------------------------------------------------
(* Calls of the FTP library. *)

\* p starts a call on the current connection.  If another call is under way
\* on it the two share it, and it may be out of step from then on.
Call(p, place) ==
    /\ Goto(p, place)
    /\ using' = [using EXCEPT ![p] = conn]
    /\ link' = [link EXCEPT ![conn] =
                  IF @ = "open" /\ \E q \in Callers \ {p} : using[q] = conn
                  THEN "shared" ELSE @]

\* A call ends.  A connection that nobody can use any more counts as closed.
Disconnect(p) ==
    /\ using' = [using EXCEPT ![p] = NoConn]
    /\ link' = [c \in Conns |-> IF c # conn /\ \A q \in Callers \ {p} : using[q] # c
                              THEN "closed" ELSE link[c]]

\* The end of a call of SendCDR.
Return(p) ==
    /\ Disconnect(p)
    /\ fate' = IF p \in Handlers /\ link[using[p]] = "shared"
               THEN [fate EXCEPT ![p] = "disturbed"] ELSE fate

Works(p) == link[using[p]] \in {"open", "shared"}
Breaks(p) == link[using[p]] \in {"closed", "shared"}

\* Connections are lost.  A handler that pinged its connection, or is sending
\* over it, does not look again.
Lose(conns) ==
    /\ link' = [c \in Conns |-> IF c \in conns THEN "closed" ELSE link[c]]
    /\ fate' = [h \in Handlers |->
                  IF \/ at[h] = "lock" /\ conn \in conns
                     \/ at[h] = "stor" /\ using[h] \in conns
                  THEN "disturbed" ELSE fate[h]]

\* The billing domain's FTP server, or the way to it, fails.
Outage ==
    /\ \E c \in Conns : link[c] # "closed"
    /\ nOutages < MaxOutages
    /\ nOutages' = nOutages + 1
    /\ Lose(Conns)
    /\ UNCHANGED <<gateway, process, stored, nRequests>>

-----------------------------------------------------------------------------
(* Login: by a handler, or by Serve. *)

\* p is through with its login, and with connMutex.
LeaveLogin(p, place) ==
    /\ mutex' = Free
    /\ tries' = IF place = "listen" THEN 0 ELSE tries
    /\ Goto(p, place)
    /\ then' = [then EXCEPT ![p] = "listen"]

\* Fault: a connection that was made once is taken for one that works.
EnterLoginUnasked(p) ==
    /\ at[p] = "login"
    /\ mutex = Free
    /\ \/ conn = NoConn /\ mutex' = p /\ Goto(p, "dial") /\ UNCHANGED <<then, tries>>
       \/ conn # NoConn /\ LeaveLogin(p, then[p])
    /\ UNCHANGED <<conn, using, process, billing, bounds, fate>>

\* Fault: a login does not ask whether another one has come before it.
EnterLoginAnew(p) ==
    /\ at[p] = "login"
    /\ mutex = Free
    /\ mutex' = p
    /\ Goto(p, "dial")
    /\ UNCHANGED <<conn, then, using, tries, process, billing, bounds, fate>>

EnterLogin(p) ==
    /\ at[p] = "login"
    /\ mutex = Free
    /\ mutex' = p
    /\ \/ conn = NoConn /\ Goto(p, "dial") /\ UNCHANGED <<using, link>>
       \/ conn # NoConn /\ Call(p, "noop")
    /\ UNCHANGED <<conn, then, tries, process, stored, bounds, fate>>

NoOpEnds(p) ==
    /\ at[p] = "noop"
    /\ Return(p)
    /\ \/ Works(p) /\ LeaveLogin(p, then[p])
       \/ Breaks(p) /\ Goto(p, "dial") /\ UNCHANGED <<mutex, then, tries>>
    /\ UNCHANGED <<conn, process, stored, bounds>>

\* The old connection, if there is one, is not closed but forgotten.
Dial(p) ==
    /\ at[p] = "dial"
    /\ LET new == CHOOSE c \in Conns : c # conn /\ \A q \in Callers : using[q] # c IN
       /\ conn' = new
       /\ link' = [c \in Conns |-> IF c = new THEN "open"
                                  ELSE IF \A q \in Callers : using[q] # c THEN "closed"
                                  ELSE link[c]]
    /\ LeaveLogin(p, then[p])
    /\ UNCHANGED <<using, process, stored, bounds, fate>>

\* Fault: connMutex is let go of after a login only if it succeeded.
DialFailsLocked(p) ==
    /\ at[p] = "dial"
    /\ p \in Handlers
    /\ Goto(p, "idle")
    /\ fate' = [fate EXCEPT ![p] = "failed"]
    /\ UNCHANGED <<conn, mutex, then, using, tries, process, billing, bounds>>

\* Fault: Serve tries to log in for ever.
DialFailsForever(p) ==
    /\ at[p] = "dial"
    /\ p = "serve"
    /\ mutex' = Free
    /\ tries' = tries - 1
    /\ Goto(p, "login")
    /\ UNCHANGED <<conn, then, using, process, billing, bounds, fate>>

\* The server cannot be reached, or will not have the user or its password.
\* SendCDR returns the error; Serve waits a second and tries again, or goes on
\* to serve without a connection.
DialFails(p) ==
    /\ at[p] = "dial"
    /\ \/ /\ p \in Handlers
          /\ LeaveLogin(p, "idle")
          /\ fate' = [fate EXCEPT ![p] = "failed"]
       \/ /\ p = "serve"
          /\ \/ tries = 1 /\ LeaveLogin(p, "listen")
             \/ tries > 1 /\ mutex' = Free /\ tries' = tries - 1 /\ Goto(p, "login")
                          /\ UNCHANGED then
          /\ UNCHANGED fate
    /\ UNCHANGED <<conn, using, process, billing, bounds>>

-----------------------------------------------------------------------------
(* Charging requests, and the SendCDR of those that send. *)

\* Without connMutex: cgf.conn is looked at, and pinged.
CheckConn(h) ==
    \/ /\ conn = NoConn
       /\ Goto(h, "login")
       /\ then' = [then EXCEPT ![h] = "relogged"]
       /\ UNCHANGED <<using, link>>
    \/ conn # NoConn /\ Call(h, "ping") /\ UNCHANGED then

Begin(h, sending) ==
    /\ sbi \in {"serving", "cancelled"}
    /\ at[h] = "idle"
    /\ nRequests < MaxRequests
    /\ nRequests' = nRequests + 1
    /\ sends' = [sends EXCEPT ![h] = sending]
    /\ fate' = [fate EXCEPT ![h] = "fine"]
    /\ UNCHANGED <<conn, mutex, tries, sbi, exited, onDisk, version, stored, nOutages>>

\* A create sends the file as it is.
BeginCreate(h) == Begin(h, TRUE) /\ CheckConn(h)

\* An update, or a release, is charged first, which takes its time.
BeginCharging(h) ==
    /\ \E sending \in BOOLEAN : Begin(h, sending)
    /\ Goto(h, "work")
    /\ UNCHANGED <<then, using, link>>

\* The CDR file is written, and an update sends it.
DumpCdrFile(h) ==
    /\ at[h] = "work"
    /\ version' = [version EXCEPT ![h] = @ + 1]
    /\ onDisk' = onDisk \cup {h}
    /\ \/ sends[h] /\ CheckConn(h)
       \/ ~sends[h] /\ Goto(h, "idle") /\ UNCHANGED <<then, using, link>>
    /\ UNCHANGED <<conn, mutex, tries, sbi, exited, sends, stored, bounds, fate>>

\* After the login that a missing connection asked for.
PingNew(h) ==
    /\ at[h] = "relogged"
    /\ Call(h, "ping")
    /\ UNCHANGED <<conn, mutex, then, tries, process, stored, bounds, fate>>

PingEnds(h) ==
    /\ at[h] = "ping"
    /\ Return(h)
    /\ \/ Works(h) /\ Goto(h, "lock") /\ UNCHANGED then
       \/ /\ Breaks(h)
          /\ Goto(h, "login")
          /\ then' = [then EXCEPT ![h] = "lock"]
    /\ UNCHANGED <<conn, mutex, tries, process, stored, bounds>>

\* Fault: the file is sent without connMutex.
StartTransferUnlocked(h) ==
    /\ at[h] = "lock"
    /\ h \in onDisk
    /\ Call(h, "stor")
    /\ UNCHANGED <<conn, mutex, then, tries, process, stored, bounds, fate>>

\* connMutex is taken, the file read and its transfer begun.
StartTransfer(h) ==
    /\ at[h] = "lock"
    /\ mutex = Free
    /\ h \in onDisk
    /\ mutex' = h
    /\ Call(h, "stor")
    /\ UNCHANGED <<conn, then, tries, process, stored, bounds, fate>>

\* There is no file: none has been written yet, or Terminate has removed it.
NoFileToSend(h) ==
    /\ at[h] = "lock"
    /\ mutex = Free
    /\ h \notin onDisk
    /\ Goto(h, "idle")
    /\ fate' = [fate EXCEPT ![h] = "failed"]
    /\ UNCHANGED <<conn, mutex, then, using, tries, process, billing, bounds>>

\* The file is there, and SendCDR lists the directory.  A listing that cannot
\* be had is as good as one that shows the file; over a shared connection it
\* may come without it.
Stored(h) ==
    /\ at[h] = "stor"
    /\ Works(h)
    /\ Disconnect(h)
    /\ mutex' = Free
    /\ Goto(h, "idle")
    /\ stored' = [stored EXCEPT ![h] = version[h]]
    /\ \/ fate' = [fate EXCEPT ![h] = "fine"]
       \/ link[using[h]] = "shared" /\ fate' = [fate EXCEPT ![h] = "failed"]
    /\ UNCHANGED <<conn, then, tries, process, bounds>>

\* A Stor that fails.  SendCDR returns err, which is nil here: its caller sees
\* no error.  The billing domain has all of the file, or not (its old one, or a
\* part).
StorFailed(h, outcomes) ==
    /\ mutex' = Free
    /\ Goto(h, "idle")
    /\ \E has \in outcomes : stored' = [stored EXCEPT ![h] = has]
    /\ UNCHANGED <<conn, then, tries, process, bounds>>

\* The connection breaks under the transfer, or is out of step.
StorBreaks(h) ==
    /\ at[h] = "stor"
    /\ Breaks(h)
    /\ Return(h)
    /\ StorFailed(h, {Torn, version[h]})

\* The server refuses the file, runs out of room for it, or the connection for
\* the data fails, while the one for the commands stays as good as it was.
StorRefused(h) ==
    /\ at[h] = "stor"
    /\ link[using[h]] = "open"
    /\ Disconnect(h)
    /\ fate' = [fate EXCEPT ![h] = "refused"]
    /\ StorFailed(h, {Torn})

-----------------------------------------------------------------------------
(* Shutdown.  The context wakes the watcher of the CGF, which terminates it, *)
(* and the listener, which stops the SBI server.                             *)

\* The context is done.
Cancel ==
    /\ sbi = "serving"
    /\ sbi' = "cancelled"
    /\ UNCHANGED <<gateway, exited, sends, onDisk, version, billing, bounds, fate>>

\* The listener calls Stop, and no request comes after.
StopServer ==
    /\ sbi = "cancelled"
    /\ sbi' = "draining"
    /\ UNCHANGED <<gateway, exited, sends, onDisk, version, billing, bounds, fate>>

Busy == {h \in Handlers : at[h] # "idle"}

Drained ==
    /\ sbi = "draining"
    /\ Busy = {}
    /\ sbi' = "drained"
    /\ UNCHANGED <<gateway, exited, sends, onDisk, version, billing, bounds, fate>>

\* The two seconds of Stop are over: requests in progress are left to go on.
GraceOver ==
    /\ sbi = "draining"
    /\ Busy # {}
    /\ sbi' = "abandoned"
    /\ UNCHANGED <<gateway, exited, sends, onDisk, version, billing, bounds, fate>>

\* Without connMutex as well, and without waiting for the listener: the
\* connection may be in use, and requests may still come.
StartQuit ==
    /\ at["terminate"] = "waiting"
    /\ sbi # "serving"
    /\ \/ conn = NoConn /\ Goto("terminate", "remove") /\ UNCHANGED <<using, link>>
       \/ conn # NoConn /\ Call("terminate", "quit")
    /\ UNCHANGED <<conn, mutex, then, tries, process, stored, bounds, fate>>

QuitEnds ==
    /\ at["terminate"] = "quit"
    /\ Goto("terminate", "remove")
    /\ Lose({using["terminate"]})
    /\ using' = [using EXCEPT !["terminate"] = NoConn]
    /\ UNCHANGED <<conn, mutex, then, tries, process, stored, bounds>>

\* The files are found and removed one after the other; each handler knows
\* its own only.  Then the watcher calls wg.Done.
RemoveCdrFiles ==
    /\ at["terminate"] = "remove"
    /\ Goto("terminate", "done")
    /\ onDisk' = {}
    /\ UNCHANGED <<conn, mutex, then, using, tries, sbi, exited, sends, version, billing,
                   bounds, fate>>

\* Fault: the listener is not among those WaitGroup.Wait waits for.
ExitEarly ==
    /\ at["terminate"] = "done"
    /\ exited' = TRUE
    /\ UNCHANGED <<gateway, sbi, sends, onDisk, version, billing, bounds, fate>>

\* WaitGroup.Wait returns, and main does: no handler goes on after that.
Exit ==
    /\ at["terminate"] = "done"
    /\ sbi \in {"drained", "abandoned"}
    /\ exited' = TRUE
    /\ UNCHANGED <<gateway, sbi, sends, onDisk, version, billing, bounds, fate>>

-----------------------------------------------------------------------------

\* What p does on its own, and what it needs connMutex for.
LoginSteps(p) == NoOpEnds(p) \/ Dial(p) \/ DialFails(p)
Send(h) == PingNew(h) \/ PingEnds(h) \/ Stored(h) \/ StorBreaks(h) \/ StorRefused(h)
Proceed(h) == DumpCdrFile(h) \/ Send(h) \/ LoginSteps(h)
TakeMutex(h) == EnterLogin(h) \/ StartTransfer(h) \/ NoFileToSend(h)
Serve == EnterLogin("serve") \/ LoginSteps("serve")
Terminate == StartQuit \/ QuitEnds \/ RemoveCdrFiles
Shutdown == StopServer \/ Drained \/ GraceOver \/ Terminate \/ Exit

Program ==
    \/ \E h \in Handlers : Proceed(h) \/ TakeMutex(h)
    \/ Serve
    \/ Shutdown

Environment ==
    \/ \E h \in Handlers : BeginCreate(h) \/ BeginCharging(h)
    \/ Cancel \/ Outage

Next ==
    \/ ~exited /\ (Program \/ Environment)
    \/ (exited /\ UNCHANGED vars)

Spec == Init /\ [][Next]_vars

\* Some goroutine that can go on does: a call of the FTP library ends, well or
\* badly, and the time of Stop runs out.  That much is enough, since requests
\* are bounded and none waits for another but to send its file.  Nothing is
\* owed by the consumers and the billing domain, and no shutdown need come.
FairSpec == Spec /\ WF_vars(~exited /\ Program)

-----------------------------------------------------------------------------

TypeOK ==
    /\ conn \in Conns \cup {NoConn}
    /\ mutex \in Callers \cup {Free}
    /\ at \in [Callers -> Places]
    /\ then \in [Callers -> {"relogged", "lock", "listen"}]
    /\ using \in [Callers -> Conns \cup {NoConn}]
    /\ tries \in 0 .. FTP_LOGIN_RETRY_NUMBER
    /\ sbi \in {"serving", "cancelled", "draining", "drained", "abandoned"}
    /\ exited \in BOOLEAN
    /\ sends \in [Handlers -> BOOLEAN]
    /\ onDisk \subseteq Handlers
    /\ version \in [Handlers -> Nat]
    /\ link \in [Conns -> {"open", "shared", "closed"}]
    /\ stored \in [Handlers -> Nat \cup {Torn}]
    /\ nRequests \in 0 .. MaxRequests
    /\ nOutages \in 0 .. MaxOutages
    /\ fate \in [Handlers -> Fates]

\* When a create or an update is answered the billing domain has the CDR file
\* as it was last written, whatever outages there were before, with three
\* exceptions: SendCDR has returned an error, which is logged; its connection
\* was lost under the transfer, or shared with another call; the server would
\* not have the file over a good connection.  In the last two SendCDR may have
\* returned nil all the same.  So it stays until the next request, also when
\* Terminate removes the file.
SentFilesArrive ==
    \A h \in Handlers :
        at[h] = "idle" /\ sends[h] =>
            stored[h] = version[h] \/ fate[h] # "fine"

\* The connection is not replaced under a transfer: from the Stor to
\* the List a handler works on cgf.conn, though Login replaces it.
TransfersKeepConn ==
    \A h \in Handlers : at[h] = "stor" => using[h] = conn

\* Logins that meet make one connection: only one that was lost, or shared so
\* that a ping over it failed, is replaced.  (Login closes no old connection,
\* so each replacement of a live one leaves that one open.)
LiveConnKept ==
    [][conn # NoConn /\ link[conn] = "open" => conn' = conn]_vars

\* The process cuts off a request in progress only if it outlasted the time
\* Stop gives it: Terminate, which waits for nobody, does not end it sooner.
CutOnlyAfterGrace == exited /\ Busy # {} => sbi = "abandoned"

\* Every request comes to its end, whatever the billing domain does and
\* whoever holds connMutex, or is cut off by the end of the process.
SendEnds == \A h \in Handlers : []<>(at[h] = "idle" \/ exited)
=============================================================================
