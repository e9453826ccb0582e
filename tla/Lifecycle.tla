------------------------------ MODULE Lifecycle ------------------------------
(***************************************************************************)
(* The CHF process from start to exit: pkg/service/init.go, the SBI server *)
(* of internal/sbi/server.go, the servers opened beside it and their       *)
(* watchers, and the registration, heartbeat and deregistration of         *)
(* internal/sbi/consumer with the NRF.  Four goroutines meet here: the     *)
(* main one, the one that listens for shutdown, the heartbeat and the SBI  *)
(* server's; they share the application's context (cancelled or not), its  *)
(* WaitGroup and the NRF.                                                  *)
(***************************************************************************)
EXTENDS Integers, FiniteSets

CONSTANTS
    Servers,        \* of "cgf", "rf" and "abmf", those that are enabled
    Failures        \* of "open", "listen", "token" and "nrf", what may fail

ASSUME ServersAssumption == Servers \subseteq {"cgf", "rf", "abmf"}

VARIABLES
    cancelled,      \* the application's context is done
    waiting,        \* its WaitGroup: the counter
    mainAt,         \* where the main goroutine is
    listenerAt,     \* where listenShutdownEvent is
    heartbeatAt,    \* where the heartbeat is
    sbi,            \* the SBI server
    watcher,        \* of each server, the goroutine that waits for the shutdown
    OAuth2Required, \* what the CHF has learnt from the NRF
    client,         \* of each caller of the NRF, its request
    abandoned,      \* requests the NRF still has that their caller gave up
    registered,     \* the NRF has the CHF's profile
    nrfOAuth2,      \* the NRF wants access tokens
    deregistered    \* history: a deregistration has landed

chf == <<cancelled, waiting, mainAt, listenerAt, heartbeatAt, sbi, watcher, OAuth2Required>>
nrf == <<registered, nrfOAuth2, deregistered>>
vars == <<chf, client, abandoned, nrf>>

Callers == {"main", "heartbeat", "listener"}
NoRequest == [op |-> "none"]
Request == [op: {"PUT", "PATCH", "DELETE"}, token: BOOLEAN,
            answer: {"none", "ok", "not found", "error"}]

Init ==
    /\ cancelled = FALSE
    /\ waiting = 0
    /\ mainAt = "open"
    /\ listenerAt = "none"
    /\ heartbeatAt = "none"
    /\ sbi = "none"
    /\ watcher = [s \in Servers |-> "none"]
    /\ OAuth2Required = FALSE
    /\ client = [c \in Callers |-> NoRequest]
    /\ abandoned = {}
    /\ registered = FALSE
    /\ nrfOAuth2 \in BOOLEAN
    /\ deregistered = FALSE

-----------------------------------------------------------------------------
(* Requests to the NRF.  A PUT needs no token; the others take one if the  *)
(* CHF knows that it is required, and fail if they cannot get it.          *)

Send(c, op) ==
    client' = [client EXCEPT ![c] = [op |-> op, token |-> OAuth2Required, answer |-> "none"]]

NoToken == OAuth2Required /\ "token" \in Failures

\* Caller c has its answer, and is done with the request.
Answered(c, answer) ==
    /\ client[c].op # "none"
    /\ client[c].answer = answer
    /\ client' = [client EXCEPT ![c] = NoRequest]

\* The context is cancelled while c waits: the HTTP client returns at once,
\* and what it has sent is the network's and the NRF's.
GivesUp(c) ==
    /\ cancelled
    /\ client[c].op # "none"
    /\ client' = [client EXCEPT ![c] = NoRequest]
    /\ abandoned' = IF client[c].answer = "none"
                    THEN abandoned \cup {[by |-> c, op |-> client[c].op, token |-> client[c].token]}
                    ELSE abandoned

\* The NRF carries out a request that has come in.
Land(op, token, answer) ==
    \/ /\ op = "PUT"
       /\ registered' = TRUE
       /\ answer = "ok"
       /\ UNCHANGED deregistered
    \/ /\ op = "PATCH"
       /\ answer = IF nrfOAuth2 /\ ~token THEN "error"
                   ELSE IF registered THEN "ok" ELSE "not found"
       /\ UNCHANGED <<registered, deregistered>>
    \/ /\ op = "DELETE"
       /\ \/ /\ nrfOAuth2 => token
             /\ registered' = FALSE
             /\ deregistered' = TRUE
             /\ answer = IF registered THEN "ok" ELSE "not found"
          \/ /\ nrfOAuth2 /\ ~token
             /\ answer = "error"
             /\ UNCHANGED <<registered, deregistered>>

Serve(c) ==
    /\ client[c].op # "none"
    /\ client[c].answer = "none"
    /\ \E answer \in {"ok", "not found", "error"} :
          /\ Land(client[c].op, client[c].token, answer)
          /\ client' = [client EXCEPT ![c].answer = answer]
    /\ UNCHANGED <<chf, abandoned, nrfOAuth2>>

\* The NRF is not reached, or has trouble of its own.
Fail(c) ==
    /\ "nrf" \in Failures
    /\ client[c].op # "none"
    /\ client[c].answer = "none"
    /\ client' = [client EXCEPT ![c].answer = "error"]
    /\ UNCHANGED <<chf, abandoned, nrf>>

ServeAbandoned(r) ==
    /\ r \in abandoned
    /\ abandoned' = abandoned \ {r}
    /\ \E answer \in {"ok", "not found", "error"} : Land(r.op, r.token, answer)
    /\ UNCHANGED <<chf, client, nrfOAuth2>>

\* The NRF restarts without its database, or expires a profile.
Forget ==
    /\ registered
    /\ registered' = FALSE
    /\ UNCHANGED <<chf, client, abandoned, nrfOAuth2, deregistered>>

-----------------------------------------------------------------------------
(* ChfApp.Start and the main goroutine. *)

\* The WaitGroup is counted up before OpenServer, and down by the watcher it
\* starts.  An OpenServer that fails returns before it starts one.
OpenServer(s) ==
    /\ mainAt = "open"
    /\ watcher[s] = "none"
    /\ waiting' = waiting + 1
    /\ watcher' = [watcher EXCEPT ![s] = "waiting"]
    /\ UNCHANGED <<cancelled, mainAt, listenerAt, heartbeatAt, sbi, OAuth2Required,
                   client, abandoned, nrf>>

OpenServerFails(s) ==
    /\ "open" \in Failures
    /\ mainAt = "open"
    /\ watcher[s] = "none"
    /\ waiting' = waiting + 1
    /\ watcher' = [watcher EXCEPT ![s] = "failed"]
    /\ UNCHANGED <<cancelled, mainAt, listenerAt, heartbeatAt, sbi, OAuth2Required,
                   client, abandoned, nrf>>

StopWatcher(s) ==
    /\ watcher[s] = "waiting"
    /\ cancelled
    /\ watcher' = [watcher EXCEPT ![s] = "stopped"]
    /\ waiting' = waiting - 1
    /\ UNCHANGED <<cancelled, mainAt, listenerAt, heartbeatAt, sbi, OAuth2Required,
                   client, abandoned, nrf>>

StartListener ==
    /\ mainAt = "open"
    /\ \A s \in Servers : watcher[s] # "none"
    /\ waiting' = waiting + 1
    /\ listenerAt' = "listening"
    /\ mainAt' = "register"
    /\ UNCHANGED <<cancelled, heartbeatAt, sbi, watcher, OAuth2Required, client,
                   abandoned, nrf>>

\* RegisterNFInstance tries until the NRF takes the profile or the context is
\* done; the SBI server is started in either case.
Register ==
    /\ mainAt = "register"
    /\ \/ cancelled /\ mainAt' = "serve" /\ UNCHANGED client
       \/ ~cancelled /\ mainAt' = "put" /\ Send("main", "PUT")
    /\ UNCHANGED <<cancelled, waiting, listenerAt, heartbeatAt, sbi, watcher,
                   OAuth2Required, abandoned, nrf>>

\* processRegisterResponse with applyOAuth2.
Registered ==
    /\ mainAt = "put"
    /\ Answered("main", "ok")
    /\ OAuth2Required' = nrfOAuth2
    /\ mainAt' = "registered"
    /\ UNCHANGED <<cancelled, waiting, listenerAt, heartbeatAt, sbi, watcher,
                   abandoned, nrf>>

\* Fault: a registration that failed is not tried again.
RetryRegisterOnce ==
    /\ mainAt = "put"
    /\ Answered("main", "error")
    /\ mainAt' = "serve"
    /\ UNCHANGED <<cancelled, waiting, listenerAt, heartbeatAt, sbi, watcher,
                   OAuth2Required, abandoned, nrf>>

RetryRegister ==
    /\ mainAt = "put"
    /\ Answered("main", "error")
    /\ mainAt' = "register"
    /\ UNCHANGED <<cancelled, waiting, listenerAt, heartbeatAt, sbi, watcher,
                   OAuth2Required, abandoned, nrf>>

AbandonRegister ==
    /\ mainAt = "put"
    /\ GivesUp("main")
    /\ mainAt' = "serve"
    /\ UNCHANGED <<cancelled, waiting, listenerAt, heartbeatAt, sbi, watcher,
                   OAuth2Required, nrf>>

StartHeartbeat ==
    /\ mainAt = "registered"
    /\ heartbeatAt' = "ticking"
    /\ waiting' = waiting + 1
    /\ mainAt' = "serve"
    /\ UNCHANGED <<cancelled, listenerAt, sbi, watcher, OAuth2Required, client,
                   abandoned, nrf>>

\* Fault: the WaitGroup does not count the SBI server.
StartSbiUncounted ==
    /\ mainAt = "serve"
    /\ sbi' = IF sbi = "shut" THEN "stopping" ELSE "serving"
    /\ mainAt' = "wait"
    /\ UNCHANGED <<cancelled, waiting, listenerAt, heartbeatAt, watcher, OAuth2Required,
                   client, abandoned, nrf>>

\* ListenAndServe returns at once if Shutdown has been called before it.
StartSbi ==
    /\ mainAt = "serve"
    /\ waiting' = waiting + 1
    /\ sbi' = IF sbi = "shut" THEN "stopping" ELSE "serving"
    /\ mainAt' = "wait"
    /\ UNCHANGED <<cancelled, listenerAt, heartbeatAt, watcher, OAuth2Required, client,
                   abandoned, nrf>>

\* startServer returns, shut down or unable to listen.
SbiReturns ==
    /\ \/ sbi = "stopping"
       \/ sbi = "serving" /\ "listen" \in Failures
    /\ sbi' = "stopped"
    /\ waiting' = waiting - 1
    /\ UNCHANGED <<cancelled, mainAt, listenerAt, heartbeatAt, watcher, OAuth2Required,
                   client, abandoned, nrf>>

Exit ==
    /\ mainAt = "wait"
    /\ waiting = 0
    /\ mainAt' = "exited"
    /\ UNCHANGED <<cancelled, waiting, listenerAt, heartbeatAt, sbi, watcher,
                   OAuth2Required, client, abandoned, nrf>>

-----------------------------------------------------------------------------
(* The heartbeat: a runner of the util library, driven by nrfRegistrar. *)

\* The timer ticks.  Without a token there is no PATCH, and another tick.
SendHeartbeat ==
    /\ heartbeatAt = "ticking"
    /\ ~cancelled
    /\ Send("heartbeat", "PATCH")
    /\ heartbeatAt' = "patch"
    /\ UNCHANGED <<cancelled, waiting, mainAt, listenerAt, sbi, watcher, OAuth2Required,
                   abandoned, nrf>>

\* Fault: every answer to a heartbeat is as good as another.
HeartbeatAnsweredAlike ==
    /\ heartbeatAt = "patch"
    /\ \E answer \in {"ok", "not found", "error"} : Answered("heartbeat", answer)
    /\ heartbeatAt' = "ticking"
    /\ UNCHANGED <<cancelled, waiting, mainAt, listenerAt, sbi, watcher, OAuth2Required,
                   abandoned, nrf>>

\* 404: the NRF has forgotten the profile.
HeartbeatAnswered ==
    /\ heartbeatAt = "patch"
    /\ \/ Answered("heartbeat", "not found") /\ heartbeatAt' = "register"
       \/ /\ \E answer \in {"ok", "error"} : Answered("heartbeat", answer)
          /\ heartbeatAt' = "ticking"
    /\ UNCHANGED <<cancelled, waiting, mainAt, listenerAt, sbi, watcher, OAuth2Required,
                   abandoned, nrf>>

\* RegisterNFInstance once more, from the heartbeat, without applyOAuth2.
Reregister ==
    /\ heartbeatAt = "register"
    /\ ~cancelled
    /\ Send("heartbeat", "PUT")
    /\ heartbeatAt' = "put"
    /\ UNCHANGED <<cancelled, waiting, mainAt, listenerAt, sbi, watcher, OAuth2Required,
                   abandoned, nrf>>

Reregistered ==
    /\ heartbeatAt = "put"
    /\ \/ Answered("heartbeat", "ok") /\ heartbeatAt' = "ticking"
       \/ Answered("heartbeat", "error") /\ heartbeatAt' = "register"
    /\ UNCHANGED <<cancelled, waiting, mainAt, listenerAt, sbi, watcher, OAuth2Required,
                   abandoned, nrf>>

AbandonHeartbeat ==
    /\ heartbeatAt \in {"patch", "put"}
    /\ GivesUp("heartbeat")
    /\ heartbeatAt' = "ticking"
    /\ UNCHANGED <<cancelled, waiting, mainAt, listenerAt, sbi, watcher, OAuth2Required,
                   nrf>>

StopHeartbeat ==
    /\ heartbeatAt \in {"ticking", "register"}
    /\ cancelled
    /\ heartbeatAt' = "stopped"
    /\ waiting' = waiting - 1
    /\ UNCHANGED <<cancelled, mainAt, listenerAt, sbi, watcher, OAuth2Required, client,
                   abandoned, nrf>>

-----------------------------------------------------------------------------
(* Shutdown: a signal or Terminate cancels the context, and the listener   *)
(* goes through terminateProcedure.                                        *)

Cancel ==
    /\ ~cancelled
    /\ cancelled' = TRUE
    /\ UNCHANGED <<waiting, mainAt, listenerAt, heartbeatAt, sbi, watcher, OAuth2Required,
                   client, abandoned, nrf>>

StopSbi ==
    /\ listenerAt = "listening"
    /\ cancelled
    /\ sbi' = CASE sbi = "none" -> "shut"
                [] sbi = "serving" -> "stopping"
                [] OTHER -> sbi
    /\ listenerAt' = "stopped"
    /\ UNCHANGED <<cancelled, waiting, mainAt, heartbeatAt, watcher, OAuth2Required,
                   client, abandoned, nrf>>

\* Fault: the heartbeat is not waited for.
WaitHeartbeatStoppedNot ==
    /\ listenerAt = "stopped"
    /\ listenerAt' = "deregister"
    /\ UNCHANGED <<cancelled, waiting, mainAt, heartbeatAt, sbi, watcher, OAuth2Required,
                   client, abandoned, nrf>>

\* Returns at once if the heartbeat has not been started.
WaitHeartbeatStopped ==
    /\ listenerAt = "stopped"
    /\ heartbeatAt \in {"none", "stopped"}
    /\ listenerAt' = "deregister"
    /\ UNCHANGED <<cancelled, waiting, mainAt, heartbeatAt, sbi, watcher, OAuth2Required,
                   client, abandoned, nrf>>

ListenerDone ==
    /\ listenerAt' = "done"
    /\ waiting' = waiting - 1

\* Fault: a deregistration that gets no token leaves without a Done.
DeregisterForgetful ==
    /\ listenerAt = "deregister"
    /\ \/ Send("listener", "DELETE") /\ listenerAt' = "delete" /\ UNCHANGED waiting
       \/ NoToken /\ listenerAt' = "done" /\ UNCHANGED <<waiting, client>>
    /\ UNCHANGED <<cancelled, mainAt, heartbeatAt, sbi, watcher, OAuth2Required,
                   abandoned, nrf>>

Deregister ==
    /\ listenerAt = "deregister"
    /\ \/ Send("listener", "DELETE") /\ listenerAt' = "delete" /\ UNCHANGED waiting
       \/ NoToken /\ ListenerDone /\ UNCHANGED client
    /\ UNCHANGED <<cancelled, mainAt, heartbeatAt, sbi, watcher, OAuth2Required,
                   abandoned, nrf>>

DeregisterAnswered ==
    /\ listenerAt = "delete"
    /\ \E answer \in {"ok", "not found", "error"} : Answered("listener", answer)
    /\ ListenerDone
    /\ UNCHANGED <<cancelled, mainAt, heartbeatAt, sbi, watcher, OAuth2Required,
                   abandoned, nrf>>

-----------------------------------------------------------------------------

Main ==
    \/ \E s \in Servers : OpenServer(s) \/ OpenServerFails(s)
    \/ StartListener \/ Register \/ Registered \/ RetryRegister \/ AbandonRegister
    \/ StartHeartbeat \/ StartSbi \/ Exit
Heartbeat ==
    \/ SendHeartbeat \/ HeartbeatAnswered \/ Reregister \/ Reregistered
    \/ AbandonHeartbeat \/ StopHeartbeat
Listener == StopSbi \/ WaitHeartbeatStopped \/ Deregister \/ DeregisterAnswered
Watchers == \E s \in Servers : StopWatcher(s)
Nrf ==
    \/ \E c \in Callers : Serve(c) \/ Fail(c)
    \/ \E r \in abandoned : ServeAbandoned(r)
    \/ Forget

Exited == mainAt = "exited" /\ UNCHANGED vars

Next == Main \/ Heartbeat \/ Listener \/ Watchers \/ SbiReturns \/ Nrf \/ Cancel \/ Exited

Spec == Init /\ [][Next]_vars

\* Goroutines are scheduled and timers fire.  The NRF answers what it is asked
\* one way or another, and not always with trouble.
FairSpec ==
    /\ Spec
    /\ WF_vars(Main) /\ WF_vars(Heartbeat) /\ WF_vars(Listener) /\ WF_vars(Watchers)
    /\ WF_vars(sbi = "stopping" /\ SbiReturns)
    /\ \A c \in Callers : WF_vars(Serve(c) \/ Fail(c)) /\ SF_vars(Serve(c))

-----------------------------------------------------------------------------

TypeOK ==
    /\ cancelled \in BOOLEAN
    /\ waiting \in Nat
    /\ mainAt \in {"open", "register", "put", "registered", "serve", "wait", "exited"}
    /\ listenerAt \in {"none", "listening", "stopped", "deregister", "delete", "done"}
    /\ heartbeatAt \in {"none", "ticking", "patch", "register", "put", "stopped"}
    /\ sbi \in {"none", "shut", "serving", "stopping", "stopped"}
    /\ watcher \in [Servers -> {"none", "waiting", "failed", "stopped"}]
    /\ OAuth2Required \in BOOLEAN
    /\ client \in [Callers -> Request \cup {NoRequest}]
    /\ abandoned \subseteq [by: Callers, op: {"PUT", "PATCH", "DELETE"}, token: BOOLEAN]
    /\ registered \in BOOLEAN
    /\ nrfOAuth2 \in BOOLEAN
    /\ deregistered \in BOOLEAN

\* Once the CHF's deregistration has landed, only a registration that was on
\* its way when the shutdown came puts it back: the startup one, which nothing
\* waits for, or one the heartbeat has given up.  The heartbeat itself is over.
StaysDeregistered ==
    [][deregistered /\ ~registered /\ registered' =>
         client["main"].op = "PUT" \/ \E r \in abandoned : r.op = "PUT"]_vars

\* The process exits only after everything that was started has come to its
\* end and no request of its own waits for an answer.
ExitsClean ==
    mainAt = "exited" =>
        /\ listenerAt = "done"
        /\ heartbeatAt \in {"none", "stopped"}
        /\ sbi = "stopped"
        /\ \A s \in Servers : watcher[s] = "stopped"
        /\ \A c \in Callers : client[c] = NoRequest

\* Outside a shutdown the SBI is never served before the NRF has said whether
\* it takes tokens, and then as the NRF said.
ServesAsTold ==
    sbi = "serving" /\ ~cancelled => OAuth2Required = nrfOAuth2

\* A CHF with a heartbeat that the NRF has forgotten registers again.
ReregistersWhenForgotten ==
    heartbeatAt # "none" /\ ~registered ~> registered \/ cancelled

\* A shutdown comes to its end, whatever the NRF does and wherever the start
\* was when it came, if the servers beside the SBI could be opened.
ShutdownEnds ==
    cancelled ~> mainAt = "exited" \/ \E s \in Servers : watcher[s] = "failed"

-----------------------------------------------------------------------------
(* What comments of the source say and the code does not do. *)

\* A signal is to "Notify each goroutine and wait them stopped" (cmd/main.go).
ShutdownCompletes == cancelled ~> mainAt = "exited"

\* "no heartbeat PATCH or re-registration PUT may land after the
\* deregistration" (terminateProcedure).
NothingLandsAfterDeregistration ==
    [][\A r \in abandoned :
         deregistered /\ r.by = "heartbeat" => r \in abandoned']_vars
=============================================================================
