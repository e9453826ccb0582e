---------------------------- MODULE LifecycleProofs ----------------------------
(***************************************************************************)
(* Theorems about Lifecycle, for every set of servers that are enabled and *)
(* every set of failures that may happen.                                  *)
(***************************************************************************)
EXTENDS Lifecycle, FiniteSetTheorems, TLAPS

USE ServersAssumption

One(condition) == IF condition THEN 1 ELSE 0

\* What the WaitGroup waits for: watchers that were started, or should have
\* been, the listener, the heartbeat and the SBI server.
Pending == {s \in Servers : watcher[s] \in {"waiting", "failed"}}
ListenerRuns == listenerAt \notin {"none", "done"}
HeartbeatRuns == heartbeatAt \notin {"none", "stopped"}
SbiRuns == sbi \in {"serving", "stopping"}

Counted ==
    waiting = Cardinality(Pending) + One(ListenerRuns) + One(HeartbeatRuns) + One(SbiRuns)

\* How far the main goroutine is and what it has started.
Started ==
    /\ mainAt = "open" <=> listenerAt = "none"
    /\ mainAt # "open" => \A s \in Servers : watcher[s] # "none"
    /\ heartbeatAt # "none" => mainAt \in {"serve", "wait", "exited"}
    /\ mainAt \in {"wait", "exited"} <=> sbi \in {"serving", "stopping", "stopped"}
    /\ mainAt = "exited" => waiting = 0

\* The request of each goroutine is the one it waits for.
OwnRequests ==
    /\ client["main"].op = IF mainAt = "put" THEN "PUT" ELSE "none"
    /\ heartbeatAt = "patch" => client["heartbeat"].op = "PATCH"
    /\ heartbeatAt = "put" => client["heartbeat"].op = "PUT"
    /\ heartbeatAt \notin {"patch", "put"} => client["heartbeat"].op = "none"
    /\ client["listener"].op = IF listenerAt = "delete" THEN "DELETE" ELSE "none"

\* The listener acts on a cancelled context, and asks for the deregistration
\* when the heartbeat is over, or will be without another request.
HeartbeatOver ==
    /\ listenerAt \notin {"none", "listening"} => cancelled
    /\ listenerAt \in {"deregister", "delete", "done"} =>
          heartbeatAt \in {"none", "ticking", "stopped"}
    /\ deregistered => listenerAt \in {"delete", "done"}
    /\ \A r \in abandoned : r.op # "DELETE"

\* Without a shutdown the SBI server is not started before the NRF's answer.
Told ==
    mainAt \in {"registered", "serve", "wait", "exited"} /\ ~cancelled =>
        OAuth2Required = nrfOAuth2

\* The inductive invariant.
IInv ==
    /\ TypeOK
    /\ Counted
    /\ Started
    /\ OwnRequests
    /\ HeartbeatOver
    /\ Told

-----------------------------------------------------------------------------
(* The watchers that the WaitGroup counts.                                 *)

LEMMA PendingFinite == IsFiniteSet(Pending) /\ Cardinality(Pending) \in Nat
<1>1. IsFiniteSet({"cgf", "rf", "abmf"})
    <2>1. IsFiniteSet({} \cup {"cgf"})
        BY FS_EmptySet, FS_AddElement
    <2>2. IsFiniteSet(({} \cup {"cgf"}) \cup {"rf"})
        BY <2>1, FS_AddElement
    <2>3. IsFiniteSet((({} \cup {"cgf"}) \cup {"rf"}) \cup {"abmf"})
        BY <2>2, FS_AddElement
    <2> QED
        BY <2>3
<1>2. Pending \in SUBSET {"cgf", "rf", "abmf"}
    BY DEF Pending
<1>3. IsFiniteSet(Pending)
    BY <1>1, <1>2, FS_Subset
<1> QED
    BY <1>3, FS_CardinalityType

\* A server that is opened, or fails to, makes one more; a watcher that sees
\* the shutdown makes one less.
LEMMA PendingGrows ==
    ASSUME TypeOK, NEW s \in Servers, watcher[s] = "none",
           NEW v \in {"waiting", "failed"}, watcher' = [watcher EXCEPT ![s] = v]
    PROVE  Cardinality(Pending') = Cardinality(Pending) + 1
<1>1. watcher \in [Servers -> {"none", "waiting", "failed", "stopped"}]
    BY DEF TypeOK
<1>2. Pending' = Pending \cup {s} /\ s \notin Pending
    BY <1>1 DEF Pending
<1> QED
    BY <1>2, PendingFinite, FS_AddElement

LEMMA PendingShrinks ==
    ASSUME TypeOK, NEW s \in Servers, watcher[s] = "waiting",
           watcher' = [watcher EXCEPT ![s] = "stopped"]
    PROVE  /\ Cardinality(Pending') = Cardinality(Pending) - 1
           /\ Cardinality(Pending') \in Nat
<1>1. watcher \in [Servers -> {"none", "waiting", "failed", "stopped"}]
    BY DEF TypeOK
<1>2. Pending' = Pending \ {s} /\ s \in Pending
    BY <1>1 DEF Pending
<1>3. Cardinality(Pending') = Cardinality(Pending) - 1
    BY <1>2, PendingFinite, FS_RemoveElement
<1>4. IsFiniteSet(Pending')
    BY <1>2, PendingFinite, FS_RemoveElement
<1> QED
    BY <1>3, <1>4, FS_CardinalityType

\* If the WaitGroup is at zero nothing that it counts is left.
LEMMA NothingPending ==
    ASSUME TypeOK, Counted, waiting = 0
    PROVE  Pending = {} /\ ~ListenerRuns /\ ~HeartbeatRuns /\ ~SbiRuns
<1>1. Cardinality(Pending) = 0 /\ ~ListenerRuns /\ ~HeartbeatRuns /\ ~SbiRuns
    BY PendingFinite DEF Counted, One
<1> QED
    BY <1>1, PendingFinite, FS_EmptySet

\* A step that leaves the watchers alone leaves what is pending alone.
LEMMA PendingSame ==
    ASSUME UNCHANGED watcher
    PROVE  Pending' = Pending
BY DEF Pending

-----------------------------------------------------------------------------
(* Requests to the NRF.                                                    *)

\* Of all requests, only that of c changes: its operation is now op.
NowAsks(c, op) ==
    /\ client' \in [Callers -> Request \cup {NoRequest}]
    /\ client'[c].op = op
    /\ \A d \in Callers : d # c => client'[d].op = client[d].op

LEMMA SendAsks ==
    ASSUME TypeOK, NEW c \in Callers, NEW op \in {"PUT", "PATCH", "DELETE"}, Send(c, op)
    PROVE  NowAsks(c, op)
<1>1. [op |-> op, token |-> OAuth2Required, answer |-> "none"] \in Request
    BY DEF TypeOK, Request
<1> QED
    BY <1>1 DEF TypeOK, Send, NowAsks

\* A caller that is answered, or gives up, has no request any more.
LEMMA EndAsksNothing ==
    ASSUME TypeOK, NEW c \in Callers, client' = [client EXCEPT ![c] = NoRequest]
    PROVE  NowAsks(c, "none")
BY DEF TypeOK, NoRequest, NowAsks

LEMMA RequestType ==
    ASSUME TypeOK, NEW c \in Callers, client[c].op # "none"
    PROVE  client[c] \in Request
<1>1. NoRequest.op = "none"
    BY DEF NoRequest
<1>2. client[c] # NoRequest
    BY <1>1
<1> QED
    BY <1>2 DEF TypeOK

\* What a caller gives up goes to the requests that nobody waits for.
LEMMA GivesUpType ==
    ASSUME TypeOK, NEW c \in Callers, GivesUp(c), client[c].op # "DELETE",
           \A r \in abandoned : r.op # "DELETE"
    PROVE  /\ abandoned' \subseteq [by: Callers, op: {"PUT", "PATCH", "DELETE"}, token: BOOLEAN]
           /\ \A r \in abandoned' : r.op # "DELETE"
<1>1. client[c] \in Request
    BY RequestType DEF GivesUp
<1>2. [by |-> c, op |-> client[c].op, token |-> client[c].token]
         \in [by: Callers, op: {"PUT", "PATCH", "DELETE"}, token: BOOLEAN]
    BY <1>1 DEF Request
<1> QED
    BY <1>2 DEF TypeOK, GivesUp

\* An answer leaves the requests what they are.
LEMMA AnswerType ==
    ASSUME TypeOK, NEW c \in Callers, client[c].op # "none",
           NEW answer \in {"ok", "not found", "error"},
           client' = [client EXCEPT ![c].answer = answer]
    PROVE  /\ client' \in [Callers -> Request \cup {NoRequest}]
           /\ \A d \in Callers : client'[d].op = client[d].op
<1>1. client[c] \in Request
    BY RequestType
<1>2. [client[c] EXCEPT !.answer = answer] \in Request
    BY <1>1 DEF Request
<1>3. [client[c] EXCEPT !.answer = answer].op = client[c].op
    BY <1>1 DEF Request
<1> QED
    BY <1>2, <1>3 DEF TypeOK

\* Whatever the NRF does with a request, only a PUT registers the CHF and only
\* a DELETE deregisters it.
LEMMA LandType ==
    ASSUME TypeOK, NEW op, NEW token, NEW answer, Land(op, token, answer)
    PROVE  /\ registered' \in BOOLEAN
           /\ deregistered' \in BOOLEAN
           /\ deregistered' => deregistered \/ op = "DELETE"
           /\ ~registered /\ registered' => op = "PUT"
<1>1. CASE op = "PUT" /\ registered' = TRUE /\ UNCHANGED deregistered
    BY <1>1 DEF TypeOK
<1>2. CASE UNCHANGED <<registered, deregistered>>
    BY <1>2 DEF TypeOK
<1>3. CASE op = "DELETE" /\ registered' = FALSE /\ deregistered' = TRUE
    BY <1>3
<1> QED
    BY <1>1, <1>2, <1>3 DEF Land

-----------------------------------------------------------------------------
(* The inductive invariant.                                                *)

LEMMA InitIInv == Init => IInv
<1> SUFFICES ASSUME Init PROVE IInv
    OBVIOUS
<1>1. TypeOK
    BY DEF Init, TypeOK, Request, NoRequest
<1>2. Pending = {}
    BY DEF Init, Pending
<1>3. Counted
    BY <1>2, FS_EmptySet DEF Init, Counted, One, ListenerRuns, HeartbeatRuns, SbiRuns
<1>4. Started /\ HeartbeatOver /\ Told
    BY DEF Init, Started, HeartbeatOver, Told
<1>5. OwnRequests
    BY DEF Init, OwnRequests, Callers, NoRequest
<1> QED
    BY <1>1, <1>3, <1>4, <1>5 DEF IInv

-----------------------------------------------------------------------------
(* Each step of the CHF keeps the invariant.                               *)

LEMMA OpenServerKeeps ==
    ASSUME IInv, NEW s \in Servers, OpenServer(s)
    PROVE  IInv'
<1> USE DEF IInv
<1>1. Cardinality(Pending') = Cardinality(Pending) + 1
    BY PendingGrows DEF OpenServer
<1>2. Counted' /\ waiting' \in Nat
    BY <1>1, PendingFinite DEF OpenServer, TypeOK, Counted, Started, One, ListenerRuns,
                               HeartbeatRuns, SbiRuns
<1>3. TypeOK'
    BY <1>2 DEF OpenServer, TypeOK, nrf
<1>4. Started'
    BY DEF OpenServer, TypeOK, Started
<1>5. OwnRequests'
    BY DEF OpenServer, TypeOK, Started, OwnRequests, nrf
<1>6. HeartbeatOver'
    BY DEF OpenServer, TypeOK, HeartbeatOver, Started, nrf
<1>7. Told'
    BY DEF OpenServer, TypeOK, Told, Started, nrf
<1> QED
    BY <1>2, <1>3, <1>4, <1>5, <1>6, <1>7

LEMMA OpenServerFailsKeeps ==
    ASSUME IInv, NEW s \in Servers, OpenServerFails(s)
    PROVE  IInv'
<1> USE DEF IInv
<1>1. Cardinality(Pending') = Cardinality(Pending) + 1
    BY PendingGrows DEF OpenServerFails
<1>2. Counted' /\ waiting' \in Nat
    BY <1>1, PendingFinite DEF OpenServerFails, TypeOK, Counted, Started, One,
                               ListenerRuns, HeartbeatRuns, SbiRuns
<1>3. TypeOK'
    BY <1>2 DEF OpenServerFails, TypeOK, nrf
<1>4. Started'
    BY DEF OpenServerFails, TypeOK, Started
<1>5. OwnRequests'
    BY DEF OpenServerFails, TypeOK, Started, OwnRequests, nrf
<1>6. HeartbeatOver'
    BY DEF OpenServerFails, TypeOK, HeartbeatOver, Started, nrf
<1>7. Told'
    BY DEF OpenServerFails, TypeOK, Told, Started, nrf
<1> QED
    BY <1>2, <1>3, <1>4, <1>5, <1>6, <1>7

LEMMA StopWatcherKeeps ==
    ASSUME IInv, NEW s \in Servers, StopWatcher(s)
    PROVE  IInv'
<1> USE DEF IInv
<1>1. Cardinality(Pending') = Cardinality(Pending) - 1 /\ Cardinality(Pending') \in Nat
    BY PendingShrinks DEF StopWatcher
<1>2. Counted' /\ waiting' \in Nat
    BY <1>1, PendingFinite DEF StopWatcher, TypeOK, Counted, Started, One,
                               ListenerRuns, HeartbeatRuns, SbiRuns
<1>3. TypeOK'
    BY <1>2 DEF StopWatcher, TypeOK, nrf
<1>4. Started'
    BY NothingPending DEF StopWatcher, TypeOK, Started, ListenerRuns, HeartbeatRuns,
                          SbiRuns, Pending
<1>5. OwnRequests'
    BY DEF StopWatcher, TypeOK, Started, OwnRequests, nrf
<1>6. HeartbeatOver'
    BY DEF StopWatcher, TypeOK, HeartbeatOver, Started, nrf
<1>7. Told'
    BY DEF StopWatcher, TypeOK, Told, Started, nrf
<1> QED
    BY <1>2, <1>3, <1>4, <1>5, <1>6, <1>7

LEMMA StartListenerKeeps ==
    ASSUME IInv, StartListener
    PROVE  IInv'
<1> USE DEF IInv
<1>1. Pending' = Pending
    BY PendingSame DEF StartListener
<1>2. Counted' /\ waiting' \in Nat
    BY <1>1, PendingFinite DEF StartListener, TypeOK, Counted, Started, One,
                               ListenerRuns, HeartbeatRuns, SbiRuns
<1>3. TypeOK'
    BY <1>2 DEF StartListener, TypeOK, nrf
<1>4. Started'
    BY DEF StartListener, TypeOK, Started
<1>5. OwnRequests'
    BY DEF StartListener, TypeOK, Started, OwnRequests, nrf
<1>6. HeartbeatOver'
    BY DEF StartListener, TypeOK, HeartbeatOver, Started, nrf
<1>7. Told'
    BY DEF StartListener, TypeOK, Told, Started, nrf
<1> QED
    BY <1>2, <1>3, <1>4, <1>5, <1>6, <1>7

LEMMA RegisterKeeps ==
    ASSUME IInv, Register
    PROVE  IInv'
<1> USE DEF IInv
<1>1. \/ NowAsks("main", "PUT") /\ mainAt' = "put"
      \/ UNCHANGED client /\ mainAt' = "serve"
    BY SendAsks DEF Register, Callers
<1>2. Pending' = Pending
    BY PendingSame DEF Register
<1>3. Counted' /\ waiting' \in Nat
    BY <1>2, PendingFinite DEF Register, TypeOK, Counted, Started, One, ListenerRuns,
                               HeartbeatRuns, SbiRuns
<1>4. TypeOK'
    BY <1>1, <1>3 DEF Register, TypeOK, nrf, NowAsks
<1>5. Started'
    BY DEF Register, TypeOK, Started
<1>6. OwnRequests'
    BY <1>1 DEF Register, TypeOK, Started, OwnRequests, nrf, NowAsks, Callers
<1>7. HeartbeatOver'
    BY DEF Register, TypeOK, HeartbeatOver, Started, nrf
<1>8. Told'
    BY DEF Register, TypeOK, Told, Started, nrf
<1> QED
    BY <1>3, <1>4, <1>5, <1>6, <1>7, <1>8

LEMMA RegisteredKeeps ==
    ASSUME IInv, Registered
    PROVE  IInv'
<1> USE DEF IInv
<1>1. NowAsks("main", "none")
    BY EndAsksNothing DEF Registered, Answered, Callers
<1>2. Pending' = Pending
    BY PendingSame DEF Registered
<1>3. Counted' /\ waiting' \in Nat
    BY <1>2, PendingFinite DEF Registered, TypeOK, Counted, Started, One, ListenerRuns,
                               HeartbeatRuns, SbiRuns
<1>4. TypeOK'
    BY <1>1, <1>3 DEF Registered, TypeOK, nrf, NowAsks
<1>5. Started'
    BY DEF Registered, TypeOK, Started
<1>6. OwnRequests'
    BY <1>1 DEF Registered, TypeOK, Started, OwnRequests, nrf, NowAsks, Callers
<1>7. HeartbeatOver'
    BY DEF Registered, TypeOK, HeartbeatOver, Started, nrf
<1>8. Told'
    BY DEF Registered, TypeOK, Told, Started, nrf
<1> QED
    BY <1>3, <1>4, <1>5, <1>6, <1>7, <1>8

LEMMA RetryRegisterKeeps ==
    ASSUME IInv, RetryRegister
    PROVE  IInv'
<1> USE DEF IInv
<1>1. NowAsks("main", "none")
    BY EndAsksNothing DEF RetryRegister, Answered, Callers
<1>2. Pending' = Pending
    BY PendingSame DEF RetryRegister
<1>3. Counted' /\ waiting' \in Nat
    BY <1>2, PendingFinite DEF RetryRegister, TypeOK, Counted, Started, One,
                               ListenerRuns, HeartbeatRuns, SbiRuns
<1>4. TypeOK'
    BY <1>1, <1>3 DEF RetryRegister, TypeOK, nrf, NowAsks
<1>5. Started'
    BY DEF RetryRegister, TypeOK, Started
<1>6. OwnRequests'
    BY <1>1 DEF RetryRegister, TypeOK, Started, OwnRequests, nrf, NowAsks, Callers
<1>7. HeartbeatOver'
    BY DEF RetryRegister, TypeOK, HeartbeatOver, Started, nrf
<1>8. Told'
    BY DEF RetryRegister, TypeOK, Told, Started, nrf
<1> QED
    BY <1>3, <1>4, <1>5, <1>6, <1>7, <1>8

LEMMA AbandonRegisterKeeps ==
    ASSUME IInv, AbandonRegister
    PROVE  IInv'
<1> USE DEF IInv
<1>1. NowAsks("main", "none")
    BY EndAsksNothing DEF AbandonRegister, GivesUp, Callers
<1>2. /\ abandoned' \subseteq [by: Callers, op: {"PUT", "PATCH", "DELETE"}, token: BOOLEAN]
      /\ \A r \in abandoned' : r.op # "DELETE"
    BY GivesUpType DEF AbandonRegister, Callers, OwnRequests, HeartbeatOver
<1>3. Pending' = Pending
    BY PendingSame DEF AbandonRegister
<1>4. Counted' /\ waiting' \in Nat
    BY <1>3, PendingFinite DEF AbandonRegister, GivesUp, TypeOK, Counted, Started, One,
                               ListenerRuns, HeartbeatRuns, SbiRuns
<1>5. TypeOK'
    BY <1>1, <1>2, <1>4 DEF AbandonRegister, GivesUp, TypeOK, nrf, NowAsks
<1>6. Started'
    BY DEF AbandonRegister, GivesUp, TypeOK, Started
<1>7. OwnRequests'
    BY <1>1, <1>2 DEF AbandonRegister, GivesUp, TypeOK, Started, OwnRequests, nrf,
                      NowAsks, Callers
<1>8. HeartbeatOver'
    BY <1>2 DEF AbandonRegister, GivesUp, TypeOK, HeartbeatOver, Started, nrf
<1>9. Told'
    BY DEF AbandonRegister, GivesUp, TypeOK, Told, Started, nrf
<1> QED
    BY <1>4, <1>5, <1>6, <1>7, <1>8, <1>9

LEMMA StartHeartbeatKeeps ==
    ASSUME IInv, StartHeartbeat
    PROVE  IInv'
<1> USE DEF IInv
<1>1. Pending' = Pending
    BY PendingSame DEF StartHeartbeat
<1>2. Counted' /\ waiting' \in Nat
    BY <1>1, PendingFinite DEF StartHeartbeat, TypeOK, Counted, Started, One,
                               ListenerRuns, HeartbeatRuns, SbiRuns
<1>3. TypeOK'
    BY <1>2 DEF StartHeartbeat, TypeOK, nrf
<1>4. Started'
    BY DEF StartHeartbeat, TypeOK, Started
<1>5. OwnRequests'
    BY DEF StartHeartbeat, TypeOK, Started, OwnRequests, nrf
<1>6. HeartbeatOver'
    BY DEF StartHeartbeat, TypeOK, HeartbeatOver, Started, nrf
<1>7. Told'
    BY DEF StartHeartbeat, TypeOK, Told, Started, nrf
<1> QED
    BY <1>2, <1>3, <1>4, <1>5, <1>6, <1>7

LEMMA StartSbiKeeps ==
    ASSUME IInv, StartSbi
    PROVE  IInv'
<1> USE DEF IInv
<1>1. Pending' = Pending
    BY PendingSame DEF StartSbi
<1>2. Counted' /\ waiting' \in Nat
    BY <1>1, PendingFinite DEF StartSbi, TypeOK, Counted, Started, One, ListenerRuns,
                               HeartbeatRuns, SbiRuns
<1>3. TypeOK'
    BY <1>2 DEF StartSbi, TypeOK, nrf
<1>4. Started'
    BY DEF StartSbi, TypeOK, Started
<1>5. OwnRequests'
    BY DEF StartSbi, TypeOK, Started, OwnRequests, nrf
<1>6. HeartbeatOver'
    BY DEF StartSbi, TypeOK, HeartbeatOver, Started, nrf
<1>7. Told'
    BY DEF StartSbi, TypeOK, Told, Started, nrf
<1> QED
    BY <1>2, <1>3, <1>4, <1>5, <1>6, <1>7

LEMMA SbiReturnsKeeps ==
    ASSUME IInv, SbiReturns
    PROVE  IInv'
<1> USE DEF IInv
<1>1. Pending' = Pending
    BY PendingSame DEF SbiReturns
<1>2. Counted' /\ waiting' \in Nat
    BY <1>1, PendingFinite DEF SbiReturns, TypeOK, Counted, Started, One, ListenerRuns,
                               HeartbeatRuns, SbiRuns
<1>3. TypeOK'
    BY <1>2 DEF SbiReturns, TypeOK, nrf
<1>4. Started'
    BY NothingPending DEF SbiReturns, TypeOK, Started, ListenerRuns, HeartbeatRuns,
                          SbiRuns, Pending
<1>5. OwnRequests'
    BY DEF SbiReturns, TypeOK, Started, OwnRequests, nrf
<1>6. HeartbeatOver'
    BY DEF SbiReturns, TypeOK, HeartbeatOver, Started, nrf
<1>7. Told'
    BY DEF SbiReturns, TypeOK, Told, Started, nrf
<1> QED
    BY <1>2, <1>3, <1>4, <1>5, <1>6, <1>7

LEMMA ExitKeeps ==
    ASSUME IInv, Exit
    PROVE  IInv'
<1> USE DEF IInv
<1>1. Pending' = Pending
    BY PendingSame DEF Exit
<1>2. Counted' /\ waiting' \in Nat
    BY <1>1, PendingFinite DEF Exit, TypeOK, Counted, Started, One, ListenerRuns,
                               HeartbeatRuns, SbiRuns
<1>3. TypeOK'
    BY <1>2 DEF Exit, TypeOK, nrf
<1>4. Started'
    BY DEF Exit, TypeOK, Started
<1>5. OwnRequests'
    BY DEF Exit, TypeOK, Started, OwnRequests, nrf
<1>6. HeartbeatOver'
    BY DEF Exit, TypeOK, HeartbeatOver, Started, nrf
<1>7. Told'
    BY DEF Exit, TypeOK, Told, Started, nrf
<1> QED
    BY <1>2, <1>3, <1>4, <1>5, <1>6, <1>7

LEMMA SendHeartbeatKeeps ==
    ASSUME IInv, SendHeartbeat
    PROVE  IInv'
<1> USE DEF IInv
<1>1. NowAsks("heartbeat", "PATCH")
    BY SendAsks DEF SendHeartbeat, Callers
<1>2. Pending' = Pending
    BY PendingSame DEF SendHeartbeat
<1>3. Counted' /\ waiting' \in Nat
    BY <1>2, PendingFinite DEF SendHeartbeat, TypeOK, Counted, Started, One,
                               ListenerRuns, HeartbeatRuns, SbiRuns
<1>4. TypeOK'
    BY <1>1, <1>3 DEF SendHeartbeat, TypeOK, nrf, NowAsks
<1>5. Started'
    BY DEF SendHeartbeat, TypeOK, Started
<1>6. OwnRequests'
    BY <1>1 DEF SendHeartbeat, TypeOK, Started, OwnRequests, nrf, NowAsks, Callers
<1>7. HeartbeatOver'
    BY DEF SendHeartbeat, TypeOK, HeartbeatOver, Started, nrf
<1>8. Told'
    BY DEF SendHeartbeat, TypeOK, Told, Started, nrf
<1> QED
    BY <1>3, <1>4, <1>5, <1>6, <1>7, <1>8

LEMMA HeartbeatAnsweredKeeps ==
    ASSUME IInv, HeartbeatAnswered
    PROVE  IInv'
<1> USE DEF IInv
<1>1. NowAsks("heartbeat", "none")
    BY EndAsksNothing DEF HeartbeatAnswered, Answered, Callers
<1>2. /\ heartbeatAt = "patch" /\ heartbeatAt' \in {"ticking", "register"}
      /\ UNCHANGED <<cancelled, waiting, mainAt, listenerAt, sbi, watcher, OAuth2Required,
                     abandoned, registered, nrfOAuth2, deregistered>>
    BY DEF HeartbeatAnswered, nrf
<1>3. Pending' = Pending
    BY <1>2, PendingSame
<1>4. Counted' /\ waiting' \in Nat
    BY <1>2, <1>3, PendingFinite DEF TypeOK, Counted, Started, One, ListenerRuns,
                                     HeartbeatRuns, SbiRuns
<1>5. TypeOK'
    BY <1>2, <1>1, <1>4 DEF TypeOK, NowAsks
<1>6. Started'
    BY <1>2 DEF TypeOK, Started
<1>7. OwnRequests'
    BY <1>2, <1>1 DEF TypeOK, Started, OwnRequests, NowAsks, Callers
<1>8. HeartbeatOver'
    BY <1>2 DEF TypeOK, HeartbeatOver, Started
<1>9. Told'
    BY <1>2 DEF TypeOK, Told, Started
<1> QED
    BY <1>4, <1>5, <1>6, <1>7, <1>8, <1>9

LEMMA ReregisterKeeps ==
    ASSUME IInv, Reregister
    PROVE  IInv'
<1> USE DEF IInv
<1>1. NowAsks("heartbeat", "PUT")
    BY SendAsks DEF Reregister, Callers
<1>2. Pending' = Pending
    BY PendingSame DEF Reregister
<1>3. Counted' /\ waiting' \in Nat
    BY <1>2, PendingFinite DEF Reregister, TypeOK, Counted, Started, One, ListenerRuns,
                               HeartbeatRuns, SbiRuns
<1>4. TypeOK'
    BY <1>1, <1>3 DEF Reregister, TypeOK, nrf, NowAsks
<1>5. Started'
    BY DEF Reregister, TypeOK, Started
<1>6. OwnRequests'
    BY <1>1 DEF Reregister, TypeOK, Started, OwnRequests, nrf, NowAsks, Callers
<1>7. HeartbeatOver'
    BY DEF Reregister, TypeOK, HeartbeatOver, Started, nrf
<1>8. Told'
    BY DEF Reregister, TypeOK, Told, Started, nrf
<1> QED
    BY <1>3, <1>4, <1>5, <1>6, <1>7, <1>8

LEMMA ReregisteredKeeps ==
    ASSUME IInv, Reregistered
    PROVE  IInv'
<1> USE DEF IInv
<1>1. NowAsks("heartbeat", "none")
    BY EndAsksNothing DEF Reregistered, Answered, Callers
<1>2. Pending' = Pending
    BY PendingSame DEF Reregistered
<1>3. Counted' /\ waiting' \in Nat
    BY <1>2, PendingFinite DEF Reregistered, TypeOK, Counted, Started, One,
                               ListenerRuns, HeartbeatRuns, SbiRuns
<1>4. TypeOK'
    BY <1>1, <1>3 DEF Reregistered, TypeOK, nrf, NowAsks
<1>5. Started'
    BY DEF Reregistered, TypeOK, Started
<1>6. OwnRequests'
    BY <1>1 DEF Reregistered, TypeOK, Started, OwnRequests, nrf, NowAsks, Callers
<1>7. HeartbeatOver'
    BY DEF Reregistered, TypeOK, HeartbeatOver, Started, nrf
<1>8. Told'
    BY DEF Reregistered, TypeOK, Told, Started, nrf
<1> QED
    BY <1>3, <1>4, <1>5, <1>6, <1>7, <1>8

LEMMA AbandonHeartbeatKeeps ==
    ASSUME IInv, AbandonHeartbeat
    PROVE  IInv'
<1> USE DEF IInv
<1>1. NowAsks("heartbeat", "none")
    BY EndAsksNothing DEF AbandonHeartbeat, GivesUp, Callers
<1>2. /\ abandoned' \subseteq [by: Callers, op: {"PUT", "PATCH", "DELETE"}, token: BOOLEAN]
      /\ \A r \in abandoned' : r.op # "DELETE"
    BY GivesUpType DEF AbandonHeartbeat, Callers, OwnRequests, HeartbeatOver
<1>3. Pending' = Pending
    BY PendingSame DEF AbandonHeartbeat
<1>4. Counted' /\ waiting' \in Nat
    BY <1>3, PendingFinite DEF AbandonHeartbeat, TypeOK, Counted, Started, One,
                               ListenerRuns, HeartbeatRuns, SbiRuns
<1>5. TypeOK'
    BY <1>1, <1>2, <1>4 DEF AbandonHeartbeat, TypeOK, nrf, NowAsks
<1>6. Started'
    BY DEF AbandonHeartbeat, TypeOK, Started
<1>7. OwnRequests'
    BY <1>1, <1>2 DEF AbandonHeartbeat, TypeOK, Started, OwnRequests, nrf, NowAsks, Callers
<1>8. HeartbeatOver'
    BY <1>2 DEF AbandonHeartbeat, TypeOK, HeartbeatOver, Started, nrf
<1>9. Told'
    BY DEF AbandonHeartbeat, TypeOK, Told, Started, nrf
<1> QED
    BY <1>4, <1>5, <1>6, <1>7, <1>8, <1>9

LEMMA StopHeartbeatKeeps ==
    ASSUME IInv, StopHeartbeat
    PROVE  IInv'
<1> USE DEF IInv
<1>1. Pending' = Pending
    BY PendingSame DEF StopHeartbeat
<1>2. Counted' /\ waiting' \in Nat
    BY <1>1, PendingFinite DEF StopHeartbeat, TypeOK, Counted, Started, One,
                               ListenerRuns, HeartbeatRuns, SbiRuns
<1>3. TypeOK'
    BY <1>2 DEF StopHeartbeat, TypeOK, nrf
<1>4. Started'
    BY NothingPending DEF StopHeartbeat, TypeOK, Started, ListenerRuns, HeartbeatRuns,
                          SbiRuns, Pending
<1>5. OwnRequests'
    BY DEF StopHeartbeat, TypeOK, Started, OwnRequests, nrf
<1>6. HeartbeatOver'
    BY DEF StopHeartbeat, TypeOK, HeartbeatOver, Started, nrf
<1>7. Told'
    BY DEF StopHeartbeat, TypeOK, Told, Started, nrf
<1> QED
    BY <1>2, <1>3, <1>4, <1>5, <1>6, <1>7

LEMMA CancelKeeps ==
    ASSUME IInv, Cancel
    PROVE  IInv'
<1> USE DEF IInv
<1>1. Pending' = Pending
    BY PendingSame DEF Cancel
<1>2. Counted' /\ waiting' \in Nat
    BY <1>1, PendingFinite DEF Cancel, TypeOK, Counted, Started, One, ListenerRuns,
                               HeartbeatRuns, SbiRuns
<1>3. TypeOK'
    BY <1>2 DEF Cancel, TypeOK, nrf
<1>4. Started'
    BY DEF Cancel, TypeOK, Started
<1>5. OwnRequests'
    BY DEF Cancel, TypeOK, Started, OwnRequests, nrf
<1>6. HeartbeatOver'
    BY DEF Cancel, TypeOK, HeartbeatOver, Started, nrf
<1>7. Told'
    BY DEF Cancel, TypeOK, Told, Started, nrf
<1> QED
    BY <1>2, <1>3, <1>4, <1>5, <1>6, <1>7

LEMMA StopSbiKeeps ==
    ASSUME IInv, StopSbi
    PROVE  IInv'
<1> USE DEF IInv
<1>1. Pending' = Pending
    BY PendingSame DEF StopSbi
<1>2. Counted' /\ waiting' \in Nat
    BY <1>1, PendingFinite DEF StopSbi, TypeOK, Counted, Started, One, ListenerRuns,
                               HeartbeatRuns, SbiRuns
<1>3. TypeOK'
    BY <1>2 DEF StopSbi, TypeOK, nrf
<1>4. Started'
    BY DEF StopSbi, TypeOK, Started
<1>5. OwnRequests'
    BY DEF StopSbi, TypeOK, Started, OwnRequests, nrf
<1>6. HeartbeatOver'
    BY DEF StopSbi, TypeOK, HeartbeatOver, Started, nrf
<1>7. Told'
    BY DEF StopSbi, TypeOK, Told, Started, nrf
<1> QED
    BY <1>2, <1>3, <1>4, <1>5, <1>6, <1>7

LEMMA WaitHeartbeatStoppedKeeps ==
    ASSUME IInv, WaitHeartbeatStopped
    PROVE  IInv'
<1> USE DEF IInv
<1>1. Pending' = Pending
    BY PendingSame DEF WaitHeartbeatStopped
<1>2. Counted' /\ waiting' \in Nat
    BY <1>1, PendingFinite DEF WaitHeartbeatStopped, TypeOK, Counted, Started, One,
                               ListenerRuns, HeartbeatRuns, SbiRuns
<1>3. TypeOK'
    BY <1>2 DEF WaitHeartbeatStopped, TypeOK, nrf
<1>4. Started'
    BY DEF WaitHeartbeatStopped, TypeOK, Started
<1>5. OwnRequests'
    BY DEF WaitHeartbeatStopped, TypeOK, Started, OwnRequests, nrf
<1>6. HeartbeatOver'
    BY DEF WaitHeartbeatStopped, TypeOK, HeartbeatOver, Started, nrf
<1>7. Told'
    BY DEF WaitHeartbeatStopped, TypeOK, Told, Started, nrf
<1> QED
    BY <1>2, <1>3, <1>4, <1>5, <1>6, <1>7

LEMMA DeregisterKeeps ==
    ASSUME IInv, Deregister
    PROVE  IInv'
<1> USE DEF IInv
<1>1. \/ NowAsks("listener", "DELETE") /\ listenerAt' = "delete"
      \/ UNCHANGED client /\ listenerAt' = "done"
    BY SendAsks DEF Deregister, ListenerDone, Callers
<1>2. Pending' = Pending
    BY PendingSame DEF Deregister
<1>3. Counted' /\ waiting' \in Nat
    BY <1>2, PendingFinite DEF Deregister, ListenerDone, TypeOK, Counted, Started, One,
                               ListenerRuns, HeartbeatRuns, SbiRuns
<1>4. TypeOK'
    BY <1>1, <1>3 DEF Deregister, ListenerDone, TypeOK, nrf, NowAsks
<1>5. Started'
    BY NothingPending DEF Deregister, ListenerDone, TypeOK, Started, ListenerRuns,
                          HeartbeatRuns, SbiRuns, Pending
<1>6. OwnRequests'
    BY <1>1 DEF Deregister, ListenerDone, TypeOK, Started, OwnRequests, nrf, NowAsks,
                Callers
<1>7. HeartbeatOver'
    BY DEF Deregister, ListenerDone, TypeOK, HeartbeatOver, Started, nrf
<1>8. Told'
    BY DEF Deregister, ListenerDone, TypeOK, Told, Started, nrf
<1> QED
    BY <1>3, <1>4, <1>5, <1>6, <1>7, <1>8

LEMMA DeregisterAnsweredKeeps ==
    ASSUME IInv, DeregisterAnswered
    PROVE  IInv'
<1> USE DEF IInv
<1>1. NowAsks("listener", "none")
    BY EndAsksNothing DEF DeregisterAnswered, Answered, ListenerDone, Callers
<1>2. /\ listenerAt = "delete" /\ listenerAt' = "done" /\ waiting' = waiting - 1
      /\ UNCHANGED <<cancelled, mainAt, heartbeatAt, sbi, watcher, OAuth2Required,
                     abandoned, registered, nrfOAuth2, deregistered>>
    BY DEF DeregisterAnswered, ListenerDone, nrf
<1>3. Pending' = Pending
    BY <1>2, PendingSame
<1>4. Counted' /\ waiting' \in Nat
    BY <1>2, <1>3, PendingFinite DEF TypeOK, Counted, Started, One, ListenerRuns,
                                     HeartbeatRuns, SbiRuns
<1>5. TypeOK'
    BY <1>2, <1>1, <1>4 DEF TypeOK, NowAsks
<1>6. Started'
    BY <1>2, NothingPending DEF TypeOK, Started, ListenerRuns, HeartbeatRuns, SbiRuns,
                                Pending
<1>7. OwnRequests'
    BY <1>2, <1>1 DEF TypeOK, Started, OwnRequests, NowAsks, Callers
<1>8. HeartbeatOver'
    BY <1>2 DEF TypeOK, HeartbeatOver, Started
<1>9. Told'
    BY <1>2 DEF TypeOK, Told, Started
<1> QED
    BY <1>4, <1>5, <1>6, <1>7, <1>8, <1>9

-----------------------------------------------------------------------------
(* So does the NRF, which changes nothing of the CHF but the answers.      *)

LEMMA NrfKeeps ==
    ASSUME IInv, UNCHANGED <<chf, nrfOAuth2>>,
           client' \in [Callers -> Request \cup {NoRequest}],
           \A c \in Callers : client'[c].op = client[c].op,
           abandoned' \subseteq abandoned,
           registered' \in BOOLEAN, deregistered' \in BOOLEAN,
           deregistered' => deregistered \/ listenerAt = "delete"
    PROVE  IInv'
<1> USE DEF IInv, chf
<1>1. TypeOK'
    BY DEF TypeOK
<1>2. Pending' = Pending
    BY PendingSame
<1>3. Counted'
    BY <1>2 DEF Counted, One, ListenerRuns, HeartbeatRuns, SbiRuns
<1>4. Started' /\ HeartbeatOver' /\ Told'
    BY DEF Started, HeartbeatOver, Told
<1>5. OwnRequests'
    BY DEF OwnRequests, Callers
<1> QED
    BY <1>1, <1>3, <1>4, <1>5

LEMMA ServeKeeps ==
    ASSUME IInv, NEW c \in Callers, Serve(c)
    PROVE  IInv'
<1>1. PICK answer \in {"ok", "not found", "error"} :
         /\ Land(client[c].op, client[c].token, answer)
         /\ client' = [client EXCEPT ![c].answer = answer]
    BY DEF Serve
<1>2. /\ client' \in [Callers -> Request \cup {NoRequest}]
      /\ \A d \in Callers : client'[d].op = client[d].op
    BY <1>1, AnswerType DEF IInv, Serve
<1>3. /\ registered' \in BOOLEAN
      /\ deregistered' \in BOOLEAN
      /\ deregistered' => deregistered \/ client[c].op = "DELETE"
    BY <1>1, LandType DEF IInv
<1>4. client[c].op = "DELETE" => listenerAt = "delete"
    BY DEF IInv, OwnRequests, Callers
<1> QED
    BY <1>2, <1>3, <1>4, NrfKeeps DEF Serve

LEMMA FailKeeps ==
    ASSUME IInv, NEW c \in Callers, Fail(c)
    PROVE  IInv'
<1>1. /\ client' \in [Callers -> Request \cup {NoRequest}]
      /\ \A d \in Callers : client'[d].op = client[d].op
    BY AnswerType DEF IInv, Fail
<1> QED
    BY <1>1, NrfKeeps DEF Fail, nrf, IInv, TypeOK

LEMMA ServeAbandonedKeeps ==
    ASSUME IInv, NEW r \in abandoned, ServeAbandoned(r)
    PROVE  IInv'
<1>1. PICK answer : Land(r.op, r.token, answer)
    BY DEF ServeAbandoned
<1>2. /\ registered' \in BOOLEAN
      /\ deregistered' \in BOOLEAN
      /\ deregistered' => deregistered \/ r.op = "DELETE"
    BY <1>1, LandType DEF IInv
<1>3. r.op # "DELETE"
    BY DEF IInv, HeartbeatOver
<1> QED
    BY <1>2, <1>3, NrfKeeps DEF ServeAbandoned, IInv, TypeOK

LEMMA ForgetKeeps ==
    ASSUME IInv, Forget
    PROVE  IInv'
BY NrfKeeps DEF Forget, IInv, TypeOK

LEMMA NextIInv == IInv /\ [Next]_vars => IInv'
<1> SUFFICES ASSUME IInv, [Next]_vars PROVE IInv'
    OBVIOUS
<1>1. CASE Main
    BY <1>1, OpenServerKeeps, OpenServerFailsKeeps, StartListenerKeeps, RegisterKeeps,
       RegisteredKeeps, RetryRegisterKeeps, AbandonRegisterKeeps, StartHeartbeatKeeps,
       StartSbiKeeps, ExitKeeps DEF Main
<1>2. CASE Heartbeat
    BY <1>2, SendHeartbeatKeeps, HeartbeatAnsweredKeeps, ReregisterKeeps, ReregisteredKeeps,
       AbandonHeartbeatKeeps, StopHeartbeatKeeps DEF Heartbeat
<1>3. CASE Listener
    BY <1>3, StopSbiKeeps, WaitHeartbeatStoppedKeeps, DeregisterKeeps,
       DeregisterAnsweredKeeps
       DEF Listener
<1>4. CASE Watchers
    BY <1>4, StopWatcherKeeps DEF Watchers
<1>5. CASE Nrf
    BY <1>5, ServeKeeps, FailKeeps, ServeAbandonedKeeps, ForgetKeeps DEF Nrf
<1>6. CASE UNCHANGED vars
    <2>1. Pending' = Pending
        BY <1>6, PendingSame DEF vars, chf
    <2>2. Counted'
        BY <1>6, <2>1 DEF IInv, Counted, One, ListenerRuns, HeartbeatRuns, SbiRuns,
                          vars, chf
    <2>3. TypeOK' /\ OwnRequests'
        BY <1>6 DEF IInv, TypeOK, OwnRequests, vars, chf, nrf
    <2>4. Started' /\ HeartbeatOver' /\ Told'
        BY <1>6 DEF IInv, Started, HeartbeatOver, Told, vars, chf, nrf
    <2> QED
        BY <2>2, <2>3, <2>4 DEF IInv
<1> QED
    BY <1>1, <1>2, <1>3, <1>4, <1>5, <1>6, SbiReturnsKeeps, CancelKeeps DEF Next, Exited

-----------------------------------------------------------------------------

THEOREM Invariance == Spec => []IInv
BY InitIInv, NextIInv, PTL DEF Spec

\* Every variable keeps its type.  In particular the WaitGroup's counter does
\* not go below zero, which would be a panic: whoever calls Done has been added.
THEOREM TypeCorrect == Spec => []TypeOK
<1>1. IInv => TypeOK
    BY DEF IInv
<1> QED
    BY <1>1, Invariance, PTL

\* The process exits when everything it started has come to its end and no
\* goroutine waits for an answer of the NRF, whatever failed on the way.
THEOREM CleanExit == Spec => []ExitsClean
<1>1. IInv => ExitsClean
    <2> SUFFICES ASSUME IInv, mainAt = "exited"
                 PROVE  /\ listenerAt = "done"
                        /\ heartbeatAt \in {"none", "stopped"}
                        /\ sbi = "stopped"
                        /\ \A s \in Servers : watcher[s] = "stopped"
                        /\ \A c \in Callers : client[c] = NoRequest
        BY DEF ExitsClean
    <2>1. Pending = {} /\ ~ListenerRuns /\ ~HeartbeatRuns /\ ~SbiRuns
        BY NothingPending DEF IInv, Started
    <2>2. listenerAt = "done" /\ heartbeatAt \in {"none", "stopped"} /\ sbi = "stopped"
        BY <2>1 DEF IInv, TypeOK, Started, ListenerRuns, HeartbeatRuns, SbiRuns
    <2>3. \A s \in Servers : watcher[s] = "stopped"
        BY <2>1 DEF IInv, TypeOK, Started, Pending
    <2>4. ASSUME NEW c \in Callers PROVE client[c] = NoRequest
        <3>1. client[c].op = "none"
            BY <2>2 DEF IInv, OwnRequests, Callers
        <3>2. client[c] \notin Request
            BY <3>1 DEF Request
        <3> QED
            BY <3>2 DEF IInv, TypeOK
    <2> QED
        BY <2>2, <2>3, <2>4
<1> QED
    BY <1>1, Invariance, PTL

\* The SBI is not served before the NRF has told the CHF whether it takes
\* tokens, unless the shutdown has come already.
THEOREM ServedAsTold == Spec => []ServesAsTold
<1>1. IInv => ServesAsTold
    BY DEF IInv, Started, Told, ServesAsTold
<1> QED
    BY <1>1, Invariance, PTL

\* After the deregistration only the registration of the start, or one that the
\* heartbeat gave up when the shutdown came, can register the CHF once more.
THEOREM DeregistrationLasts == Spec => StaysDeregistered
<1>1. ASSUME IInv, [Next]_vars, deregistered, ~registered, registered'
      PROVE  client["main"].op = "PUT" \/ \E r \in abandoned : r.op = "PUT"
    <2>1. CASE \E c \in Callers : Serve(c)
        <3>1. PICK c \in Callers : Serve(c)
            BY <2>1
        <3>2. client[c].op = "PUT"
            BY <1>1, <3>1, LandType DEF IInv, Serve
        <3>3. c # "listener" /\ c # "heartbeat"
            BY <1>1, <3>2 DEF IInv, OwnRequests, HeartbeatOver
        <3> QED
            BY <3>2, <3>3 DEF Callers
    <2>2. CASE \E r \in abandoned : ServeAbandoned(r)
        <3>1. PICK r \in abandoned : ServeAbandoned(r)
            BY <2>2
        <3>2. r.op = "PUT"
            BY <1>1, <3>1, LandType DEF IInv, ServeAbandoned
        <3> QED
            BY <3>2
    <2>3. CASE UNCHANGED registered
        BY <1>1, <2>3
    <2>4. CASE registered' = FALSE
        BY <1>1, <2>4
    <2>5. Main \/ Heartbeat => UNCHANGED registered
        BY DEF Main, OpenServer, OpenServerFails, StartListener, Register, Registered,
               RetryRegister, AbandonRegister, StartHeartbeat, StartSbi, Exit,
               Heartbeat, SendHeartbeat, HeartbeatAnswered, Reregister, Reregistered,
               AbandonHeartbeat, StopHeartbeat, nrf
    <2>6. Listener \/ Watchers \/ SbiReturns \/ Cancel \/ Exited => UNCHANGED registered
        BY DEF Listener, StopSbi, WaitHeartbeatStopped, Deregister, DeregisterAnswered,
               Watchers, StopWatcher, SbiReturns, Cancel, Exited, vars, nrf
    <2>7. \A c \in Callers : Fail(c) => UNCHANGED registered
        BY DEF Fail, nrf
    <2>8. Forget => registered' = FALSE
        BY DEF Forget
    <2>9. UNCHANGED vars => UNCHANGED registered
        BY DEF vars, nrf
    <2> QED
        BY <1>1, <2>1, <2>2, <2>3, <2>4, <2>5, <2>6, <2>7, <2>8, <2>9 DEF Next, Nrf
<1>2. IInv /\ [Next]_vars =>
        [deregistered /\ ~registered /\ registered' =>
            client["main"].op = "PUT" \/ \E r \in abandoned : r.op = "PUT"]_vars
    BY <1>1
<1> QED
    BY <1>2, Invariance, PTL DEF Spec, StaysDeregistered
=============================================================================
