------------------------------- MODULE CgfProofs -------------------------------
(***************************************************************************)
(* Theorems about Cgf, for every number of subscribers, logins, requests   *)
(* and outages.                                                            *)
(***************************************************************************)
EXTENDS Cgf, FiniteSetTheorems, TLAPS

USE HandlersAssumption, RetryAssumption, BoundsAssumption

\* Places where a call of the FTP library is under way.
Calling == {"ping", "noop", "stor", "quit"}

\* Who logs in or sends a file holds connMutex, so there is only one.
Holders == \A p \in Callers : at[p] \in {"noop", "dial", "stor"} => mutex = p

\* A call is under way on a connection: under connMutex on the current one.
\* A handler that is past its first login has one.
CallsUnderway ==
    \A p \in Callers :
        /\ at[p] \notin Calling => using[p] = NoConn
        /\ at[p] \in Calling => using[p] \in Conns
        /\ at[p] \in {"noop", "stor"} => using[p] = conn
        /\ at[p] \in {"relogged", "ping", "noop", "lock", "stor"} => conn # NoConn

\* No connection but the current one is in good order, and that one is not when
\* it is about to be replaced.
OneLive ==
    \A c \in Conns :
        link[c] = "open" => c = conn /\ \A p \in Callers : at[p] # "dial"

\* A handler that is about to send its file, or sends it, over a connection that
\* is lost has been disturbed.
LossNoticed ==
    \A h \in Handlers :
        at[h] \in {"lock", "stor"} /\ link[conn] = "closed" => fate[h] = "disturbed"

\* The SBI server counts as drained when no handler is busy, and the process
\* exits when it is drained or has been given up.
DrainedFirst ==
    /\ sbi = "drained" => Busy = {}
    /\ exited => sbi \in {"drained", "abandoned"}

\* The inductive invariant.
IInv ==
    /\ TypeOK
    /\ Holders
    /\ CallsUnderway
    /\ OneLive
    /\ LossNoticed
    /\ DrainedFirst
    /\ SentFilesArrive

-----------------------------------------------------------------------------
(* The parties and the connections.                                        *)

LEMMA CallersAre ==
    /\ Handlers \subseteq Callers /\ "serve" \in Callers /\ "terminate" \in Callers
    /\ "serve" \notin Handlers /\ "terminate" \notin Handlers /\ Free \notin Callers
    /\ IsFiniteSet(Callers) /\ Cardinality(Callers) \in Nat
    /\ NoConn \notin Conns
<1>1. "free" # "serve" /\ "free" # "terminate"
    OBVIOUS
<1>2. IsFiniteSet(Handlers \cup {"serve"})
    BY FS_AddElement
<1>3. IsFiniteSet((Handlers \cup {"serve"}) \cup {"terminate"})
    BY <1>2, FS_AddElement
<1>4. Callers = (Handlers \cup {"serve"}) \cup {"terminate"}
    BY DEF Callers
<1>5. IsFiniteSet(Callers) /\ Cardinality(Callers) \in Nat
    BY <1>3, <1>4, FS_CardinalityType
<1> QED
    BY <1>1, <1>5 DEF Callers, Free, Conns, NoConn

\* There is a connection for a login to make: there are more than callers, and
\* the one that logs in uses none.
LEMMA FreshConn ==
    ASSUME TypeOK, NEW p \in Callers, using[p] = NoConn
    PROVE  \E c \in Conns : c # conn /\ \A q \in Callers : using[q] # c
<1> SUFFICES ASSUME \A c \in Conns : c = conn \/ \E q \in Callers : using[q] = c
             PROVE  FALSE
    OBVIOUS
<1> DEFINE n == Cardinality(Callers)
           user == [c \in Conns |-> IF c = conn THEN p
                                    ELSE CHOOSE q \in Callers : using[q] = c]
<1>1. n \in Nat /\ IsFiniteSet(Callers) /\ NoConn \notin Conns
    BY CallersAre
<1>2. IsFiniteSet(Conns) /\ Cardinality(Conns) = n + 1
    BY <1>1, FS_Interval DEF Conns
<1>3. ASSUME NEW c \in Conns
      PROVE  /\ user[c] \in Callers
             /\ c # conn => using[user[c]] = c
             /\ c = conn => user[c] = p
    OBVIOUS
<1>4. user \in [Conns -> Callers]
    BY <1>3
<1>5. n < Cardinality(Conns)
    BY <1>1, <1>2
<1> HIDE DEF user
<1>6. PICK c, d \in Conns : c # d /\ user[c] = user[d]
    BY <1>1, <1>2, <1>4, <1>5, FS_PigeonHole
<1> QED
    BY <1>1, <1>3, <1>6

-----------------------------------------------------------------------------
(* What the calls of the FTP library do.                                   *)

\* A call does not make a connection good, and does not lose the current one.
LEMMA CallEffect ==
    ASSUME TypeOK, NEW p \in Callers, NEW place \in Places, Call(p, place), conn # NoConn
    PROVE  /\ at' \in [Callers -> Places] /\ at'[p] = place
           /\ using' \in [Callers -> Conns \cup {NoConn}] /\ using'[p] = conn
           /\ \A q \in Callers \ {p} : at'[q] = at[q] /\ using'[q] = using[q]
           /\ link' \in [Conns -> {"open", "shared", "closed"}]
           /\ \A c \in Conns : link'[c] = "open" => link[c] = "open"
           /\ link'[conn] = "closed" => link[conn] = "closed"
BY DEF TypeOK, Call, Goto

\* Nor does the end of one.
LEMMA DisconnectEffect ==
    ASSUME TypeOK, NEW p \in Callers, Disconnect(p), conn # NoConn
    PROVE  /\ using' \in [Callers -> Conns \cup {NoConn}] /\ using'[p] = NoConn
           /\ \A q \in Callers \ {p} : using'[q] = using[q]
           /\ link' \in [Conns -> {"open", "shared", "closed"}]
           /\ \A c \in Conns : link'[c] = "open" => link[c] = "open"
           /\ link'[conn] = link[conn]
BY DEF TypeOK, Disconnect

LEMMA ReturnEffect ==
    ASSUME TypeOK, NEW p \in Callers, Return(p)
    PROVE  /\ fate' \in [Handlers -> Fates]
           /\ \A h \in Handlers : h # p => fate'[h] = fate[h]
           /\ p \in Handlers => fate'[p] = IF link[using[p]] = "shared" THEN "disturbed" ELSE fate[p]
BY DEF TypeOK, Return, Fates

\* Losing connections disturbs the handlers that rely on them.
LEMMA LoseEffect ==
    ASSUME TypeOK, NEW conns, Lose(conns)
    PROVE  /\ link' \in [Conns -> {"open", "shared", "closed"}]
           /\ fate' \in [Handlers -> Fates]
           /\ \A c \in Conns : link'[c] = IF c \in conns THEN "closed" ELSE link[c]
           /\ \A h \in Handlers :
                 /\ at[h] \notin {"lock", "stor"} => fate'[h] = fate[h]
                 /\ fate'[h] \in {fate[h], "disturbed"}
                 /\ at[h] = "lock" /\ conn \in conns => fate'[h] = "disturbed"
                 /\ at[h] = "stor" /\ using[h] \in conns => fate'[h] = "disturbed"
BY DEF TypeOK, Lose, Fates

-----------------------------------------------------------------------------
(* The inductive invariant.                                                *)

LEMMA InitIInv == Init => IInv
<1> SUFFICES ASSUME Init PROVE IInv
    OBVIOUS
<1>1. \A p \in Callers : at[p] \in {"login", "waiting", "idle"}
    BY DEF Init
<1>2. TypeOK
    <2>1. at \in [Callers -> Places]
        BY DEF Init, Places
    <2>2. /\ tries \in 0 .. FTP_LOGIN_RETRY_NUMBER
          /\ nRequests \in 0 .. MaxRequests
          /\ nOutages \in 0 .. MaxOutages
        BY DEF Init
    <2>3. /\ stored \in [Handlers -> Nat \cup {Torn}]
          /\ version \in [Handlers -> Nat]
          /\ fate \in [Handlers -> Fates]
        BY DEF Init, Fates
    <2> QED
        BY <2>1, <2>2, <2>3 DEF Init, TypeOK
<1>3. Holders /\ CallsUnderway /\ OneLive /\ LossNoticed
    BY <1>1, CallersAre DEF Init, Holders, CallsUnderway, OneLive, LossNoticed, Calling
<1>4. DrainedFirst /\ SentFilesArrive
    BY DEF Init, DrainedFirst, SentFilesArrive
<1> QED
    BY <1>2, <1>3, <1>4 DEF IInv

-----------------------------------------------------------------------------
(* Each step keeps the invariant: the billing domain's server, the SBI      *)
(* server and the end of the process.                                      *)

USE DEF gateway, process, billing, bounds

LEMMA OutageKeeps ==
    ASSUME IInv, Outage
    PROVE  IInv'
<1> USE DEF IInv
<1>1. /\ link' \in [Conns -> {"open", "shared", "closed"}]
      /\ \A c \in Conns : link'[c] = "closed"
      /\ fate' \in [Handlers -> Fates]
      /\ \A h \in Handlers :
            /\ at[h] \notin {"lock", "stor"} => fate'[h] = fate[h]
            /\ conn # NoConn /\ at[h] = "lock" => fate'[h] = "disturbed"
            /\ at[h] = "stor" /\ using[h] \in Conns => fate'[h] = "disturbed"
    BY LoseEffect DEF Outage, TypeOK
<1>2. nOutages' \in 0 .. MaxOutages
    BY DEF Outage, TypeOK
<1>3. UNCHANGED <<gateway, process, stored, nRequests>>
    BY DEF Outage
<1>4. TypeOK'
    BY <1>1, <1>2, <1>3 DEF TypeOK
<1>5. Holders'
    BY <1>1, <1>2, <1>3 DEF TypeOK, Holders
<1>6. CallsUnderway'
    BY <1>1, <1>2, <1>3 DEF TypeOK, CallsUnderway, Calling
<1>7. OneLive'
    BY <1>1, <1>2, <1>3 DEF TypeOK, OneLive
<1>8. LossNoticed'
    BY <1>1, <1>2, <1>3, CallersAre DEF CallsUnderway, TypeOK, LossNoticed
<1>9. DrainedFirst'
    BY <1>1, <1>2, <1>3 DEF TypeOK, DrainedFirst, Busy
<1>10. SentFilesArrive'
    BY <1>1, <1>2, <1>3 DEF TypeOK, SentFilesArrive
<1> QED
    BY <1>4, <1>5, <1>6, <1>7, <1>8, <1>9, <1>10

LEMMA CancelKeeps ==
    ASSUME IInv, Cancel
    PROVE  IInv'
<1> USE DEF IInv
<1>1. TypeOK'
    BY DEF Cancel, TypeOK
<1>2. Holders'
    BY DEF Cancel, TypeOK, Holders
<1>3. CallsUnderway'
    BY DEF Cancel, TypeOK, CallsUnderway, Calling
<1>4. OneLive'
    BY DEF Cancel, TypeOK, OneLive
<1>5. LossNoticed'
    BY DEF Cancel, TypeOK, LossNoticed
<1>6. DrainedFirst'
    BY DEF Cancel, TypeOK, DrainedFirst, Busy
<1>7. SentFilesArrive'
    BY DEF Cancel, TypeOK, SentFilesArrive
<1> QED
    BY <1>1, <1>2, <1>3, <1>4, <1>5, <1>6, <1>7

LEMMA StopServerKeeps ==
    ASSUME IInv, StopServer
    PROVE  IInv'
<1> USE DEF IInv
<1>1. TypeOK'
    BY DEF StopServer, TypeOK
<1>2. Holders'
    BY DEF StopServer, TypeOK, Holders
<1>3. CallsUnderway'
    BY DEF StopServer, TypeOK, CallsUnderway, Calling
<1>4. OneLive'
    BY DEF StopServer, TypeOK, OneLive
<1>5. LossNoticed'
    BY DEF StopServer, TypeOK, LossNoticed
<1>6. DrainedFirst'
    BY DEF StopServer, TypeOK, DrainedFirst, Busy
<1>7. SentFilesArrive'
    BY DEF StopServer, TypeOK, SentFilesArrive
<1> QED
    BY <1>1, <1>2, <1>3, <1>4, <1>5, <1>6, <1>7

LEMMA DrainedKeeps ==
    ASSUME IInv, Drained
    PROVE  IInv'
<1> USE DEF IInv
<1>1. TypeOK'
    BY DEF Drained, TypeOK
<1>2. Holders'
    BY DEF Drained, TypeOK, Holders
<1>3. CallsUnderway'
    BY DEF Drained, TypeOK, CallsUnderway, Calling
<1>4. OneLive'
    BY DEF Drained, TypeOK, OneLive
<1>5. LossNoticed'
    BY DEF Drained, TypeOK, LossNoticed
<1>6. DrainedFirst'
    BY DEF Drained, TypeOK, DrainedFirst, Busy
<1>7. SentFilesArrive'
    BY DEF Drained, TypeOK, SentFilesArrive
<1> QED
    BY <1>1, <1>2, <1>3, <1>4, <1>5, <1>6, <1>7

LEMMA GraceOverKeeps ==
    ASSUME IInv, GraceOver
    PROVE  IInv'
<1> USE DEF IInv
<1>1. TypeOK'
    BY DEF GraceOver, TypeOK
<1>2. Holders'
    BY DEF GraceOver, TypeOK, Holders
<1>3. CallsUnderway'
    BY DEF GraceOver, TypeOK, CallsUnderway, Calling
<1>4. OneLive'
    BY DEF GraceOver, TypeOK, OneLive
<1>5. LossNoticed'
    BY DEF GraceOver, TypeOK, LossNoticed
<1>6. DrainedFirst'
    BY DEF GraceOver, TypeOK, DrainedFirst, Busy
<1>7. SentFilesArrive'
    BY DEF GraceOver, TypeOK, SentFilesArrive
<1> QED
    BY <1>1, <1>2, <1>3, <1>4, <1>5, <1>6, <1>7

LEMMA ExitKeeps ==
    ASSUME IInv, Exit
    PROVE  IInv'
<1> USE DEF IInv
<1>1. TypeOK'
    BY DEF Exit, TypeOK
<1>2. Holders'
    BY DEF Exit, TypeOK, Holders
<1>3. CallsUnderway'
    BY DEF Exit, TypeOK, CallsUnderway, Calling
<1>4. OneLive'
    BY DEF Exit, TypeOK, OneLive
<1>5. LossNoticed'
    BY DEF Exit, TypeOK, LossNoticed
<1>6. DrainedFirst'
    BY DEF Exit, TypeOK, DrainedFirst, Busy
<1>7. SentFilesArrive'
    BY DEF Exit, TypeOK, SentFilesArrive
<1> QED
    BY <1>1, <1>2, <1>3, <1>4, <1>5, <1>6, <1>7

-----------------------------------------------------------------------------
(* Terminate.                                                              *)

LEMMA StartQuitKeeps ==
    ASSUME IInv, StartQuit
    PROVE  IInv'
<1> USE DEF IInv
<1>1. /\ at' \in [Callers -> Places]
      /\ using' \in [Callers -> Conns \cup {NoConn}]
      /\ link' \in [Conns -> {"open", "shared", "closed"}]
      /\ \A q \in Callers \ {"terminate"} : at'[q] = at[q] /\ using'[q] = using[q]
      /\ \/ at'["terminate"] = "remove" /\ using'["terminate"] = NoConn
         \/ at'["terminate"] = "quit" /\ using'["terminate"] \in Conns
      /\ \A c \in Conns : link'[c] = "open" => link[c] = "open"
      /\ conn # NoConn => (link'[conn] = "closed" => link[conn] = "closed")
    <2>1. CASE conn = NoConn
        BY <2>1, CallersAre DEF StartQuit, TypeOK, Goto, CallsUnderway, Calling, Places
    <2>2. CASE conn # NoConn
        BY <2>2, CallersAre, CallEffect DEF StartQuit, TypeOK, Places
    <2> QED
        BY <2>1, <2>2
<1>2. TypeOK'
    BY CallersAre, <1>1 DEF StartQuit, TypeOK
<1>3. Holders'
    BY CallersAre, <1>1 DEF StartQuit, TypeOK, Holders
<1>4. CallsUnderway'
    BY CallersAre, <1>1 DEF StartQuit, TypeOK, CallsUnderway, Calling
<1>5. OneLive'
    BY CallersAre, <1>1 DEF StartQuit, TypeOK, OneLive
<1>6. LossNoticed'
    BY CallersAre, <1>1 DEF StartQuit, CallsUnderway, TypeOK, LossNoticed
<1>7. DrainedFirst'
    BY CallersAre, <1>1 DEF StartQuit, TypeOK, DrainedFirst, Busy
<1>8. SentFilesArrive'
    BY CallersAre, <1>1 DEF StartQuit, TypeOK, SentFilesArrive
<1> QED
    BY <1>2, <1>3, <1>4, <1>5, <1>6, <1>7, <1>8

LEMMA QuitEndsKeeps ==
    ASSUME IInv, QuitEnds
    PROVE  IInv'
<1> USE DEF IInv
<1>1. TypeOK'
    BY CallersAre, LoseEffect DEF QuitEnds, Goto, Places, TypeOK
<1>2. Holders'
    BY CallersAre, LoseEffect DEF QuitEnds, Goto, Places, TypeOK, Holders
<1>3. CallsUnderway'
    BY CallersAre, LoseEffect DEF QuitEnds, Goto, Places, TypeOK, CallsUnderway, Calling
<1>4. OneLive'
    BY CallersAre, LoseEffect DEF QuitEnds, Goto, Places, TypeOK, OneLive
<1>5. LossNoticed'
    BY CallersAre, LoseEffect DEF QuitEnds, Goto, Places, CallsUnderway, TypeOK, LossNoticed
<1>6. DrainedFirst'
    BY CallersAre, LoseEffect DEF QuitEnds, Goto, Places, TypeOK, DrainedFirst, Busy
<1>7. SentFilesArrive'
    BY CallersAre, LoseEffect DEF QuitEnds, Goto, Places, TypeOK, SentFilesArrive
<1> QED
    BY <1>1, <1>2, <1>3, <1>4, <1>5, <1>6, <1>7

LEMMA RemoveCdrFilesKeeps ==
    ASSUME IInv, RemoveCdrFiles
    PROVE  IInv'
<1> USE DEF IInv
<1>1. TypeOK'
    BY CallersAre DEF RemoveCdrFiles, Goto, Places, TypeOK
<1>2. Holders'
    BY CallersAre DEF RemoveCdrFiles, Goto, Places, TypeOK, Holders
<1>3. CallsUnderway'
    BY CallersAre DEF RemoveCdrFiles, Goto, Places, TypeOK, CallsUnderway, Calling
<1>4. OneLive'
    BY CallersAre DEF RemoveCdrFiles, Goto, Places, TypeOK, OneLive
<1>5. LossNoticed'
    BY CallersAre DEF RemoveCdrFiles, Goto, Places, TypeOK, LossNoticed
<1>6. DrainedFirst'
    BY CallersAre DEF RemoveCdrFiles, Goto, Places, TypeOK, DrainedFirst, Busy
<1>7. SentFilesArrive'
    BY CallersAre DEF RemoveCdrFiles, Goto, Places, TypeOK, SentFilesArrive
<1> QED
    BY <1>1, <1>2, <1>3, <1>4, <1>5, <1>6, <1>7

-----------------------------------------------------------------------------
(* Login.                                                                  *)

LEMMA EnterLoginKeeps ==
    ASSUME IInv, NEW p \in Callers, EnterLogin(p)
    PROVE  IInv'
<1> USE DEF IInv
<1>1. /\ at' \in [Callers -> Places]
      /\ using' \in [Callers -> Conns \cup {NoConn}]
      /\ link' \in [Conns -> {"open", "shared", "closed"}]
      /\ \A q \in Callers \ {p} : at'[q] = at[q] /\ using'[q] = using[q]
      /\ \/ at'[p] = "dial" /\ using'[p] = NoConn /\ conn = NoConn
         \/ at'[p] = "noop" /\ using'[p] = conn /\ conn # NoConn
      /\ \A c \in Conns : link'[c] = "open" => link[c] = "open"
      /\ conn # NoConn => (link'[conn] = "closed" => link[conn] = "closed")
    <2>1. CASE conn = NoConn
        BY <2>1 DEF EnterLogin, TypeOK, Goto, CallsUnderway, Calling, Places, Call
    <2>2. CASE conn # NoConn
        BY <2>2, CallEffect DEF EnterLogin, TypeOK, Places
    <2> QED
        BY <2>1, <2>2
<1>2. TypeOK'
    BY CallersAre, <1>1 DEF EnterLogin, TypeOK
<1>3. Holders'
    BY CallersAre, <1>1 DEF EnterLogin, TypeOK, Holders
<1>4. CallsUnderway'
    BY CallersAre, <1>1 DEF EnterLogin, TypeOK, CallsUnderway, Calling
<1>5. OneLive'
    BY CallersAre, <1>1 DEF EnterLogin, CallsUnderway, TypeOK, OneLive
<1>6. LossNoticed'
    BY CallersAre, <1>1 DEF EnterLogin, CallsUnderway, TypeOK, LossNoticed
<1>7. DrainedFirst'
    BY CallersAre, <1>1 DEF EnterLogin, TypeOK, DrainedFirst, Busy
<1>8. SentFilesArrive'
    BY CallersAre, <1>1 DEF EnterLogin, TypeOK, SentFilesArrive
<1> QED
    BY <1>2, <1>3, <1>4, <1>5, <1>6, <1>7, <1>8

LEMMA NoOpEndsKeeps ==
    ASSUME IInv, NEW p \in Callers, NoOpEnds(p)
    PROVE  IInv'
<1> USE DEF IInv
<1>1. /\ conn # NoConn /\ using[p] = conn /\ mutex = p /\ at[p] = "noop"
      /\ Disconnect(p) /\ Return(p)
      /\ UNCHANGED <<conn, process, stored, bounds>>
    BY DEF NoOpEnds, Return, CallsUnderway, Holders
<1>2. /\ at' \in [Callers -> Places]
      /\ then' \in [Callers -> {"relogged", "lock", "listen"}]
      /\ tries' \in 0 .. FTP_LOGIN_RETRY_NUMBER
      /\ \A q \in Callers \ {p} : at'[q] = at[q]
      /\ \/ /\ at'[p] \in {"relogged", "lock", "listen"}
            /\ mutex' = Free
            /\ link[conn] \in {"open", "shared"}
         \/ /\ at'[p] = "dial"
            /\ mutex' = p
            /\ link[conn] \in {"closed", "shared"}
    BY <1>1 DEF NoOpEnds, LeaveLogin, Goto, Works, Breaks, TypeOK, Places
<1>3. /\ using' \in [Callers -> Conns \cup {NoConn}] /\ using'[p] = NoConn
      /\ \A q \in Callers \ {p} : using'[q] = using[q]
      /\ link' \in [Conns -> {"open", "shared", "closed"}]
      /\ \A c \in Conns : link'[c] = "open" => link[c] = "open"
      /\ link'[conn] = link[conn]
      /\ fate' \in [Handlers -> Fates]
      /\ \A h \in Handlers : h # p => fate'[h] = fate[h]
      /\ p \in Handlers =>
            fate'[p] = IF link[conn] = "shared" THEN "disturbed" ELSE fate[p]
    BY <1>1, DisconnectEffect, ReturnEffect
<1>4. TypeOK'
    BY CallersAre, <1>1, <1>2, <1>3 DEF TypeOK
<1>5. Holders'
    BY CallersAre, <1>1, <1>2, <1>3 DEF TypeOK, Holders
<1>6. CallsUnderway'
    BY CallersAre, <1>1, <1>2, <1>3 DEF TypeOK, CallsUnderway, Calling
<1>7. OneLive'
    BY CallersAre, <1>1, <1>2, <1>3 DEF CallsUnderway, TypeOK, OneLive
<1>8. LossNoticed'
    BY CallersAre, <1>1, <1>2, <1>3 DEF CallsUnderway, TypeOK, LossNoticed
<1>9. DrainedFirst'
    BY CallersAre, <1>1, <1>2, <1>3 DEF TypeOK, DrainedFirst, Busy
<1>10. SentFilesArrive'
    BY CallersAre, <1>1, <1>2, <1>3 DEF TypeOK, SentFilesArrive
<1> QED
    BY <1>4, <1>5, <1>6, <1>7, <1>8, <1>9, <1>10

LEMMA DialKeeps ==
    ASSUME IInv, NEW p \in Callers, Dial(p)
    PROVE  IInv'
<1> USE DEF IInv
<1>1. /\ at[p] = "dial" /\ mutex = p /\ using[p] = NoConn
      /\ UNCHANGED <<using, process, stored, bounds, fate>>
    BY DEF Dial, CallsUnderway, Calling, Holders
<1>2. /\ at' \in [Callers -> Places]
      /\ then' \in [Callers -> {"relogged", "lock", "listen"}]
      /\ tries' \in 0 .. FTP_LOGIN_RETRY_NUMBER
      /\ \A q \in Callers \ {p} : at'[q] = at[q]
      /\ at'[p] \in {"relogged", "lock", "listen"}
      /\ mutex' = Free
    BY DEF Dial, LeaveLogin, Goto, TypeOK, Places
<1>3. /\ conn' \in Conns
      /\ link' \in [Conns -> {"open", "shared", "closed"}]
      /\ link'[conn'] = "open"
      /\ \A c \in Conns \ {conn'} : link'[c] \in {link[c], "closed"}
    <2> DEFINE new == CHOOSE c \in Conns : c # conn /\ \A q \in Callers : using[q] # c
    <2>1. new \in Conns
        BY <1>1, FreshConn
    <2>2. /\ conn' = new
          /\ link' = [c \in Conns |-> IF c = new THEN "open"
                                     ELSE IF \A q \in Callers : using[q] # c THEN "closed"
                                     ELSE link[c]]
        BY DEF Dial
    <2> HIDE DEF new
    <2>3. ASSUME NEW c \in Conns \ {new}
          PROVE  link'[c] \in {link[c], "closed"}
        <3>1. CASE \A q \in Callers : using[q] # c
            BY <2>2, <3>1
        <3>2. CASE ~\A q \in Callers : using[q] # c
            BY <2>2, <3>2
        <3> QED
            BY <3>1, <3>2
    <2>4. link'[new] = "open"
        BY <2>1, <2>2
    <2>5. link' \in [Conns -> {"open", "shared", "closed"}]
        BY <2>2 DEF TypeOK
    <2> QED
        BY <2>1, <2>2, <2>3, <2>4, <2>5
<1>4. TypeOK'
    BY CallersAre, <1>1, <1>2, <1>3 DEF TypeOK
<1>5. Holders'
    BY CallersAre, <1>1, <1>2, <1>3 DEF TypeOK, Holders
<1>6. CallsUnderway'
    BY CallersAre, <1>1, <1>2, <1>3 DEF Holders, TypeOK, CallsUnderway, Calling
<1>7. OneLive'
    BY CallersAre, <1>1, <1>2, <1>3 DEF Holders, TypeOK, OneLive
<1>8. LossNoticed'
    BY CallersAre, <1>1, <1>2, <1>3 DEF CallsUnderway, TypeOK, LossNoticed
<1>9. DrainedFirst'
    BY CallersAre, <1>1, <1>2, <1>3 DEF TypeOK, DrainedFirst, Busy
<1>10. SentFilesArrive'
    BY CallersAre, <1>1, <1>2, <1>3 DEF TypeOK, SentFilesArrive
<1> QED
    BY <1>4, <1>5, <1>6, <1>7, <1>8, <1>9, <1>10

LEMMA DialFailsKeeps ==
    ASSUME IInv, NEW p \in Callers, DialFails(p)
    PROVE  IInv'
<1> USE DEF IInv
<1>1. /\ at[p] = "dial" /\ mutex = p
      /\ UNCHANGED <<conn, using, process, billing, bounds>>
    BY DEF DialFails, Holders
<1>2. /\ at' \in [Callers -> Places]
      /\ then' \in [Callers -> {"relogged", "lock", "listen"}]
      /\ tries' \in 0 .. FTP_LOGIN_RETRY_NUMBER
      /\ \A q \in Callers \ {p} : at'[q] = at[q]
      /\ mutex' = Free
      /\ \/ p \in Handlers /\ at'[p] = "idle" /\ fate' = [fate EXCEPT ![p] = "failed"]
         \/ p = "serve" /\ at'[p] \in {"login", "listen"} /\ UNCHANGED fate
    BY DEF DialFails, LeaveLogin, Goto, TypeOK, Places
<1>3. TypeOK'
    BY CallersAre, <1>1, <1>2 DEF Fates, TypeOK
<1>4. Holders'
    BY CallersAre, <1>1, <1>2 DEF TypeOK, Holders
<1>5. CallsUnderway'
    BY CallersAre, <1>1, <1>2 DEF TypeOK, CallsUnderway, Calling
<1>6. OneLive'
    BY CallersAre, <1>1, <1>2 DEF TypeOK, OneLive
<1>7. LossNoticed'
    BY CallersAre, <1>1, <1>2 DEF TypeOK, LossNoticed
<1>8. DrainedFirst'
    BY CallersAre, <1>1, <1>2 DEF TypeOK, DrainedFirst, Busy
<1>9. SentFilesArrive'
    BY CallersAre, <1>1, <1>2 DEF TypeOK, SentFilesArrive
<1> QED
    BY <1>3, <1>4, <1>5, <1>6, <1>7, <1>8, <1>9

-----------------------------------------------------------------------------
(* Charging requests and SendCDR.                                          *)

\* A handler that looks for a connection pings it or is off to log in.
LEMMA CheckEffect ==
    ASSUME IInv, NEW h \in Handlers, at[h] \notin Calling, CheckConn(h)
    PROVE  /\ at' \in [Callers -> Places]
           /\ then' \in [Callers -> {"relogged", "lock", "listen"}]
           /\ using' \in [Callers -> Conns \cup {NoConn}]
           /\ link' \in [Conns -> {"open", "shared", "closed"}]
           /\ \A q \in Callers \ {h} : at'[q] = at[q] /\ using'[q] = using[q]
           /\ \/ at'[h] = "login" /\ using'[h] = NoConn
              \/ at'[h] = "ping" /\ using'[h] \in Conns /\ conn # NoConn
           /\ \A c \in Conns : link'[c] = "open" => link[c] = "open"
           /\ conn # NoConn => (link'[conn] = "closed" => link[conn] = "closed")
<1> USE DEF IInv
<1>1. CASE conn = NoConn
    BY <1>1, CallersAre DEF CheckConn, TypeOK, Goto, CallsUnderway, Places
<1>2. CASE conn # NoConn
    BY <1>2, CallersAre, CallEffect DEF CheckConn, TypeOK, Places
<1> QED
    BY <1>1, <1>2

LEMMA BeginCreateKeeps ==
    ASSUME IInv, NEW h \in Handlers, BeginCreate(h)
    PROVE  IInv'
<1> USE DEF IInv
<1>1. /\ at[h] = "idle" /\ sbi \in {"serving", "cancelled"}
      /\ nRequests' \in 0 .. MaxRequests
    BY DEF BeginCreate, Begin, TypeOK
<1>2. /\ sends' \in [Handlers -> BOOLEAN]
      /\ \A g \in Handlers \ {h} : sends'[g] = sends[g]
      /\ fate' = [fate EXCEPT ![h] = "fine"]
      /\ UNCHANGED <<conn, mutex, tries, sbi, exited, onDisk, version, stored, nOutages>>
    BY DEF BeginCreate, Begin, TypeOK
<1>3. /\ at' \in [Callers -> Places]
      /\ then' \in [Callers -> {"relogged", "lock", "listen"}]
      /\ using' \in [Callers -> Conns \cup {NoConn}]
      /\ link' \in [Conns -> {"open", "shared", "closed"}]
      /\ \A q \in Callers \ {h} : at'[q] = at[q] /\ using'[q] = using[q]
      /\ \/ at'[h] = "login" /\ using'[h] = NoConn
         \/ at'[h] = "ping" /\ using'[h] \in Conns /\ conn # NoConn
      /\ \A c \in Conns : link'[c] = "open" => link[c] = "open"
      /\ conn # NoConn => (link'[conn] = "closed" => link[conn] = "closed")
    BY <1>1, CheckEffect DEF BeginCreate, Calling
<1>4. TypeOK'
    BY CallersAre, <1>1, <1>2, <1>3 DEF Fates, TypeOK
<1>5. Holders'
    BY CallersAre, <1>1, <1>2, <1>3 DEF TypeOK, Holders
<1>6. CallsUnderway'
    BY CallersAre, <1>1, <1>2, <1>3 DEF TypeOK, CallsUnderway, Calling
<1>7. OneLive'
    BY CallersAre, <1>1, <1>2, <1>3 DEF TypeOK, OneLive
<1>8. LossNoticed'
    BY CallersAre, <1>1, <1>2, <1>3 DEF CallsUnderway, TypeOK, LossNoticed
<1>9. DrainedFirst'
    BY CallersAre, <1>1, <1>2, <1>3 DEF TypeOK, DrainedFirst, Busy
<1>10. SentFilesArrive'
    BY CallersAre, <1>1, <1>2, <1>3 DEF TypeOK, SentFilesArrive
<1> QED
    BY <1>4, <1>5, <1>6, <1>7, <1>8, <1>9, <1>10

LEMMA BeginChargingKeeps ==
    ASSUME IInv, NEW h \in Handlers, BeginCharging(h)
    PROVE  IInv'
<1> USE DEF IInv
<1>1. /\ at[h] = "idle" /\ sbi \in {"serving", "cancelled"}
      /\ nRequests' \in 0 .. MaxRequests
    BY DEF BeginCharging, Begin, TypeOK
<1>2. /\ sends' \in [Handlers -> BOOLEAN]
      /\ \A g \in Handlers \ {h} : sends'[g] = sends[g]
      /\ fate' = [fate EXCEPT ![h] = "fine"]
      /\ UNCHANGED <<conn, mutex, tries, sbi, exited, onDisk, version, stored, nOutages>>
    BY DEF BeginCharging, Begin, TypeOK
<1>3. /\ at' \in [Callers -> Places] /\ at'[h] = "work"
      /\ \A q \in Callers \ {h} : at'[q] = at[q]
      /\ UNCHANGED <<then, using, link>>
    BY CallersAre DEF BeginCharging, Goto, TypeOK, Places
<1>4. TypeOK'
    BY CallersAre, <1>1, <1>2, <1>3 DEF Fates, TypeOK
<1>5. Holders'
    BY CallersAre, <1>1, <1>2, <1>3 DEF TypeOK, Holders
<1>6. CallsUnderway'
    BY CallersAre, <1>1, <1>2, <1>3 DEF TypeOK, CallsUnderway, Calling
<1>7. OneLive'
    BY CallersAre, <1>1, <1>2, <1>3 DEF TypeOK, OneLive
<1>8. LossNoticed'
    BY CallersAre, <1>1, <1>2, <1>3 DEF TypeOK, LossNoticed
<1>9. DrainedFirst'
    BY CallersAre, <1>1, <1>2, <1>3 DEF TypeOK, DrainedFirst, Busy
<1>10. SentFilesArrive'
    BY CallersAre, <1>1, <1>2, <1>3 DEF TypeOK, SentFilesArrive
<1> QED
    BY <1>4, <1>5, <1>6, <1>7, <1>8, <1>9, <1>10

LEMMA DumpCdrFileKeeps ==
    ASSUME IInv, NEW h \in Handlers, DumpCdrFile(h)
    PROVE  IInv'
<1> USE DEF IInv
<1>1. /\ at[h] = "work"
      /\ onDisk' \subseteq Handlers
      /\ version' \in [Handlers -> Nat]
      /\ \A g \in Handlers \ {h} : version'[g] = version[g]
    BY DEF DumpCdrFile, TypeOK
<1>2. UNCHANGED <<conn, mutex, tries, sbi, exited, sends, stored, bounds, fate>>
    BY DEF DumpCdrFile
<1>3. /\ at' \in [Callers -> Places]
      /\ then' \in [Callers -> {"relogged", "lock", "listen"}]
      /\ using' \in [Callers -> Conns \cup {NoConn}]
      /\ link' \in [Conns -> {"open", "shared", "closed"}]
      /\ \A q \in Callers \ {h} : at'[q] = at[q] /\ using'[q] = using[q]
      /\ \/ at'[h] = "login" /\ using'[h] = NoConn
         \/ at'[h] = "ping" /\ using'[h] \in Conns /\ conn # NoConn
         \/ at'[h] = "idle" /\ using'[h] = NoConn /\ ~sends[h]
      /\ \A c \in Conns : link'[c] = "open" => link[c] = "open"
      /\ conn # NoConn => (link'[conn] = "closed" => link[conn] = "closed")
    <2>1. CASE CheckConn(h)
        BY <1>1, <2>1, CheckEffect DEF Calling
    <2>2. CASE ~sends[h] /\ Goto(h, "idle") /\ UNCHANGED <<then, using, link>>
        BY <1>1, <2>2, CallersAre DEF Goto, TypeOK, Places, CallsUnderway, Calling
    <2> QED
        BY <2>1, <2>2 DEF DumpCdrFile
<1>4. TypeOK'
    BY CallersAre, <1>1, <1>2, <1>3 DEF TypeOK
<1>5. Holders'
    BY CallersAre, <1>1, <1>2, <1>3 DEF TypeOK, Holders
<1>6. CallsUnderway'
    BY CallersAre, <1>1, <1>2, <1>3 DEF TypeOK, CallsUnderway, Calling
<1>7. OneLive'
    BY CallersAre, <1>1, <1>2, <1>3 DEF TypeOK, OneLive
<1>8. LossNoticed'
    BY CallersAre, <1>1, <1>2, <1>3 DEF CallsUnderway, TypeOK, LossNoticed
<1>9. DrainedFirst'
    BY CallersAre, <1>1, <1>2, <1>3 DEF TypeOK, DrainedFirst, Busy
<1>10. SentFilesArrive'
    BY CallersAre, <1>1, <1>2, <1>3 DEF TypeOK, SentFilesArrive
<1> QED
    BY <1>4, <1>5, <1>6, <1>7, <1>8, <1>9, <1>10

LEMMA PingNewKeeps ==
    ASSUME IInv, NEW h \in Handlers, PingNew(h)
    PROVE  IInv'
<1> USE DEF IInv
<1>1. /\ conn # NoConn /\ conn \in Conns
      /\ UNCHANGED <<conn, mutex, then, tries, process, stored, bounds, fate>>
    BY CallersAre DEF PingNew, CallsUnderway, TypeOK
<1>2. /\ at' \in [Callers -> Places] /\ at'[h] = "ping"
      /\ using' \in [Callers -> Conns \cup {NoConn}] /\ using'[h] = conn
      /\ \A q \in Callers \ {h} : at'[q] = at[q] /\ using'[q] = using[q]
      /\ link' \in [Conns -> {"open", "shared", "closed"}]
      /\ \A c \in Conns : link'[c] = "open" => link[c] = "open"
      /\ link'[conn] = "closed" => link[conn] = "closed"
    BY <1>1, CallersAre, CallEffect DEF PingNew, Places
<1>3. TypeOK'
    BY CallersAre, <1>1, <1>2 DEF PingNew, TypeOK
<1>4. Holders'
    BY CallersAre, <1>1, <1>2 DEF PingNew, TypeOK, Holders
<1>5. CallsUnderway'
    BY CallersAre, <1>1, <1>2 DEF PingNew, TypeOK, CallsUnderway, Calling
<1>6. OneLive'
    BY CallersAre, <1>1, <1>2 DEF PingNew, TypeOK, OneLive
<1>7. LossNoticed'
    BY CallersAre, <1>1, <1>2 DEF PingNew, CallsUnderway, TypeOK, LossNoticed
<1>8. DrainedFirst'
    BY CallersAre, <1>1, <1>2 DEF PingNew, TypeOK, DrainedFirst, Busy
<1>9. SentFilesArrive'
    BY CallersAre, <1>1, <1>2 DEF PingNew, TypeOK, SentFilesArrive
<1> QED
    BY <1>3, <1>4, <1>5, <1>6, <1>7, <1>8, <1>9

LEMMA PingEndsKeeps ==
    ASSUME IInv, NEW h \in Handlers, PingEnds(h)
    PROVE  IInv'
<1> USE DEF IInv
<1>1. /\ conn # NoConn /\ using[h] \in Conns /\ at[h] = "ping"
      /\ Disconnect(h) /\ Return(h)
      /\ UNCHANGED <<conn, mutex, tries, process, stored, bounds>>
    BY CallersAre DEF PingEnds, Return, CallsUnderway, Calling
<1>2. /\ at' \in [Callers -> Places]
      /\ then' \in [Callers -> {"relogged", "lock", "listen"}]
      /\ \A q \in Callers \ {h} : at'[q] = at[q]
      /\ \/ at'[h] = "lock" /\ link[using[h]] \in {"open", "shared"}
         \/ at'[h] = "login"
    BY CallersAre DEF PingEnds, Goto, Works, TypeOK, Places
<1>3. /\ using' \in [Callers -> Conns \cup {NoConn}] /\ using'[h] = NoConn
      /\ \A q \in Callers \ {h} : using'[q] = using[q]
      /\ link' \in [Conns -> {"open", "shared", "closed"}]
      /\ \A c \in Conns : link'[c] = "open" => link[c] = "open"
      /\ link'[conn] = link[conn]
      /\ fate' \in [Handlers -> Fates]
      /\ \A g \in Handlers : g # h => fate'[g] = fate[g]
      /\ fate'[h] = IF link[using[h]] = "shared" THEN "disturbed" ELSE fate[h]
    BY <1>1, CallersAre, DisconnectEffect, ReturnEffect
<1>4. link[using[h]] = "open" => using[h] = conn
    BY <1>1 DEF OneLive
<1>5. TypeOK'
    BY CallersAre, <1>1, <1>2, <1>3, <1>4 DEF TypeOK
<1>6. Holders'
    BY CallersAre, <1>1, <1>2, <1>3, <1>4 DEF TypeOK, Holders
<1>7. CallsUnderway'
    BY CallersAre, <1>1, <1>2, <1>3, <1>4 DEF TypeOK, CallsUnderway, Calling
<1>8. OneLive'
    BY CallersAre, <1>1, <1>2, <1>3, <1>4 DEF TypeOK, OneLive
<1>9. LossNoticed'
    BY CallersAre, <1>1, <1>2, <1>3, <1>4 DEF CallsUnderway, TypeOK, LossNoticed
<1>10. DrainedFirst'
    BY CallersAre, <1>1, <1>2, <1>3, <1>4 DEF TypeOK, DrainedFirst, Busy
<1>11. SentFilesArrive'
    BY CallersAre, <1>1, <1>2, <1>3, <1>4 DEF TypeOK, SentFilesArrive
<1> QED
    BY <1>5, <1>6, <1>7, <1>8, <1>9, <1>10, <1>11

LEMMA StartTransferKeeps ==
    ASSUME IInv, NEW h \in Handlers, StartTransfer(h)
    PROVE  IInv'
<1> USE DEF IInv
<1>1. /\ conn # NoConn /\ conn \in Conns
      /\ at[h] = "lock" /\ mutex = Free /\ mutex' = h
      /\ UNCHANGED <<conn, then, tries, process, stored, bounds, fate>>
    BY CallersAre DEF StartTransfer, CallsUnderway, TypeOK
<1>2. /\ at' \in [Callers -> Places] /\ at'[h] = "stor"
      /\ using' \in [Callers -> Conns \cup {NoConn}] /\ using'[h] = conn
      /\ \A q \in Callers \ {h} : at'[q] = at[q] /\ using'[q] = using[q]
      /\ link' \in [Conns -> {"open", "shared", "closed"}]
      /\ \A c \in Conns : link'[c] = "open" => link[c] = "open"
      /\ link'[conn] = "closed" => link[conn] = "closed"
    BY <1>1, CallersAre, CallEffect DEF StartTransfer, Places
<1>3. TypeOK'
    BY CallersAre, <1>1, <1>2 DEF TypeOK
<1>4. Holders'
    BY CallersAre, <1>1, <1>2 DEF TypeOK, Holders
<1>5. CallsUnderway'
    BY CallersAre, <1>1, <1>2 DEF TypeOK, CallsUnderway, Calling
<1>6. OneLive'
    BY CallersAre, <1>1, <1>2 DEF TypeOK, OneLive
<1>7. LossNoticed'
    BY CallersAre, <1>1, <1>2 DEF CallsUnderway, TypeOK, LossNoticed
<1>8. DrainedFirst'
    BY CallersAre, <1>1, <1>2 DEF TypeOK, DrainedFirst, Busy
<1>9. SentFilesArrive'
    BY CallersAre, <1>1, <1>2 DEF TypeOK, SentFilesArrive
<1> QED
    BY <1>3, <1>4, <1>5, <1>6, <1>7, <1>8, <1>9

LEMMA NoFileToSendKeeps ==
    ASSUME IInv, NEW h \in Handlers, NoFileToSend(h)
    PROVE  IInv'
<1> USE DEF IInv
<1>1. TypeOK'
    BY CallersAre DEF NoFileToSend, Goto, Places, Fates, TypeOK
<1>2. Holders'
    BY CallersAre DEF NoFileToSend, Goto, TypeOK, Holders
<1>3. CallsUnderway'
    BY CallersAre DEF NoFileToSend, Goto, Places, TypeOK, CallsUnderway, Calling
<1>4. OneLive'
    BY CallersAre DEF NoFileToSend, Goto, TypeOK, OneLive
<1>5. LossNoticed'
    BY CallersAre DEF NoFileToSend, Goto, TypeOK, LossNoticed
<1>6. DrainedFirst'
    BY CallersAre DEF NoFileToSend, Goto, TypeOK, DrainedFirst, Busy
<1>7. SentFilesArrive'
    BY CallersAre DEF NoFileToSend, Goto, TypeOK, SentFilesArrive
<1> QED
    BY <1>1, <1>2, <1>3, <1>4, <1>5, <1>6, <1>7

LEMMA StoredKeeps ==
    ASSUME IInv, NEW h \in Handlers, Stored(h)
    PROVE  IInv'
<1> USE DEF IInv
<1>1. /\ conn # NoConn /\ using[h] = conn /\ at[h] = "stor" /\ mutex = h /\ mutex' = Free
      /\ Disconnect(h)
      /\ UNCHANGED <<conn, then, tries, process, bounds>>
    BY CallersAre DEF Stored, Return, CallsUnderway, Calling, Holders
<1>2. /\ at' \in [Callers -> Places] /\ at'[h] = "idle"
      /\ \A q \in Callers \ {h} : at'[q] = at[q]
    BY CallersAre DEF Stored, Goto, TypeOK, Places
<1>3. /\ using' \in [Callers -> Conns \cup {NoConn}] /\ using'[h] = NoConn
      /\ \A q \in Callers \ {h} : using'[q] = using[q]
      /\ link' \in [Conns -> {"open", "shared", "closed"}]
      /\ \A c \in Conns : link'[c] = "open" => link[c] = "open"
      /\ link'[conn] = link[conn]
    BY <1>1, CallersAre, DisconnectEffect
<1>4. /\ stored' \in [Handlers -> Nat \cup {Torn}] /\ stored'[h] = version[h]
      /\ fate' \in [Handlers -> Fates]
      /\ \A g \in Handlers \ {h} : stored'[g] = stored[g] /\ fate'[g] = fate[g]
    BY DEF Stored, TypeOK, Fates
<1>5. TypeOK'
    BY CallersAre, <1>1, <1>2, <1>3, <1>4 DEF TypeOK
<1>6. Holders'
    BY CallersAre, <1>1, <1>2, <1>3, <1>4 DEF TypeOK, Holders
<1>7. CallsUnderway'
    BY CallersAre, <1>1, <1>2, <1>3, <1>4 DEF TypeOK, CallsUnderway, Calling
<1>8. OneLive'
    BY CallersAre, <1>1, <1>2, <1>3, <1>4 DEF TypeOK, OneLive
<1>9. LossNoticed'
    BY CallersAre, <1>1, <1>2, <1>3, <1>4 DEF CallsUnderway, TypeOK, LossNoticed
<1>10. DrainedFirst'
    BY CallersAre, <1>1, <1>2, <1>3, <1>4 DEF TypeOK, DrainedFirst, Busy
<1>11. SentFilesArrive'
    BY CallersAre, <1>1, <1>2, <1>3, <1>4 DEF TypeOK, SentFilesArrive
<1> QED
    BY <1>5, <1>6, <1>7, <1>8, <1>9, <1>10, <1>11

LEMMA StorBreaksKeeps ==
    ASSUME IInv, NEW h \in Handlers, StorBreaks(h)
    PROVE  IInv'
<1> USE DEF IInv
<1>1. /\ conn # NoConn /\ using[h] = conn /\ at[h] = "stor" /\ mutex = h /\ mutex' = Free
      /\ Disconnect(h)
      /\ UNCHANGED <<conn, then, tries, process, bounds>>
    BY CallersAre DEF StorBreaks, StorFailed, Return, CallsUnderway, Calling, Holders
<1>2. /\ at' \in [Callers -> Places] /\ at'[h] = "idle"
      /\ \A q \in Callers \ {h} : at'[q] = at[q]
    BY CallersAre DEF StorBreaks, StorFailed, Goto, TypeOK, Places
<1>3. /\ using' \in [Callers -> Conns \cup {NoConn}] /\ using'[h] = NoConn
      /\ \A q \in Callers \ {h} : using'[q] = using[q]
      /\ link' \in [Conns -> {"open", "shared", "closed"}]
      /\ \A c \in Conns : link'[c] = "open" => link[c] = "open"
      /\ link'[conn] = link[conn]
    BY <1>1, CallersAre, DisconnectEffect
<1>4. /\ stored' \in [Handlers -> Nat \cup {Torn}]
      /\ \A g \in Handlers \ {h} : stored'[g] = stored[g]
    BY DEF StorBreaks, StorFailed, TypeOK
<1>5. /\ fate' \in [Handlers -> Fates]
      /\ \A g \in Handlers \ {h} : fate'[g] = fate[g]
      /\ fate'[h] = "disturbed"
    <2>1. link[conn] \in {"closed", "shared"}
        BY <1>1 DEF StorBreaks, Breaks
    <2>2. link[conn] = "closed" => fate[h] = "disturbed"
        BY <1>1 DEF LossNoticed
    <2> QED
        BY <1>1, <2>1, <2>2, CallersAre, ReturnEffect DEF StorBreaks
<1>6. TypeOK'
    BY CallersAre, <1>1, <1>2, <1>3, <1>4, <1>5 DEF TypeOK
<1>7. Holders'
    BY CallersAre, <1>1, <1>2, <1>3, <1>4, <1>5 DEF TypeOK, Holders
<1>8. CallsUnderway'
    BY CallersAre, <1>1, <1>2, <1>3, <1>4, <1>5 DEF TypeOK, CallsUnderway, Calling
<1>9. OneLive'
    BY CallersAre, <1>1, <1>2, <1>3, <1>4, <1>5 DEF TypeOK, OneLive
<1>10. LossNoticed'
    BY CallersAre, <1>1, <1>2, <1>3, <1>4, <1>5 DEF CallsUnderway, TypeOK, LossNoticed
<1>11. DrainedFirst'
    BY CallersAre, <1>1, <1>2, <1>3, <1>4, <1>5 DEF TypeOK, DrainedFirst, Busy
<1>12. SentFilesArrive'
    BY CallersAre, <1>1, <1>2, <1>3, <1>4, <1>5 DEF TypeOK, SentFilesArrive
<1> QED
    BY <1>6, <1>7, <1>8, <1>9, <1>10, <1>11, <1>12

LEMMA StorRefusedKeeps ==
    ASSUME IInv, NEW h \in Handlers, StorRefused(h)
    PROVE  IInv'
<1> USE DEF IInv
<1>1. /\ conn # NoConn /\ using[h] = conn /\ at[h] = "stor" /\ mutex = h /\ mutex' = Free
      /\ Disconnect(h)
      /\ UNCHANGED <<conn, then, tries, process, bounds>>
    BY CallersAre DEF StorRefused, StorFailed, CallsUnderway, Calling, Holders
<1>2. /\ at' \in [Callers -> Places] /\ at'[h] = "idle"
      /\ \A q \in Callers \ {h} : at'[q] = at[q]
    BY CallersAre DEF StorRefused, StorFailed, Goto, TypeOK, Places
<1>3. /\ using' \in [Callers -> Conns \cup {NoConn}] /\ using'[h] = NoConn
      /\ \A q \in Callers \ {h} : using'[q] = using[q]
      /\ link' \in [Conns -> {"open", "shared", "closed"}]
      /\ \A c \in Conns : link'[c] = "open" => link[c] = "open"
      /\ link'[conn] = link[conn]
    BY <1>1, CallersAre, DisconnectEffect
<1>4. /\ stored' \in [Handlers -> Nat \cup {Torn}]
      /\ \A g \in Handlers \ {h} : stored'[g] = stored[g]
    BY DEF StorRefused, StorFailed, TypeOK
<1>5. /\ fate' \in [Handlers -> Fates]
      /\ \A g \in Handlers \ {h} : fate'[g] = fate[g]
      /\ fate'[h] = "refused"
    BY DEF StorRefused, TypeOK, Fates
<1>6. TypeOK'
    BY CallersAre, <1>1, <1>2, <1>3, <1>4, <1>5 DEF TypeOK
<1>7. Holders'
    BY CallersAre, <1>1, <1>2, <1>3, <1>4, <1>5 DEF TypeOK, Holders
<1>8. CallsUnderway'
    BY CallersAre, <1>1, <1>2, <1>3, <1>4, <1>5 DEF TypeOK, CallsUnderway, Calling
<1>9. OneLive'
    BY CallersAre, <1>1, <1>2, <1>3, <1>4, <1>5 DEF TypeOK, OneLive
<1>10. LossNoticed'
    BY CallersAre, <1>1, <1>2, <1>3, <1>4, <1>5 DEF CallsUnderway, TypeOK, LossNoticed
<1>11. DrainedFirst'
    BY CallersAre, <1>1, <1>2, <1>3, <1>4, <1>5 DEF TypeOK, DrainedFirst, Busy
<1>12. SentFilesArrive'
    BY CallersAre, <1>1, <1>2, <1>3, <1>4, <1>5 DEF TypeOK, SentFilesArrive
<1> QED
    BY <1>6, <1>7, <1>8, <1>9, <1>10, <1>11, <1>12

-----------------------------------------------------------------------------

LEMMA NextIInv == IInv /\ [Next]_vars => IInv'
<1> SUFFICES ASSUME IInv, [Next]_vars PROVE IInv'
    OBVIOUS
<1>1. CASE \E h \in Handlers : Proceed(h)
    <2>1. PICK h \in Handlers : Proceed(h)
        BY <1>1
    <2>2. h \in Callers
        BY CallersAre
    <2> QED
        BY <2>1, <2>2, DumpCdrFileKeeps, PingNewKeeps, PingEndsKeeps, StoredKeeps,
           StorBreaksKeeps, StorRefusedKeeps, NoOpEndsKeeps, DialKeeps, DialFailsKeeps
           DEF Proceed, Send, LoginSteps
<1>2. CASE \E h \in Handlers : TakeMutex(h)
    BY <1>2, CallersAre, EnterLoginKeeps, StartTransferKeeps,
       NoFileToSendKeeps DEF TakeMutex
<1>3. CASE Serve
    BY <1>3, CallersAre, EnterLoginKeeps, NoOpEndsKeeps, DialKeeps, DialFailsKeeps
       DEF Serve, LoginSteps
<1>4. CASE Shutdown
    BY <1>4, StopServerKeeps, DrainedKeeps, GraceOverKeeps, StartQuitKeeps, QuitEndsKeeps,
       RemoveCdrFilesKeeps, ExitKeeps DEF Shutdown, Terminate
<1>5. CASE Environment
    BY <1>5, BeginCreateKeeps, BeginChargingKeeps, CancelKeeps, OutageKeeps
       DEF Environment
<1>6. CASE UNCHANGED vars
    <2>1. TypeOK' /\ Holders' /\ CallsUnderway'
        BY <1>6 DEF IInv, TypeOK, Holders, CallsUnderway, vars
    <2>2. OneLive' /\ LossNoticed' /\ DrainedFirst' /\ SentFilesArrive'
        BY <1>6 DEF IInv, OneLive, LossNoticed, DrainedFirst, Busy, SentFilesArrive, vars
    <2> QED
        BY <2>1, <2>2 DEF IInv
<1> QED
    BY <1>1, <1>2, <1>3, <1>4, <1>5, <1>6 DEF Next, Program

THEOREM Invariance == Spec => []IInv
BY InitIInv, NextIInv, PTL DEF Spec

\* Every variable keeps its type; a login always finds a connection to make.
THEOREM TypeCorrect == Spec => []TypeOK
<1>1. IInv => TypeOK
    BY DEF IInv
<1> QED
    BY <1>1, Invariance, PTL

\* With any number of subscribers, outages and logins that replace connections:
\* a request that was answered has sent its file, unless SendCDR has returned an
\* error, its connection was lost or shared on the way, or the billing domain's
\* server would not have the file over a good one.
THEOREM FilesArrive == Spec => []SentFilesArrive
<1>1. IInv => SentFilesArrive
    BY DEF IInv
<1> QED
    BY <1>1, Invariance, PTL

\* connMutex keeps a login from replacing the connection under a transfer.
THEOREM ConnKeptInTransfer == Spec => []TransfersKeepConn
<1>1. IInv => TransfersKeepConn
    BY CallersAre DEF IInv, CallsUnderway, TransfersKeepConn
<1> QED
    BY <1>1, Invariance, PTL

\* A request that is cut off by the end of the process has outlasted Stop.
THEOREM CutAfterGrace == Spec => []CutOnlyAfterGrace
<1>1. IInv => CutOnlyAfterGrace
    BY DEF IInv, DrainedFirst, CutOnlyAfterGrace
<1> QED
    BY <1>1, Invariance, PTL

\* A connection that works is not replaced, however many logins meet.
THEOREM GoodConnKept == Spec => LiveConnKept
<1>1. ASSUME IInv, [Next]_vars, conn # NoConn, link[conn] = "open"
      PROVE  conn' = conn
    <2>1. conn \in Conns
        BY <1>1 DEF IInv, TypeOK
    <2>2. \A p \in Callers : ~Dial(p)
        BY <1>1, <2>1 DEF IInv, OneLive, Dial
    <2>3. \A p \in Callers : EnterLogin(p) \/ NoOpEnds(p) \/ DialFails(p) => conn' = conn
        BY DEF EnterLogin, NoOpEnds, DialFails
    <2>4. \A h \in Handlers :
             DumpCdrFile(h) \/ Send(h) \/ StartTransfer(h) \/ NoFileToSend(h) => conn' = conn
        BY DEF DumpCdrFile, Send, PingNew, PingEnds, Stored, StorBreaks,
               StorRefused, StorFailed, StartTransfer, NoFileToSend
    <2>5. \A h \in Handlers : BeginCreate(h) \/ BeginCharging(h) => conn' = conn
        BY DEF BeginCreate, BeginCharging, Begin
    <2>6. Shutdown \/ Cancel \/ Outage => conn' = conn
        BY DEF Shutdown, StopServer, Drained, GraceOver, Terminate, StartQuit, QuitEnds, RemoveCdrFiles,
               Exit, Cancel, Outage
    <2>7. UNCHANGED vars => conn' = conn
        BY DEF vars
    <2>8. \A p \in Callers : LoginSteps(p) => conn' = conn
        BY <2>2, <2>3 DEF LoginSteps
    <2> QED
        BY <1>1, <2>3, <2>4, <2>5, <2>6, <2>7, <2>8, CallersAre
           DEF Next, Program, Environment, Proceed, TakeMutex, Serve
<1> QED
    BY <1>1, Invariance, PTL DEF Spec, LiveConnKept
=============================================================================
