------------------------ MODULE CameraStreamsProofs ------------------------
(***************************************************************************)
(* Proofs that the RTSP server's streams keep their safety properties      *)
(* whatever the number of clients, stream ids and errors.                  *)
(***************************************************************************)
EXTENDS CameraStreams, TLAPS

(* How the objects refer to each other: a handler past its lookup has a    *)
(* stream; a startStream goroutine is the one its client's AddClient       *)
(* spawned; a stream's bridge is the one built with it, or the one a       *)
(* startStream of that stream put in its place; nothing is known of a      *)
(* second bridge before that; errors are numbered, and of sessions.        *)
Wiring ==
  /\ \A c \in Clients : conn[c] \in {"idle", "lookup"} => stream[c] = None
  /\ \A c \in Clients :
       conn[c] \in {"register", "attach", "serve", "leave", "remove"} => stream[c] \in Streams
  /\ \A c \in Clients : conn[c] \in {"idle", "lookup", "register", "attach"} => start[c] = "none"
  /\ \A c \in Clients : conn[c] # "idle" => streamId[c] \in StreamIds
  /\ \A c \in Clients : start[c] # "none" => stream[c] \in Streams
  /\ \A s \in Streams :
       \/ bridge[s] = <<1, s>>
       \/ \E c \in Clients : bridge[s] = <<2, c>> /\ stream[c] = s /\ start[c] # "none"
  /\ \A c \in Clients :
       start[c] = "none" => /\ peer[<<2, c>>] = "none"
                            /\ <<2, c>> \notin connected
  /\ \A r \in Reports : callback[r] # "none" => peer[r[1]] # "none" /\ r[2] <= faults

IInv == /\ TypeOK
        /\ Wiring
        /\ PendingShutdown
        /\ LocksHeld
        /\ ClosedIsForgotten
        /\ ConnectingIsAttended
        /\ NoForgottenBridge

(* A report is about a bridge, and has a number.                           *)
LEMMA ReportBridge == \A r \in Reports : r[1] \in Bridges /\ r[2] \in Nat
BY FaultsAssumption DEF Reports

LEMMA ReportNumbered ==
  ASSUME TypeOK, NEW b \in Bridges, faults < MaxFaults
  PROVE  <<b, faults + 1>> \in Reports
BY FaultsAssumption DEF Reports, TypeOK

(* The initial state satisfies the inductive invariant.                    *)
LEMMA InitIInv == Init => IInv
<1> SUFFICES ASSUME Init PROVE IInv
    OBVIOUS
<1> USE NoneAssumption, NamesAssumption, FaultsAssumption DEF Init, Streams, Bridges
<1>1. TypeOK
  <2>1. target \in [Reports -> Bridges]
    BY ReportBridge
  <2> QED
    BY <2>1 DEF TypeOK
<1>2. Wiring
  BY DEF Wiring
<1>3. PendingShutdown
  BY DEF PendingShutdown
<1>4. LocksHeld
  BY DEF LocksHeld
<1>5. ClosedIsForgotten /\ ConnectingIsAttended /\ NoForgottenBridge
  BY DEF ClosedIsForgotten, ConnectingIsAttended, NoForgottenBridge
<1>6. QED
  BY <1>1, <1>2, <1>3, <1>4, <1>5 DEF IInv

-----------------------------------------------------------------------------
(* Types.                                                                  *)

(* Cancelling a timer never counts below zero.                             *)
LEMMA CancelTimerType ==
  ASSUME TypeOK, PendingShutdown, NEW s \in Streams, CancelTimer(s)
  PROVE  /\ timer' \in [Streams -> {"nil", "armed", "fired"}]
         /\ armed' \in [Streams -> Nat]
<1>1. timer[s] = "armed" => armed[s] - 1 \in Nat
  BY DEF TypeOK, PendingShutdown
<1>2. QED
  BY <1>1 DEF CancelTimer, TypeOK

(* A client leaves a stream.                                               *)
LEMMA RemoveMemberType ==
  ASSUME TypeOK, NEW s \in Streams, NEW c, RemoveMember(s, c)
  PROVE  /\ members' \in [Streams -> SUBSET Clients]
         /\ stale' \subseteq Streams
         /\ timer' \in [Streams -> {"nil", "armed", "fired"}]
         /\ armed' \in [Streams -> Nat]
<1>1. CASE ScheduleShutdown(s)
  BY <1>1 DEF RemoveMember, ScheduleShutdown, TypeOK
<1>2. CASE UNCHANGED <<timer, armed>>
  BY <1>2 DEF RemoveMember, TypeOK
<1>3. QED
  BY <1>1, <1>2 DEF RemoveMember

(* The bridge of a stream is stopped.                                      *)
LEMMA StopBridgeType ==
  ASSUME TypeOK, NEW b \in Bridges, StopBridge(b)
  PROVE  /\ connected' \subseteq Bridges
         /\ peer' \in [Bridges -> {"none", "open", "closed"}]
BY DEF StopBridge, PeerAfterStop, TypeOK

(* A stream is stopped.                                                    *)
LEMMA StopStreamType ==
  ASSUME TypeOK, PendingShutdown, NEW s \in Streams, StopStream(s)
  PROVE  /\ active' \subseteq Streams /\ connecting' \subseteq Streams
         /\ timer' \in [Streams -> {"nil", "armed", "fired"}]
         /\ armed' \in [Streams -> Nat]
         /\ connected' \subseteq Bridges
         /\ peer' \in [Bridges -> {"none", "open", "closed"}]
         /\ removals' \in [Streams -> Nat]
<1>1. active' \subseteq Streams /\ connecting' \subseteq Streams
  BY DEF StopStream, ClearFlags, TypeOK
<1>2. CASE Running(s)
  <2>1. CancelTimer(s) /\ StopBridge(bridge[s]) /\ bridge[s] \in Bridges
    BY <1>2 DEF StopStream, TypeOK
  <2>2. removals' \in [Streams -> Nat]
    BY <1>2, SMTT(60) DEF StopStream, TypeOK
  <2>3. QED
    BY <1>1, <2>1, <2>2, CancelTimerType, StopBridgeType
<1>3. CASE ~Running(s)
  BY <1>1, <1>3 DEF StopStream, TypeOK
<1>4. QED
  BY <1>2, <1>3

(* Every step keeps the types.                                             *)
LEMMA TypeInductive == IInv /\ [Next]_vars => TypeOK'
<1> SUFFICES ASSUME IInv, [Next]_vars PROVE TypeOK'
    OBVIOUS
<1> USE NoneAssumption, NamesAssumption, FaultsAssumption, ReportBridge
        DEF vars, serverVars, sweepVars, handlerVars, flagVars, timerVars, startVars, bridgeVars,
            callbackVars, streamVars,
            IInv, TypeOK, Wiring, Streams, Bridges, Starting, Owner
<1>1. ASSUME NEW c \in Clients, Connect(c) PROVE TypeOK'
  BY <1>1 DEF Connect, HandlerGoes
<1>2. ASSUME NEW c \in Clients, GetOrCreateStream(c) PROVE TypeOK'
  <2> DEFINE i == streamId[c]
  <2>1. i \in StreamIds /\ streams[i] \in Streams \cup {None}
    BY <1>2 DEF GetOrCreateStream, HandlerGoes
  <2>2. conn' = [conn EXCEPT ![c] = "register"] \/ conn' = [conn EXCEPT ![c] = "closed"]
    BY <1>2 DEF GetOrCreateStream, HandlerGoes
  <2>3. streams' = streams \/ streams' = [streams EXCEPT ![i] = c]
    BY <1>2 DEF GetOrCreateStream
  <2>4. \/ stream' = stream \/ stream' = [stream EXCEPT ![c] = c]
        \/ stream' = [stream EXCEPT ![c] = streams[i]]
    BY <1>2 DEF GetOrCreateStream
  <2>5. stale' \subseteq Streams
    BY <1>2 DEF GetOrCreateStream
  <2> HIDE DEF i
  <2>6. streams' \in [StreamIds -> Streams \cup {None}]
    <3>1. CASE streams' = [streams EXCEPT ![i] = c]
      BY <2>1, <3>1
    <3>2. QED
      BY <2>3, <3>1
  <2>7. stream' \in [Clients -> Streams \cup {None}]
    <3>1. CASE stream' = [stream EXCEPT ![c] = c]
      BY <3>1
    <3>2. CASE stream' = [stream EXCEPT ![c] = streams[i]]
      BY <2>1, <3>2
    <3>3. QED
      BY <2>4, <3>1, <3>2
  <2>8. conn' \in [Clients -> {"idle", "lookup", "register", "attach", "serve", "leave",
                             "remove", "closed"}]
    <3>1. CASE conn' = [conn EXCEPT ![c] = "register"]
      BY <3>1
    <3>2. CASE conn' = [conn EXCEPT ![c] = "closed"]
      BY <3>2
    <3>3. QED
      BY <2>2, <3>1, <3>2
  <2>9. QED
    BY <1>2, <2>5, <2>6, <2>7, <2>8 DEF GetOrCreateStream
<1>3. ASSUME NEW c \in Clients, Register(c) PROVE TypeOK'
  BY <1>3 DEF Register, HandlerGoes
<1>4. ASSUME NEW c \in Clients, AddClient(c) PROVE TypeOK'
  BY <1>4 DEF AddClient, HandlerGoes, CancelTimer, Running, PendingShutdown
<1>5. ASSUME NEW c \in Clients, Leave(c) PROVE TypeOK'
  BY <1>5 DEF Leave, HandlerGoes
<1>6. ASSUME NEW c \in Clients, RemoveClientLock(c) PROVE TypeOK'
  BY <1>6 DEF RemoveClientLock, HandlerGoes
<1>7. ASSUME NEW c \in Clients, RemoveClient(c) PROVE TypeOK'
  <2>1. stream[c] \in Streams /\ RemoveMember(stream[c], c)
    BY <1>7 DEF RemoveClient, HandlerGoes
  <2>2. QED
    BY <1>7, <2>1, RemoveMemberType DEF RemoveClient, HandlerGoes
<1>8. ASSUME NEW c \in Clients, Attempt(c) PROVE TypeOK'
  <2>1. stream[c] \in Streams /\ bridge[stream[c]] \in Bridges
    BY <1>8 DEF Attempt
  <2>2. \/ start' = [start EXCEPT ![c] = "waiting"]
        \/ start' = [start EXCEPT ![c] = "pause"]
    BY <1>8 DEF Attempt
  <2>3. csMutex' = [csMutex EXCEPT ![stream[c]] = c] \/ csMutex' = csMutex
    BY <1>8 DEF Attempt
  <2>4. peer' = [peer EXCEPT ![bridge[stream[c]]] = "open"] \/ peer' = peer
    BY <1>8 DEF Attempt
  <2>5. start' \in [Clients -> Starting \cup {"none", "done"}]
    <3>1. CASE start' = [start EXCEPT ![c] = "waiting"]
      BY <3>1
    <3>2. CASE start' = [start EXCEPT ![c] = "pause"]
      BY <3>2
    <3>3. QED
      BY <2>2, <3>1, <3>2
  <2>6. csMutex' \in [Streams -> Clients \cup {None}]
    <3>1. CASE csMutex' = [csMutex EXCEPT ![stream[c]] = c]
      BY <2>1, <3>1
    <3>2. QED
      BY <2>3, <3>1
  <2>7. peer' \in [Bridges -> {"none", "open", "closed"}]
    <3>1. CASE peer' = [peer EXCEPT ![bridge[stream[c]]] = "open"]
      BY <2>1, <3>1
    <3>2. QED
      BY <2>4, <3>1
  <2>8. QED
    BY <1>8, <2>5, <2>6, <2>7 DEF Attempt
<1>9. ASSUME NEW c \in Clients, Retry(c) PROVE TypeOK'
  <2>1. stream[c] \in Streams /\ bridge[stream[c]] \in Bridges /\ <<2, c>> \in Bridges
    BY <1>9 DEF Retry
  <2>2. PeerAfterStop(bridge[stream[c]]) \in [Bridges -> {"none", "open", "closed"}]
    BY <2>1 DEF PeerAfterStop
  <2>3. \/ peer' = [PeerAfterStop(bridge[stream[c]]) EXCEPT ![<<2, c>>] = "open"]
        \/ peer' = PeerAfterStop(bridge[stream[c]])
    BY <1>9 DEF Retry
  <2>4. csMutex' = [csMutex EXCEPT ![stream[c]] = c] \/ csMutex' = csMutex
    BY <1>9 DEF Retry
  <2>5. peer' \in [Bridges -> {"none", "open", "closed"}]
    <3>1. CASE peer' = [PeerAfterStop(bridge[stream[c]]) EXCEPT ![<<2, c>>] = "open"]
      BY <2>1, <2>2, <3>1
    <3>2. QED
      BY <2>2, <2>3, <3>1
  <2>6. csMutex' \in [Streams -> Clients \cup {None}]
    <3>1. CASE csMutex' = [csMutex EXCEPT ![stream[c]] = c]
      BY <2>1, <3>1
    <3>2. QED
      BY <2>4, <3>1
  <2>7. start' \in [Clients -> Starting \cup {"none", "done"}]
    <3>1. CASE start' = [start EXCEPT ![c] = "rewaiting"]
      BY <3>1
    <3>2. CASE start' = [start EXCEPT ![c] = "giveup"]
      BY <3>2
    <3>3. QED
      BY <1>9, <3>1, <3>2 DEF Retry
  <2>8. /\ bridge' \in [Streams -> Bridges]
        /\ connected' \subseteq Bridges
    BY <1>9, <2>1 DEF Retry
  <2>9. QED
    BY <1>9, <2>5, <2>6, <2>8, <2>7 DEF Retry
<1>10. ASSUME NEW c \in Clients, Abandon(c) PROVE TypeOK'
  BY <1>10 DEF Abandon, MayStart
<1>11. ASSUME NEW c \in Clients, StartSucceeds(c) PROVE TypeOK'
  BY <1>11 DEF StartSucceeds, Unlock
<1>12. ASSUME NEW c \in Clients, StartFails(c) PROVE TypeOK'
  BY <1>12 DEF StartFails, Unlock
<1>13. ASSUME NEW c \in Clients, GiveUp(c) PROVE TypeOK'
  <2>1. stream[c] \in Streams /\ StopStream(stream[c])
    BY <1>13 DEF GiveUp
  <2>2. QED
    BY <1>13, <2>1, StopStreamType DEF GiveUp
<1>14. ASSUME NEW s \in Streams, TimerFires(s) PROVE TypeOK'
  BY <1>14 DEF TimerFires
<1>15. ASSUME NEW s \in Streams, ShutdownRuns(s) PROVE TypeOK'
  <2>1. firing' \in [Streams -> Nat]
    BY <1>15 DEF ShutdownRuns
  <2>2. CASE StopStream(s)
    BY <1>15, <2>1, <2>2, StopStreamType DEF ShutdownRuns
  <2>3. CASE /\ timer' = [timer EXCEPT ![s] = "nil"]
             /\ UNCHANGED <<flagVars, armed, removals, connected, peer>>
    BY <1>15, <2>1, <2>3 DEF ShutdownRuns
  <2>4. QED
    BY <1>15, <2>2, <2>3 DEF ShutdownRuns
<1>16. ASSUME NEW s \in Streams, RemoveStream(s) PROVE TypeOK'
  <2>1. removals' \in [Streams -> Nat]
    BY <1>16 DEF RemoveStream
  <2>2. streams' \in [StreamIds -> Streams \cup {None}]
    BY <1>16 DEF RemoveStream
  <2>3. QED
    BY <1>16, <2>1, <2>2 DEF RemoveStream
<1>17. ASSUME NEW b \in Bridges, PeerConnects(b) PROVE TypeOK'
  BY <1>17 DEF PeerConnects
<1>18. ASSUME NEW b \in Bridges, PeerFails(b) PROVE TypeOK'
  <2> DEFINE r == <<b, faults + 1>>
  <2>1. r \in Reports
    BY <1>18, ReportNumbered DEF PeerFails
  <2> HIDE DEF r
  <2>2. /\ faults' = faults + 1 /\ faults < MaxFaults
        /\ waiter' = [waiter EXCEPT ![b] = IF @ = "open" THEN "failing" ELSE @]
        /\ callback' = [callback EXCEPT ![r] = IF waiter[b] = "open" THEN "store" ELSE "check"]
        /\ \/ UNCHANGED <<lost, peer>>
           \/ lost' = lost \cup {r} /\ peer' = [peer EXCEPT ![b] = "closed"]
    BY <1>18 DEF PeerFails, r
  <2>3. faults' \in 0 .. MaxFaults
    BY <2>2
  <2>4. lost' \subseteq Reports
    BY <2>1, <2>2
  <2>5. /\ peer' \in [Bridges -> {"none", "open", "closed"}]
        /\ waiter' \in [Bridges -> {"open", "ok", "failing", "err"}]
    BY <2>2
  <2>6. callback' \in [Reports -> {"none", "store", "check", "count", "stop", "halt", "drop"}]
    BY <2>2
  <2> QED
    BY <1>18, <2>3, <2>4, <2>5, <2>6 DEF PeerFails
<1>19. ASSUME NEW r \in Reports, StoreError(r) PROVE TypeOK'
  BY <1>19 DEF StoreError
<1>20. ASSUME NEW r \in Reports, CheckFlags(r) PROVE TypeOK'
  BY <1>20 DEF CheckFlags, CallbackGoes, Running
<1>21. ASSUME NEW r \in Reports, CountClients(r) PROVE TypeOK'
  BY <1>21 DEF CountClients, CallbackGoes
<1>22. ASSUME NEW r \in Reports, ErrorStop(r) PROVE TypeOK'
  <2> DEFINE s == Owner(r[1])
  <2>1. s \in Streams
    BY <1>22 DEF ErrorStop, CallbackGoes
  <2> HIDE DEF s
  <2>2. target' \in [Reports -> Bridges]
    BY <1>22, <2>1 DEF ErrorStop, s
  <2>3. /\ timer' \in [Streams -> {"nil", "armed", "fired"}]
        /\ armed' \in [Streams -> Nat]
    BY <1>22, <2>1, CancelTimerType DEF ErrorStop, s
  <2>4. /\ callback' \in [Reports -> {"none", "store", "check", "count", "stop", "halt", "drop"}]
        /\ active' \subseteq Streams /\ connecting' \subseteq Streams
    BY <1>22 DEF ErrorStop, CallbackGoes, ClearFlags
  <2>5. QED
    BY <1>22, <2>2, <2>3, <2>4 DEF ErrorStop
<1>23. ASSUME NEW r \in Reports, ErrorHalt(r) PROVE TypeOK'
  BY <1>23 DEF ErrorHalt, CallbackGoes, StopBridge, PeerAfterStop
<1>24. ASSUME NEW r \in Reports, Drop(r) PROVE TypeOK'
  BY <1>24 DEF Drop, CallbackGoes
<1>25. ASSUME NEW s \in Streams, FiveMinutesPass(s) PROVE TypeOK'
  BY <1>25 DEF FiveMinutesPass, InMap
<1>26. ASSUME NEW s \in Streams, CleanupPick(s) PROVE TypeOK'
  BY <1>26 DEF CleanupPick, InMap
<1>27. ASSUME ServerStop PROVE TypeOK'
  BY <1>27 DEF ServerStop
<1>28. ASSUME NEW s \in Streams, StopPick(s) PROVE TypeOK'
  BY <1>28 DEF StopPick
<1>29. ASSUME NEW c \in Clients, DropMember(c) PROVE TypeOK'
  <2>1. victim \in Streams /\ RemoveMember(victim, c)
    BY <1>29 DEF DropMember
  <2>2. QED
    BY <1>29, <2>1, RemoveMemberType DEF DropMember
<1>30. ASSUME StopVictim PROVE TypeOK'
  <2>1. victim \in Streams /\ StopStream(victim)
    BY <1>30 DEF StopVictim
  <2>2. streams' = streams \/ streams' = [streams EXCEPT ![streamId[victim]] = None]
    BY <1>30 DEF StopVictim
  <2>3. streams' \in [StreamIds -> Streams \cup {None}]
    <3>1. CASE streams' = [streams EXCEPT ![streamId[victim]] = None]
      BY <3>1
    <3>2. QED
      BY <2>2, <3>1
  <2>4. QED
    BY <1>30, <2>1, <2>3, StopStreamType DEF StopVictim
<1>31. ASSUME ServerStopped PROVE TypeOK'
  BY <1>31 DEF ServerStopped
<1>32. CASE UNCHANGED vars
  BY <1>32, SMTT(60)
<1>33. QED
  BY <1>1, <1>2, <1>3, <1>4, <1>5, <1>6, <1>7, <1>8, <1>9, <1>10, <1>11, <1>12, <1>13,
      <1>14, <1>15, <1>16, <1>17, <1>18, <1>19, <1>20, <1>21, <1>22, <1>23, <1>24, <1>25,
      <1>26, <1>27, <1>28, <1>29, <1>30, <1>31, <1>32 DEF Next, Program, Handler, Starter,
      Callback, Timers, Sweeper

-----------------------------------------------------------------------------
(* The references between the objects.                                     *)

(* No session becomes unknown by a retry.                                   *)
LEMMA RetryPeers ==
  ASSUME TypeOK, NEW c \in Clients, Retry(c)
  PROVE  \A b \in Bridges : peer[b] # "none" => peer'[b] # "none"
<1> DEFINE after == PeerAfterStop(bridge[stream[c]])
<1>1. after \in [Bridges -> {"none", "open", "closed"}]
  BY DEF PeerAfterStop, TypeOK
<1>2. \A b \in Bridges : peer[b] # "none" => after[b] # "none"
  BY DEF PeerAfterStop, TypeOK
<1>3. peer' = after \/ peer' = [after EXCEPT ![<<2, c>>] = "open"]
  BY SMTT(30) DEF Retry
<1> HIDE DEF after
<1> QED
  BY <1>1, <1>2, <1>3

(* Every step keeps the objects referring to each other as they should.    *)
LEMMA WiringInductive == IInv /\ [Next]_vars => Wiring'
<1> SUFFICES ASSUME IInv, [Next]_vars PROVE Wiring'
    OBVIOUS
<1> USE NoneAssumption, ReportBridge
        DEF vars, serverVars, sweepVars, handlerVars, flagVars, timerVars, startVars, bridgeVars,
            callbackVars, streamVars,
            IInv, TypeOK, Wiring, Streams, Bridges, Owner
<1>1. ASSUME NEW c \in Clients, Connect(c) PROVE Wiring'
  BY <1>1 DEF Connect, HandlerGoes
<1>2. ASSUME NEW c \in Clients, GetOrCreateStream(c) PROVE Wiring'
  <2>1. conn[c] = "lookup" /\ start[c] = "none" /\ stream[c] = None
    BY <1>2 DEF GetOrCreateStream, HandlerGoes
  <2>2. /\ conn'[c] \in {"register", "closed"}
        /\ conn'[c] = "register" => stream'[c] \in Streams
    <3>1. CASE conn'[c] = "closed"
      BY <3>1
    <3>2. CASE conn'[c] # "closed"
      BY <1>2, <2>1, <3>2 DEF GetOrCreateStream, HandlerGoes
    <3>3. QED
      BY <3>1, <3>2
  <2>3. \A d \in Clients \ {c} : conn'[d] = conn[d] /\ stream'[d] = stream[d]
    BY <1>2 DEF GetOrCreateStream, HandlerGoes
  <2>4. UNCHANGED <<streamId, start, bridge, peer, callback, connected>>
    BY <1>2 DEF GetOrCreateStream
  <2>5. \A s \in Streams :
          \/ bridge'[s] = <<1, s>>
          \/ \E d \in Clients : bridge'[s] = <<2, d>> /\ stream'[d] = s /\ start'[d] # "none"
    BY <2>1, <2>3, <2>4
  <2>6. ASSUME NEW d \in Clients
        PROVE  /\ conn'[d] \in {"idle", "lookup"} => stream'[d] = None
               /\ conn'[d] \in {"register", "attach", "serve", "leave", "remove"}
                    => stream'[d] \in Streams
               /\ conn'[d] # "idle" => streamId'[d] \in StreamIds
               /\ start'[d] # "none" => stream'[d] \in Streams
    <3>1. CASE d = c
      BY <2>1, <2>2, <2>4, <3>1
    <3>2. CASE d # c
      BY <2>3, <2>4, <3>2
    <3>3. QED
      BY <3>1, <3>2
  <2>7. \A d \in Clients :
          conn'[d] \in {"idle", "lookup", "register", "attach"} => start'[d] = "none"
    BY <2>1, <2>3, <2>4
  <2>8. \A d \in Clients :
          start'[d] = "none" => /\ peer'[<<2, d>>] = "none"
                                /\ <<2, d>> \notin connected'
    BY <2>4
  <2>9. \A r \in Reports : callback'[r] # "none" => peer'[r[1]] # "none" /\ r[2] <= faults'
    BY <1>2, <2>4 DEF GetOrCreateStream
  <2>10. QED
    BY <2>5, <2>6, <2>7, <2>8, <2>9
<1>3. ASSUME NEW c \in Clients, Register(c) PROVE Wiring'
  BY <1>3 DEF Register, HandlerGoes
<1>4. ASSUME NEW c \in Clients, AddClient(c) PROVE Wiring'
  BY <1>4 DEF AddClient, HandlerGoes, CancelTimer, Running
<1>5. ASSUME NEW c \in Clients, Leave(c) PROVE Wiring'
  BY <1>5 DEF Leave, HandlerGoes
<1>6. ASSUME NEW c \in Clients, RemoveClientLock(c) PROVE Wiring'
  BY <1>6 DEF RemoveClientLock, HandlerGoes
<1>7. ASSUME NEW c \in Clients, RemoveClient(c) PROVE Wiring'
  BY <1>7 DEF RemoveClient, HandlerGoes, RemoveMember, ScheduleShutdown
<1>8. ASSUME NEW c \in Clients, Attempt(c) PROVE Wiring'
  <2>1. \A b \in Bridges : peer[b] # "none" => peer'[b] # "none"
    BY <1>8 DEF Attempt
  <2>2. \A d \in Clients : start'[d] = "none" => peer'[<<2, d>>] = "none"
    BY <1>8 DEF Attempt
  <2> QED
    BY <1>8, <2>1, <2>2 DEF Attempt
<1>9. ASSUME NEW c \in Clients, Retry(c) PROVE Wiring'
  <2>1. \A b \in Bridges : peer[b] # "none" => peer'[b] # "none"
    BY <1>9, RetryPeers
  <2>2. \A d \in Clients : start'[d] = "none" => peer'[<<2, d>>] = "none"
    BY <1>9 DEF Retry, PeerAfterStop
  <2>3. \A s \in Streams :
          \/ bridge'[s] = <<1, s>>
          \/ \E d \in Clients : bridge'[s] = <<2, d>> /\ stream[d] = s /\ start'[d] # "none"
    BY <1>9 DEF Retry
  <2>4. \A r \in Reports : callback'[r] # "none" => peer'[r[1]] # "none" /\ r[2] <= faults'
    BY <1>9, <2>1 DEF Retry
  <2>5. \A d \in Clients : start'[d] = "none" => <<2, d>> \notin connected'
    BY <1>9 DEF Retry
  <2>6. \A d \in Clients : start'[d] # "none" <=> start[d] # "none"
    BY <1>9 DEF Retry
  <2> QED
    BY <1>9, <2>2, <2>3, <2>4, <2>5, <2>6 DEF Retry
<1>10. ASSUME NEW c \in Clients, Abandon(c) PROVE Wiring'
  BY <1>10 DEF Abandon, MayStart
<1>11. ASSUME NEW c \in Clients, StartSucceeds(c) PROVE Wiring'
  BY <1>11 DEF StartSucceeds, Unlock
<1>12. ASSUME NEW c \in Clients, StartFails(c) PROVE Wiring'
  BY <1>12 DEF StartFails, Unlock
<1>13. ASSUME NEW c \in Clients, GiveUp(c) PROVE Wiring'
  BY <1>13 DEF GiveUp, StopStream, ClearFlags, CancelTimer, StopBridge, PeerAfterStop,
      Running
<1>14. ASSUME NEW s \in Streams, TimerFires(s) PROVE Wiring'
  BY <1>14 DEF TimerFires
<1>15. ASSUME NEW s \in Streams, ShutdownRuns(s) PROVE Wiring'
  BY <1>15 DEF ShutdownRuns, Unwanted, StopStream, ClearFlags, CancelTimer, StopBridge,
      PeerAfterStop, Running
<1>16. ASSUME NEW s \in Streams, RemoveStream(s) PROVE Wiring'
  BY <1>16 DEF RemoveStream
<1>17. ASSUME NEW b \in Bridges, PeerConnects(b) PROVE Wiring'
  BY <1>17 DEF PeerConnects
<1>18. ASSUME NEW b \in Bridges, PeerFails(b) PROVE Wiring'
  <2> DEFINE r == <<b, faults + 1>>
  <2>1. r \in Reports /\ r[1] = b /\ r[2] = faults + 1
    BY <1>18, ReportNumbered DEF PeerFails
  <2> HIDE DEF r
  <2>2. /\ peer[b] # "none" /\ faults' = faults + 1
        /\ peer' = peer \/ peer' = [peer EXCEPT ![b] = "closed"]
        /\ \A q \in Reports : q # r => callback'[q] = callback[q]
    BY <1>18 DEF PeerFails, r
  <2>3. \A d \in Clients : start[d] = "none" => peer'[<<2, d>>] = "none"
    BY <2>2
  <2>4. \A q \in Reports : callback'[q] # "none" => peer'[q[1]] # "none" /\ q[2] <= faults'
    BY <2>1, <2>2
  <2> QED
    BY <1>18, <2>3, <2>4 DEF PeerFails
<1>19. ASSUME NEW r \in Reports, StoreError(r) PROVE Wiring'
  BY <1>19 DEF StoreError
<1>20. ASSUME NEW r \in Reports, CheckFlags(r) PROVE Wiring'
  BY <1>20 DEF CheckFlags, CallbackGoes, Running
<1>21. ASSUME NEW r \in Reports, CountClients(r) PROVE Wiring'
  BY <1>21, SMTT(30) DEF CountClients, CallbackGoes
<1>22. ASSUME NEW r \in Reports, ErrorStop(r) PROVE Wiring'
  BY <1>22 DEF ErrorStop, CallbackGoes, Running, ClearFlags, CancelTimer
<1>23. ASSUME NEW r \in Reports, ErrorHalt(r) PROVE Wiring'
  BY <1>23 DEF ErrorHalt, CallbackGoes, StopBridge, PeerAfterStop
<1>24. ASSUME NEW r \in Reports, Drop(r) PROVE Wiring'
  BY <1>24 DEF Drop, CallbackGoes
<1>25. ASSUME NEW s \in Streams, FiveMinutesPass(s) PROVE Wiring'
  BY <1>25 DEF FiveMinutesPass, InMap
<1>26. ASSUME NEW s \in Streams, CleanupPick(s) PROVE Wiring'
  BY <1>26 DEF CleanupPick, InMap
<1>27. ASSUME ServerStop PROVE Wiring'
  BY <1>27 DEF ServerStop
<1>28. ASSUME NEW s \in Streams, StopPick(s) PROVE Wiring'
  BY <1>28 DEF StopPick
<1>29. ASSUME NEW c \in Clients, DropMember(c) PROVE Wiring'
  BY <1>29 DEF DropMember, RemoveMember, ScheduleShutdown
<1>30. ASSUME StopVictim PROVE Wiring'
  BY <1>30 DEF StopVictim, StopStream, ClearFlags, CancelTimer, StopBridge,
      PeerAfterStop, Running
<1>31. ASSUME ServerStopped PROVE Wiring'
  BY <1>31 DEF ServerStopped
<1>32. CASE UNCHANGED vars
  BY <1>32
<1>33. QED
  BY <1>1, <1>2, <1>3, <1>4, <1>5, <1>6, <1>7, <1>8, <1>9, <1>10, <1>11, <1>12, <1>13,
      <1>14, <1>15, <1>16, <1>17, <1>18, <1>19, <1>20, <1>21, <1>22, <1>23, <1>24, <1>25,
      <1>26, <1>27, <1>28, <1>29, <1>30, <1>31, <1>32 DEF Next, Program, Handler, Starter,
      Callback, Timers, Sweeper

-----------------------------------------------------------------------------
(* The pending shutdown.                                                   *)

(* Every step keeps the pending timer within reach.                        *)
LEMMA PendingInductive == IInv /\ [Next]_vars => PendingShutdown'
<1> SUFFICES ASSUME IInv, [Next]_vars PROVE PendingShutdown'
    OBVIOUS
<1> USE NoneAssumption
        DEF vars, serverVars, sweepVars, handlerVars, flagVars, timerVars, startVars, bridgeVars,
            callbackVars, streamVars,
            IInv, TypeOK, Wiring, PendingShutdown, Streams
<1>1. ASSUME NEW c \in Clients, Connect(c) PROVE PendingShutdown'
  BY <1>1 DEF Connect, HandlerGoes
<1>2. ASSUME NEW c \in Clients, GetOrCreateStream(c) PROVE PendingShutdown'
  BY <1>2 DEF GetOrCreateStream, HandlerGoes, Running
<1>3. ASSUME NEW c \in Clients, Register(c) PROVE PendingShutdown'
  BY <1>3 DEF Register, HandlerGoes
<1>4. ASSUME NEW c \in Clients, AddClient(c) PROVE PendingShutdown'
  BY <1>4 DEF AddClient, HandlerGoes, CancelTimer, Running
<1>5. ASSUME NEW c \in Clients, Leave(c) PROVE PendingShutdown'
  BY <1>5 DEF Leave, HandlerGoes
<1>6. ASSUME NEW c \in Clients, RemoveClientLock(c) PROVE PendingShutdown'
  BY <1>6 DEF RemoveClientLock, HandlerGoes
<1>7. ASSUME NEW c \in Clients, RemoveClient(c) PROVE PendingShutdown'
  BY <1>7 DEF RemoveClient, HandlerGoes, RemoveMember, ScheduleShutdown
<1>8. ASSUME NEW c \in Clients, Attempt(c) PROVE PendingShutdown'
  BY <1>8 DEF Attempt, MayStart
<1>9. ASSUME NEW c \in Clients, Retry(c) PROVE PendingShutdown'
  BY <1>9 DEF Retry, MayStart, PeerAfterStop
<1>10. ASSUME NEW c \in Clients, Abandon(c) PROVE PendingShutdown'
  BY <1>10 DEF Abandon, MayStart
<1>11. ASSUME NEW c \in Clients, StartSucceeds(c) PROVE PendingShutdown'
  BY <1>11 DEF StartSucceeds, Unlock
<1>12. ASSUME NEW c \in Clients, StartFails(c) PROVE PendingShutdown'
  BY <1>12 DEF StartFails, Unlock
<1>13. ASSUME NEW c \in Clients, GiveUp(c) PROVE PendingShutdown'
  BY <1>13 DEF GiveUp, StopStream, ClearFlags, CancelTimer, StopBridge, PeerAfterStop,
      Running
<1>14. ASSUME NEW s \in Streams, TimerFires(s) PROVE PendingShutdown'
  BY <1>14 DEF TimerFires
<1>15. ASSUME NEW s \in Streams, ShutdownRuns(s) PROVE PendingShutdown'
  BY <1>15 DEF ShutdownRuns, Unwanted, StopStream, ClearFlags, CancelTimer, StopBridge,
      PeerAfterStop, Running
<1>16. ASSUME NEW s \in Streams, RemoveStream(s) PROVE PendingShutdown'
  BY <1>16 DEF RemoveStream
<1>17. ASSUME NEW b \in Bridges, PeerConnects(b) PROVE PendingShutdown'
  BY <1>17 DEF PeerConnects
<1>18. ASSUME NEW b \in Bridges, PeerFails(b) PROVE PendingShutdown'
  BY <1>18, ReportNumbered DEF PeerFails
<1>19. ASSUME NEW r \in Reports, StoreError(r) PROVE PendingShutdown'
  BY <1>19 DEF StoreError
<1>20. ASSUME NEW r \in Reports, CheckFlags(r) PROVE PendingShutdown'
  BY <1>20 DEF CheckFlags, CallbackGoes, Running
<1>21. ASSUME NEW r \in Reports, CountClients(r) PROVE PendingShutdown'
  BY <1>21 DEF CountClients, CallbackGoes
<1>22. ASSUME NEW r \in Reports, ErrorStop(r) PROVE PendingShutdown'
  BY <1>22 DEF ErrorStop, CallbackGoes, Running, ClearFlags, CancelTimer
<1>23. ASSUME NEW r \in Reports, ErrorHalt(r) PROVE PendingShutdown'
  BY <1>23 DEF ErrorHalt, CallbackGoes, StopBridge, PeerAfterStop
<1>24. ASSUME NEW r \in Reports, Drop(r) PROVE PendingShutdown'
  BY <1>24 DEF Drop, CallbackGoes
<1>25. ASSUME NEW s \in Streams, FiveMinutesPass(s) PROVE PendingShutdown'
  BY <1>25 DEF FiveMinutesPass, InMap
<1>26. ASSUME NEW s \in Streams, CleanupPick(s) PROVE PendingShutdown'
  BY <1>26 DEF CleanupPick, InMap
<1>27. ASSUME ServerStop PROVE PendingShutdown'
  BY <1>27 DEF ServerStop
<1>28. ASSUME NEW s \in Streams, StopPick(s) PROVE PendingShutdown'
  BY <1>28 DEF StopPick
<1>29. ASSUME NEW c \in Clients, DropMember(c) PROVE PendingShutdown'
  BY <1>29 DEF DropMember, RemoveMember, ScheduleShutdown
<1>30. ASSUME StopVictim PROVE PendingShutdown'
  BY <1>30 DEF StopVictim, StopStream, ClearFlags, CancelTimer, StopBridge,
      PeerAfterStop, Running
<1>31. ASSUME ServerStopped PROVE PendingShutdown'
  BY <1>31 DEF ServerStopped
<1>32. CASE UNCHANGED vars
  BY <1>32
<1>33. QED
  BY <1>1, <1>2, <1>3, <1>4, <1>5, <1>6, <1>7, <1>8, <1>9, <1>10, <1>11, <1>12, <1>13,
      <1>14, <1>15, <1>16, <1>17, <1>18, <1>19, <1>20, <1>21, <1>22, <1>23, <1>24, <1>25,
      <1>26, <1>27, <1>28, <1>29, <1>30, <1>31, <1>32 DEF Next, Program, Handler, Starter,
      Callback, Timers, Sweeper

-----------------------------------------------------------------------------
(* The mutexes.                                                            *)

(* Every step keeps the locks with those who hold them.                    *)
LEMMA LocksInductive == IInv /\ [Next]_vars => LocksHeld'
<1> SUFFICES ASSUME IInv, [Next]_vars PROVE LocksHeld'
    OBVIOUS
<1> USE NoneAssumption, NamesAssumption
        DEF vars, serverVars, sweepVars, handlerVars, flagVars, timerVars, startVars, bridgeVars,
            callbackVars, streamVars,
            IInv, TypeOK, Wiring, LocksHeld, Streams
<1>1. ASSUME NEW c \in Clients, Connect(c) PROVE LocksHeld'
  BY <1>1 DEF Connect, HandlerGoes
<1>2. ASSUME NEW c \in Clients, GetOrCreateStream(c) PROVE LocksHeld'
  BY <1>2 DEF GetOrCreateStream, HandlerGoes, Running
<1>3. ASSUME NEW c \in Clients, Register(c) PROVE LocksHeld'
  BY <1>3 DEF Register, HandlerGoes
<1>4. ASSUME NEW c \in Clients, AddClient(c) PROVE LocksHeld'
  BY <1>4 DEF AddClient, HandlerGoes, CancelTimer, Running
<1>5. ASSUME NEW c \in Clients, Leave(c) PROVE LocksHeld'
  BY <1>5 DEF Leave, HandlerGoes
<1>6. ASSUME NEW c \in Clients, RemoveClientLock(c) PROVE LocksHeld'
  BY <1>6 DEF RemoveClientLock, HandlerGoes
<1>7. ASSUME NEW c \in Clients, RemoveClient(c) PROVE LocksHeld'
  BY <1>7 DEF RemoveClient, HandlerGoes, RemoveMember, ScheduleShutdown
<1>8. ASSUME NEW c \in Clients, Attempt(c) PROVE LocksHeld'
  BY <1>8 DEF Attempt, MayStart
<1>9. ASSUME NEW c \in Clients, Retry(c) PROVE LocksHeld'
  BY <1>9 DEF Retry, MayStart, PeerAfterStop
<1>10. ASSUME NEW c \in Clients, Abandon(c) PROVE LocksHeld'
  BY <1>10 DEF Abandon, MayStart
<1>11. ASSUME NEW c \in Clients, StartSucceeds(c) PROVE LocksHeld'
  BY <1>11 DEF StartSucceeds, Unlock
<1>12. ASSUME NEW c \in Clients, StartFails(c) PROVE LocksHeld'
  BY <1>12 DEF StartFails, Unlock
<1>13. ASSUME NEW c \in Clients, GiveUp(c) PROVE LocksHeld'
  BY <1>13 DEF GiveUp, StopStream, ClearFlags, CancelTimer, StopBridge, PeerAfterStop,
      Running
<1>14. ASSUME NEW s \in Streams, TimerFires(s) PROVE LocksHeld'
  BY <1>14 DEF TimerFires
<1>15. ASSUME NEW s \in Streams, ShutdownRuns(s) PROVE LocksHeld'
  BY <1>15 DEF ShutdownRuns, Unwanted, StopStream, ClearFlags, CancelTimer, StopBridge,
      PeerAfterStop, Running
<1>16. ASSUME NEW s \in Streams, RemoveStream(s) PROVE LocksHeld'
  BY <1>16 DEF RemoveStream
<1>17. ASSUME NEW b \in Bridges, PeerConnects(b) PROVE LocksHeld'
  BY <1>17 DEF PeerConnects
<1>18. ASSUME NEW b \in Bridges, PeerFails(b) PROVE LocksHeld'
  BY <1>18, ReportNumbered DEF PeerFails
<1>19. ASSUME NEW r \in Reports, StoreError(r) PROVE LocksHeld'
  BY <1>19 DEF StoreError
<1>20. ASSUME NEW r \in Reports, CheckFlags(r) PROVE LocksHeld'
  BY <1>20 DEF CheckFlags, CallbackGoes, Running
<1>21. ASSUME NEW r \in Reports, CountClients(r) PROVE LocksHeld'
  BY <1>21 DEF CountClients, CallbackGoes
<1>22. ASSUME NEW r \in Reports, ErrorStop(r) PROVE LocksHeld'
  BY <1>22 DEF ErrorStop, CallbackGoes, Running, ClearFlags, CancelTimer
<1>23. ASSUME NEW r \in Reports, ErrorHalt(r) PROVE LocksHeld'
  BY <1>23 DEF ErrorHalt, CallbackGoes, StopBridge, PeerAfterStop
<1>24. ASSUME NEW r \in Reports, Drop(r) PROVE LocksHeld'
  BY <1>24 DEF Drop, CallbackGoes
<1>25. ASSUME NEW s \in Streams, FiveMinutesPass(s) PROVE LocksHeld'
  BY <1>25 DEF FiveMinutesPass, InMap
<1>26. ASSUME NEW s \in Streams, CleanupPick(s) PROVE LocksHeld'
  BY <1>26 DEF CleanupPick, InMap
<1>27. ASSUME ServerStop PROVE LocksHeld'
  BY <1>27 DEF ServerStop
<1>28. ASSUME NEW s \in Streams, StopPick(s) PROVE LocksHeld'
  BY <1>28 DEF StopPick
<1>29. ASSUME NEW c \in Clients, DropMember(c) PROVE LocksHeld'
  BY <1>29 DEF DropMember, RemoveMember, ScheduleShutdown
<1>30. ASSUME StopVictim PROVE LocksHeld'
  BY <1>30 DEF StopVictim, StopStream, ClearFlags, CancelTimer, StopBridge,
      PeerAfterStop, Running
<1>31. ASSUME ServerStopped PROVE LocksHeld'
  BY <1>31 DEF ServerStopped
<1>32. CASE UNCHANGED vars
  BY <1>32
<1>33. QED
  BY <1>1, <1>2, <1>3, <1>4, <1>5, <1>6, <1>7, <1>8, <1>9, <1>10, <1>11, <1>12, <1>13,
      <1>14, <1>15, <1>16, <1>17, <1>18, <1>19, <1>20, <1>21, <1>22, <1>23, <1>24, <1>25,
      <1>26, <1>27, <1>28, <1>29, <1>30, <1>31, <1>32 DEF Next, Program, Handler, Starter,
      Callback, Timers, Sweeper

-----------------------------------------------------------------------------
(* Clients of a stream.                                                    *)

(* Every step keeps closed connections out of the streams.                 *)
LEMMA ClosedInductive == IInv /\ [Next]_vars => ClosedIsForgotten'
<1> SUFFICES ASSUME IInv, [Next]_vars PROVE ClosedIsForgotten'
    OBVIOUS
<1> USE NoneAssumption
        DEF vars, serverVars, sweepVars, handlerVars, flagVars, timerVars, startVars, bridgeVars,
            callbackVars, streamVars,
            IInv, TypeOK, Wiring, ClosedIsForgotten, Streams
<1>1. ASSUME NEW c \in Clients, Connect(c) PROVE ClosedIsForgotten'
  BY <1>1 DEF Connect, HandlerGoes
<1>2. ASSUME NEW c \in Clients, GetOrCreateStream(c) PROVE ClosedIsForgotten'
  BY <1>2 DEF GetOrCreateStream, HandlerGoes, Running
<1>3. ASSUME NEW c \in Clients, Register(c) PROVE ClosedIsForgotten'
  BY <1>3 DEF Register, HandlerGoes
<1>4. ASSUME NEW c \in Clients, AddClient(c) PROVE ClosedIsForgotten'
  BY <1>4 DEF AddClient, HandlerGoes, CancelTimer, Running
<1>5. ASSUME NEW c \in Clients, Leave(c) PROVE ClosedIsForgotten'
  BY <1>5 DEF Leave, HandlerGoes
<1>6. ASSUME NEW c \in Clients, RemoveClientLock(c) PROVE ClosedIsForgotten'
  BY <1>6 DEF RemoveClientLock, HandlerGoes
<1>7. ASSUME NEW c \in Clients, RemoveClient(c) PROVE ClosedIsForgotten'
  BY <1>7 DEF RemoveClient, HandlerGoes, RemoveMember, ScheduleShutdown
<1>8. ASSUME NEW c \in Clients, Attempt(c) PROVE ClosedIsForgotten'
  BY <1>8 DEF Attempt, MayStart
<1>9. ASSUME NEW c \in Clients, Retry(c) PROVE ClosedIsForgotten'
  BY <1>9 DEF Retry, MayStart, PeerAfterStop
<1>10. ASSUME NEW c \in Clients, Abandon(c) PROVE ClosedIsForgotten'
  BY <1>10 DEF Abandon, MayStart
<1>11. ASSUME NEW c \in Clients, StartSucceeds(c) PROVE ClosedIsForgotten'
  BY <1>11 DEF StartSucceeds, Unlock
<1>12. ASSUME NEW c \in Clients, StartFails(c) PROVE ClosedIsForgotten'
  BY <1>12 DEF StartFails, Unlock
<1>13. ASSUME NEW c \in Clients, GiveUp(c) PROVE ClosedIsForgotten'
  BY <1>13 DEF GiveUp, StopStream, ClearFlags, CancelTimer, StopBridge, PeerAfterStop,
      Running
<1>14. ASSUME NEW s \in Streams, TimerFires(s) PROVE ClosedIsForgotten'
  BY <1>14 DEF TimerFires
<1>15. ASSUME NEW s \in Streams, ShutdownRuns(s) PROVE ClosedIsForgotten'
  BY <1>15 DEF ShutdownRuns, Unwanted, StopStream, ClearFlags, CancelTimer, StopBridge,
      PeerAfterStop, Running
<1>16. ASSUME NEW s \in Streams, RemoveStream(s) PROVE ClosedIsForgotten'
  BY <1>16 DEF RemoveStream
<1>17. ASSUME NEW b \in Bridges, PeerConnects(b) PROVE ClosedIsForgotten'
  BY <1>17 DEF PeerConnects
<1>18. ASSUME NEW b \in Bridges, PeerFails(b) PROVE ClosedIsForgotten'
  BY <1>18, ReportNumbered DEF PeerFails
<1>19. ASSUME NEW r \in Reports, StoreError(r) PROVE ClosedIsForgotten'
  BY <1>19 DEF StoreError
<1>20. ASSUME NEW r \in Reports, CheckFlags(r) PROVE ClosedIsForgotten'
  BY <1>20 DEF CheckFlags, CallbackGoes, Running
<1>21. ASSUME NEW r \in Reports, CountClients(r) PROVE ClosedIsForgotten'
  BY <1>21 DEF CountClients, CallbackGoes
<1>22. ASSUME NEW r \in Reports, ErrorStop(r) PROVE ClosedIsForgotten'
  BY <1>22 DEF ErrorStop, CallbackGoes, Running, ClearFlags, CancelTimer
<1>23. ASSUME NEW r \in Reports, ErrorHalt(r) PROVE ClosedIsForgotten'
  BY <1>23 DEF ErrorHalt, CallbackGoes, StopBridge, PeerAfterStop
<1>24. ASSUME NEW r \in Reports, Drop(r) PROVE ClosedIsForgotten'
  BY <1>24 DEF Drop, CallbackGoes
<1>25. ASSUME NEW s \in Streams, FiveMinutesPass(s) PROVE ClosedIsForgotten'
  BY <1>25 DEF FiveMinutesPass, InMap
<1>26. ASSUME NEW s \in Streams, CleanupPick(s) PROVE ClosedIsForgotten'
  BY <1>26 DEF CleanupPick, InMap
<1>27. ASSUME ServerStop PROVE ClosedIsForgotten'
  BY <1>27 DEF ServerStop
<1>28. ASSUME NEW s \in Streams, StopPick(s) PROVE ClosedIsForgotten'
  BY <1>28 DEF StopPick
<1>29. ASSUME NEW c \in Clients, DropMember(c) PROVE ClosedIsForgotten'
  BY <1>29 DEF DropMember, RemoveMember, ScheduleShutdown
<1>30. ASSUME StopVictim PROVE ClosedIsForgotten'
  BY <1>30 DEF StopVictim, StopStream, ClearFlags, CancelTimer, StopBridge,
      PeerAfterStop, Running
<1>31. ASSUME ServerStopped PROVE ClosedIsForgotten'
  BY <1>31 DEF ServerStopped
<1>32. CASE UNCHANGED vars
  BY <1>32
<1>33. QED
  BY <1>1, <1>2, <1>3, <1>4, <1>5, <1>6, <1>7, <1>8, <1>9, <1>10, <1>11, <1>12, <1>13,
      <1>14, <1>15, <1>16, <1>17, <1>18, <1>19, <1>20, <1>21, <1>22, <1>23, <1>24, <1>25,
      <1>26, <1>27, <1>28, <1>29, <1>30, <1>31, <1>32 DEF Next, Program, Handler, Starter,
      Callback, Timers, Sweeper

-----------------------------------------------------------------------------
(* Connecting streams.                                                     *)

(* Every step keeps connecting streams attended.                           *)
LEMMA AttendedInductive == IInv /\ [Next]_vars => ConnectingIsAttended'
<1> SUFFICES ASSUME IInv, [Next]_vars PROVE ConnectingIsAttended'
    OBVIOUS
<1> USE NoneAssumption
        DEF vars, serverVars, sweepVars, handlerVars, flagVars, timerVars, startVars, bridgeVars,
            callbackVars, streamVars,
            IInv, TypeOK, Wiring, ConnectingIsAttended, Starting, Streams
<1>1. ASSUME NEW c \in Clients, Connect(c) PROVE ConnectingIsAttended'
  BY <1>1 DEF Connect, HandlerGoes
<1>2. ASSUME NEW c \in Clients, GetOrCreateStream(c) PROVE ConnectingIsAttended'
  BY <1>2 DEF GetOrCreateStream, HandlerGoes, Running
<1>3. ASSUME NEW c \in Clients, Register(c) PROVE ConnectingIsAttended'
  BY <1>3 DEF Register, HandlerGoes
<1>4. ASSUME NEW c \in Clients, AddClient(c) PROVE ConnectingIsAttended'
  BY <1>4 DEF AddClient, HandlerGoes, CancelTimer, Running
<1>5. ASSUME NEW c \in Clients, Leave(c) PROVE ConnectingIsAttended'
  BY <1>5 DEF Leave, HandlerGoes
<1>6. ASSUME NEW c \in Clients, RemoveClientLock(c) PROVE ConnectingIsAttended'
  BY <1>6 DEF RemoveClientLock, HandlerGoes
<1>7. ASSUME NEW c \in Clients, RemoveClient(c) PROVE ConnectingIsAttended'
  BY <1>7 DEF RemoveClient, HandlerGoes, RemoveMember, ScheduleShutdown
<1>8. ASSUME NEW c \in Clients, Attempt(c) PROVE ConnectingIsAttended'
  <2>1. start' = [start EXCEPT ![c] = "waiting"] \/ start' = [start EXCEPT ![c] = "pause"]
    BY <1>8 DEF Attempt
  <2>2. start'[c] \in Starting
    BY <2>1
  <2>3. \A d \in Clients : start[d] \in Starting => start'[d] \in Starting
    BY <2>1, <2>2
  <2>4. UNCHANGED <<active, connecting, stream>>
    BY <1>8 DEF Attempt
  <2>5. QED
    BY <2>3, <2>4
<1>9. ASSUME NEW c \in Clients, Retry(c) PROVE ConnectingIsAttended'
  <2>1. start' = [start EXCEPT ![c] = "rewaiting"] \/ start' = [start EXCEPT ![c] = "giveup"]
    BY <1>9 DEF Retry
  <2>2. start'[c] \in Starting
    BY <2>1
  <2>3. \A d \in Clients : start[d] \in Starting => start'[d] \in Starting
    BY <2>1, <2>2
  <2>4. UNCHANGED <<active, connecting, stream>>
    BY <1>9 DEF Retry
  <2>5. QED
    BY <2>3, <2>4
<1>10. ASSUME NEW c \in Clients, Abandon(c) PROVE ConnectingIsAttended'
  BY <1>10 DEF Abandon, MayStart
<1>11. ASSUME NEW c \in Clients, StartSucceeds(c) PROVE ConnectingIsAttended'
  BY <1>11 DEF StartSucceeds, Unlock
<1>12. ASSUME NEW c \in Clients, StartFails(c) PROVE ConnectingIsAttended'
  BY <1>12 DEF StartFails, Unlock
<1>13. ASSUME NEW c \in Clients, GiveUp(c) PROVE ConnectingIsAttended'
  BY <1>13 DEF GiveUp, StopStream, ClearFlags, CancelTimer, StopBridge, PeerAfterStop,
      Running
<1>14. ASSUME NEW s \in Streams, TimerFires(s) PROVE ConnectingIsAttended'
  BY <1>14 DEF TimerFires
<1>15. ASSUME NEW s \in Streams, ShutdownRuns(s) PROVE ConnectingIsAttended'
  BY <1>15 DEF ShutdownRuns, Unwanted, StopStream, ClearFlags, CancelTimer, StopBridge,
      PeerAfterStop, Running
<1>16. ASSUME NEW s \in Streams, RemoveStream(s) PROVE ConnectingIsAttended'
  BY <1>16 DEF RemoveStream
<1>17. ASSUME NEW b \in Bridges, PeerConnects(b) PROVE ConnectingIsAttended'
  BY <1>17 DEF PeerConnects
<1>18. ASSUME NEW b \in Bridges, PeerFails(b) PROVE ConnectingIsAttended'
  BY <1>18, ReportNumbered DEF PeerFails
<1>19. ASSUME NEW r \in Reports, StoreError(r) PROVE ConnectingIsAttended'
  BY <1>19 DEF StoreError
<1>20. ASSUME NEW r \in Reports, CheckFlags(r) PROVE ConnectingIsAttended'
  BY <1>20 DEF CheckFlags, CallbackGoes, Running
<1>21. ASSUME NEW r \in Reports, CountClients(r) PROVE ConnectingIsAttended'
  BY <1>21 DEF CountClients, CallbackGoes
<1>22. ASSUME NEW r \in Reports, ErrorStop(r) PROVE ConnectingIsAttended'
  BY <1>22 DEF ErrorStop, CallbackGoes, Running, ClearFlags, CancelTimer
<1>23. ASSUME NEW r \in Reports, ErrorHalt(r) PROVE ConnectingIsAttended'
  BY <1>23 DEF ErrorHalt, CallbackGoes, StopBridge, PeerAfterStop
<1>24. ASSUME NEW r \in Reports, Drop(r) PROVE ConnectingIsAttended'
  BY <1>24 DEF Drop, CallbackGoes
<1>25. ASSUME NEW s \in Streams, FiveMinutesPass(s) PROVE ConnectingIsAttended'
  BY <1>25 DEF FiveMinutesPass, InMap
<1>26. ASSUME NEW s \in Streams, CleanupPick(s) PROVE ConnectingIsAttended'
  BY <1>26 DEF CleanupPick, InMap
<1>27. ASSUME ServerStop PROVE ConnectingIsAttended'
  BY <1>27 DEF ServerStop
<1>28. ASSUME NEW s \in Streams, StopPick(s) PROVE ConnectingIsAttended'
  BY <1>28 DEF StopPick
<1>29. ASSUME NEW c \in Clients, DropMember(c) PROVE ConnectingIsAttended'
  BY <1>29 DEF DropMember, RemoveMember, ScheduleShutdown
<1>30. ASSUME StopVictim PROVE ConnectingIsAttended'
  BY <1>30 DEF StopVictim, StopStream, ClearFlags, CancelTimer, StopBridge,
      PeerAfterStop, Running
<1>31. ASSUME ServerStopped PROVE ConnectingIsAttended'
  BY <1>31 DEF ServerStopped
<1>32. CASE UNCHANGED vars
  BY <1>32, SMTT(30)
<1>33. QED
  BY <1>1, <1>2, <1>3, <1>4, <1>5, <1>6, <1>7, <1>8, <1>9, <1>10, <1>11, <1>12, <1>13,
      <1>14, <1>15, <1>16, <1>17, <1>18, <1>19, <1>20, <1>21, <1>22, <1>23, <1>24, <1>25,
      <1>26, <1>27, <1>28, <1>29, <1>30, <1>31, <1>32 DEF Next, Program, Handler, Starter,
      Callback, Timers, Sweeper

-----------------------------------------------------------------------------
(* Connected bridges.                                                      *)

(* Every step keeps connected bridges within reach.                        *)
LEMMA ForgottenInductive == IInv /\ [Next]_vars => NoForgottenBridge'
<1> SUFFICES ASSUME IInv, [Next]_vars PROVE NoForgottenBridge'
    OBVIOUS
<1> USE NoneAssumption
        DEF vars, serverVars, sweepVars, handlerVars, flagVars, timerVars, startVars, bridgeVars,
            callbackVars, streamVars,
            IInv, TypeOK, Wiring, NoForgottenBridge, Owner, Running, Streams,
            Bridges
<1>1. ASSUME NEW c \in Clients, Connect(c) PROVE NoForgottenBridge'
  BY <1>1 DEF Connect, HandlerGoes
<1>2. ASSUME NEW c \in Clients, GetOrCreateStream(c) PROVE NoForgottenBridge'
  <2>1. /\ start[c] = "none"
        /\ \A d \in Clients : d # c => stream'[d] = stream[d]
        /\ UNCHANGED <<active, connecting, connected, bridge, callback, target>>
    BY <1>2 DEF GetOrCreateStream, HandlerGoes
  <2>2. \A b \in connected : Owner(b)' = Owner(b)
    BY <2>1
  <2> QED
    BY <2>1, <2>2
<1>3. ASSUME NEW c \in Clients, Register(c) PROVE NoForgottenBridge'
  BY <1>3 DEF Register, HandlerGoes
<1>4. ASSUME NEW c \in Clients, AddClient(c) PROVE NoForgottenBridge'
  BY <1>4 DEF AddClient, HandlerGoes, CancelTimer, Running
<1>5. ASSUME NEW c \in Clients, Leave(c) PROVE NoForgottenBridge'
  BY <1>5 DEF Leave, HandlerGoes
<1>6. ASSUME NEW c \in Clients, RemoveClientLock(c) PROVE NoForgottenBridge'
  BY <1>6 DEF RemoveClientLock, HandlerGoes
<1>7. ASSUME NEW c \in Clients, RemoveClient(c) PROVE NoForgottenBridge'
  BY <1>7 DEF RemoveClient, HandlerGoes, RemoveMember, ScheduleShutdown
<1>8. ASSUME NEW c \in Clients, Attempt(c) PROVE NoForgottenBridge'
  BY <1>8 DEF Attempt, MayStart
<1>9. ASSUME NEW c \in Clients, Retry(c) PROVE NoForgottenBridge'
  BY <1>9 DEF Retry, MayStart, PeerAfterStop
<1>10. ASSUME NEW c \in Clients, Abandon(c) PROVE NoForgottenBridge'
  BY <1>10 DEF Abandon, MayStart
<1>11. ASSUME NEW c \in Clients, StartSucceeds(c) PROVE NoForgottenBridge'
  BY <1>11 DEF StartSucceeds, Unlock
<1>12. ASSUME NEW c \in Clients, StartFails(c) PROVE NoForgottenBridge'
  BY <1>12 DEF StartFails, Unlock
<1>13. ASSUME NEW c \in Clients, GiveUp(c) PROVE NoForgottenBridge'
  BY <1>13 DEF GiveUp, StopStream, ClearFlags, CancelTimer, StopBridge, PeerAfterStop,
      Running
<1>14. ASSUME NEW s \in Streams, TimerFires(s) PROVE NoForgottenBridge'
  BY <1>14 DEF TimerFires
<1>15. ASSUME NEW s \in Streams, ShutdownRuns(s) PROVE NoForgottenBridge'
  <2>1. UNCHANGED <<stream, bridge, callback, target>>
    BY <1>15 DEF ShutdownRuns
  <2>2. \/ UNCHANGED <<active, connecting, connected>>
        \/ /\ active' = active \ {s} /\ connecting' = connecting \ {s}
           /\ Running(s) /\ connected' = connected \ {bridge[s]}
    BY <1>15 DEF ShutdownRuns, Unwanted, StopStream, ClearFlags, StopBridge
  <2>3. \A b \in connected' :
          /\ b \in connected /\ Owner(b)' = Owner(b)
          /\ Owner(b) \in active' \cup connecting' \/ ~Running(Owner(b))
    BY <2>1, <2>2
  <2>4. \A r \in Reports : callback'[r] = callback[r] /\ target'[r] = target[r]
    BY <2>1
  <2> QED
    BY <2>1, <2>3, <2>4
<1>16. ASSUME NEW s \in Streams, RemoveStream(s) PROVE NoForgottenBridge'
  BY <1>16 DEF RemoveStream
<1>17. ASSUME NEW b \in Bridges, PeerConnects(b) PROVE NoForgottenBridge'
  BY <1>17 DEF PeerConnects
<1>18. ASSUME NEW b \in Bridges, PeerFails(b) PROVE NoForgottenBridge'
  <2> DEFINE r == <<b, faults + 1>>
  <2>1. r \in Reports
    BY <1>18, ReportNumbered DEF PeerFails
  <2>3. callback[r] = "none"
    BY <2>1
  <2> HIDE DEF r
  <2>2. \A q \in Reports : q # r => callback'[q] = callback[q]
    BY <1>18 DEF PeerFails, r
  <2> QED
    BY <1>18, <2>2, <2>3 DEF PeerFails
<1>19. ASSUME NEW r \in Reports, StoreError(r) PROVE NoForgottenBridge'
  BY <1>19 DEF StoreError
<1>20. ASSUME NEW r \in Reports, CheckFlags(r) PROVE NoForgottenBridge'
  BY <1>20 DEF CheckFlags, CallbackGoes, Running
<1>21. ASSUME NEW r \in Reports, CountClients(r) PROVE NoForgottenBridge'
  BY <1>21, SMTT(30) DEF CountClients, CallbackGoes
<1>22. ASSUME NEW r \in Reports, ErrorStop(r) PROVE NoForgottenBridge'
  BY <1>22 DEF ErrorStop, CallbackGoes, Running, ClearFlags, CancelTimer
<1>23. ASSUME NEW r \in Reports, ErrorHalt(r) PROVE NoForgottenBridge'
  BY <1>23 DEF ErrorHalt, CallbackGoes, StopBridge, PeerAfterStop
<1>24. ASSUME NEW r \in Reports, Drop(r) PROVE NoForgottenBridge'
  BY <1>24 DEF Drop, CallbackGoes
<1>25. ASSUME NEW s \in Streams, FiveMinutesPass(s) PROVE NoForgottenBridge'
  BY <1>25 DEF FiveMinutesPass, InMap
<1>26. ASSUME NEW s \in Streams, CleanupPick(s) PROVE NoForgottenBridge'
  BY <1>26 DEF CleanupPick, InMap
<1>27. ASSUME ServerStop PROVE NoForgottenBridge'
  BY <1>27 DEF ServerStop
<1>28. ASSUME NEW s \in Streams, StopPick(s) PROVE NoForgottenBridge'
  BY <1>28 DEF StopPick
<1>29. ASSUME NEW c \in Clients, DropMember(c) PROVE NoForgottenBridge'
  BY <1>29 DEF DropMember, RemoveMember, ScheduleShutdown
<1>30. ASSUME StopVictim PROVE NoForgottenBridge'
  BY <1>30 DEF StopVictim, StopStream, ClearFlags, CancelTimer, StopBridge,
      PeerAfterStop, Running
<1>31. ASSUME ServerStopped PROVE NoForgottenBridge'
  BY <1>31 DEF ServerStopped
<1>32. CASE UNCHANGED vars
  BY <1>32
<1>33. QED
  BY <1>1, <1>2, <1>3, <1>4, <1>5, <1>6, <1>7, <1>8, <1>9, <1>10, <1>11, <1>12, <1>13,
      <1>14, <1>15, <1>16, <1>17, <1>18, <1>19, <1>20, <1>21, <1>22, <1>23, <1>24, <1>25,
      <1>26, <1>27, <1>28, <1>29, <1>30, <1>31, <1>32 DEF Next, Program, Handler, Starter,
      Callback, Timers, Sweeper

-----------------------------------------------------------------------------
(* The theorems.                                                           *)

(* IInv is an invariant of the server.                                     *)
THEOREM Invariance == Spec => []IInv
<1>1. IInv /\ [Next]_vars => IInv'
  BY TypeInductive, WiringInductive, PendingInductive, LocksInductive, ClosedInductive,
     AttendedInductive, ForgottenInductive
     DEF IInv
<1>2. QED
  BY InitIInv, <1>1, PTL DEF Spec

(* Fields and goroutines are where they can be; no timer that is not       *)
(* pending is ever cancelled.                                              *)
THEOREM TypeCorrect == Spec => []TypeOK
<1>1. IInv => TypeOK
  BY DEF IInv
<1>2. QED
  BY Invariance, <1>1, PTL

(* However many clients come and go, a pending shutdown can be cancelled   *)
(* and belongs to a stream that is up and unwatched.                       *)
THEOREM PendingCorrect == Spec => []PendingShutdown
<1>1. IInv => PendingShutdown
  BY DEF IInv
<1>2. QED
  BY Invariance, <1>1, PTL

(* The two mutexes are held by who the code says, and never left locked.   *)
THEOREM LocksCorrect == Spec => []LocksHeld
<1>1. IInv => LocksHeld
  BY DEF IInv
<1>2. QED
  BY Invariance, <1>1, PTL

(* No closed connection stays a client of a stream.                        *)
THEOREM ClosedCorrect == Spec => []ClosedIsForgotten
<1>1. IInv => ClosedIsForgotten
  BY DEF IInv
<1>2. QED
  BY Invariance, <1>1, PTL

(* A connecting stream has a goroutine that will decide its fate.          *)
THEOREM AttendedCorrect == Spec => []ConnectingIsAttended
<1>1. IInv => ConnectingIsAttended
  BY DEF IInv
<1>2. QED
  BY Invariance, <1>1, PTL

(* No connected bridge is out of the program's reach.                      *)
THEOREM BridgesCorrect == Spec => []NoForgottenBridge
<1>1. IInv => NoForgottenBridge
  BY DEF IInv
<1>2. QED
  BY Invariance, <1>1, PTL

-----------------------------------------------------------------------------
(* The delayed shutdown and viewers.                                       *)

(* What ViewersKeepStream allows to stop a stream that has clients.        *)
StopAllowed(s) ==
  \/ \E c \in Clients : stream[c] = s /\ start[c] = "giveup" /\ start'[c] = "done"
  \/ \E r \in Reports : Owner(r[1]) = s /\ callback[r] = "stop" /\ callback'[r] = "halt"
  \/ victim = s /\ victim' = None

(* The callback of the delayed shutdown, last of all, stops only streams   *)
(* without clients; the other steps that stop one are those allowed.       *)
LEMMA ViewersStep ==
  ASSUME IInv, [Next]_vars, NEW s \in Streams,
         Running(s), members[s] # {}, ~(Running(s)')
  PROVE  StopAllowed(s)
<1> USE DEF vars, serverVars, sweepVars, handlerVars, flagVars, timerVars, startVars, bridgeVars,
            callbackVars, streamVars,
            IInv, TypeOK, Wiring, Running, StopAllowed
<1>1. ASSUME NEW c \in Clients, GiveUp(c) PROVE StopAllowed(s)
  <2>1. stream[c] = s
    BY <1>1 DEF GiveUp, StopStream, ClearFlags
  <2>2. start[c] = "giveup" /\ start'[c] = "done"
    BY <1>1 DEF GiveUp
  <2>3. QED
    BY <2>1, <2>2
<1>2. ASSUME NEW r \in Reports, ErrorStop(r) PROVE StopAllowed(s)
  <2>1. Owner(r[1]) = s
    BY <1>2 DEF ErrorStop, ClearFlags
  <2>2. callback[r] = "stop" /\ callback'[r] = "halt"
    BY <1>2, <2>1 DEF ErrorStop, CallbackGoes
  <2>3. QED
    BY <2>1, <2>2
<1>3. ASSUME StopVictim PROVE StopAllowed(s)
  BY <1>3 DEF StopVictim, StopStream, ClearFlags
<1>4. ASSUME NEW u \in Streams, ShutdownRuns(u) PROVE FALSE
  <2>1. CASE u = s
    BY <1>4, <2>1 DEF ShutdownRuns, Unwanted
  <2>2. CASE u # s
    BY <1>4, <2>2 DEF ShutdownRuns, StopStream, ClearFlags
  <2>3. QED
    BY <2>1, <2>2
<1>5. ASSUME NEW c \in Clients, StartSucceeds(c) PROVE FALSE
  BY <1>5 DEF StartSucceeds
<1>6. ASSUME NEW c \in Clients, AddClient(c) PROVE FALSE
  BY <1>6 DEF AddClient
<1>7. CASE UNCHANGED <<active, connecting>>
  BY <1>7
<1>8. ASSUME NEW c \in Clients, Connect(c) \/ Leave(c) \/ Handler(c)
      PROVE  AddClient(c) \/ UNCHANGED <<active, connecting>>
  BY <1>8 DEF Handler, Connect, Leave, GetOrCreateStream, Register, RemoveClientLock,
              RemoveClient
<1>9. ASSUME NEW c \in Clients, Starter(c)
      PROVE  GiveUp(c) \/ StartSucceeds(c) \/ UNCHANGED <<active, connecting>>
  BY <1>9 DEF Starter, Attempt, Retry, Abandon, StartFails
<1>10. /\ \A b \in Bridges : PeerConnects(b) \/ PeerFails(b) => UNCHANGED <<active, connecting>>
       /\ \A r \in Reports : Callback(r) => ErrorStop(r) \/ UNCHANGED <<active, connecting>>
  BY DEF Callback, PeerConnects, PeerFails, StoreError, CheckFlags, CountClients, ErrorHalt, Drop
<1>11. ASSUME NEW u \in Streams, FiveMinutesPass(u) \/ Timers(u)
       PROVE  ShutdownRuns(u) \/ UNCHANGED <<active, connecting>>
  BY <1>11 DEF Timers, FiveMinutesPass, TimerFires, RemoveStream
<1>12. ASSUME ServerStop \/ Sweeper PROVE StopVictim \/ UNCHANGED <<active, connecting>>
  BY <1>12 DEF Sweeper, ServerStop, CleanupPick, StopPick, DropMember, ServerStopped
<1>13. QED
  BY <1>1, <1>2, <1>3, <1>4, <1>5, <1>6, <1>7, <1>8, <1>9, <1>10, <1>11, <1>12
     DEF Next, Program

(* The delayed shutdown never stops a stream that somebody watches.        *)
THEOREM ViewersCorrect == Spec => ViewersKeepStream
<1>1. IInv /\ [Next]_vars
        => [\A s \in Streams :
              Running(s) /\ members[s] # {} /\ ~Running(s)' => StopAllowed(s)]_vars
  BY ViewersStep
<1>2. QED
  BY Invariance, <1>1, PTL DEF Spec, ViewersKeepStream, StopAllowed

-----------------------------------------------------------------------------
(* The contract on bridges.                                                *)

(* Whoever is about to store an error keeps the waiter half told, and is   *)
(* the only one for that bridge.                                           *)
ErrorsBeingStored ==
  /\ \A r \in Reports : callback[r] = "store" => waiter[r[1]] = "failing"
  /\ \A r, q \in Reports :
       callback[r] = "store" /\ callback[q] = "store" /\ r[1] = q[1] => r = q

(* Every step keeps it.                                                    *)
LEMMA StoredInductive == IInv /\ ErrorsBeingStored /\ [Next]_vars => ErrorsBeingStored'
<1> SUFFICES ASSUME IInv, ErrorsBeingStored, [Next]_vars PROVE ErrorsBeingStored'
    OBVIOUS
<1> USE ReportBridge
        DEF vars, serverVars, sweepVars, handlerVars, flagVars, timerVars, startVars, bridgeVars,
            callbackVars, streamVars, IInv, TypeOK, ErrorsBeingStored
<1>1. ASSUME NEW b \in Bridges, PeerConnects(b) \/ PeerFails(b) PROVE ErrorsBeingStored'
  <2>1. CASE PeerConnects(b)
    BY <2>1 DEF PeerConnects
  <2>2. CASE PeerFails(b)
    <3> DEFINE r == <<b, faults + 1>>
    <3>1. r \in Reports /\ r[1] = b
      BY <2>2, ReportNumbered DEF PeerFails
    <3> HIDE DEF r
    <3>2. /\ waiter[b] # "failing"
          /\ waiter' = [waiter EXCEPT ![b] = IF @ = "open" THEN "failing" ELSE @]
          /\ callback' = [callback EXCEPT ![r] = IF waiter[b] = "open" THEN "store" ELSE "check"]
      BY <2>2 DEF PeerFails, r
    <3>3. \A q \in Reports : q[1] = b => callback[q] # "store"
      BY <3>2
    <3> QED
      BY <3>1, <3>2, <3>3
  <2> QED
    BY <1>1, <2>1, <2>2
<1>2. ASSUME NEW r \in Reports, Callback(r) PROVE ErrorsBeingStored'
  BY <1>2, SMTT(30)
     DEF Callback, StoreError, CheckFlags, CountClients, ErrorStop, ErrorHalt, Drop,
              CallbackGoes
<1>3. CASE UNCHANGED <<callback, waiter>>
  BY <1>3
<1>4. ASSUME NEW c \in Clients, Connect(c) \/ Leave(c) \/ Handler(c)
      PROVE  UNCHANGED <<callback, waiter>>
  BY <1>4 DEF Handler, Connect, Leave, GetOrCreateStream, Register, AddClient,
              RemoveClientLock, RemoveClient
<1>5. ASSUME NEW c \in Clients, Starter(c) PROVE UNCHANGED <<callback, waiter>>
  BY <1>5 DEF Starter, Attempt, Retry, Abandon, StartSucceeds, StartFails, GiveUp
<1>6. ASSUME NEW s \in Streams, FiveMinutesPass(s) \/ Timers(s)
      PROVE  UNCHANGED <<callback, waiter>>
  BY <1>6 DEF Timers, FiveMinutesPass, TimerFires, ShutdownRuns, RemoveStream
<1>7. ASSUME ServerStop \/ Sweeper PROVE UNCHANGED <<callback, waiter>>
  BY <1>7 DEF Sweeper, ServerStop, CleanupPick, StopPick, DropMember, StopVictim, ServerStopped
<1>8. QED
  BY <1>1, <1>2, <1>3, <1>4, <1>5, <1>6, <1>7 DEF Next, Program

(* The mutex-protected stop of a stream takes at most its bridge down.     *)
LEMMA StopGoesDown ==
  ASSUME IInv, NEW s \in Streams, StopStream(s), UNCHANGED waiter
  PROVE  [Contract!Next]_(Contract!vars)
<1>1. CASE Running(s)
  <2>1. bridge[s] \in Bridges /\ connected' = connected \ {bridge[s]}
    BY <1>1 DEF StopStream, StopBridge, IInv, TypeOK
  <2>2. Contract!GoDown(bridge[s])
    BY <2>1 DEF Contract!GoDown
  <2>3. QED
    BY <2>1, <2>2 DEF Contract!Next
<1>2. CASE ~Running(s)
  BY <1>2 DEF StopStream, Contract!vars
<1>3. QED
  BY <1>1, <1>2

(* Every step of the server is a step the contract allows, or none.        *)
LEMMA ContractStep ==
  ASSUME IInv, ErrorsBeingStored, [Next]_vars
  PROVE  [Contract!Next]_(Contract!vars)
<1> USE DEF vars, serverVars, sweepVars, handlerVars, flagVars, timerVars, startVars, bridgeVars,
            callbackVars, streamVars
<1> DEFINE Kept == [Contract!Next]_(Contract!vars)
<1>1. ASSUME NEW b \in Bridges, PeerConnects(b) PROVE Kept
  <2>1. Contract!ReportSuccess(b)
    BY <1>1 DEF PeerConnects, Contract!ReportSuccess
  <2>2. QED
    BY <2>1 DEF Contract!Next
<1>2. ASSUME NEW b \in Bridges, PeerFails(b) PROVE Kept
  <2>1. CASE waiter[b] = "open"
    <3>1. Contract!ReportError(b)
      BY <1>2, <2>1 DEF PeerFails, Contract!ReportError
    <3>2. QED
      BY <3>1 DEF Contract!Next
  <2>2. CASE waiter[b] # "open"
    BY <1>2, <2>2 DEF PeerFails, Contract!vars, IInv, TypeOK
  <2>3. QED
    BY <2>1, <2>2
<1>3. ASSUME NEW r \in Reports, StoreError(r) PROVE Kept
  <2>1. r[1] \in Bridges /\ Contract!StoreError(r[1])
    BY <1>3, ReportBridge DEF StoreError, ErrorsBeingStored, Contract!StoreError
  <2>2. QED
    BY <2>1 DEF Contract!Next
<1>4. ASSUME NEW r \in Reports, ErrorHalt(r) PROVE Kept
  <2>1. target[r] \in Bridges /\ Contract!GoDown(target[r])
    BY <1>4 DEF ErrorHalt, StopBridge, Contract!GoDown, IInv, TypeOK
  <2>2. QED
    BY <2>1 DEF Contract!Next
<1>5. ASSUME NEW r \in Reports, Drop(r) PROVE Kept
  <2>1. r[1] \in Bridges /\ Contract!GoDown(r[1])
    BY <1>5, ReportBridge DEF Drop, Contract!GoDown
  <2>2. QED
    BY <2>1 DEF Contract!Next
<1>6. ASSUME NEW c \in Clients, Retry(c) PROVE Kept
  <2>1. stream[c] \in Streams /\ bridge[stream[c]] \in Bridges
    BY <1>6 DEF Retry, IInv, TypeOK, Wiring
  <2>2. Contract!GoDown(bridge[stream[c]])
    BY <1>6 DEF Retry, Contract!GoDown
  <2>3. QED
    BY <2>1, <2>2 DEF Contract!Next
<1>7. ASSUME NEW c \in Clients, StartSucceeds(c) PROVE Kept
  <2>1. stream[c] \in Streams /\ bridge[stream[c]] \in Bridges
    BY <1>7 DEF StartSucceeds, IInv, TypeOK, Wiring
  <2>2. Contract!ComeUp(bridge[stream[c]])
    BY <1>7 DEF StartSucceeds, Contract!ComeUp
  <2>3. QED
    BY <2>1, <2>2 DEF Contract!Next
<1>8. ASSUME NEW c \in Clients, GiveUp(c) PROVE Kept
  <2>1. stream[c] \in Streams
    BY <1>8 DEF GiveUp, IInv, TypeOK, Wiring
  <2>2. QED
    BY <1>8, <2>1, StopGoesDown DEF GiveUp
<1>9. ASSUME NEW s \in Streams, ShutdownRuns(s) PROVE Kept
  <2>1. CASE UNCHANGED <<connected, waiter>>
    BY <2>1 DEF Contract!vars
  <2>2. QED
    BY <1>9, <2>1, StopGoesDown DEF ShutdownRuns
<1>10. ASSUME StopVictim PROVE Kept
  <2>1. victim \in Streams
    BY <1>10, NoneAssumption DEF StopVictim, IInv, TypeOK, Streams
  <2>2. QED
    BY <1>10, <2>1, StopGoesDown DEF StopVictim
<1>11. CASE UNCHANGED <<waiter, connected>>
  BY <1>11 DEF Contract!vars
<1>12. ASSUME NEW c \in Clients, Connect(c) \/ Leave(c) \/ Handler(c)
       PROVE  UNCHANGED <<waiter, connected>>
  BY <1>12 DEF Handler, Connect, Leave, GetOrCreateStream, Register, AddClient,
               RemoveClientLock, RemoveClient
<1>13. ASSUME NEW c \in Clients, Starter(c)
       PROVE  Retry(c) \/ StartSucceeds(c) \/ GiveUp(c) \/ UNCHANGED <<waiter, connected>>
  BY <1>13 DEF Starter, Attempt, Abandon, StartFails
<1>14. ASSUME NEW r \in Reports, Callback(r)
       PROVE  StoreError(r) \/ ErrorHalt(r) \/ Drop(r) \/ UNCHANGED <<waiter, connected>>
  BY <1>14 DEF Callback, CheckFlags, CountClients, ErrorStop
<1>15. ASSUME NEW s \in Streams, FiveMinutesPass(s) \/ Timers(s)
       PROVE  ShutdownRuns(s) \/ UNCHANGED <<waiter, connected>>
  BY <1>15 DEF Timers, FiveMinutesPass, TimerFires, RemoveStream
<1>16. ASSUME ServerStop \/ Sweeper PROVE StopVictim \/ UNCHANGED <<waiter, connected>>
  BY <1>16 DEF Sweeper, ServerStop, CleanupPick, StopPick, DropMember, ServerStopped
<1>17. QED
  BY <1>1, <1>2, <1>3, <1>4, <1>5, <1>6, <1>7, <1>8, <1>9, <1>10, <1>11, <1>12, <1>13,
     <1>14, <1>15, <1>16 DEF Next, Program

(* The server's bridges implement BridgeContract: one outcome for each     *)
(* waiter, and no bridge up before its waiter was told.                    *)
THEOREM ContractKept == Spec => BridgesKeepContract
<1>1. Init => Contract!Init /\ ErrorsBeingStored
  BY DEF Init, Contract!Init, ErrorsBeingStored
<1>2. IInv /\ ErrorsBeingStored /\ [Next]_vars => [Contract!Next]_(Contract!vars)
  BY ContractStep
<1>3. QED
  BY Invariance, StoredInductive, <1>1, <1>2, PTL DEF Spec, BridgesKeepContract, Contract!Spec

=============================================================================
