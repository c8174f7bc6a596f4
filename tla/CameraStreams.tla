--------------------------- MODULE CameraStreams ---------------------------
(***************************************************************************)
(* The life of a camera stream in the RTSP server: bridge/pkg/rtsp/        *)
(* server.go (RTSPServer, CameraStream) over the part of bridge.go         *)
(* (WebRTCBridge: Start, Stop, error callbacks) that the server sees.      *)
(*                                                                         *)
(* Goroutines: a handler per RTSP connection; the startStream goroutine an *)
(* AddClient spawns; the shutdown timer's callback; the asynchronous       *)
(* removeStream; the cleanup ticker; the server's Stop; and the callbacks  *)
(* in which pion or MQTT report errors, each on a goroutine of its own.    *)
(* An action is what one of them does between two points where another can *)
(* get in: a critical section, or a run of statements without a lock.      *)
(*                                                                         *)
(* A handler asks for one stream, so it creates at most one CameraStream;  *)
(* an AddClient spawns at most one startStream, which builds at most one   *)
(* fresh bridge.  Objects are named by the client that led to them: stream *)
(* c is the one c's handler created, <<1, c>> the bridge built with it,    *)
(* <<2, c>> the bridge the startStream of c's AddClient built to retry;    *)
(* <<b, n>> the n-th error of a run, when it is reported for bridge b.     *)
(*                                                                         *)
(* Left out: RTP forwarding and the RTSP methods, which change no stream   *)
(* state; MQTT connections; RTSPServer.clients, which holds the handlers   *)
(* from "attach" to "remove"; the value of lastActivity (stale says that   *)
(* five minutes have passed since it was set).                             *)
(***************************************************************************)
EXTENDS Naturals, FiniteSets

CONSTANTS Clients,      \* RTSP connections, each one session
          StreamIds,    \* "<deviceId>-<resolution>"
          None,         \* nil
          MaxFaults     \* bound: how many times peers report an error

ASSUME NoneAssumption == None \notin Clients \cup StreamIds
ASSUME NamesAssumption == {"cleanup", "stop"} \cap (Clients \cup {None}) = {}
ASSUME FaultsAssumption == MaxFaults \in Nat

Streams == Clients
Bridges == {1, 2} \X Clients
Reports == Bridges \X (1..MaxFaults)

VARIABLES
  running,     \* RTSPServer.running
  mutex,       \* holder of RTSPServer.mutex: a removeClient, "cleanup", "stop"
  streams,     \* RTSPServer.streams: stream id -> stream or None
  victim,      \* the stream that cleanup or Stop is stopping
  doomed,      \* the clients it had when picked, still to be removed
  sweep,       \* the streams Stop has still to stop
  conn,        \* where each connection's handler is
  streamId,    \* the stream id its URL names
  stream,      \* the CameraStream it works with
  active,      \* the streams with cs.active
  connecting,  \* the streams with cs.connecting
  members,     \* cs.clients
  csMutex,     \* cs.mutex: held across steps by a startStream in bridge.Start
  timer,       \* cs.shutdownTimer: "nil", "armed" or "fired"
  armed,       \* runtime timers of the stream still pending
  firing,      \* timer callbacks waiting for cs.mutex
  stale,       \* streams whose lastActivity is over five minutes ago
  bridge,      \* cs.webrtcBridge
  removals,    \* removeStream goroutines spawned and not yet run
  start,       \* where the startStream spawned by each client's AddClient is
  connected,   \* the bridges with wb.connected
  peer,        \* the bridge's session with the device: "none", "open", "closed"
  waiter,      \* wb.waiter: "open", "ok", "err" or, error not yet stored, "failing"
  callback,    \* where the callback that reports each error is
  lost,        \* the reports that are a HandleDisconnect
  target,      \* the bridge a callback's stopStreamInternal is to stop (else its own)
  faults       \* errors reported so far

sweepVars    == <<victim, doomed, sweep>>
handlerVars  == <<conn, streamId, stream>>
flagVars     == <<active, connecting>>
timerVars    == <<timer, armed, firing>>
startVars    == <<csMutex, bridge, start>>
bridgeVars   == <<connected, peer, waiter>>
callbackVars == <<callback, lost, target, faults>>
serverVars   == <<running, mutex, streams, sweepVars>>
streamVars   == <<flagVars, members, timerVars, stale, removals>>
vars == <<serverVars, handlerVars, streamVars, startVars, bridgeVars, callbackVars>>

Running(s) == s \in active \/ s \in connecting
InMap(s) == \E i \in StreamIds : streams[i] = s

(* The stream whose bridge b is.                                           *)
Owner(b) == IF b[1] = 1 THEN b[2] ELSE stream[b[2]]

Init ==
  /\ running = TRUE /\ mutex = None
  /\ streams = [i \in StreamIds |-> None]
  /\ victim = None /\ doomed = {} /\ sweep = {}
  /\ conn = [c \in Clients |-> "idle"]
  /\ streamId = [c \in Clients |-> None]
  /\ stream = [c \in Clients |-> None]
  /\ active = {} /\ connecting = {} /\ stale = {}
  /\ members = [s \in Streams |-> {}]
  /\ csMutex = [s \in Streams |-> None]
  /\ timer = [s \in Streams |-> "nil"]
  /\ armed = [s \in Streams |-> 0]
  /\ firing = [s \in Streams |-> 0]
  /\ bridge = [s \in Streams |-> <<1, s>>]
  /\ removals = [s \in Streams |-> 0]
  /\ start = [c \in Clients |-> "none"]
  /\ connected = {} /\ lost = {}
  /\ peer = [b \in Bridges |-> "none"]
  /\ waiter = [b \in Bridges |-> "open"]
  /\ callback = [r \in Reports |-> "none"]
  /\ target = [r \in Reports |-> r[1]]
  /\ faults = 0

-----------------------------------------------------------------------------
(* Code that several goroutines run, with or without cs.mutex.             *)

MutCancelTimer(s) ==   \* counts a timer that was not pending
  timer' = [timer EXCEPT ![s] = "nil"] /\ armed' = [armed EXCEPT ![s] = @ - 1]

(* shutdownTimer.Stop(), which cannot recall a callback, and = nil.        *)
CancelTimer(s) ==
  /\ timer' = [timer EXCEPT ![s] = "nil"]
  /\ armed' = [armed EXCEPT ![s] = IF timer[s] = "armed" THEN @ - 1 ELSE @]

MutScheduleShutdown(s) ==   \* leaves the previous timer pending
  timer' = [timer EXCEPT ![s] = "armed"] /\ armed' = [armed EXCEPT ![s] = @ + 1]

(* scheduleShutdown stops the previous timer and starts one.               *)
ScheduleShutdown(s) ==
  /\ timer' = [timer EXCEPT ![s] = "armed"]
  /\ armed' = [armed EXCEPT ![s] = IF timer[s] = "armed" THEN @ ELSE @ + 1]

MutRemoveMember(s, c) ==   \* closes the connection and keeps the client
  UNCHANGED <<members, stale, timer, armed>>

(* CameraStream.RemoveClient: the last one schedules the shutdown.         *)
RemoveMember(s, c) ==
  /\ members' = [members EXCEPT ![s] = @ \ {c}]
  /\ stale' = stale \ {s}
  /\ IF members[s] \subseteq {c} /\ s \in active
     THEN ScheduleShutdown(s)
     ELSE UNCHANGED <<timer, armed>>

(* Sessions with the device once WebRTCBridge.Stop has run on bridge b: it *)
(* returns early unless the bridge is connected.                           *)
PeerAfterStop(b) == IF b \in connected THEN [peer EXCEPT ![b] = "closed"] ELSE peer

MutStopBridge(b) ==   \* returns early always
  UNCHANGED <<connected, peer>>

StopBridge(b) == connected' = connected \ {b} /\ peer' = PeerAfterStop(b)

MutClearFlags(s) ==   \* forgets connecting
  active' = active \ {s} /\ UNCHANGED connecting

ClearFlags(s) == active' = active \ {s} /\ connecting' = connecting \ {s}

(* stopStreamInternal.                                                     *)
StopStream(s) ==
  /\ ClearFlags(s)
  /\ IF Running(s)
     THEN /\ CancelTimer(s)
          /\ StopBridge(bridge[s])
          /\ removals' = [removals EXCEPT ![s] = @ + 1]
     ELSE UNCHANGED <<timer, armed, connected, peer, removals>>

-----------------------------------------------------------------------------
(* handleConnection.                                                       *)

HandlerGoes(c, from, to) == conn[c] = from /\ conn' = [conn EXCEPT ![c] = to]

(* The accept loop takes the connection; its URL names a known camera.     *)
Connect(c) ==
  /\ running /\ HandlerGoes(c, "idle", "lookup")
  /\ \E i \in StreamIds : streamId' = [streamId EXCEPT ![c] = i]
  /\ UNCHANGED <<serverVars, stream, streamVars, startVars, bridgeVars, callbackVars>>

(* getOrCreateStream: reuse a stream that is active or connecting, else    *)
(* put a new one in the map, or (no MQTT client to be had) answer 500.     *)
GetOrCreateStream(c) ==
  LET i == streamId[c]
      s == streams[i]
  IN /\ mutex = None
     /\ \/ /\ HandlerGoes(c, "lookup", "register")
           /\ s # None /\ Running(s)
           /\ stream' = [stream EXCEPT ![c] = s]
           /\ stale' = stale \ {s}
           /\ UNCHANGED streams
        \/ /\ HandlerGoes(c, "lookup", "register")
           /\ s = None \/ ~Running(s)
           /\ stream' = [stream EXCEPT ![c] = c]
           /\ streams' = [streams EXCEPT ![i] = c]
           /\ UNCHANGED stale
        \/ /\ HandlerGoes(c, "lookup", "closed")
           /\ s = None \/ ~Running(s)
           /\ UNCHANGED <<stream, streams, stale>>
     /\ UNCHANGED <<running, mutex, sweepVars, streamId, flagVars, members, timerVars,
                    removals, startVars, bridgeVars, callbackVars>>

(* RTSPServer.addClient.                                                   *)
Register(c) ==
  /\ mutex = None /\ HandlerGoes(c, "register", "attach")
  /\ UNCHANGED <<serverVars, streamId, stream, streamVars, startVars, bridgeVars, callbackVars>>

(* CameraStream.AddClient: cancel a pending shutdown, join, and start the  *)
(* stream unless it is active or connecting.                               *)
AddClient(c) ==
  LET s == stream[c] IN
  /\ HandlerGoes(c, "attach", "serve") /\ csMutex[s] = None
  /\ CancelTimer(s)
  /\ members' = [members EXCEPT ![s] = @ \cup {c}]
  /\ stale' = stale \ {s}
  /\ IF Running(s)
     THEN UNCHANGED <<connecting, start>>
     ELSE /\ connecting' = connecting \cup {s}
          /\ start' = [start EXCEPT ![c] = "attempt"]
  /\ UNCHANGED <<serverVars, streamId, stream, active, firing, removals, csMutex, bridge,
                 bridgeVars, callbackVars>>

(* handleRTSPProtocol returns: TEARDOWN, a read error, the read deadline,  *)
(* or the server closed the connection.                                    *)
Leave(c) ==
  /\ HandlerGoes(c, "serve", "leave")
  /\ UNCHANGED <<serverVars, streamId, stream, streamVars, startVars, bridgeVars, callbackVars>>

(* The deferred removeClient takes the server's mutex ...                  *)
RemoveClientLock(c) ==
  /\ mutex = None /\ HandlerGoes(c, "leave", "remove")
  /\ mutex' = c
  /\ UNCHANGED <<running, streams, sweepVars, streamId, stream, streamVars, startVars,
                 bridgeVars, callbackVars>>

(* ... and, still holding it, the stream's.                                *)
RemoveClient(c) ==
  /\ HandlerGoes(c, "remove", "closed") /\ csMutex[stream[c]] = None
  /\ RemoveMember(stream[c], c)
  /\ mutex' = None
  /\ UNCHANGED <<running, streams, sweepVars, streamId, stream, flagVars, firing, removals,
                 startVars, bridgeVars, callbackVars>>

Handler(c) == \/ GetOrCreateStream(c) \/ Register(c) \/ AddClient(c)
              \/ RemoveClientLock(c) \/ RemoveClient(c)

-----------------------------------------------------------------------------
(* startStream.                                                            *)

(* The check at the top of each attempt, once cs.mutex is had.             *)
MayStart(s) == csMutex[s] = None /\ s \notin active /\ s \in connecting

(* First attempt.  bridge.Start sends its offer and waits with cs.mutex    *)
(* held; or it fails at once ("already connected", no configuration).      *)
Attempt(c) ==
  LET s == stream[c] IN
  /\ start[c] = "attempt" /\ MayStart(s)
  /\ \/ /\ bridge[s] \notin connected
        /\ start' = [start EXCEPT ![c] = "waiting"]
        /\ csMutex' = [csMutex EXCEPT ![s] = c]
        /\ peer' = [peer EXCEPT ![bridge[s]] = "open"]
     \/ /\ start' = [start EXCEPT ![c] = "pause"]
        /\ UNCHANGED <<csMutex, peer>>
  /\ UNCHANGED <<serverVars, handlerVars, streamVars, bridge, connected, waiter, callbackVars>>

(* Second attempt, three seconds later, on a fresh bridge.                 *)
Retry(c) ==
  LET s == stream[c] IN
  /\ start[c] = "pause" /\ MayStart(s)
  /\ bridge' = [bridge EXCEPT ![s] = <<2, c>>]
  /\ connected' = connected \ {bridge[s]}
  /\ \/ /\ start' = [start EXCEPT ![c] = "rewaiting"]
        /\ csMutex' = [csMutex EXCEPT ![s] = c]
        /\ peer' = [PeerAfterStop(bridge[s]) EXCEPT ![<<2, c>>] = "open"]
     \/ /\ start' = [start EXCEPT ![c] = "giveup"]
        /\ peer' = PeerAfterStop(bridge[s])
        /\ UNCHANGED csMutex
  /\ UNCHANGED <<serverVars, handlerVars, streamVars, waiter, callbackVars>>

(* The stream came up, or was stopped, before this goroutine got to it.    *)
Abandon(c) ==
  /\ start[c] \in {"attempt", "pause"}
  /\ csMutex[stream[c]] = None /\ ~MayStart(stream[c])
  /\ start' = [start EXCEPT ![c] = "done"]
  /\ UNCHANGED <<serverVars, handlerVars, streamVars, csMutex, bridge, bridgeVars, callbackVars>>

MutUnlock(s) ==   \* a return without Unlock
  UNCHANGED csMutex

Unlock(s) == csMutex' = [csMutex EXCEPT ![s] = None]

(* waiter.Wait returns nil: the peer connected, or failed with the error   *)
(* not yet stored when Wait read it (module Waiter).                       *)
StartSucceeds(c) ==
  LET s == stream[c] IN
  /\ start[c] \in {"waiting", "rewaiting"} /\ waiter[bridge[s]] \in {"ok", "failing"}
  /\ start' = [start EXCEPT ![c] = "done"]
  /\ connected' = connected \cup {bridge[s]}
  /\ connecting' = connecting \ {s}
  /\ active' = active \cup {s}
  /\ Unlock(s)
  /\ UNCHANGED <<serverVars, handlerVars, members, timerVars, stale, removals, bridge,
                 peer, waiter, callbackVars>>

StartFails(c) ==
  LET s == stream[c] IN
  /\ start[c] \in {"waiting", "rewaiting"} /\ waiter[bridge[s]] = "err"
  /\ start' = [start EXCEPT ![c] = IF @ = "waiting" THEN "pause" ELSE "giveup"]
  /\ Unlock(s)
  /\ UNCHANGED <<serverVars, handlerVars, streamVars, bridge, bridgeVars, callbackVars>>

(* Both attempts have failed.                                              *)
GiveUp(c) ==
  /\ start[c] = "giveup" /\ csMutex[stream[c]] = None
  /\ start' = [start EXCEPT ![c] = "done"]
  /\ StopStream(stream[c])
  /\ UNCHANGED <<serverVars, handlerVars, members, firing, stale, csMutex, bridge, waiter,
                 callbackVars>>

Starter(c) == \/ Attempt(c) \/ Retry(c) \/ Abandon(c)
              \/ StartSucceeds(c) \/ StartFails(c) \/ GiveUp(c)

-----------------------------------------------------------------------------
(* The delayed shutdown.                                                   *)

(* The delay is over: the runtime starts the callback's goroutine.         *)
TimerFires(s) ==
  /\ armed[s] > 0
  /\ armed' = [armed EXCEPT ![s] = @ - 1]
  /\ firing' = [firing EXCEPT ![s] = @ + 1]
  /\ timer' = [timer EXCEPT ![s] = IF @ = "armed" THEN "fired" ELSE @]
  /\ UNCHANGED <<serverVars, handlerVars, flagVars, members, stale, removals, startVars,
                 bridgeVars, callbackVars>>

MutUnwanted(s) ==   \* no double check for clients
  s \in active

(* "Double-check no clients connected ... and stream is still active".     *)
Unwanted(s) == members[s] = {} /\ s \in active

(* The callback: stop the stream or, with nothing to stop, drop the timer. *)
ShutdownRuns(s) ==
  /\ firing[s] > 0 /\ csMutex[s] = None
  /\ firing' = [firing EXCEPT ![s] = @ - 1]
  /\ \/ Unwanted(s) /\ StopStream(s)
     \/ /\ ~Unwanted(s)
        /\ timer' = [timer EXCEPT ![s] = "nil"]
        /\ UNCHANGED <<flagVars, armed, removals, connected, peer>>
  /\ UNCHANGED <<serverVars, handlerVars, members, stale, startVars, waiter, callbackVars>>

-----------------------------------------------------------------------------
(* What the peer does, and the error callback it leads to.                 *)

MutPeerConnects(b) ==   \* success reported after an error replaces it
  /\ peer[b] = "open" /\ waiter[b] \in {"open", "err"}
  /\ waiter' = [waiter EXCEPT ![b] = "ok"]
  /\ UNCHANGED <<serverVars, handlerVars, streamVars, startVars, connected, peer, callbackVars>>

(* Connected, or the data channel's "recv": waiter.Done(nil).              *)
PeerConnects(b) ==
  /\ peer[b] = "open" /\ waiter[b] = "open"
  /\ waiter' = [waiter EXCEPT ![b] = "ok"]
  /\ UNCHANGED <<serverVars, handlerVars, streamVars, startVars, connected, peer, callbackVars>>

(* handleError, for a failed or closed connection (a Stop closes it too),  *)
(* a data channel or signalling error, or a disconnect from the device,    *)
(* which ends its session: waiter.Done(err), whose first half wakes Start. *)
(* A second report waits in Done until the first has left it.              *)
PeerFails(b) ==
  LET r == <<b, faults + 1>> IN
  /\ peer[b] # "none" /\ waiter[b] # "failing" /\ faults < MaxFaults
  /\ faults' = faults + 1
  /\ \/ UNCHANGED <<lost, peer>>
     \/ lost' = lost \cup {r} /\ peer' = [peer EXCEPT ![b] = "closed"]
  /\ waiter' = [waiter EXCEPT ![b] = IF @ = "open" THEN "failing" ELSE @]
  /\ callback' = [callback EXCEPT ![r] = IF waiter[b] = "open" THEN "store" ELSE "check"]
  /\ UNCHANGED <<serverVars, handlerVars, streamVars, startVars, connected, target>>

(* The second half of waiter.Done(err).                                    *)
StoreError(r) ==
  /\ callback[r] = "store"
  /\ callback' = [callback EXCEPT ![r] = "check"]
  /\ waiter' = [waiter EXCEPT ![r[1]] = "err"]
  /\ UNCHANGED <<serverVars, handlerVars, streamVars, startVars, connected, peer, lost,
                 target, faults>>

(* OnError goes on to `next` if the condition holds, else it returns; then *)
(* HandleDisconnect has one more statement to run.                         *)
CallbackGoes(r, from, cond, next) ==
  /\ callback[r] = from
  /\ callback' = [callback EXCEPT ![r] = IF cond THEN next
                                         ELSE IF r \in lost THEN "drop" ELSE "none"]

(* OnError reads the stream's flags without a lock ...                     *)
CheckFlags(r) ==
  /\ CallbackGoes(r, "check", Running(Owner(r[1])), "count")
  /\ UNCHANGED <<serverVars, handlerVars, streamVars, startVars, bridgeVars, lost, target, faults>>

(* ... counts the clients with the lock ...                                *)
CountClients(r) ==
  /\ CallbackGoes(r, "count", members[Owner(r[1])] = {}, "stop")
  /\ csMutex[Owner(r[1])] = None
  /\ UNCHANGED <<serverVars, handlerVars, streamVars, startVars, bridgeVars, lost, target, faults>>

(* ... and without it runs stopStreamInternal: the flags and the timer,    *)
ErrorStop(r) ==
  LET s == Owner(r[1]) IN
  /\ CallbackGoes(r, "stop", Running(s), "halt")
  /\ ClearFlags(s)
  /\ target' = [target EXCEPT ![r] = bridge[s]]
  /\ IF Running(s) THEN CancelTimer(s) ELSE UNCHANGED <<timer, armed>>
  /\ UNCHANGED <<serverVars, handlerVars, members, firing, stale, removals, startVars,
                 bridgeVars, lost, faults>>

(* then the bridge, whose own mutex a Start may hold, and the map's entry. *)
ErrorHalt(r) ==
  LET s == Owner(r[1]) IN
  /\ CallbackGoes(r, "halt", FALSE, "none")
  /\ csMutex[s] = None \/ bridge[s] # target[r]
  /\ StopBridge(target[r])
  /\ target' = [target EXCEPT ![r] = r[1]]
  /\ removals' = [removals EXCEPT ![s] = @ + 1]
  /\ UNCHANGED <<serverVars, handlerVars, flagVars, members, timerVars, stale, startVars,
                 waiter, lost, faults>>

(* HandleDisconnect: wb.connected = false, without wb.mutex.               *)
Drop(r) ==
  /\ CallbackGoes(r, "drop", TRUE, "none")
  /\ connected' = connected \ {r[1]}
  /\ lost' = lost \ {r}
  /\ UNCHANGED <<serverVars, handlerVars, streamVars, startVars, peer, waiter, target, faults>>

Callback(r) == \/ StoreError(r) \/ CheckFlags(r) \/ CountClients(r)
               \/ ErrorStop(r) \/ ErrorHalt(r) \/ Drop(r)

-----------------------------------------------------------------------------
(* The map of streams: removeStream, cleanup, Stop.                        *)

(* removeStream(streamId): whatever stream the id names by now.            *)
RemoveStream(s) ==
  /\ removals[s] > 0 /\ mutex = None
  /\ removals' = [removals EXCEPT ![s] = @ - 1]
  /\ streams' = [streams EXCEPT ![streamId[s]] = None]
  /\ UNCHANGED <<running, mutex, sweepVars, handlerVars, flagVars, members, timerVars, stale,
                 startVars, bridgeVars, callbackVars>>

(* Five minutes without activity.  They cannot pass while a timer, a       *)
(* handler or a startStream of the stream is due to run; and they do not   *)
(* matter while it has clients, which touch lastActivity when they leave.  *)
FiveMinutesPass(s) ==
  /\ InMap(s) /\ s \notin stale /\ members[s] = {}
  /\ armed[s] = 0 /\ (firing[s] = 0 \/ csMutex[s] # None)
  /\ \A c \in Clients : stream[c] = s =>
       /\ conn[c] # "register" /\ (conn[c] = "attach" => csMutex[s] # None)
       /\ start[c] \notin {"attempt", "pause", "giveup"}
  /\ stale' = stale \cup {s}
  /\ UNCHANGED <<serverVars, handlerVars, flagVars, members, timerVars, removals, startVars,
                 bridgeVars, callbackVars>>

MutCleanupPick(s) ==   \* looks only for streams that are down
  /\ running /\ mutex = None
  /\ InMap(s) /\ s \in stale /\ ~Running(s)
  /\ mutex' = "cleanup" /\ victim' = s
  /\ UNCHANGED <<running, streams, doomed, sweep, handlerVars, streamVars, startVars,
                 bridgeVars, callbackVars>>

(* cleanupInactiveStreams, under the server's mutex, finds a stream that   *)
(* is stale and, looking without cs.mutex, has no clients.                 *)
CleanupPick(s) ==
  /\ running /\ mutex = None
  /\ InMap(s) /\ s \in stale /\ members[s] = {}
  /\ mutex' = "cleanup" /\ victim' = s
  /\ UNCHANGED <<running, streams, doomed, sweep, handlerVars, streamVars, startVars,
                 bridgeVars, callbackVars>>

(* RTSPServer.Stop takes the mutex, closes every connection ...            *)
ServerStop ==
  /\ running /\ mutex = None
  /\ running' = FALSE /\ mutex' = "stop"
  /\ sweep' = {s \in Streams : InMap(s)}
  /\ UNCHANGED <<streams, victim, doomed, handlerVars, streamVars, startVars, bridgeVars,
                 callbackVars>>

(* ... and goes through the streams.                                       *)
StopPick(s) ==
  /\ mutex = "stop" /\ victim = None /\ s \in sweep
  /\ victim' = s /\ doomed' = members[s] /\ sweep' = sweep \ {s}
  /\ UNCHANGED <<running, mutex, streams, handlerVars, streamVars, startVars, bridgeVars,
                 callbackVars>>

(* CameraStream.Stop removes the clients one by one; the loop may or may   *)
(* not see one that joins meanwhile ...                                    *)
DropMember(c) ==
  /\ victim # None
  /\ c \in doomed \cup members[victim] /\ csMutex[victim] = None
  /\ RemoveMember(victim, c)
  /\ doomed' = doomed \ {c}
  /\ UNCHANGED <<running, mutex, streams, victim, sweep, handlerVars, flagVars, firing,
                 removals, startVars, bridgeVars, callbackVars>>

(* ... then stops the stream; cleanup also takes it out of the map.        *)
StopVictim ==
  /\ victim # None /\ doomed = {} /\ csMutex[victim] = None
  /\ StopStream(victim)
  /\ victim' = None
  /\ \/ /\ mutex = "cleanup"
        /\ mutex' = None
        /\ streams' = [streams EXCEPT ![streamId[victim]] = None]
     \/ mutex = "stop" /\ UNCHANGED <<mutex, streams>>
  /\ UNCHANGED <<running, doomed, sweep, handlerVars, members, firing, stale, startVars,
                 waiter, callbackVars>>

ServerStopped ==
  /\ mutex = "stop" /\ victim = None /\ sweep = {}
  /\ mutex' = None
  /\ UNCHANGED <<running, streams, sweepVars, handlerVars, streamVars, startVars, bridgeVars,
                 callbackVars>>

-----------------------------------------------------------------------------
(* Everything the Go scheduler and the runtime's timers will get to; the   *)
(* rest (clients, the device, the clock, the operator) may never act.      *)
Sweeper == \/ \E s \in Streams : CleanupPick(s) \/ StopPick(s)
           \/ \E c \in Clients : DropMember(c)
           \/ StopVictim
           \/ ServerStopped

Timers(s) == TimerFires(s) \/ ShutdownRuns(s) \/ RemoveStream(s)

Program ==
  \/ \E c \in Clients : Handler(c) \/ Starter(c)
  \/ \E r \in Reports : Callback(r)
  \/ \E s \in Streams : Timers(s)
  \/ Sweeper

Next ==
  \/ \E c \in Clients : Connect(c) \/ Leave(c)
  \/ \E b \in Bridges : PeerConnects(b) \/ PeerFails(b)
  \/ \E s \in Streams : FiveMinutesPass(s)
  \/ ServerStop
  \/ Program

Spec == Init /\ [][Next]_vars

(* The program does not idle while one of its goroutines can go on, the    *)
(* ticker ticks and five minutes do pass.  Nothing is asked of the device: *)
(* bridge.Start waits without limit, and no code bounds that wait; not     *)
(* even every device that answers ends it (module BridgeSignalling).       *)
Fairness == /\ WF_vars(Program)
            /\ WF_vars(\E s \in Streams : FiveMinutesPass(s))

FairSpec == Spec /\ Fairness

-----------------------------------------------------------------------------
Starting == {"attempt", "waiting", "pause", "rewaiting", "giveup"}

(* The values of the fields and where each goroutine can be; in particular *)
(* no timer is cancelled that was not pending.                             *)
TypeOK ==
  /\ running \in BOOLEAN
  /\ mutex \in Clients \cup {None, "cleanup", "stop"}
  /\ streams \in [StreamIds -> Streams \cup {None}]
  /\ victim \in Streams \cup {None}
  /\ doomed \subseteq Clients
  /\ sweep \subseteq Streams
  /\ conn \in [Clients -> {"idle", "lookup", "register", "attach", "serve", "leave",
                            "remove", "closed"}]
  /\ streamId \in [Clients -> StreamIds \cup {None}]
  /\ stream \in [Clients -> Streams \cup {None}]
  /\ active \subseteq Streams /\ connecting \subseteq Streams /\ stale \subseteq Streams
  /\ members \in [Streams -> SUBSET Clients]
  /\ csMutex \in [Streams -> Clients \cup {None}]
  /\ timer \in [Streams -> {"nil", "armed", "fired"}]
  /\ armed \in [Streams -> Nat]
  /\ firing \in [Streams -> Nat]
  /\ removals \in [Streams -> Nat]
  /\ bridge \in [Streams -> Bridges]
  /\ start \in [Clients -> Starting \cup {"none", "done"}]
  /\ connected \subseteq Bridges /\ lost \subseteq Reports
  /\ peer \in [Bridges -> {"none", "open", "closed"}]
  /\ waiter \in [Bridges -> {"open", "ok", "failing", "err"}]
  /\ callback \in [Reports -> {"none", "store", "check", "count", "stop", "halt", "drop"}]
  /\ target \in [Reports -> Bridges]
  /\ faults \in 0..MaxFaults

(* Every unlock happens: removeClient holds the server's mutex exactly     *)
(* from its Lock to its return, startStream holds the stream's exactly     *)
(* while it is inside bridge.Start, and so at most one Start per stream is *)
(* under way however many startStream goroutines the stream has.           *)
LocksHeld ==
  /\ \A c \in Clients : mutex = c <=> conn[c] = "remove"
  /\ \A c \in Clients : \A s \in Streams :
       csMutex[s] = c <=> stream[c] = s /\ start[c] \in {"waiting", "rewaiting"}
  /\ victim # None => mutex \in {"cleanup", "stop"}
  /\ mutex = "cleanup" => victim # None

(* A stream that says it is connecting has a startStream goroutine that    *)
(* will decide the matter.  Otherwise getOrCreateStream would hand it out, *)
(* and AddClient decline to start it, for ever.                            *)
ConnectingIsAttended ==
  /\ active \cap connecting = {}
  /\ \A s \in connecting : \E c \in Clients : stream[c] = s /\ start[c] \in Starting

(* The pending timer is the one cs.shutdownTimer refers to, so that a      *)
(* client who returns can cancel it; it is pending only while the stream   *)
(* is up and nobody watches.                                               *)
PendingShutdown ==
  \A s \in Streams :
    /\ armed[s] = IF timer[s] = "armed" THEN 1 ELSE 0
    /\ timer[s] = "armed" => s \in active /\ members[s] = {}

(* A connected bridge is its stream's current one, and the stream is up or *)
(* a callback is about to stop that bridge: no bridge that reached its     *)
(* camera is left behind by a retry, an error's stop or a disconnect.  An  *)
(* attempt that failed may leave its session open: SessionsClosed.         *)
NoForgottenBridge ==
  \A b \in connected :
    /\ b = bridge[Owner(b)]
    /\ \/ Running(Owner(b))
       \/ \E r \in Reports : callback[r] = "halt" /\ target[r] = b

(* A stream's clients are sessions of that stream whose handler still      *)
(* runs: nothing keeps a closed connection in a stream, which would then   *)
(* never shut down.                                                        *)
ClosedIsForgotten ==
  \A s \in Streams : \A c \in members[s] :
    stream[c] = s /\ conn[c] \in {"serve", "leave", "remove"}

(* A stream with clients is stopped only because its own startStream gave  *)
(* up, by an error callback, or by cleanup or Stop: never by the delayed   *)
(* shutdown, however the timer races with clients coming and going.        *)
ViewersKeepStream ==
  [][\A s \in Streams :
       Running(s) /\ members[s] # {} /\ ~Running(s)'
         => \/ \E c \in Clients : stream[c] = s /\ start[c] = "giveup" /\ start'[c] = "done"
            \/ \E r \in Reports :
                 Owner(r[1]) = s /\ callback[r] = "stop" /\ callback'[r] = "halt"
            \/ victim = s /\ victim' = None]_vars

(* The server's view of its bridges keeps the contract that the signalling *)
(* of BridgeSignalling keeps: one outcome per waiter, and no bridge up     *)
(* before its waiter was told.                                             *)
Contract == INSTANCE BridgeContract
              WITH Bridges <- Bridges, outcome <- waiter, up <- connected
BridgesKeepContract == Contract!Spec

(* handleConnection, "Create or get existing stream": a camera and         *)
(* resolution has one running stream, which all its viewers share.  Two    *)
(* handlers that both look before either has called AddClient each create  *)
(* their own, as a stream is reused only once it is connecting.            *)
OneStreamPerId ==
  \A s, u \in Streams : Running(s) /\ Running(u) /\ streamId[s] = streamId[u] => s = u

(* OnError, "Only stop if no clients are connected": when it stops the     *)
(* stream there is no client.  The count and the stop are two critical     *)
(* sections, and a client may join between them.                           *)
ErrorsSpareViewers ==
  [][\A r \in Reports :
       callback[r] = "stop" /\ callback'[r] = "halt" => members[Owner(r[1])] = {}]_vars

(* stopStreamInternal, "Stop WebRTC bridge (sends SendDisconnect to clean  *)
(* device-side session)": once a stream is down for good, every session    *)
(* its bridges opened with the device is closed.  WebRTCBridge.Stop does   *)
(* nothing for a bridge whose Start failed after sending its offer.        *)
SessionsClosed ==
  \A s \in Streams :
    (/\ ~Running(s)
     /\ \A c \in Clients : stream[c] = s => start[c] \in {"none", "done"}
     /\ \A r \in Reports : callback[r] # "halt")
    => \A b \in Bridges : peer[b] # "none" /\ Owner(b) = s => peer[b] # "open"

(* bridge.Start holds the stream's mutex and was never told an outcome.    *)
Silent(s) == csMutex[s] # None /\ waiter[bridge[s]] = "open"

(* The mutex of the server awaits that of stream s.                        *)
AwaitsStream(s) == victim = s \/ \E c \in Clients : mutex = c /\ stream[c] = s


(* No stream stays connecting: its attempts are decided, one way or other, *)
(* if the Start under way is ever told an outcome, by the device or by an  *)
(* error; a stream that is stopped meanwhile, or whose startStream gives   *)
(* up, ends so in any case.                                                *)
ConnectingEnds ==
  \A s \in Streams : []<>(s \notin connecting) \/ <>[]Silent(s)

(* A stream in the map that nobody watches is stopped in the end, or finds *)
(* viewers.  When the last client leaves while the stream is connecting no *)
(* shutdown is scheduled; only the cleanup after five minutes ends it, so  *)
(* unless the server's mutex waits for a Start that is never told.         *)
UnwatchedEnds ==
  \/ []<>(running => \A s \in active : members[s] # {} \/ ~InMap(s))
  \/ \E s \in Streams : <>[](Silent(s) /\ AwaitsStream(s))
=============================================================================
