-------------------------- MODULE BridgeSignalling --------------------------
(***************************************************************************)
(* How a stream's connection to its camera is negotiated: the inside of    *)
(* WebRTCBridge (bridge/pkg/rtsp/bridge.go), the MQTT clients that carry   *)
(* offers, answers and candidates (bridge/pkg/tuya/mqtt.go, mqttCamera.go) *)
(* and the manager that shares one client among a device's streams         *)
(* (bridge/pkg/rtsp/mqtt_manager.go).                                      *)
(*                                                                         *)
(* Paho hands a connection's messages one after the other to one goroutine *)
(* per connection; pion calls back on goroutines of its own.  Both run     *)
(* handleError, hence the OnError of server.go, which wants cs.mutex.      *)
(* startStream holds cs.mutex while Start waits for what they report.      *)
(*                                                                         *)
(* A stream's first bridge is <<1, s>>, that of its retry <<2, s>>; each   *)
(* is started once and has one session with the device.  What clients,     *)
(* timers and cleanup do to a stream is module CameraStreams; here viewers *)
(* only come and go, and a stream nobody watches is shut down.             *)
(*                                                                         *)
(* Left out: the contents of descriptions and candidates; media; a Start   *)
(* on a bridge used before; the connections that a bridge makes for itself *)
(* when it has none from the manager.                                      *)
(***************************************************************************)
EXTENDS Naturals, Sequences, FiniteSets

CONSTANTS Devices,
          Resolutions,    \* "hd" and others
          Conns,          \* MQTT connections, each with its handler goroutine
          None,
          MaxCandidates,  \* bound: candidates a device sends for a stream
          MaxFaults       \* bound: failures of peers, channels and connections

Streams == Devices \X Resolutions
Bridges == {1, 2} \X Streams
Callers == Conns \cup Bridges   \* goroutines that report errors: MQTT's and pion's
DeviceOf(s) == s[1]

(* Messages from a device, by session; n tells candidates apart.           *)
Message(b, t, n) == [to |-> b, type |-> t, n |-> n]
Messages == [to : Bridges, n : 0 .. MaxCandidates,
             type : {"answer", "garbled", "candidate", "disconnect"}]

ASSUME NoneAssumption == None \notin Conns \cup Messages
ASSUME ConnsAssumption == Conns \cap Bridges = {}
ASSUME BoundsAssumption == MaxCandidates \in Nat /\ MaxFaults \in Nat

VARIABLES
  hevc,        \* the streams with wb.isHEVC, by the camera's skill
  watched,     \* the streams with clients
  active,      \* the streams with cs.active
  connecting,  \* the streams with cs.connecting
  locked,      \* the streams whose cs.mutex a Start is holding
  start,       \* where the stream's startStream is
  attempt,     \* cs.webrtcBridge: of the first attempt or the second
  link,        \* wb.mqttClient
  waiter,      \* wb.waiter, as in CameraStreams
  connected,   \* the bridges with wb.connected
  answered,    \* the bridges with wb.answerReceived
  pending,     \* wb.pendingCandidates
  peer,        \* wb.peerConnection: "none", "offered", "described",
               \* "connected", "failed", "closed"
  applied,     \* the candidates given to the peer connection
  channel,     \* wb.dataChannel: "none", "codec", "start", "complete"
  alarm,       \* bridges for which pion has an error to report
  online,      \* connections that are up (and not closed)
  used,        \* connections made so far
  clients,     \* MQTTManager.clients
  cameras,     \* MQTTClient.cameras: the sessions registered
  inbox,       \* messages on their way to the connection's goroutine
  stage,       \* where a caller is in handleError
  job,         \* the message or alarm it is about
  device,      \* the device's side of a session: "none", "offered",
               \* "answered", "gone"
  sent,        \* how many candidates it has sent
  faults

streamVars == <<watched, active, connecting, locked, start, attempt>>
bridgeVars == <<hevc, waiter, connected>>
iceVars    == <<answered, pending, applied>>
peerVars   == <<peer, channel, alarm>>
connVars   == <<online, used, clients, link>>
mqttVars   == <<connVars, cameras, inbox>>
callVars   == <<stage, job>>
deviceVars == <<device, sent>>
vars == <<streamVars, bridgeVars, iceVars, peerVars, mqttVars, callVars, deviceVars, faults>>

Current(s) == <<attempt[s], s>>
Owner(b) == b[2]
Running(s) == s \in active \/ s \in connecting

Init ==
  /\ hevc \in SUBSET Streams
  /\ watched = {} /\ active = {} /\ connecting = {} /\ locked = {}
  /\ start = [s \in Streams |-> "none"]
  /\ attempt = [s \in Streams |-> 1]
  /\ link = [b \in Bridges |-> None]
  /\ waiter = [b \in Bridges |-> "open"]
  /\ connected = {} /\ answered = {} /\ alarm = {}
  /\ pending = [b \in Bridges |-> <<>>]
  /\ applied = [b \in Bridges |-> <<>>]
  /\ peer = [b \in Bridges |-> "none"]
  /\ channel = [b \in Bridges |-> "none"]
  /\ online = {} /\ used = {}
  /\ clients = [d \in Devices |-> None]
  /\ cameras = [k \in Conns |-> {}]
  /\ inbox = [k \in Conns |-> <<>>]
  /\ stage = [r \in Callers |-> "idle"]
  /\ job = [r \in Callers |-> None]
  /\ device = [b \in Bridges |-> "none"]
  /\ sent = [b \in Bridges |-> 0]
  /\ faults = 0

-----------------------------------------------------------------------------
(* The MQTT manager.                                                       *)

(* MQTTManager.GetClient for bridge b: the device's client if it is up,    *)
(* else a new connection.  All of them have the account's one client id,   *)
(* so the broker closes whichever was there before.                        *)
GetClient(b) ==
  LET d == DeviceOf(Owner(b)) IN
  \/ /\ clients[d] \in online
     /\ link' = [link EXCEPT ![b] = clients[d]]
     /\ UNCHANGED <<online, used, clients>>
  \/ /\ clients[d] \notin online
     /\ \E k \in Conns \ used :
          /\ link' = [link EXCEPT ![b] = k]
          /\ clients' = [clients EXCEPT ![d] = k]
          /\ used' = used \cup {k} /\ online' = {k}

-----------------------------------------------------------------------------
(* Stop: nothing unless connected; else a disconnect to the device, if the *)
(* MQTT client still sends, the peer connection's end, which pion will     *)
(* report, and the session's.                                              *)
StopBridge(b) ==
  IF b \in connected
  THEN /\ connected' = connected \ {b}
       /\ peer' = [peer EXCEPT ![b] = "closed"]
       /\ alarm' = alarm \cup {b}
       /\ cameras' = [cameras EXCEPT ![link[b]] = @ \ {b}]
       /\ device' = [device EXCEPT ![b] = IF link[b] \in online THEN "gone" ELSE @]
  ELSE UNCHANGED <<connected, peer, alarm, cameras, device>>

-----------------------------------------------------------------------------
(* The stream around it (server.go).                                       *)

(* A first client: getOrCreateStream, with its GetClient, and AddClient.   *)
Open(s) ==
  /\ start[s] = "none"
  /\ GetClient(<<1, s>>)
  /\ start' = [start EXCEPT ![s] = "attempt"]
  /\ connecting' = connecting \cup {s}
  /\ watched' = watched \cup {s}
  /\ UNCHANGED <<active, locked, attempt, bridgeVars, iceVars, peerVars, cameras, inbox,
                 callVars, deviceVars, faults>>

Join(s) ==
  /\ Running(s) /\ s \notin watched /\ s \notin locked
  /\ watched' = watched \cup {s}
  /\ UNCHANGED <<active, connecting, locked, start, attempt, bridgeVars, iceVars, peerVars,
                 mqttVars, callVars, deviceVars, faults>>

Leave(s) ==
  /\ s \in watched /\ s \notin locked
  /\ watched' = watched \ {s}
  /\ UNCHANGED <<active, connecting, locked, start, attempt, bridgeVars, iceVars, peerVars,
                 mqttVars, callVars, deviceVars, faults>>

(* stopStreamInternal with cs.mutex held.                                  *)
StopStream(s) ==
  /\ active' = active \ {s} /\ connecting' = connecting \ {s}
  /\ IF Running(s) THEN StopBridge(Current(s))
                   ELSE UNCHANGED <<connected, peer, alarm, cameras, device>>

(* The shutdown timer, or the cleanup.                                     *)
Shutdown(s) ==
  /\ s \in active /\ s \notin watched /\ s \notin locked
  /\ StopStream(s)
  /\ UNCHANGED <<watched, locked, start, attempt, hevc, waiter, iceVars, channel, connVars,
                 inbox, callVars, sent, faults>>

MayStart(s) == s \notin locked /\ s \notin active /\ s \in connecting

(* An attempt has cs.mutex until bridge.Start has returned.                *)
Attempt(s) ==
  /\ start[s] = "attempt" /\ MayStart(s)
  /\ start' = [start EXCEPT ![s] = "starting"]
  /\ locked' = locked \cup {s}
  /\ UNCHANGED <<watched, active, connecting, attempt, bridgeVars, iceVars, peerVars,
                 mqttVars, callVars, deviceVars, faults>>

MutAttemptFails(s) ==   \* returns without Unlock
  start' = [start EXCEPT ![s] = IF attempt[s] = 1 THEN "pause" ELSE "giveup"] /\ UNCHANGED locked

(* The retry's fresh bridge.  The first one's Stop does nothing, its Start *)
(* having failed: its session stays registered.  Without a client from the *)
(* manager, Start fails, or makes a connection of its own.                 *)
Retry(s) ==
  /\ start[s] = "pause" /\ MayStart(s)
  /\ start' = [start EXCEPT ![s] = "starting"]
  /\ locked' = locked \cup {s}
  /\ attempt' = [attempt EXCEPT ![s] = 2]
  /\ GetClient(<<2, s>>) \/ UNCHANGED connVars
  /\ UNCHANGED <<watched, active, connecting, bridgeVars, iceVars, peerVars, cameras, inbox,
                 callVars, deviceVars, faults>>

AttemptFails(s) ==
  /\ start' = [start EXCEPT ![s] = IF attempt[s] = 1 THEN "pause" ELSE "giveup"]
  /\ locked' = locked \ {s}

(* Start up to waiter.Wait(): no configuration or no peer connection; or   *)
(* the session registered and an offer sent, or refused by a closed client.*)
StartOffers(s) ==
  LET b == Current(s)
      k == link[b]
  IN /\ start[s] = "starting"
     /\ \/ AttemptFails(s) /\ UNCHANGED <<cameras, peer, device>>
        \/ /\ k # None
           /\ cameras' = [cameras EXCEPT ![k] = @ \cup {b}]
           /\ peer' = [peer EXCEPT ![b] = "offered"]
           /\ IF k \in online
              THEN /\ start' = [start EXCEPT ![s] = "waiting"]
                   /\ device' = [device EXCEPT ![b] = "offered"]
                   /\ UNCHANGED locked
              ELSE AttemptFails(s) /\ UNCHANGED device
     /\ UNCHANGED <<watched, active, connecting, attempt, bridgeVars, iceVars, channel, alarm,
                    connVars, inbox, callVars, sent, faults>>

Abandon(s) ==
  /\ start[s] \in {"attempt", "pause"} /\ s \notin locked /\ ~MayStart(s)
  /\ start' = [start EXCEPT ![s] = "done"]
  /\ UNCHANGED <<watched, active, connecting, locked, attempt, bridgeVars, iceVars, peerVars,
                 mqttVars, callVars, deviceVars, faults>>

(* waiter.Wait returns nil: success, or an error not yet stored.           *)
StartSucceeds(s) ==
  /\ start[s] = "waiting" /\ waiter[Current(s)] \in {"ok", "failing"}
  /\ start' = [start EXCEPT ![s] = "done"]
  /\ connected' = connected \cup {Current(s)}
  /\ connecting' = connecting \ {s} /\ active' = active \cup {s}
  /\ locked' = locked \ {s}
  /\ UNCHANGED <<watched, attempt, hevc, waiter, iceVars, peerVars, mqttVars, callVars,
                 deviceVars, faults>>

StartFails(s) ==
  /\ start[s] = "waiting" /\ waiter[Current(s)] = "err"
  /\ AttemptFails(s)
  /\ UNCHANGED <<watched, active, connecting, attempt, bridgeVars, iceVars, peerVars,
                 mqttVars, callVars, deviceVars, faults>>

GiveUp(s) ==
  /\ start[s] = "giveup" /\ s \notin locked
  /\ start' = [start EXCEPT ![s] = "done"]
  /\ StopStream(s)
  /\ UNCHANGED <<watched, locked, attempt, hevc, waiter, iceVars, channel, connVars, inbox,
                 callVars, sent, faults>>

-----------------------------------------------------------------------------
(* What arrives over MQTT.                                                 *)

MutTakeAnswer(b) ==   \* forgets the candidates that came before the answer
  /\ answered' = answered \cup {b}
  /\ peer' = [peer EXCEPT ![b] = IF @ = "offered" THEN "described" ELSE @]
  /\ pending' = [pending EXCEPT ![b] = <<>>]
  /\ UNCHANGED applied

MutTakeCandidate(b, n) ==   \* does not wait for the answer
  /\ applied' = [applied EXCEPT ![b] = Append(@, n)]
  /\ UNCHANGED <<answered, peer, pending>>

(* MQTTClient.consume, and what the camera client's handler does of it     *)
(* that cannot block: an answer sets the remote description and releases   *)
(* the candidates kept for it; a candidate waits for the answer, or goes   *)
(* to the peer connection; the rest ends in handleError.                   *)
TakeAnswer(b) ==
  /\ answered' = answered \cup {b}
  /\ peer' = [peer EXCEPT ![b] = IF @ = "offered" THEN "described" ELSE @]
  /\ applied' = [applied EXCEPT ![b] = @ \o pending[b]]
  /\ pending' = [pending EXCEPT ![b] = <<>>]

MutReport(r, m) ==   \* OnError before waiter.Done
  stage' = [stage EXCEPT ![r] = "check"] /\ job' = [job EXCEPT ![r] = m]

MutReportCurrent(r, m) ==   \* a report about the stream's present session
  /\ stage' = [stage EXCEPT ![r] = "tell"]
  /\ job' = [job EXCEPT ![r] = [m EXCEPT !.to = Current(Owner(m.to))]]

MutReportBlank(r, m) ==   \* a report without its session
  stage' = [stage EXCEPT ![r] = "tell"] /\ UNCHANGED job

TakeCandidate(b, n) ==
  /\ IF b \in answered
     THEN applied' = [applied EXCEPT ![b] = Append(@, n)] /\ UNCHANGED pending
     ELSE pending' = [pending EXCEPT ![b] = Append(@, n)] /\ UNCHANGED applied
  /\ UNCHANGED <<answered, peer>>

Report(r, m) == stage' = [stage EXCEPT ![r] = "tell"] /\ job' = [job EXCEPT ![r] = m]

Consume(k) ==
  LET m == Head(inbox[k]) IN
  /\ stage[k] = "idle" /\ inbox[k] # <<>>
  /\ inbox' = [inbox EXCEPT ![k] = Tail(@)]
  /\ \/ /\ m.to \notin cameras[k]
        /\ UNCHANGED <<iceVars, peer, callVars>>
     \/ /\ m.to \in cameras[k] /\ m.type = "answer"
        /\ TakeAnswer(m.to) /\ UNCHANGED callVars
     \/ /\ m.to \in cameras[k] /\ m.type = "candidate"
        /\ TakeCandidate(m.to, m.n) /\ UNCHANGED callVars
     \/ /\ m.to \in cameras[k] /\ m.type \in {"garbled", "disconnect"}
        /\ Report(k, m) /\ UNCHANGED <<iceVars, peer>>
  /\ UNCHANGED <<streamVars, bridgeVars, channel, alarm, connVars, cameras, deviceVars, faults>>

-----------------------------------------------------------------------------
(* What pion reports.                                                      *)

(* waiter.Done(nil).                                                       *)
Succeed(b) == waiter' = [waiter EXCEPT ![b] = IF @ = "open" THEN "ok" ELSE @]

(* The connection is up.  Without HEVC that is all an "hd" stream needs;   *)
(* other resolutions report nothing.                                       *)
PeerConnects(b) ==
  /\ peer[b] = "described"
  /\ peer' = [peer EXCEPT ![b] = "connected"]
  /\ IF Owner(b) \notin hevc /\ Owner(b)[2] = "hd" THEN Succeed(b) ELSE UNCHANGED waiter
  /\ UNCHANGED <<streamVars, hevc, connected, iceVars, channel, alarm, mqttVars, callVars,
                 deviceVars, faults>>

(* With HEVC the data channel opens and asks for the codec; the device's   *)
(* "codec" is answered by "start", its "recv", with the SSRCs, by          *)
(* "complete".                                                             *)
ChannelStep(b, from, to) ==
  /\ Owner(b) \in hevc /\ peer[b] = "connected" /\ channel[b] = from
  /\ channel' = [channel EXCEPT ![b] = to]

MutChannelCodec(b) ==   \* reports success on "codec" already
  /\ ChannelStep(b, "codec", "start")
  /\ Succeed(b)
  /\ UNCHANGED <<streamVars, hevc, connected, iceVars, peer, alarm, mqttVars, callVars,
                 deviceVars, faults>>

ChannelOpens(b) ==
  /\ ChannelStep(b, "none", "codec")
  /\ UNCHANGED <<streamVars, bridgeVars, iceVars, peer, alarm, mqttVars, callVars,
                 deviceVars, faults>>

ChannelCodec(b) ==
  /\ ChannelStep(b, "codec", "start")
  /\ UNCHANGED <<streamVars, bridgeVars, iceVars, peer, alarm, mqttVars, callVars,
                 deviceVars, faults>>

ChannelRecv(b) ==
  /\ ChannelStep(b, "start", "complete")
  /\ Succeed(b)
  /\ UNCHANGED <<streamVars, hevc, connected, iceVars, peer, alarm, mqttVars, callVars,
                 deviceVars, faults>>

(* The connection failed, or the data channel broke.                       *)
PeerFails(b) ==
  /\ peer[b] \in {"described", "connected"} /\ faults < MaxFaults
  /\ faults' = faults + 1
  /\ alarm' = alarm \cup {b}
  /\ peer' = [peer EXCEPT ![b] = "failed"]
  /\ UNCHANGED <<streamVars, bridgeVars, iceVars, channel, mqttVars, callVars, deviceVars>>

(* Pion starts the callback's goroutine.                                   *)
PeerAlarm(b) ==
  /\ b \in alarm /\ stage[b] = "idle"
  /\ alarm' = alarm \ {b}
  /\ Report(b, Message(b, "garbled", 0))
  /\ UNCHANGED <<streamVars, bridgeVars, iceVars, peer, channel, mqttVars, deviceVars, faults>>

-----------------------------------------------------------------------------
(* handleError, by caller: waiter.Done(err), then OnError.                 *)

Subject(r) == job[r].to
StreamOf(r) == Owner(Subject(r))

(* The caller goes on to `next`; or it is through, except that             *)
(* HandleDisconnect has a statement left.                                  *)
Goes(r, from, cond, next) ==
  LET rest == IF job[r].type = "disconnect" /\ from # "drop" THEN "drop" ELSE "idle" IN
  /\ stage[r] = from
  /\ stage' = [stage EXCEPT ![r] = IF cond THEN next ELSE rest]
  /\ job' = [job EXCEPT ![r] = IF ~cond /\ rest = "idle" THEN None ELSE @]

MutTellWaiter(r) ==   \* tells nobody
  /\ stage[r] = "tell"
  /\ stage' = [stage EXCEPT ![r] = "check"]
  /\ UNCHANGED <<streamVars, bridgeVars, iceVars, peerVars, mqttVars, job, deviceVars, faults>>

MutRetell(r) ==   \* an error replaces a success
  LET b == Subject(r) IN
  /\ stage[r] = "tell" /\ waiter[b] # "failing"
  /\ stage' = [stage EXCEPT ![r] = IF waiter[b] \in {"open", "ok"} THEN "store" ELSE "check"]
  /\ waiter' = [waiter EXCEPT ![b] = IF @ \in {"open", "ok"} THEN "failing" ELSE @]
  /\ UNCHANGED <<streamVars, hevc, connected, iceVars, peerVars, mqttVars, job, deviceVars,
                 faults>>

(* Done wakes Start, unless another Done still has the waiter's mutex, ... *)
TellWaiter(r) ==
  LET b == Subject(r) IN
  /\ stage[r] = "tell" /\ waiter[b] # "failing"
  /\ stage' = [stage EXCEPT ![r] = IF waiter[b] = "open" THEN "store" ELSE "check"]
  /\ waiter' = [waiter EXCEPT ![b] = IF @ = "open" THEN "failing" ELSE @]
  /\ UNCHANGED <<streamVars, hevc, connected, iceVars, peerVars, mqttVars, job, deviceVars,
                 faults>>

(* ... and stores the error.                                               *)
StoreError(r) ==
  /\ Goes(r, "store", TRUE, "check")
  /\ waiter' = [waiter EXCEPT ![Subject(r)] = "err"]
  /\ UNCHANGED <<streamVars, hevc, connected, iceVars, peerVars, mqttVars, deviceVars, faults>>

(* OnError reads the flags, ...                                            *)
CheckFlags(r) ==
  /\ Goes(r, "check", Running(StreamOf(r)), "count")
  /\ UNCHANGED <<streamVars, bridgeVars, iceVars, peerVars, mqttVars, deviceVars, faults>>

(* ... counts the clients under cs.mutex, ...                              *)
CountClients(r) ==
  /\ Goes(r, "count", StreamOf(r) \notin watched, "stop")
  /\ StreamOf(r) \notin locked
  /\ UNCHANGED <<streamVars, bridgeVars, iceVars, peerVars, mqttVars, deviceVars, faults>>

(* ... and runs stopStreamInternal without it: first the flags, ...        *)
ErrorStop(r) ==
  LET s == StreamOf(r) IN
  /\ Goes(r, "stop", Running(s), "halt")
  /\ active' = active \ {s} /\ connecting' = connecting \ {s}
  /\ UNCHANGED <<watched, locked, start, attempt, bridgeVars, iceVars, peerVars, mqttVars,
                 deviceVars, faults>>

(* ... then the bridge, whose wb.mutex a Start may have.                   *)
ErrorHalt(r) ==
  /\ Goes(r, "halt", FALSE, "idle")
  /\ StreamOf(r) \notin locked
  /\ StopBridge(Current(StreamOf(r)))
  /\ UNCHANGED <<streamVars, hevc, waiter, iceVars, channel, connVars, inbox, sent, faults>>

(* HandleDisconnect: wb.connected = false.                                 *)
Drop(r) ==
  /\ Goes(r, "drop", FALSE, "idle")
  /\ connected' = connected \ {Subject(r)}
  /\ UNCHANGED <<streamVars, hevc, waiter, iceVars, peerVars, mqttVars, deviceVars, faults>>

Callback(r) == \/ TellWaiter(r) \/ StoreError(r) \/ CheckFlags(r) \/ CountClients(r)
               \/ ErrorStop(r) \/ ErrorHalt(r) \/ Drop(r)

-----------------------------------------------------------------------------
(* The environment: devices, the broker, the network.                      *)

Send(b, t, n) ==
  /\ link[b] \in online
  /\ inbox' = [inbox EXCEPT ![link[b]] = Append(@, Message(b, t, n))]

DeviceAnswers(b) ==
  /\ device[b] = "offered"
  /\ \E t \in {"answer", "garbled"} : Send(b, t, 0)
  /\ device' = [device EXCEPT ![b] = "answered"]
  /\ UNCHANGED <<streamVars, bridgeVars, iceVars, peerVars, connVars, cameras, callVars, sent,
                 faults>>

DeviceSendsCandidate(b) ==
  /\ device[b] \in {"offered", "answered"}
  /\ sent[<<1, Owner(b)>>] + sent[<<2, Owner(b)>>] < MaxCandidates
  /\ sent' = [sent EXCEPT ![b] = @ + 1]
  /\ Send(b, "candidate", sent[b] + 1)
  /\ UNCHANGED <<streamVars, bridgeVars, iceVars, peerVars, connVars, cameras, callVars, device,
                 faults>>

DeviceDisconnects(b) ==
  /\ device[b] \in {"offered", "answered"}
  /\ device' = [device EXCEPT ![b] = "gone"]
  /\ Send(b, "disconnect", 0)
  /\ UNCHANGED <<streamVars, bridgeVars, iceVars, peerVars, connVars, cameras, callVars, sent,
                 faults>>

(* The connection is lost, with what was on its way; it does not reconnect.*)
ConnectionLost(k) ==
  /\ k \in online /\ faults < MaxFaults
  /\ faults' = faults + 1
  /\ online' = online \ {k}
  /\ inbox' = [inbox EXCEPT ![k] = <<>>]
  /\ UNCHANGED <<streamVars, bridgeVars, iceVars, peerVars, used, clients, link, cameras,
                 callVars, deviceVars>>

-----------------------------------------------------------------------------
Starter(s) == \/ Attempt(s) \/ Retry(s) \/ Abandon(s) \/ StartOffers(s)
              \/ StartSucceeds(s) \/ StartFails(s) \/ GiveUp(s)

Program == \/ \E s \in Streams : Starter(s) \/ Shutdown(s)
           \/ \E k \in Conns : Consume(k)
           \/ \E r \in Callers : Callback(r)
           \/ \E b \in Bridges : PeerAlarm(b)

Peers == \E b \in Bridges : \/ PeerConnects(b) \/ ChannelOpens(b) \/ ChannelCodec(b)
                            \/ ChannelRecv(b) \/ DeviceAnswers(b)

Next == \/ Program \/ Peers
        \/ \E s \in Streams : Open(s) \/ Join(s) \/ Leave(s)
        \/ \E b \in Bridges : PeerFails(b) \/ DeviceSendsCandidate(b) \/ DeviceDisconnects(b)
        \/ \E k \in Conns : ConnectionLost(k)

Spec == Init /\ [][Next]_vars

(* Goroutines that can run do; devices answer offers, and peers that have  *)
(* been described connect unless they fail.                                *)
Fairness == WF_vars(Program) /\ WF_vars(Peers)
FairSpec == Spec /\ Fairness

-----------------------------------------------------------------------------
TypeOK ==
  /\ hevc \subseteq Streams /\ watched \subseteq Streams
  /\ active \subseteq Streams /\ connecting \subseteq Streams /\ locked \subseteq Streams
  /\ start \in [Streams -> {"none", "attempt", "starting", "waiting", "pause", "giveup", "done"}]
  /\ attempt \in [Streams -> {1, 2}]
  /\ link \in [Bridges -> Conns \cup {None}]
  /\ waiter \in [Bridges -> {"open", "ok", "failing", "err"}]
  /\ connected \subseteq Bridges /\ answered \subseteq Bridges /\ alarm \subseteq Bridges
  /\ pending \in [Bridges -> Seq(0 .. MaxCandidates)]
  /\ applied \in [Bridges -> Seq(0 .. MaxCandidates)]
  /\ peer \in [Bridges -> {"none", "offered", "described", "connected", "failed", "closed"}]
  /\ channel \in [Bridges -> {"none", "codec", "start", "complete"}]
  /\ online \subseteq used /\ used \subseteq Conns
  /\ clients \in [Devices -> Conns \cup {None}]
  /\ cameras \in [Conns -> SUBSET Bridges]
  /\ inbox \in [Conns -> Seq(Messages)]
  /\ stage \in [Callers -> {"idle", "tell", "store", "check", "count", "stop", "halt", "drop"}]
  /\ job \in [Callers -> Messages \cup {None}]
  /\ \A r \in Callers : stage[r] = "idle" <=> job[r] = None
  /\ device \in [Bridges -> {"none", "offered", "answered", "gone"}]
  /\ sent \in [Bridges -> 0 .. MaxCandidates]
  /\ faults \in 0 .. MaxFaults

(* The candidates on their way to b, by their places in the inbox.         *)
OnTheWay(b) ==
  {i \in DOMAIN inbox[link[b]] : inbox[link[b]][i].to = b /\ inbox[link[b]][i].type = "candidate"}

(* No candidate is lost, duplicated or reordered: while a session is       *)
(* registered and its connection up, those the peer connection has and     *)
(* then those kept for the answer are the first the device sent, and the   *)
(* others are on their way, in the order they were sent in                 *)
(* (HandleCandidate and HandleAnswer, bridge.go:452-499).                  *)
CandidatesKept ==
  \A b \in Bridges : link[b] \in online /\ b \in cameras[link[b]] =>
    LET taken == applied[b] \o pending[b]
        mail == inbox[link[b]]
    IN /\ Len(taken) <= sent[b] /\ \A i \in 1 .. Len(taken) : taken[i] = i
       /\ {mail[i].n : i \in OnTheWay(b)} = Len(taken) + 1 .. sent[b]
       /\ \A i, j \in OnTheWay(b) : i < j => mail[i].n < mail[j].n

(* The peer connection is given candidates only once it has the device's   *)
(* description, and none is kept back after that.                          *)
AnswerFirst ==
  \A b \in Bridges : /\ applied[b] # <<>> => peer[b] \notin {"none", "offered"}
                     /\ peer[b] \in {"described", "connected"} => pending[b] = <<>>

(* Success is reported only of a bridge the device answered, and with HEVC *)
(* only when the handshake on the data channel is through, so the SSRCs    *)
(* are known before media is forwarded.                                    *)
SuccessIsEarned ==
  \A b \in Bridges : waiter[b] = "ok" =>
    b \in answered /\ (Owner(b) \in hevc => channel[b] = "complete")

(* handleError tells the waiter before it runs OnError: whoever may wait   *)
(* for cs.mutex has ended the Start it reports about, so no goroutine      *)
(* waits for a Start that waits for that very report.                      *)
LatchBeforeLock ==
  \A r \in Callers : stage[r] \in {"check", "count", "stop", "halt", "drop"} =>
    waiter[Subject(r)] \in {"ok", "err"}

(* The bridges keep the contract on which CameraStreams builds.            *)
Contract == INSTANCE BridgeContract
              WITH Bridges <- Bridges, outcome <- waiter, up <- connected
BridgesKeepContract == Contract!Spec

(* A resolution that never reports; a goroutine that waits for the mutex   *)
(* of a stream, be it the waiting one or another of the device, to report  *)
(* an earlier attempt; a Start whose connection is lost or so stuck.       *)
Unreported(s) == s \notin hevc /\ s[2] # "hd" /\ peer[Current(s)] = "connected"
Stuck(k) == /\ stage[k] \in {"count", "halt"} /\ StreamOf(k) \in locked
            /\ Subject(k) # Current(StreamOf(k))
Unheard(s) == LET k == link[Current(s)] IN k \notin online \/ (k # None /\ Stuck(k))

(* The session of b has itself failed or ended: its peer connection, by    *)
(* the device's disconnect, or with an answer nothing could be done with.  *)
Arriving(k) == {inbox[k][i] : i \in DOMAIN inbox[k]}
Unanswered(b) ==
  b \notin answered /\ \A k \in Conns : \A m \in Arriving(k) : m.to = b => m.type # "answer"
Broken(b) == \/ peer[b] \in {"failed", "closed"}
             \/ device[b] = "gone"
             \/ device[b] = "answered" /\ Unanswered(b)

(* An attempt fails of its own session only: what is still reported about  *)
(* the session of an earlier attempt at the stream, while the retry starts *)
(* or runs, does not decide the retry, nor do failures of other streams    *)
(* of the device (dispatch by session in consume, handleError of the       *)
(* bridge whose callback it is).                                           *)
FailureIsOwn ==
  \A b \in Bridges : waiter[b] \in {"failing", "err"} => Broken(b)

(* What can still tell the waiter of b, once it has an offer out: the      *)
(* device, a message for the session registered, a callback's goroutine,   *)
(* or pion.                                                                *)
NewsOf(b) ==
  \/ device[b] = "offered"
  \/ /\ b \in cameras[link[b]]
     /\ \E i \in DOMAIN inbox[link[b]] :
          inbox[link[b]][i].to = b /\ inbox[link[b]][i].type # "candidate"
  \/ \E r \in Callers : stage[r] = "tell" /\ Subject(r) = b
  \/ b \in alarm
  \/ peer[b] = "described"
  \/ Owner(b) \in hevc /\ peer[b] = "connected" /\ channel[b] # "complete"

(* The wake-up of a Start is never lost or used up by another: while it    *)
(* waits and its waiter is open, what will tell the waiter is still under  *)
(* way, whatever answers, reports, failures, retries and stops of all the  *)
(* device's streams have come in between.  But for a lost connection and   *)
(* a resolution that never reports.                                        *)
NoWakeUpLost ==
  \A s \in Streams :
    start[s] = "waiting" /\ waiter[Current(s)] = "open" =>
      link[Current(s)] \notin online \/ Unreported(s) \/ NewsOf(Current(s))

(* A Start that waits for ever has an excuse, for ever.                    *)
StartsEnd ==
  \A s \in Streams : <>[](start[s] = "waiting") =>
                        <>[](Unreported(s) \/ Unheard(s))

(* An MQTT goroutine is stuck only where some Start never returns.         *)
HandlersReturn ==
  \A k \in Conns : <>[](stage[k] # "idle") => <>[](\E s \in Streams : start[s] = "waiting")

(* Expected by bridge/README.md:41, "MQTT singleton preventing broker kick *)
(* loops from duplicate client IDs": getting a client for one device does  *)
(* not cost another its connection.  Two devices break it: the manager has *)
(* a client per device, and all use one client id.                         *)
ClientsDoNotKick ==
  [][(\E s \in Streams : Open(s) \/ Retry(s)) => online \subseteq online']_vars

(* Expected of every endpoint the program announces, "SD: rtsp://..."      *)
(* (bridge/cmd/direct/direct.go:146) among them: once the connection with  *)
(* the device is up, Start returns.  Without HEVC an SD stream has no      *)
(* callback that would tell it (bridge.go:386).                            *)
ConnectedStartsEnd ==
  \A s \in Streams : (start[s] = "waiting" /\ peer[Current(s)] = "connected")
                        ~> start[s] # "waiting"

=============================================================================
