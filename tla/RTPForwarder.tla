---------------------------- MODULE RTPForwarder ----------------------------
(***************************************************************************)
(* How media reach the viewers of one camera stream: the RTP forwarder of  *)
(* each bridge (bridge/pkg/rtsp/forwarder.go), fed by the bridge's track   *)
(* and data channel goroutines (bridge.go), and the RTSP sessions          *)
(* (protocol.go) whose SETUPs register clients with it and whose end       *)
(* removes them.                                                           *)
(*                                                                         *)
(* Forwarding a packet reads the map of clients under the read lock of     *)
(* rf.mutex, for as long as its writes take: a TCP client that has stopped *)
(* reading blocks the write.  Adding and removing clients take the write   *)
(* lock; a handler that removes its client holds the server's mutex and    *)
(* the stream's as well.                                                   *)
(*                                                                         *)
(* The stream is here from its creation to its stop: bridge 1 is that of   *)
(* the first attempt, bridge 2 that of the retry.  Its timers, errors and  *)
(* locks in full are module CameraStreams.                                 *)
(*                                                                         *)
(* Left out: the contents of packets but for what a decoder needs of them  *)
(* (parameter sets before keyframes; H265, for which the forwarder has     *)
(* nothing, is "other"), their timestamps and sequence numbers; RTCP;      *)
(* requests that change nothing (OPTIONS, DESCRIBE, PLAY, and the SETUPs   *)
(* answered 400 or 461), SETUPs whose URL names no track, the packets of   *)
(* the backchannel once its sockets are open; packets in flight            *)
(* when the peer connection is closed; an error's stop that meets the      *)
(* retry's Start, and clients that join a stopped stream and start it      *)
(* again (both are in CameraStreams); what Go's run time makes of a map    *)
(* that is written while it is read (it may end the process).              *)
(***************************************************************************)
EXTENDS Naturals, Sequences, FiniteSets

CONSTANTS Sessions,
          Ports,      \* UDP ports clients ask for
          Channels,   \* interleaved channels clients ask for
          Bounds,     \* bounds: the inputs a behaviour may have
          None

Bridges == {1, 2}
Media   == {"video", "audio"}
Tracks  == Media \cup {"backchannel"}
Params  == {"sps", "pps"}   \* what a decoder needs for a keyframe

(* The channels of a transport header without interleaved=, and those a    *)
(* session starts with.                                                    *)
DefaultChannel == [t \in Tracks |-> CASE t = "video" -> 0 [] t = "audio" -> 2 [] OTHER -> 4]
NoPorts == [m \in Media |-> 0]

ASSUME PortsAssumption == Ports \subseteq Nat \ {0}
ASSUME ChannelsAssumption == Channels \subseteq Nat

(* What the camera's path contains, a track's name or None; how many       *)
(* setups, of which tracks and UDP ports; how many packets and changes of  *)
(* peers.                                                                  *)
Inputs == [word : Tracks \cup {None}, setups : Nat, tracks : SUBSET Tracks,
           ports : SUBSET Ports, packets : Nat, changes : Nat]
ASSUME BoundsAssumption == Bounds \subseteq Inputs

(* A client's entry: its transport; where its UDP connections lead, 0 for  *)
(* nil; whether it has the listeners of a backchannel; its TCP channels.   *)
RTPClient == [mode : {"udp", "tcp"}, dialed : [Media -> Ports \cup {0}], back : BOOLEAN,
              channel : [Tracks -> Nat]]
ASSUME NoneAssumption == None \notin Sessions /\ None \notin Tracks /\ None \notin RTPClient

VARIABLES
  stage,       \* the stream: "idle", "pending", "starting", "between",
               \* "active", "stopping" (with cs.mutex), "halting"
               \* (without, in OnError), "stopped"
  current,     \* cs.webrtcBridge
  live,        \* the bridges whose peer connection delivers media
  members,     \* cs.clients
  doomed,      \* OnError counted no client, and will stop the stream
  todo,        \* the clients that RTPForwarder.Stop has yet to remove
  handler,     \* a connection's goroutine: "none", "serving", "leaving",
               \* "removing" (with s.mutex and cs.mutex), "gone"
  conn,        \* its peer: "up", "stalled" (does not read), "down"
  client,      \* RTSPClient: the ports and channels asked for so far
  answers,     \* history: the SETUPs answered, and how
  clients,     \* RTPForwarder.clients
  sockets,     \* the UDP sockets open: by bridge, session and track
  readers,     \* who holds the read lock of rf.mutex
  writing,     \* what ForwardVideoPacket writes next, or "none"
  cache,       \* spsPacket, ppsPacket: "none", "stale" or "fresh"
  sent,        \* the parameter sets the camera has sent of its present ones
  missed,      \* those that found no client and were not cached
  has,         \* those of the present ones that were written to a client
  inputs       \* those that may still come

streamVars  == <<stage, current, live, members, doomed, todo>>
sessionVars == <<handler, conn, client, answers>>
clientVars  == <<clients, sockets>>
mediaVars   == <<readers, writing, cache, sent, missed, has>>
vars == <<streamVars, sessionVars, clientVars, mediaVars, inputs>>

(* A step of the environment.                                              *)
Input(kind) == inputs[kind] > 0 /\ inputs' = [inputs EXCEPT ![kind] = @ - 1]

NewClient == [port |-> NoPorts, channel |-> DefaultChannel]

Init ==
  /\ stage = "idle" /\ current = 1 /\ live = {} /\ members = {}
  /\ doomed = FALSE /\ todo = {}
  /\ handler = [s \in Sessions |-> "none"]
  /\ conn = [s \in Sessions |-> "up"]
  /\ client = [s \in Sessions |-> NewClient]
  /\ answers = [s \in Sessions |-> <<>>]
  /\ clients = [b \in Bridges |-> [s \in Sessions |-> None]]
  /\ sockets = {}
  /\ readers = [b \in Bridges |-> {}]
  /\ writing = [b \in Bridges |-> "none"]
  /\ cache = [b \in Bridges |-> [p \in Params |-> "none"]]
  /\ sent = [b \in Bridges |-> {}]
  /\ missed = [b \in Bridges |-> {}]
  /\ has = [b \in Bridges |-> [s \in Sessions |-> {}]]
  /\ inputs \in Bounds

-----------------------------------------------------------------------------
(* The forwarder's clients.  A client keeps the transport it was first     *)
(* registered with.                                                        *)

Registered(b) == {s \in Sessions : clients[b][s] # None}

(* Mutant: the channels of a client already there are not brought up to    *)
(* date.                                                                   *)
MutAddTCPClient(b, s, channel) ==
  /\ clients' = [clients EXCEPT ![b][s] =
       IF @ = None
       THEN [mode |-> "tcp", dialed |-> NoPorts, back |-> FALSE, channel |-> channel]
       ELSE @]
  /\ UNCHANGED sockets

(* AddTCPClient: a client already there only has its channels changed.     *)
AddTCPClient(b, s, channel) ==
  /\ clients' = [clients EXCEPT ![b][s] =
       IF @ = None
       THEN [mode |-> "tcp", dialed |-> NoPorts, back |-> FALSE, channel |-> channel]
       ELSE [@ EXCEPT !.channel = channel]]
  /\ UNCHANGED sockets

(* AddUDPClient for a client already there: a connection that was never    *)
(* made is made, if the port can be dialed, one there is stays.            *)
ExtendUDPClient(b, s, port, failed) ==
  LET old == clients[b][s]
      new == {m \in Media \ failed : old.dialed[m] = 0 /\ port[m] # 0}
  IN /\ old # None
     /\ clients' = [clients EXCEPT ![b][s].dialed =
          [m \in Media |-> IF m \in new THEN port[m] ELSE @[m]]]
     /\ sockets' = sockets \cup {<<b, s, m>> : m \in new}

(* Mutant: the RTCP port, one higher, is dialed.                           *)
MutDialRTCP(b, s, port) ==
  /\ clients[b][s] = None
  /\ clients' = [clients EXCEPT ![b][s] =
       [mode |-> "udp", dialed |-> [m \in Media |-> IF port[m] = 0 THEN 0 ELSE port[m] + 1],
        back |-> FALSE, channel |-> DefaultChannel]]
  /\ sockets' = sockets \cup {<<b, s, m>> : m \in {x \in Media : port[x] # 0}}

(* AddUDPClient for a new one: all of its connections, or an error and     *)
(* none.                                                                   *)
AddUDPClient(b, s, port) ==
  /\ clients[b][s] = None
  /\ clients' = [clients EXCEPT ![b][s] =
       [mode |-> "udp", dialed |-> port, back |-> FALSE, channel |-> DefaultChannel]]
  /\ sockets' = sockets \cup {<<b, s, m>> : m \in {x \in Media : port[x] # 0}}

(* SetupUDPBackchannel: only for a UDP client.  The listeners it has are   *)
(* kept; else an even port that the system offers and the next are bound,  *)
(* which GetConsecutiveUDPPorts may give up after ten attempts.            *)
CanListen(b, s) == clients[b][s] # None /\ clients[b][s].mode = "udp"
PortsMayRunOut(b, s) == ~clients[b][s].back
SetupUDPBackchannel(b, s) ==
  /\ CanListen(b, s)
  /\ clients' = [clients EXCEPT ![b][s].back = TRUE]
  /\ sockets' = sockets \cup {<<b, s, "backchannel">>}

(* Mutant: the listeners of the backchannel stay open.                     *)
MutRemoveClient(b, s) ==
  /\ readers[b] = {}
  /\ clients' = [clients EXCEPT ![b][s] = None]
  /\ sockets' = IF CanListen(b, s) THEN sockets \ ({b} \X {s} \X Media) ELSE sockets

(* RemoveClient, under the write lock: the sockets of a UDP client are     *)
(* closed.                                                                 *)
CanWriteLock(b) == readers[b] = {}
RemoveClient(b, s) ==
  /\ CanWriteLock(b)
  /\ clients' = [clients EXCEPT ![b][s] = None]
  /\ sockets' = IF CanListen(b, s) THEN sockets \ ({b} \X {s} \X Tracks) ELSE sockets

-----------------------------------------------------------------------------
(* A session's handler.                                                    *)

(* A handler's clean-up takes the server's mutex, the stream's and then    *)
(* the forwarder's; Start and Stop hold the stream's throughout.           *)
Removing == \E s \in Sessions : handler[s] = "removing"
StreamLocked == Removing \/ stage \in {"starting", "stopping"}

(* A connection that found this stream: addClient, AddClient, and the      *)
(* stream's start unless it is under way.                                  *)
Connect(s) ==
  /\ handler[s] = "none" /\ ~StreamLocked
  /\ stage \notin {"halting", "stopped"}
  /\ handler' = [handler EXCEPT ![s] = "serving"]
  /\ members' = members \cup {s}
  /\ stage' = IF stage = "idle" THEN "pending" ELSE stage
  /\ UNCHANGED <<inputs, current, live, doomed, todo, conn, client, answers, clientVars, mediaVars>>

(* The track handleSetup takes a URL to be of: it looks for the tracks'    *)
(* names anywhere in the URL, the camera's path included.                  *)
TrackOf(t) == IF "video" \in {inputs.word, t} THEN "video"
              ELSE IF "audio" \in {inputs.word, t} THEN "audio" ELSE "backchannel"

(* handleSetup for track t, to its answer: 200 ("ok", or "undialed" if no  *)
(* connection could be made all the same) or 500 ("error").  The call of   *)
(* the forwarder waits for the write lock.                                 *)
Answer(s, t, mode, at, outcome) ==
  /\ handler[s] = "serving" /\ CanWriteLock(current)
  /\ Input("setups")
  /\ answers' = [answers EXCEPT ![s] = Append(@,
       [bridge |-> current, track |-> t, mode |-> mode, at |-> at, outcome |-> outcome])]
  /\ UNCHANGED <<streamVars, handler, conn, mediaVars>>

SetupTCP(s, t, at) ==
  /\ client' = [client EXCEPT ![s].channel[TrackOf(t)] = at]
  /\ AddTCPClient(current, s, client'[s].channel)
  /\ Answer(s, t, "tcp", at, "ok")

SetupUDPMedia(s, t, at) ==
  /\ TrackOf(t) \in Media
  /\ client' = [client EXCEPT ![s].port[TrackOf(t)] = at]
  /\ \/ \E failed \in SUBSET Media :
           /\ ExtendUDPClient(current, s, client'[s].port, failed)
           /\ Answer(s, t, "udp", at,
                     IF clients'[current][s].dialed[TrackOf(t)] = 0 THEN "undialed" ELSE "ok")
     \/ AddUDPClient(current, s, client'[s].port) /\ Answer(s, t, "udp", at, "ok")
     \/ /\ clients[current][s] = None
        /\ Answer(s, t, "udp", at, "error") /\ UNCHANGED clientVars

SetupUDPBack(s, t, at) ==
  /\ TrackOf(t) = "backchannel"
  /\ \/ SetupUDPBackchannel(current, s) /\ Answer(s, t, "udp", at, "ok")
     \/ /\ CanListen(current, s) => PortsMayRunOut(current, s)
        /\ Answer(s, t, "udp", at, "error") /\ UNCHANGED clientVars
  /\ UNCHANGED client

Setup(s) == \E t \in inputs.tracks :
  \/ \E at \in inputs.ports : SetupUDPMedia(s, t, at) \/ SetupUDPBack(s, t, at)
  \/ \E at \in Channels \cup {DefaultChannel[TrackOf(t)]} : SetupTCP(s, t, at)

(* handleRTSPProtocol's loop ends: TEARDOWN, 60 seconds of silence, the    *)
(* connection's end, a request or an interleaved packet that is not one.   *)
HandlerEnds(s) ==
  /\ handler[s] = "serving"
  /\ handler' = [handler EXCEPT ![s] = "leaving"]
  /\ UNCHANGED <<inputs, streamVars, conn, client, answers, clientVars, mediaVars>>

(* removeClient: the server's mutex and the stream's, then the forwarder's *)
(* and in the end the connection is closed.                                *)
CanLock(s) == handler[s] = "leaving" /\ ~StreamLocked
Lock(s) ==
  /\ CanLock(s)
  /\ handler' = [handler EXCEPT ![s] = "removing"]
  /\ UNCHANGED <<inputs, streamVars, conn, client, answers, clientVars, mediaVars>>

(* Mutant: the client is taken off the stream, not off the forwarder.      *)
MutRemove(s) ==
  /\ handler[s] = "removing"
  /\ members' = members \ {s}
  /\ handler' = [handler EXCEPT ![s] = "gone"]
  /\ conn' = [conn EXCEPT ![s] = "down"]
  /\ UNCHANGED <<inputs, stage, current, live, doomed, todo, client, answers, clientVars, mediaVars>>

Remove(s) ==
  /\ handler[s] = "removing"
  /\ RemoveClient(current, s)
  /\ members' = members \ {s}
  /\ handler' = [handler EXCEPT ![s] = "gone"]
  /\ conn' = [conn EXCEPT ![s] = "down"]
  /\ UNCHANGED <<inputs, stage, current, live, doomed, todo, client, answers, mediaVars>>

(* The peer stops reading, reads again, goes away.                         *)
PeerChanges(s) ==
  /\ handler[s] # "none" /\ conn[s] # "down"
  /\ \E c \in {"up", "stalled", "down"} \ {conn[s]} : conn' = [conn EXCEPT ![s] = c]
  /\ Input("changes")
  /\ UNCHANGED <<streamVars, handler, client, answers, clientVars, mediaVars>>

-----------------------------------------------------------------------------
(* The stream.                                                             *)

(* startStream's next attempt.  The retry's bridge has a forwarder of its  *)
(* own; Stop of the first one, which never connected, does nothing.        *)
BeginStart ==
  /\ stage \in {"pending", "between"} /\ ~StreamLocked
  /\ current' = IF stage = "between" THEN 2 ELSE 1
  /\ live' = live \cup {current'}
  /\ stage' = "starting"
  /\ UNCHANGED <<inputs, members, doomed, todo, sessionVars, clientVars, mediaVars>>

(* Start returns, if it does (it waits without limit, and modules          *)
(* CameraStreams and BridgeSignalling say for what), with success or an    *)
(* error; after the second error the stream is stopped, and Stop of the    *)
(* bridge does nothing again.  A peer connection that came too late goes   *)
(* on delivering.                                                          *)
StartReturns ==
  /\ stage = "starting"
  /\ stage' \in {"active", IF current = 1 THEN "between" ELSE "stopped"}
  /\ UNCHANGED <<inputs, current, live, members, doomed, todo, sessionVars, clientVars, mediaVars>>

(* OnError finds no client; it stops the stream though one may come until  *)
(* then.                                                                   *)
ErrorReported ==
  /\ stage \in {"between", "active"} /\ ~StreamLocked
  /\ members = {}
  /\ doomed' = TRUE
  /\ UNCHANGED <<inputs, stage, current, live, members, todo, sessionVars, clientVars, mediaVars>>

(* stopStreamInternal, by OnError, or under the lock because nobody watches *)
(* (the shutdown timer, cleanup, and RTSPServer.Stop once it has removed   *)
(* the clients).  Stop of a connected bridge closes its peer connection    *)
(* and stops its forwarder.                                                *)
StopBegins ==
  /\ stage \in {"pending", "between", "active"}
  /\ \/ members = {} /\ ~StreamLocked /\ stage' = IF stage = "active" THEN "stopping" ELSE "stopped"
     \/ doomed /\ stage' = IF stage = "active" THEN "halting" ELSE "stopped"
  /\ IF stage = "active"
     THEN live' = live \ {current} /\ todo' = Registered(current)
     ELSE UNCHANGED <<live, todo>>
  /\ UNCHANGED <<inputs, current, members, doomed, sessionVars, clientVars, mediaVars>>

(* RTPForwarder.Stop removes client after client; its loop over the map    *)
(* holds no lock, so it may meet one that was added meanwhile, or not.     *)
CanStopRemove(s) == stage \in {"stopping", "halting"} /\ s \in Registered(current)
StopRemoves(s) ==
  /\ CanStopRemove(s)
  /\ RemoveClient(current, s)
  /\ todo' = todo \ {s}
  /\ UNCHANGED <<inputs, stage, current, live, members, doomed, sessionVars, mediaVars>>

CanStopEnd == stage \in {"stopping", "halting"} /\ todo \cap Registered(current) = {}
StopEnds ==
  /\ CanStopEnd
  /\ stage' = "stopped" /\ todo' = {}
  /\ UNCHANGED <<inputs, current, live, members, doomed, sessionVars, clientVars, mediaVars>>

-----------------------------------------------------------------------------
(* Media.                                                                  *)

(* Where a client's packets of medium m go.                                *)
Route(b, s, m) ==
  IF clients[b][s] = None THEN None
  ELSE IF clients[b][s].mode = "tcp" THEN [mode |-> "tcp", at |-> clients[b][s].channel[m]]
  ELSE IF clients[b][s].dialed[m] # 0 THEN [mode |-> "udp", at |-> clients[b][s].dialed[m]]
  ELSE None

OverTCP(b) == {s \in Registered(b) : clients[b][s].mode = "tcp"}
Blocked(b) == \E s \in OverTCP(b) : conn[s] = "stalled"
Receivers(b) == {s \in Registered(b) : Route(b, s, "video") # None
                                         /\ (s \in OverTCP(b) => conn[s] = "up")}

(* The kinds of packets getNALType tells apart, with the parameter sets in *)
(* them: a STAP-A packet has both; a fragment that is not the first of its *)
(* unit is "other".                                                        *)
Carries == [k \in {"sps", "pps", "stap", "idr", "other"} |->
              CASE k \in Params -> {k} [] k = "stap" -> Params [] OTHER -> {}]

(* The camera's next packet.  It may come with new parameter sets, and     *)
(* sends both of them before a keyframe.                                   *)
CameraSends(b, k, new) ==
  /\ new => Carries[k] # {}
  /\ k = "idr" => sent[b] = Params
  /\ sent' = [sent EXCEPT ![b] = IF new THEN Carries[k] ELSE @ \cup Carries[k]]
  /\ has' = [has EXCEPT ![b] = [s \in Sessions |-> IF new THEN {} ELSE @[s]]]

Aged(b, new) == [p \in Params |-> IF new /\ cache[b][p] = "fresh" THEN "stale" ELSE cache[b][p]]

(* ForwardVideoPacket without clients: the packet is dropped before it is  *)
(* looked at.                                                              *)
DropVideo(b, k, new) ==
  /\ b \in live /\ "video" \notin readers[b]
  /\ Registered(b) = {}
  /\ CameraSends(b, k, new)
  /\ cache' = [cache EXCEPT ![b] = Aged(b, new)]
  /\ missed' = [missed EXCEPT ![b] = @ \cup Carries[k]]
  /\ Input("packets")
  /\ UNCHANGED <<streamVars, sessionVars, clientVars, readers, writing>>

(* Mutant: the parameter sets of a STAP-A packet are not cached.           *)
MutForwardVideo(b, k, new) ==
  /\ b \in live /\ "video" \notin readers[b]
  /\ Registered(b) # {}
  /\ CameraSends(b, k, new)
  /\ readers' = [readers EXCEPT ![b] = @ \cup {"video"}]
  /\ cache' = [cache EXCEPT ![b] =
       [p \in Params |-> IF p = k THEN "fresh" ELSE Aged(b, new)[p]]]
  /\ missed' = [missed EXCEPT ![b] = @ \ Carries[k]]
  /\ writing' = [writing EXCEPT ![b] =
       IF k = "idr" /\ \A p \in Params : cache[b][p] # "none" THEN "cachedSPS" ELSE k]
  /\ Input("packets")
  /\ UNCHANGED <<streamVars, sessionVars, clientVars>>

(* ForwardVideoPacket up to its first write: parameter sets are cached,    *)
(* and injected before a keyframe once there are both.                     *)
ForwardVideo(b, k, new) ==
  /\ b \in live /\ "video" \notin readers[b]
  /\ Registered(b) # {}
  /\ CameraSends(b, k, new)
  /\ readers' = [readers EXCEPT ![b] = @ \cup {"video"}]
  /\ cache' = [cache EXCEPT ![b] =
       [p \in Params |-> IF p \in Carries[k] THEN "fresh" ELSE Aged(b, new)[p]]]
  /\ missed' = [missed EXCEPT ![b] = @ \ Carries[k]]
  /\ writing' = [writing EXCEPT ![b] =
       IF k = "idr" /\ \A p \in Params : cache[b][p] # "none" THEN "cachedSPS" ELSE k]
  /\ Input("packets")
  /\ UNCHANGED <<streamVars, sessionVars, clientVars>>

(* Injected parameter sets are followed by the keyframe.                   *)
After(k) ==
  CASE k = "cachedSPS" -> "cachedPPS"
    [] k = "cachedPPS" -> "idr"
    [] OTHER -> "none"

Given(b, k) ==
  CASE k = "cachedSPS" -> {p \in {"sps"} : cache[b][p] = "fresh"}
    [] k = "cachedPPS" -> {p \in {"pps"} : cache[b][p] = "fresh"}
    [] OTHER -> Carries[k]

(* Mutant: the read lock is not given back after a broken client is found. *)
MutWriteVideo(b) ==
  /\ writing[b] # "none" /\ ~Blocked(b)
  /\ LET dead == {s \in OverTCP(b) : conn[s] = "down"} IN
     /\ clients' = [clients EXCEPT ![b] = [s \in Sessions |-> IF s \in dead THEN None ELSE @[s]]]
     /\ readers' = [readers EXCEPT ![b] =
                      IF After(writing[b]) = "none" /\ dead = {} THEN @ \ {"video"} ELSE @]
  /\ has' = [has EXCEPT ![b] = [s \in Sessions |->
       IF s \in Receivers(b) THEN @[s] \cup Given(b, writing[b]) ELSE @[s]]]
  /\ writing' = [writing EXCEPT ![b] = After(@)]
  /\ UNCHANGED <<inputs, streamVars, sessionVars, sockets, cache, sent, missed>>

(* forwardVideoData: the packet to every client; those whose connection    *)
(* turns out to be broken are taken off the map, under the read lock.  It  *)
(* is given back after the last packet.                                    *)
CanWriteVideo(b) == writing[b] # "none" /\ ~Blocked(b)
WriteVideo(b) ==
  /\ CanWriteVideo(b)
  /\ \E dead \in SUBSET {s \in OverTCP(b) : conn[s] = "down"} :
       clients' = [clients EXCEPT ![b] = [s \in Sessions |-> IF s \in dead THEN None ELSE @[s]]]
  /\ has' = [has EXCEPT ![b] = [s \in Sessions |->
       IF s \in Receivers(b) THEN @[s] \cup Given(b, writing[b]) ELSE @[s]]]
  /\ writing' = [writing EXCEPT ![b] = After(@)]
  /\ readers' = [readers EXCEPT ![b] = IF After(writing[b]) = "none" THEN @ \ {"video"} ELSE @]
  /\ UNCHANGED <<inputs, streamVars, sessionVars, sockets, cache, sent, missed>>

(* ForwardAudioPacket.                                                     *)
ForwardAudio(b) ==
  /\ b \in live /\ "audio" \notin readers[b]
  /\ Registered(b) # {}
  /\ readers' = [readers EXCEPT ![b] = @ \cup {"audio"}]
  /\ Input("packets")
  /\ UNCHANGED <<streamVars, sessionVars, clientVars, writing, cache, sent, missed, has>>

CanWriteAudio(b) == "audio" \in readers[b] /\ ~Blocked(b)
WriteAudio(b) ==
  /\ CanWriteAudio(b)
  /\ readers' = [readers EXCEPT ![b] = @ \ {"audio"}]
  /\ UNCHANGED <<inputs, streamVars, sessionVars, clientVars, writing, cache, sent, missed, has>>

-----------------------------------------------------------------------------
Arrival(b) == ForwardAudio(b) \/ \E k \in DOMAIN Carries, new \in BOOLEAN :
                                    DropVideo(b, k, new) \/ ForwardVideo(b, k, new)

Next ==
  \/ \E s \in Sessions : \/ Connect(s) \/ Setup(s) \/ HandlerEnds(s) \/ PeerChanges(s)
                         \/ Lock(s) \/ Remove(s) \/ StopRemoves(s)
  \/ BeginStart \/ StartReturns \/ ErrorReported \/ StopBegins \/ StopEnds
  \/ \E b \in Bridges : Arrival(b) \/ WriteVideo(b) \/ WriteAudio(b)

Spec == Init /\ [][Next]_vars

-----------------------------------------------------------------------------
(* Properties.                                                             *)

Answers == [bridge : Bridges, track : Tracks, mode : {"udp", "tcp"}, at : Nat,
            outcome : {"ok", "undialed", "error"}]

(* The values the variables may take.                                      *)
TypeOK ==
  /\ stage \in {"idle", "pending", "starting", "between", "active", "stopping", "halting", "stopped"}
  /\ current \in Bridges /\ live \subseteq Bridges /\ members \subseteq Sessions
  /\ doomed \in BOOLEAN /\ todo \subseteq Sessions
  /\ handler \in [Sessions -> {"none", "serving", "leaving", "removing", "gone"}]
  /\ conn \in [Sessions -> {"up", "stalled", "down"}]
  /\ client \in [Sessions -> [port : [Media -> Ports \cup {0}], channel : [Tracks -> Nat]]]
  /\ answers \in [Sessions -> Seq(Answers)]
  /\ clients \in [Bridges -> [Sessions -> RTPClient \cup {None}]]
  /\ sockets \subseteq Bridges \X Sessions \X Tracks
  /\ readers \in [Bridges -> SUBSET Media]
  /\ writing \in [Bridges -> DOMAIN Carries \cup {"cachedSPS", "cachedPPS", "none"}]
  /\ cache \in [Bridges -> [Params -> {"none", "stale", "fresh"}]]
  /\ sent \in [Bridges -> SUBSET Params] /\ missed \in [Bridges -> SUBSET Params]
  /\ has \in [Bridges -> [Sessions -> SUBSET Params]]
  /\ inputs \in Inputs

AnswersOf(s) == {answers[s][i] : i \in DOMAIN answers[s]}

(* A session that asked for both transports.                               *)
Mixed(s) == \E a, c \in AnswersOf(s) : a.mode # c.mode

(* The last SETUP of track t that was answered 200.                        *)
IsLast(s, i) == LET a == answers[s][i] IN
  /\ a.outcome # "error"
  /\ \A j \in DOMAIN answers[s] :
       j > i /\ answers[s][j].outcome # "error" => answers[s][j].track # a.track

Misread(s) == \E a \in AnswersOf(s) : TrackOf(a.track) # a.track

(* Media of a track go over UDP only to a port the session asked to have   *)
(* the track at, and over TCP only to the channel it asked for or, if it   *)
(* never asked for the track at all, to the track's default channel (where *)
(* it may have asked for another).                                         *)
MediaAskedFor ==
  \A b \in Bridges, s \in Sessions, m \in Media :
    LET r == Route(b, s, m) IN
    r # None /\ ~Misread(s)
      => \/ \E a \in AnswersOf(s) : a.track = m /\ a.mode = r.mode /\ a.at = r.at
         \/ r.mode = "tcp" /\ r.at = DefaultChannel[m]

(* A SETUP answered 200 is kept: while the session is served, media of the *)
(* track go where the answer said.  Not so after a retry, whose forwarder  *)
(* knows nothing of the clients of the first; when an error stops the      *)
(* stream (CameraStreams!ErrorsSpareViewers); for a session that mixes     *)
(* transports, whose first one is kept; one that asks again for another    *)
(* UDP port, whose first connection is kept; one whose port could not be   *)
(* dialed, which is not told; one whose camera's path contains a track's   *)
(* name; and one whose peer is gone.  And media go nowhere else            *)
(* (handleSetup, AddTCPClient, AddUDPClient, forwardVideoData).            *)
RoutesAsPromised ==
  /\ MediaAskedFor
  /\ \A s \in Sessions : \A i \in DOMAIN answers[s] :
    LET a == answers[s][i] IN
    /\ handler[s] = "serving" /\ conn[s] # "down"
    /\ a.track \in Media /\ IsLast(s, i)
    => \/ Route(current, s, a.track) = [mode |-> a.mode, at |-> a.at]
       \/ a.bridge # current \/ stage \in {"halting", "stopped"}
       \/ Mixed(s)
       \/ a.mode = "udp" /\ \E c \in AnswersOf(s) : c.track = a.track /\ c.at # a.at
       \/ a.outcome = "undialed"
       \/ Misread(s)

Holds(b, s, t) ==
  clients[b][s] # None /\ IF t \in Media THEN clients[b][s].dialed[t] # 0 ELSE clients[b][s].back

(* Every UDP socket that is open is that of a registered client, and every *)
(* socket a client writes to or listens at is open.  (To be registered is  *)
(* to have somebody who may close it, but for the clients a retry leaves   *)
(* in the first bridge's forwarder, whose sockets stay: RegisteredAlive.)  *)
(* Only a session that mixed transports loses its sockets: they are not    *)
(* closed for a client registered as TCP.                                  *)
SocketsOwned ==
  /\ \A x \in sockets : Holds(x[1], x[2], x[3]) \/ Mixed(x[2])
  /\ \A b \in Bridges, s \in Sessions, t \in Tracks : Holds(b, s, t) => <<b, s, t>> \in sockets

(* No client outlives its session, but for those that a retry left behind  *)
(* in the first bridge's forwarder: nobody removes these.                  *)
RegisteredAlive ==
  \A b \in Bridges : \A s \in Registered(b) :
    \/ handler[s] \in {"serving", "leaving", "removing"}
    \/ b # current

(* When a keyframe is written to a client, the client was written both of  *)
(* the camera's present parameter sets, though it may have come after      *)
(* them: unless they passed while there was no client to cache them for.   *)
(* This is what cache and injection are for, and takes the read lock held  *)
(* from the one to the other.                                              *)
KeyframesDecodable ==
  \A b \in Bridges :
    writing[b] = "idr"
      => \A s \in Receivers(b) : has[b][s] = Params \/ missed[b] # {}

(* While no Start is under way, a handler that ends waits for a mutex only *)
(* if somebody who holds it, or is to hand it on, can go on: unless a      *)
(* client over TCP has stopped reading.  The write to that client has no   *)
(* deadline and holds the read lock; the first handler that wants the      *)
(* forwarder then waits with the server's mutex, and with it everybody who *)
(* comes to the server.  (A Start under way holds the stream's mutex, for  *)
(* ever if it is never told how its attempt ended: what it can wait for is *)
(* StartsEnd of BridgeSignalling, who waits behind it ServerResponds of    *)
(* CameraStreams.)  Who can go on is said by the guards of Lock, Remove,   *)
(* StopRemoves, StopEnds, WriteVideo and WriteAudio.                       *)
NobodyStuck ==
  /\ \E s \in Sessions : handler[s] \in {"leaving", "removing"}
  /\ stage # "starting" /\ ~Blocked(current)
  => \/ \E s \in Sessions :
          \/ CanLock(s)
          \/ CanWriteLock(current) /\ (handler[s] = "removing" \/ CanStopRemove(s))
     \/ CanStopEnd
     \/ CanWriteVideo(current) \/ CanWriteAudio(current)
=============================================================================
