------------------------- MODULE RTPForwarderProofs -------------------------
(***************************************************************************)
(* Proofs about the RTP forwarder, for any number of sessions, ports,      *)
(* channels, setups, packets and changes of peers: media go where SETUP    *)
(* said, sockets and clients are not left behind, keyframes can be         *)
(* decoded, and nobody changes the clients under a writer's feet.          *)
(***************************************************************************)
EXTENDS RTPForwarder, TLAPS

(* The video goroutine holds the read lock while it writes.                *)
Reading == \A b \in Bridges : writing[b] # "none" <=> "video" \in readers[b]

Typed == TypeOK /\ Reading

Asked == [port : [Media -> Ports \cup {0}], channel : [Tracks -> Nat]]
PortsOf == [Media -> Ports \cup {0}]
Tables == [Bridges -> [Sessions -> RTPClient \cup {None}]]
SocketNames == Bridges \X Sessions \X Tracks

(* The types of the variables that operations change.                      *)
LEMMA Types ==
  ASSUME Typed
  PROVE  /\ clients \in Tables /\ sockets \subseteq SocketNames
         /\ client \in [Sessions -> Asked] /\ current \in Bridges /\ inputs \in Inputs
         /\ answers \in [Sessions -> Seq(Answers)]
BY DEF Typed, TypeOK, Asked, Tables, SocketNames

(* The kinds of packets, and the parameter sets in them.                   *)
LEMMA CarriesType ==
  /\ DOMAIN Carries = {"sps", "pps", "stap", "idr", "other"}
  /\ Carries \in [DOMAIN Carries -> SUBSET Params]
  /\ Carries["idr"] = {}
BY DEF Carries, Params

(* Default channels are channels.                                          *)
LEMMA DefaultType == DefaultChannel \in [Tracks -> Nat] /\ NoPorts \in PortsOf
BY DEF DefaultChannel, NoPorts, PortsOf

(* A URL is taken to be of some track.                                     *)
LEMMA TrackType == ASSUME NEW t \in Tracks PROVE TrackOf(t) \in Tracks
BY DEF TrackOf, Tracks, Media

(* Init establishes the types.                                             *)
LEMMA TypeInit == Init => Typed
<1> SUFFICES ASSUME Init PROVE Typed
  OBVIOUS
<1>1. inputs \in Inputs
  BY BoundsAssumption DEF Init
<1>2. client \in [Sessions -> Asked]
  BY DefaultType DEF Init, NewClient, Asked, PortsOf
<1>3. answers \in [Sessions -> Seq(Answers)]
  BY DEF Init
<1>4. clients \in Tables
  BY DEF Init, Tables
<1>5. has \in [Bridges -> [Sessions -> SUBSET Params]]
  BY DEF Init
<1> QED
  BY <1>1, <1>2, <1>3, <1>4, <1>5 DEF Init, Typed, TypeOK, Reading, Bridges, Asked, Tables

(* An input used up leaves inputs.                                         *)
LEMMA InputType ==
  ASSUME Typed, NEW kind \in {"setups", "packets", "changes"}, Input(kind)
  PROVE  inputs' \in Inputs /\ inputs'.word = inputs.word
<1>1. inputs \in Inputs /\ inputs[kind] \in Nat
  BY Types DEF Inputs
<1>2. inputs[kind] - 1 \in Nat
  BY <1>1 DEF Input
<1> QED
  BY <1>1, <1>2 DEF Input, Inputs

(* A client set to a well-formed one keeps the clients' type.              *)
LEMMA ClientsType ==
  ASSUME Typed, NEW b \in Bridges, NEW s \in Sessions, NEW r \in RTPClient \cup {None}
  PROVE  [clients EXCEPT ![b][s] = r] \in Tables /\ clients[b][s] \in RTPClient \cup {None}
<1>1. clients \in Tables
  BY Types
<1> QED
  BY <1>1 DEF Tables

(* A session's new sockets are sockets.                                    *)
LEMMA SocketsType ==
  ASSUME Typed, NEW b \in Bridges, NEW s \in Sessions, NEW ms \in SUBSET Media
  PROVE  sockets \cup {<<b, s, m>> : m \in ms} \subseteq SocketNames
<1>1. sockets \subseteq SocketNames
  BY Types
<1> QED
  BY <1>1 DEF SocketNames, Tracks

(* An answer is added to those of the session.                             *)
LEMMA AnswerType ==
  ASSUME Typed, NEW s \in Sessions, NEW t \in Tracks, NEW mode \in {"udp", "tcp"},
         NEW at \in Nat, NEW outcome \in {"ok", "undialed", "error"},
         Answer(s, t, mode, at, outcome)
  PROVE  answers' \in [Sessions -> Seq(Answers)] /\ inputs' \in Inputs
<1>1. answers \in [Sessions -> Seq(Answers)] /\ current \in Bridges
  BY Types
<1>2. [bridge |-> current, track |-> t, mode |-> mode, at |-> at, outcome |-> outcome] \in Answers
  BY <1>1 DEF Answers
<1>3. inputs' \in Inputs
  BY InputType DEF Answer
<1> QED
  BY <1>1, <1>2, <1>3 DEF Answer

(* A TCP client with new channels is well-formed.                          *)
LEMMA AddTCPType ==
  ASSUME Typed, NEW b \in Bridges, NEW s \in Sessions, NEW channel \in [Tracks -> Nat],
         AddTCPClient(b, s, channel)
  PROVE  clients' \in Tables /\ sockets' \subseteq SocketNames
<1> DEFINE new == [mode |-> "tcp", dialed |-> NoPorts, back |-> FALSE, channel |-> channel]
           old == clients[b][s]
           r == IF old = None THEN new ELSE [old EXCEPT !.channel = channel]
<1>1. old \in RTPClient \cup {None}
  BY ClientsType
<1>2. r \in RTPClient
  BY <1>1, DefaultType DEF RTPClient, PortsOf
<1>3. clients' = [clients EXCEPT ![b][s] = r] /\ sockets' = sockets
  BY DEF AddTCPClient
<1> QED
  BY <1>2, <1>3, ClientsType, Types

(* A UDP client dialed at more ports stays well-formed.                    *)
LEMMA ExtendType ==
  ASSUME Typed, NEW b \in Bridges, NEW s \in Sessions, NEW port \in PortsOf,
         NEW failed \in SUBSET Media, ExtendUDPClient(b, s, port, failed)
  PROVE  clients' \in Tables /\ sockets' \subseteq SocketNames
<1> DEFINE old == clients[b][s]
           new == {m \in Media \ failed : old.dialed[m] = 0 /\ port[m] # 0}
           r == [old EXCEPT !.dialed = [m \in Media |-> IF m \in new THEN port[m] ELSE old.dialed[m]]]
<1>1. old \in RTPClient
  BY ClientsType DEF ExtendUDPClient
<1>2. r \in RTPClient
  BY <1>1 DEF RTPClient, PortsOf
<1>3. clients' = [clients EXCEPT ![b][s] = r]
  BY <1>1 DEF ExtendUDPClient, RTPClient
<1>4. sockets' = sockets \cup {<<b, s, m>> : m \in new}
  BY DEF ExtendUDPClient
<1> QED
  BY <1>2, <1>3, <1>4, ClientsType, SocketsType

(* A new UDP client is well-formed.                                        *)
LEMMA AddUDPType ==
  ASSUME Typed, NEW b \in Bridges, NEW s \in Sessions, NEW port \in PortsOf,
         AddUDPClient(b, s, port)
  PROVE  clients' \in Tables /\ sockets' \subseteq SocketNames
<1> DEFINE r == [mode |-> "udp", dialed |-> port, back |-> FALSE, channel |-> DefaultChannel]
<1>1. r \in RTPClient
  BY DefaultType DEF RTPClient, PortsOf
<1>2. /\ clients' = [clients EXCEPT ![b][s] = r]
      /\ sockets' = sockets \cup {<<b, s, m>> : m \in {x \in Media : port[x] # 0}}
  BY DEF AddUDPClient
<1> QED
  BY <1>1, <1>2, ClientsType, SocketsType

(* A client given a backchannel stays well-formed.                         *)
LEMMA BackType ==
  ASSUME Typed, NEW b \in Bridges, NEW s \in Sessions, SetupUDPBackchannel(b, s)
  PROVE  clients' \in Tables /\ sockets' \subseteq SocketNames
<1> DEFINE old == clients[b][s]
           r == [old EXCEPT !.back = TRUE]
<1>1. old \in RTPClient
  BY ClientsType DEF SetupUDPBackchannel, CanListen
<1>2. r \in RTPClient
  BY <1>1 DEF RTPClient
<1>3. /\ clients' = [clients EXCEPT ![b][s] = r]
      /\ sockets' = sockets \cup {<<b, s, "backchannel">>}
  BY DEF SetupUDPBackchannel
<1>4. sockets \subseteq SocketNames /\ <<b, s, "backchannel">> \in SocketNames
  BY Types DEF SocketNames, Tracks
<1> QED
  BY <1>2, <1>3, <1>4, ClientsType

(* Removing a client keeps the types.                                      *)
LEMMA RemoveType ==
  ASSUME Typed, NEW b \in Bridges, NEW s \in Sessions, RemoveClient(b, s)
  PROVE  clients' \in Tables /\ sockets' \subseteq SocketNames
<1>1. clients' = [clients EXCEPT ![b][s] = None] /\ sockets' \subseteq sockets
  BY DEF RemoveClient
<1> QED
  BY <1>1, ClientsType, Types

(* What a SETUP changes keeps the types, and what it is answered with.     *)
LEMMA SetupType ==
  ASSUME Typed, NEW s \in Sessions, Setup(s)
  PROVE  Typed'
<1>1. /\ inputs.ports \subseteq Ports /\ inputs.tracks \subseteq Tracks
      /\ client \in [Sessions -> Asked] /\ current \in Bridges
      /\ clients \in Tables /\ sockets \subseteq SocketNames
  BY Types DEF Inputs
<1>2. ASSUME NEW t \in Tracks, NEW mode \in {"udp", "tcp"}, NEW at \in Nat,
             NEW outcome \in {"ok", "undialed", "error"}, Answer(s, t, mode, at, outcome),
             client' \in [Sessions -> Asked],
             clients' \in Tables,
             sockets' \subseteq SocketNames
      PROVE  Typed'
  <2>1. answers' \in [Sessions -> Seq(Answers)] /\ inputs' \in Inputs
    BY <1>2, AnswerType
  <2> QED
    BY <1>2, <2>1 DEF Typed, TypeOK, Reading, Asked, Tables, SocketNames, Answer, streamVars, mediaVars
<1>3. PICK t \in inputs.tracks :
        \/ \E at \in inputs.ports : SetupUDPMedia(s, t, at) \/ SetupUDPBack(s, t, at)
        \/ \E at \in Channels \cup {DefaultChannel[TrackOf(t)]} : SetupTCP(s, t, at)
  BY DEF Setup
<1>4. t \in Tracks /\ TrackOf(t) \in Tracks
  BY <1>1, TrackType
<1>5. CASE \E at \in inputs.ports : SetupUDPMedia(s, t, at)
  <2>1. PICK at \in inputs.ports : SetupUDPMedia(s, t, at)
    BY <1>5
  <2>2. at \in Ports /\ at \in Nat
    BY <1>1, PortsAssumption
  <2>3. /\ client' \in [Sessions -> Asked]
        /\ client'[s].port \in PortsOf
    BY <1>1, <2>1, <2>2 DEF SetupUDPMedia, Asked, PortsOf
  <2>4. ASSUME NEW failed \in SUBSET Media, ExtendUDPClient(current, s, client'[s].port, failed),
               NEW outcome \in {"ok", "undialed"}, Answer(s, t, "udp", at, outcome)
        PROVE  Typed'
    <3>1. /\ clients' \in Tables
          /\ sockets' \subseteq SocketNames
      BY <1>1, <2>3, <2>4, ExtendType
    <3> QED
      BY <1>2, <1>4, <2>2, <2>3, <2>4, <3>1
  <2>5. ASSUME AddUDPClient(current, s, client'[s].port), Answer(s, t, "udp", at, "ok")
        PROVE  Typed'
    BY <1>1, <1>2, <1>4, <2>2, <2>3, <2>5, AddUDPType
  <2>6. ASSUME UNCHANGED clientVars, Answer(s, t, "udp", at, "error")
        PROVE  Typed'
    BY <1>1, <1>2, <1>4, <2>2, <2>3, <2>6 DEF clientVars
  <2> QED
    BY <2>1, <2>4, <2>5, <2>6 DEF SetupUDPMedia
<1>6. CASE \E at \in inputs.ports : SetupUDPBack(s, t, at)
  <2>1. PICK at \in inputs.ports : SetupUDPBack(s, t, at)
    BY <1>6
  <2>2. at \in Nat /\ client' = client
    BY <1>1, <2>1, PortsAssumption DEF SetupUDPBack
  <2>3. ASSUME SetupUDPBackchannel(current, s), Answer(s, t, "udp", at, "ok")
        PROVE  Typed'
    BY <1>1, <1>2, <1>4, <2>2, <2>3, BackType
  <2>4. ASSUME UNCHANGED clientVars, Answer(s, t, "udp", at, "error")
        PROVE  Typed'
    BY <1>1, <1>2, <1>4, <2>2, <2>4 DEF clientVars
  <2> QED
    BY <2>1, <2>3, <2>4 DEF SetupUDPBack
<1>7. CASE \E at \in Channels \cup {DefaultChannel[TrackOf(t)]} : SetupTCP(s, t, at)
  <2>1. PICK at \in Channels \cup {DefaultChannel[TrackOf(t)]} : SetupTCP(s, t, at)
    BY <1>7
  <2>2. at \in Nat
    BY <1>4, ChannelsAssumption, DefaultType
  <2>3. /\ client' \in [Sessions -> Asked]
        /\ client'[s].channel \in [Tracks -> Nat]
    BY <1>1, <1>4, <2>1, <2>2 DEF SetupTCP, Asked
  <2> QED
    BY <1>1, <1>2, <1>4, <2>1, <2>2, <2>3, AddTCPType DEF SetupTCP
<1> QED
  BY <1>3, <1>5, <1>6, <1>7

(* What the camera sends, and what is written to the clients.              *)
LEMMA MediaType ==
  ASSUME Typed, NEW b \in Bridges, Arrival(b) \/ WriteVideo(b) \/ WriteAudio(b)
  PROVE  Typed'
<1>1. ASSUME NEW k \in DOMAIN Carries, NEW new \in BOOLEAN, CameraSends(b, k, new)
      PROVE  /\ sent' \in [Bridges -> SUBSET Params]
             /\ has' \in [Bridges -> [Sessions -> SUBSET Params]]
             /\ \A p \in Params : Aged(b, new)[p] \in {"none", "stale", "fresh"}
  <2>1. /\ sent \in [Bridges -> SUBSET Params]
        /\ has \in [Bridges -> [Sessions -> SUBSET Params]]
        /\ cache \in [Bridges -> [Params -> {"none", "stale", "fresh"}]]
    BY DEF Typed, TypeOK
  <2>2. sent' \in [Bridges -> SUBSET Params]
    BY <1>1, <2>1, CarriesType DEF CameraSends
  <2>3. has' \in [Bridges -> [Sessions -> SUBSET Params]]
    BY <1>1, <2>1 DEF CameraSends
  <2> QED
    BY <2>1, <2>2, <2>3 DEF Aged
<1>2. CASE ForwardAudio(b)
  <2>1. inputs' \in Inputs
    BY <1>2, InputType DEF ForwardAudio
  <2> QED
    BY <1>2, <2>1 DEF ForwardAudio, Typed, TypeOK, Reading, streamVars, sessionVars, clientVars, Media
<1>3. ASSUME NEW k \in DOMAIN Carries, NEW new \in BOOLEAN, DropVideo(b, k, new)
      PROVE  Typed'
  <2>1. CameraSends(b, k, new) /\ Input("packets")
    BY <1>3 DEF DropVideo
  <2>2. Aged(b, new) \in [Params -> {"none", "stale", "fresh"}]
    BY <1>1, <2>1 DEF Aged
  <2>3. /\ cache' \in [Bridges -> [Params -> {"none", "stale", "fresh"}]]
        /\ missed' \in [Bridges -> SUBSET Params]
    BY <1>3, <2>2, CarriesType DEF DropVideo, Typed, TypeOK, Reading
  <2> QED
    <3>1. /\ sent' \in [Bridges -> SUBSET Params]
          /\ has' \in [Bridges -> [Sessions -> SUBSET Params]]
          /\ inputs' \in Inputs
      BY <1>1, <2>1, InputType
    <3> QED
      BY <1>3, <2>3, <3>1
      DEF DropVideo, Typed, TypeOK, Reading, streamVars, sessionVars, clientVars
<1>4. ASSUME NEW k \in DOMAIN Carries, NEW new \in BOOLEAN, ForwardVideo(b, k, new)
      PROVE  Typed'
  <2>1. CameraSends(b, k, new) /\ Input("packets")
    BY <1>4 DEF ForwardVideo
  <2>2. [p \in Params |-> IF p \in Carries[k] THEN "fresh" ELSE Aged(b, new)[p]]
          \in [Params -> {"none", "stale", "fresh"}]
    BY <1>1, <2>1
  <2>3. /\ cache' \in [Bridges -> [Params -> {"none", "stale", "fresh"}]]
        /\ missed' \in [Bridges -> SUBSET Params]
        /\ readers' \in [Bridges -> SUBSET Media]
    BY <1>4, <2>2, CarriesType DEF ForwardVideo, Typed, TypeOK, Reading, Media
  <2>5. writing' \in [Bridges -> DOMAIN Carries \cup {"cachedSPS", "cachedPPS", "none"}]
    BY <1>4 DEF ForwardVideo, Typed, TypeOK, Reading
  <2> QED
    <3>1. /\ sent' \in [Bridges -> SUBSET Params]
          /\ has' \in [Bridges -> [Sessions -> SUBSET Params]]
          /\ inputs' \in Inputs
      BY <1>1, <2>1, InputType
    <3> QED
      BY <1>4, <2>3, <2>5, <3>1, CarriesType
      DEF ForwardVideo, Typed, TypeOK, Reading, streamVars, sessionVars, clientVars
<1>5. CASE WriteVideo(b)
  <2>1. clients' \in Tables
    BY <1>5, Types DEF WriteVideo, Tables
  <2>2. \A k \in {"cachedSPS", "cachedPPS"} \cup DOMAIN Carries : Given(b, k) \in SUBSET Params
    BY CarriesType DEF Given, Params
  <2>4. has' \in [Bridges -> [Sessions -> SUBSET Params]]
    <3> DEFINE row == [s \in Sessions |-> IF s \in Receivers(b)
                         THEN has[b][s] \cup Given(b, writing[b]) ELSE has[b][s]]
    <3>1. /\ has \in [Bridges -> [Sessions -> SUBSET Params]]
          /\ Given(b, writing[b]) \in SUBSET Params
      BY <1>5, <2>2 DEF WriteVideo, Typed, TypeOK, CanWriteVideo
    <3>2. row \in [Sessions -> SUBSET Params]
      BY <3>1
    <3>3. has' = [has EXCEPT ![b] = row]
      BY <1>5 DEF WriteVideo
    <3> QED
      BY <3>1, <3>2, <3>3
  <2>5. writing' \in [Bridges -> DOMAIN Carries \cup {"cachedSPS", "cachedPPS", "none"}]
    BY <1>5, CarriesType DEF WriteVideo, Typed, TypeOK, Reading, After
  <2>6. readers' \in [Bridges -> SUBSET Media]
    BY <1>5 DEF WriteVideo, Typed, TypeOK, Reading
  <2> QED
    BY <1>5, <2>1, <2>4, <2>5, <2>6
    DEF WriteVideo, Typed, TypeOK, Reading, After, Tables, streamVars, sessionVars
<1>6. CASE WriteAudio(b)
  BY <1>6 DEF WriteAudio, Typed, TypeOK, Reading, streamVars, sessionVars, clientVars
<1> QED
  BY <1>2, <1>3, <1>4, <1>5, <1>6 DEF Arrival

(* Every variable has its type in every reachable state.                   *)
THEOREM TypeCorrect == Spec => []Typed
<1>1. ASSUME Typed, [Next]_vars PROVE Typed'
  <2> USE <1>1
  <2>1. ASSUME NEW s \in Sessions, Setup(s) PROVE Typed'
    BY <2>1, SetupType
  <2>2. ASSUME NEW s \in Sessions, Connect(s) \/ HandlerEnds(s) \/ Lock(s) PROVE Typed'
    BY <2>2 DEF Connect, HandlerEnds, Lock, Typed, TypeOK, Reading, streamVars, clientVars, mediaVars
  <2>3. ASSUME NEW s \in Sessions, PeerChanges(s) PROVE Typed'
    <3>1. inputs' \in Inputs
      BY <2>3, InputType DEF PeerChanges
    <3> QED
      BY <2>3, <3>1 DEF PeerChanges, Typed, TypeOK, Reading, streamVars, clientVars, mediaVars
  <2>4. ASSUME NEW s \in Sessions, Remove(s) PROVE Typed'
    <3>1. RemoveClient(current, s) /\ current \in Bridges
      BY <2>4, Types DEF Remove
    <3>2. clients' \in Tables /\ sockets' \subseteq SocketNames
      BY <3>1, RemoveType
    <3> QED
      BY <2>4, <3>2 DEF Remove, Tables, SocketNames, Typed, TypeOK, Reading, mediaVars
  <2>5. ASSUME NEW s \in Sessions, StopRemoves(s) PROVE Typed'
    <3>1. RemoveClient(current, s) /\ current \in Bridges
      BY <2>5, Types DEF StopRemoves
    <3>2. clients' \in Tables /\ sockets' \subseteq SocketNames
      BY <3>1, RemoveType
    <3> QED
      BY <2>5, <3>2 DEF StopRemoves, Tables, SocketNames, Typed, TypeOK, Reading, sessionVars, mediaVars
  <2>6. CASE BeginStart \/ StartReturns \/ ErrorReported \/ StopBegins \/ StopEnds
    BY <2>6 DEF BeginStart, StartReturns, ErrorReported, StopBegins, StopEnds, Typed, TypeOK, Reading,
                sessionVars, clientVars, mediaVars, Registered, Bridges
  <2>7. ASSUME NEW b \in Bridges, Arrival(b) \/ WriteVideo(b) \/ WriteAudio(b) PROVE Typed'
    BY <2>7, MediaType
  <2>8. CASE UNCHANGED vars
    BY <2>8 DEF vars, streamVars, sessionVars, clientVars, mediaVars, Typed, TypeOK, Reading
  <2> QED
    BY <2>1, <2>2, <2>3, <2>4, <2>5, <2>6, <2>7, <2>8 DEF Next
<1> QED
  BY <1>1, TypeInit, PTL DEF Spec

(* TypeOK holds in every reachable state.                                  *)
THEOREM TypeOKHolds == Spec => []TypeOK
<1>1. Typed => TypeOK
  BY DEF Typed
<1> QED
  BY <1>1, TypeCorrect, PTL

-----------------------------------------------------------------------------
(* Sockets.  A client's transport is one its session asked for, as is UDP  *)
(* when it was dialed.                                                     *)

Asks(s, mode) == \E a \in AnswersOf(s) : a.mode = mode

OwnedAt(b, s) ==
  /\ \A t \in Tracks : /\ <<b, s, t>> \in sockets => Holds(b, s, t) \/ Mixed(s)
                       /\ Holds(b, s, t) => <<b, s, t>> \in sockets
  /\ clients[b][s] # None =>
       /\ Asks(s, clients[b][s].mode)
       /\ clients[b][s].back => clients[b][s].mode = "udp"
       /\ (\E m \in Media : clients[b][s].dialed[m] # 0) => Asks(s, "udp")

SocketInv == \A b \in Bridges, s \in Sessions : OwnedAt(b, s)

(* A session that asked for either transport is mixed, and stays so.       *)
LEMMA MixedAsks ==
  /\ \A s \in Sessions : Asks(s, "udp") /\ Asks(s, "tcp") => Mixed(s)
  /\ \A s \in Sessions : AnswersOf(s) \subseteq AnswersOf(s)' =>
       /\ Mixed(s) => Mixed(s)'
       /\ \A mode : Asks(s, mode) => Asks(s, mode)'
BY DEF Mixed, Asks

(* An answer is one more.                                                  *)
LEMMA AnswersGrow ==
  ASSUME Typed, NEW s \in Sessions, NEW t, NEW mode, NEW at, NEW outcome,
         Answer(s, t, mode, at, outcome)
  PROVE  /\ \A q \in Sessions : AnswersOf(q) \subseteq AnswersOf(q)'
         /\ \A q \in Sessions \ {s} : answers'[q] = answers[q]
         /\ AnswersOf(s)' = AnswersOf(s) \cup
              {[bridge |-> current, track |-> t, mode |-> mode, at |-> at, outcome |-> outcome]}
         /\ Asks(s, mode)'
<1> DEFINE a == [bridge |-> current, track |-> t, mode |-> mode, at |-> at, outcome |-> outcome]
<1>1. answers \in [Sessions -> Seq(Answers)]
  BY Types
<1>2. answers' = [answers EXCEPT ![s] = Append(@, a)]
  BY DEF Answer
<1>3. \A q \in Sessions \ {s} : answers'[q] = answers[q]
  BY <1>1, <1>2
<1>4. answers'[s] = Append(answers[s], a) /\ answers[s] \in Seq(Answers)
  BY <1>1, <1>2
<1>5. /\ DOMAIN answers'[s] = DOMAIN answers[s] \cup {Len(answers[s]) + 1}
      /\ \A i \in DOMAIN answers[s] : answers'[s][i] = answers[s][i]
      /\ answers'[s][Len(answers[s]) + 1] = a
  BY <1>4
<1>6. AnswersOf(s)' = AnswersOf(s) \cup {a}
  BY <1>5 DEF AnswersOf
<1>7. \A q \in Sessions : AnswersOf(q) \subseteq AnswersOf(q)'
  BY <1>3, <1>6 DEF AnswersOf
<1>8. Asks(s, mode)'
  <2>1. \E x \in AnswersOf(s)' : x.mode = mode
    <3>1. a \in AnswersOf(s)' /\ a.mode = mode
      BY <1>6
    <3> QED
      BY <3>1
  <2> QED
    BY <2>1 DEF Asks
<1> QED
  BY <1>3, <1>6, <1>7, <1>8

(* A step keeps the sockets owned if it does where it changes something.   *)
LEMMA SocketsKept ==
  ASSUME SocketInv, \A q \in Sessions : AnswersOf(q) \subseteq AnswersOf(q)',
         \A b \in Bridges, s \in Sessions :
           \/ OwnedAt(b, s)'
           \/ /\ clients'[b][s] = clients[b][s]
              /\ \A t \in Tracks : <<b, s, t>> \in sockets' <=> <<b, s, t>> \in sockets
  PROVE  SocketInv'
<1> SUFFICES ASSUME NEW b \in Bridges, NEW s \in Sessions,
                    clients'[b][s] = clients[b][s],
                    \A t \in Tracks : <<b, s, t>> \in sockets' <=> <<b, s, t>> \in sockets
             PROVE  OwnedAt(b, s)'
  BY DEF SocketInv
<1>1. OwnedAt(b, s)
  BY DEF SocketInv
<1>2. \A t \in Tracks : Holds(b, s, t)' <=> Holds(b, s, t)
  BY DEF Holds
<1> QED
  BY <1>1, <1>2, MixedAsks DEF OwnedAt

(* Removing a client closes its sockets, unless it is one over TCP that    *)
(* has some: then its session is mixed.                                    *)
LEMMA SocketsRemove ==
  ASSUME Typed, SocketInv, NEW b \in Bridges, NEW s \in Sessions, RemoveClient(b, s),
         UNCHANGED answers
  PROVE  SocketInv'
<1>1. clients \in Tables /\ clients' = [clients EXCEPT ![b][s] = None]
  BY Types DEF RemoveClient
<1>2. \A q \in Sessions : AnswersOf(q)' = AnswersOf(q) /\ (Mixed(q) => Mixed(q)')
  BY DEF AnswersOf, Mixed
<1>3. ASSUME NEW c \in Bridges, NEW q \in Sessions, <<c, q>> # <<b, s>>
      PROVE  /\ clients'[c][q] = clients[c][q]
             /\ \A t \in Tracks : <<c, q, t>> \in sockets' <=> <<c, q, t>> \in sockets
  BY <1>1, <1>3 DEF RemoveClient, Tables
<1>4. OwnedAt(b, s)'
  <2>1. clients'[b][s] = None /\ OwnedAt(b, s)
    BY <1>1 DEF Tables, SocketInv
  <2>2. \A t \in Tracks : ~Holds(b, s, t)'
    BY <2>1 DEF Holds
  <2>3. ASSUME NEW t \in Tracks, <<b, s, t>> \in sockets' PROVE Mixed(s)'
    <3>1. <<b, s, t>> \in sockets /\ ~CanListen(b, s)
      BY <2>3 DEF RemoveClient
    <3>2. CASE ~Holds(b, s, t)
      BY <1>2, <2>1, <3>1, <3>2 DEF OwnedAt
    <3>3. CASE Holds(b, s, t)
      <4>1. clients[b][s] \in RTPClient /\ clients[b][s].mode = "tcp"
        BY <3>1, <3>3, ClientsType DEF Holds, CanListen, RTPClient
      <4>2. Asks(s, "tcp") /\ t \in Media /\ clients[b][s].dialed[t] # 0
        BY <2>1, <3>3, <4>1 DEF OwnedAt, Holds
      <4>3. Asks(s, "udp")
        BY <2>1, <3>3, <4>2 DEF OwnedAt, Holds
      <4> QED
        BY <1>2, <4>2, <4>3, MixedAsks
    <3> QED
      BY <3>2, <3>3
  <2> QED
    BY <2>1, <2>2, <2>3 DEF OwnedAt
<1> QED
  BY <1>2, <1>3, <1>4, SocketsKept

(* A SETUP opens the sockets of its client, and no others.                 *)
LEMMA SocketsSetup ==
  ASSUME Typed, SocketInv, NEW s \in Sessions, Setup(s)
  PROVE  SocketInv'
<1>0. PICK b \in Bridges : b = current
  BY Types
<1> DEFINE old == clients[b][s]
<1>1. /\ clients \in Tables /\ old \in RTPClient \cup {None}
      /\ sockets \subseteq SocketNames /\ client \in [Sessions -> Asked]
  BY Types, ClientsType
<1>2. OwnedAt(b, s)
  BY <1>1 DEF SocketInv
<1>3. ASSUME NEW t, NEW mode, NEW at, NEW outcome, Answer(s, t, mode, at, outcome),
             NEW r \in RTPClient, clients' = [clients EXCEPT ![b][s] = r],
             NEW ts \in SUBSET Tracks, sockets' = sockets \cup {<<b, s, x>> : x \in ts},
             old = None => r.mode = mode,
             old # None => r.mode = old.mode,
             \A x \in Tracks : (IF x \in Media THEN r.dialed[x] # 0 ELSE r.back)
                                <=> Holds(b, s, x) \/ x \in ts,
             ts # {} => mode = "udp",
             r.back => r.mode = "udp"
      PROVE  SocketInv'
  <2>1. /\ \A q \in Sessions : AnswersOf(q) \subseteq AnswersOf(q)'
        /\ Asks(s, mode)'
    BY <1>3, AnswersGrow
  <2>2. ASSUME NEW c \in Bridges, NEW q \in Sessions, <<c, q>> # <<b, s>>
        PROVE  /\ clients'[c][q] = clients[c][q]
               /\ \A x \in Tracks : <<c, q, x>> \in sockets' <=> <<c, q, x>> \in sockets
    BY <1>1, <1>3, <2>2 DEF Tables
  <2>3. clients'[b][s] = r /\ r # None
    BY <1>1, <1>3, NoneAssumption DEF Tables
  <2>4. \A x \in Tracks : Holds(b, s, x)' <=> Holds(b, s, x) \/ x \in ts
    BY <1>3, <2>3 DEF Holds
  <2>5. \A x \in Tracks : <<b, s, x>> \in sockets' <=> <<b, s, x>> \in sockets \/ x \in ts
    BY <1>3
  <2>6. Mixed(s) => Mixed(s)'
    BY <2>1, MixedAsks
  <2>7. Asks(s, r.mode)'
    BY <1>2, <1>3, <2>1, MixedAsks DEF OwnedAt
  <2>8. ASSUME NEW m \in Media, r.dialed[m] # 0 PROVE Asks(s, "udp")'
    <3>1. Holds(b, s, m) \/ m \in ts
      BY <1>3, <2>8 DEF Tracks
    <3>2. Holds(b, s, m) => Asks(s, "udp")
      BY <1>2 DEF OwnedAt, Holds
    <3> QED
      BY <1>3, <2>1, <3>1, <3>2, MixedAsks
  <2>9. OwnedAt(b, s)'
    BY <1>2, <1>3, <2>3, <2>4, <2>5, <2>6, <2>7, <2>8 DEF OwnedAt
  <2> QED
    BY <2>1, <2>2, <2>9, SocketsKept
<1>4. ASSUME NEW t, NEW mode, NEW at, NEW outcome, Answer(s, t, mode, at, outcome),
             UNCHANGED clientVars
      PROVE  SocketInv'
  BY <1>4, AnswersGrow, SocketsKept DEF clientVars
<1>5. inputs.tracks \subseteq Tracks /\ inputs.ports \subseteq Ports
  BY Types DEF Inputs
<1>6. PICK t \in Tracks :
        \/ \E at \in inputs.ports : SetupUDPMedia(s, t, at) \/ SetupUDPBack(s, t, at)
        \/ \E at \in Channels \cup {DefaultChannel[TrackOf(t)]} : SetupTCP(s, t, at)
  BY <1>5 DEF Setup
<1>7. TrackOf(t) \in Tracks
  BY TrackType
<1>8. ASSUME NEW at \in inputs.ports, SetupUDPMedia(s, t, at) PROVE SocketInv'
  <2> DEFINE port == client'[s].port
  <2>1. port \in PortsOf
    BY <1>1, <1>5, <1>8, SMTT(30) DEF SetupUDPMedia, Asked, PortsOf
  <2>2. ASSUME NEW failed \in SUBSET Media, ExtendUDPClient(b, s, port, failed),
               NEW outcome, Answer(s, t, "udp", at, outcome)
        PROVE  SocketInv'
    <3> DEFINE new == {m \in Media \ failed : old.dialed[m] = 0 /\ port[m] # 0}
               r == [old EXCEPT !.dialed = [m \in Media |-> IF m \in new THEN port[m] ELSE old.dialed[m]]]
    <3>1. old \in RTPClient /\ old # None
      BY <1>1, <2>2 DEF ExtendUDPClient
    <3>2. r \in RTPClient /\ r.mode = old.mode /\ r.back = old.back
          /\ \A m \in Media : r.dialed[m] = IF m \in new THEN port[m] ELSE old.dialed[m]
      BY <2>1, <3>1 DEF RTPClient, PortsOf
    <3>3. /\ clients' = [clients EXCEPT ![b][s] = r] /\ new \in SUBSET Tracks
          /\ sockets' = sockets \cup {<<b, s, x>> : x \in new}
      BY <2>2, <3>1 DEF ExtendUDPClient, RTPClient, Tracks
    <3>4. \A x \in Tracks : (IF x \in Media THEN r.dialed[x] # 0 ELSE r.back)
                             <=> Holds(b, s, x) \/ x \in new
      BY <3>1, <3>2 DEF Holds
    <3>5. r.back => r.mode = "udp"
      BY <1>2, <3>1, <3>2 DEF OwnedAt
    <3> QED
      BY <1>3, <2>2, <3>1, <3>2, <3>3, <3>4, <3>5, ZenonT(60)
  <2>3. ASSUME AddUDPClient(b, s, port), Answer(s, t, "udp", at, "ok")
        PROVE  SocketInv'
    <3> DEFINE r == [mode |-> "udp", dialed |-> port, back |-> FALSE, channel |-> DefaultChannel]
               new == {x \in Media : port[x] # 0}
    <3>1. r \in RTPClient /\ old = None /\ new \in SUBSET Tracks
      BY <2>1, <2>3, DefaultType DEF RTPClient, PortsOf, AddUDPClient, Tracks
    <3>2. /\ clients' = [clients EXCEPT ![b][s] = r]
          /\ sockets' = sockets \cup {<<b, s, x>> : x \in new}
      BY <2>3 DEF AddUDPClient
    <3>3. \A x \in Tracks : (IF x \in Media THEN r.dialed[x] # 0 ELSE r.back)
                             <=> Holds(b, s, x) \/ x \in new
      BY <3>1 DEF Holds
    <3> QED
      BY <1>3, <2>3, <3>1, <3>2, <3>3
  <2> QED
    BY <1>0, <1>4, <1>8, <2>2, <2>3 DEF SetupUDPMedia
<1>9. ASSUME NEW at \in inputs.ports, SetupUDPBack(s, t, at) PROVE SocketInv'
  <2>1. ASSUME SetupUDPBackchannel(b, s), Answer(s, t, "udp", at, "ok") PROVE SocketInv'
    <3> DEFINE r == [old EXCEPT !.back = TRUE]
               ts == {"backchannel"}
    <3>1. old \in RTPClient /\ old # None /\ old.mode = "udp"
      BY <1>1, <2>1 DEF SetupUDPBackchannel, CanListen
    <3>2. /\ r \in RTPClient /\ r.mode = old.mode /\ r.back
          /\ \A m \in Media : r.dialed[m] = old.dialed[m]
      BY <3>1 DEF RTPClient
    <3>3. /\ clients' = [clients EXCEPT ![b][s] = r]
          /\ sockets' = sockets \cup {<<b, s, x>> : x \in ts}
      BY <2>1 DEF SetupUDPBackchannel
    <3>4. \A x \in Tracks : (IF x \in Media THEN r.dialed[x] # 0 ELSE r.back)
                             <=> Holds(b, s, x) \/ x \in ts
      BY <3>1, <3>2 DEF Holds, Tracks, Media
    <3>5. ts \in SUBSET Tracks
      BY DEF Tracks
    <3> HIDE DEF r, ts
    <3> QED
      BY <1>3, <2>1, <3>1, <3>2, <3>3, <3>4, <3>5
  <2> QED
    BY <1>0, <1>4, <1>9, <2>1 DEF SetupUDPBack
<1>10. ASSUME NEW at \in Channels \cup {DefaultChannel[TrackOf(t)]}, SetupTCP(s, t, at)
       PROVE  SocketInv'
  <2> DEFINE channel == client'[s].channel
             r == IF old = None
                  THEN [mode |-> "tcp", dialed |-> NoPorts, back |-> FALSE, channel |-> channel]
                  ELSE [old EXCEPT !.channel = channel]
  <2>1. channel \in [Tracks -> Nat]
    BY <1>1, <1>7, <1>10, ChannelsAssumption, DefaultType DEF SetupTCP, Asked
  <2>2. r \in RTPClient /\ (old = None => r.mode = "tcp" /\ ~r.back /\ r.dialed = NoPorts)
        /\ (old # None => r.mode = old.mode /\ r.back = old.back /\ r.dialed = old.dialed)
    BY <1>1, <2>1, DefaultType DEF RTPClient, PortsOf
  <2>3. clients' = [clients EXCEPT ![b][s] = r] /\ sockets' = sockets
    BY <1>0, <1>10 DEF SetupTCP, AddTCPClient
  <2>4. \A x \in Tracks : (IF x \in Media THEN r.dialed[x] # 0 ELSE r.back) <=> Holds(b, s, x)
    BY <2>2 DEF Holds, NoPorts
  <2>5. r.back => r.mode = "udp"
    BY <1>2, <2>2 DEF OwnedAt
  <2>6. Answer(s, t, "tcp", at, "ok")
    BY <1>10 DEF SetupTCP
  <2> DEFINE ts == {}
  <2>7. sockets' = sockets \cup {<<b, s, x>> : x \in ts} /\ ts \in SUBSET Tracks
    BY <2>3
  <2>8. \A x \in Tracks : x \notin ts
    OBVIOUS
  <2>9. old = None => r.mode = "tcp"
    BY <2>2
  <2>10. old # None => r.mode = old.mode
    BY <2>2
  <2>11. ts # {} => "tcp" = "udp"
    OBVIOUS
  <2>12. \A x \in Tracks : (IF x \in Media THEN r.dialed[x] # 0 ELSE r.back)
                            <=> Holds(b, s, x) \/ x \in ts
    BY <2>4, <2>8
  <2>13. clients' = [clients EXCEPT ![b][s] = r] /\ r \in RTPClient
    BY <2>2, <2>3
  <2> HIDE DEF r, ts
  <2> QED
    BY <1>3, <2>5, <2>6, <2>7, <2>9, <2>10, <2>11, <2>12, <2>13
<1> QED
  BY <1>6, <1>8, <1>9, <1>10

(* A broken TCP client is taken off the map with its sockets open, if it   *)
(* has any.                                                                *)
LEMMA SocketsWrite ==
  ASSUME Typed, SocketInv, NEW b \in Bridges, WriteVideo(b)
  PROVE  SocketInv'
<1>1. PICK dead \in SUBSET OverTCP(b) :
        clients' = [clients EXCEPT ![b] = [s \in Sessions |-> IF s \in dead THEN None ELSE @[s]]]
  BY DEF WriteVideo
<1>2. sockets' = sockets /\ answers' = answers /\ clients \in Tables
  BY Types DEF WriteVideo, sessionVars
<1>3. \A q \in Sessions : AnswersOf(q)' = AnswersOf(q) /\ (Mixed(q) => Mixed(q)')
  BY <1>2 DEF AnswersOf, Mixed
<1>4. \A c \in Bridges, q \in Sessions : c # b \/ q \notin dead => clients'[c][q] = clients[c][q]
  BY <1>1, <1>2 DEF Tables
<1>5. ASSUME NEW s \in dead PROVE OwnedAt(b, s)'
  <2>1. /\ s \in Sessions /\ clients'[b][s] = None /\ clients[b][s] # None
        /\ clients[b][s].mode = "tcp" /\ OwnedAt(b, s)
    BY <1>1, <1>2 DEF Tables, SocketInv, OverTCP, Registered
  <2>2. \A t \in Tracks : ~Holds(b, s, t)'
    BY <2>1 DEF Holds
  <2>3. ASSUME NEW t \in Tracks, Holds(b, s, t) PROVE Mixed(s)
    BY <2>1, <2>3, MixedAsks DEF OwnedAt, Holds
  <2> QED
    BY <1>2, <1>3, <2>1, <2>2, <2>3 DEF OwnedAt
<1> QED
  BY <1>2, <1>3, <1>4, <1>5, SocketsKept

(* In every reachable state the sockets are owned, and transports and      *)
(* ports were asked for.                                                   *)
LEMMA SocketInvHolds == Spec => []SocketInv
<1>1. Init => SocketInv
  BY DEF Init, SocketInv, OwnedAt, Holds
<1>2. ASSUME Typed, SocketInv, [Next]_vars PROVE SocketInv'
  <2>1. ASSUME NEW s \in Sessions, Setup(s) PROVE SocketInv'
    BY <1>2, <2>1, SocketsSetup
  <2>2. ASSUME NEW s \in Sessions, Remove(s) \/ StopRemoves(s) PROVE SocketInv'
    <3>1. RemoveClient(current, s) /\ current \in Bridges /\ UNCHANGED answers
      BY <1>2, <2>2, Types DEF Remove, StopRemoves, sessionVars
    <3> QED
      BY <1>2, <3>1, SocketsRemove
  <2>3. ASSUME NEW b \in Bridges, WriteVideo(b) PROVE SocketInv'
    BY <1>2, <2>3, SocketsWrite
  <2>4. ASSUME UNCHANGED <<clients, sockets, answers>> PROVE SocketInv'
    BY <1>2, <2>4 DEF SocketInv, OwnedAt, Holds, Mixed, Asks, AnswersOf
  <2>5. ASSUME NEW s \in Sessions, Connect(s) \/ HandlerEnds(s) \/ Lock(s) \/ PeerChanges(s)
        PROVE  SocketInv'
    BY <2>4, <2>5 DEF Connect, HandlerEnds, Lock, PeerChanges, clientVars
  <2>6. CASE BeginStart \/ StartReturns \/ ErrorReported \/ StopBegins \/ StopEnds
    BY <2>4, <2>6 DEF BeginStart, StartReturns, ErrorReported, StopBegins, StopEnds, sessionVars, clientVars
  <2>7. ASSUME NEW b \in Bridges, Arrival(b) \/ WriteAudio(b) PROVE SocketInv'
    BY <2>4, <2>7
    DEF Arrival, ForwardAudio, DropVideo, ForwardVideo, WriteAudio, sessionVars, clientVars
  <2>8. CASE UNCHANGED vars
    BY <2>4, <2>8 DEF vars, sessionVars, clientVars
  <2> QED
    BY <1>2, <2>1, <2>2, <2>3, <2>5, <2>6, <2>7, <2>8 DEF Next
<1> QED
  BY <1>1, <1>2, TypeCorrect, PTL DEF Spec

(* Every open UDP socket is that of a registered client, unless the        *)
(* client's session mixed transports, and every socket a client writes to  *)
(* or listens at is open.                                                  *)
THEOREM SocketsOwnedHolds == Spec => []SocketsOwned
<1>1. Typed /\ SocketInv => SocketsOwned
  BY Types DEF SocketInv, OwnedAt, SocketsOwned, SocketNames
<1> QED
  BY <1>1, TypeCorrect, SocketInvHolds, PTL

-----------------------------------------------------------------------------
(* Clients and their sessions.  A retry's forwarder has no clients before  *)
(* the retry, nor answers that speak of it; who is served is a member of   *)
(* the stream, and nobody is while it stops under its lock.                *)

AttendedInv ==
  /\ current = 1 => \A s \in Sessions : clients[2][s] = None /\ \A a \in AnswersOf(s) : a.bridge = 1
  /\ stage \in {"idle", "pending", "between"} => current = 1
  /\ \A s \in Sessions :
       /\ clients[current][s] # None => handler[s] \in {"serving", "leaving", "removing"}
       /\ handler[s] \in {"serving", "leaving", "removing"} => s \in members
       /\ handler[s] = "none" => AnswersOf(s) = {}
  /\ stage = "stopping" => members = {}

(* What a SETUP does to the clients: it changes that of its session in the *)
(* present bridge's forwarder, and nothing else.                           *)
LEMMA SetupOnly ==
  ASSUME Typed, NEW s \in Sessions, Setup(s)
  PROVE  /\ handler[s] = "serving" /\ readers[current] = {}
         /\ UNCHANGED <<streamVars, handler, conn, mediaVars>>
         /\ inputs'.word = inputs.word
         /\ \A b \in Bridges, q \in Sessions :
              b # current \/ q # s => clients'[b][q] = clients[b][q]
         /\ \A q \in Sessions \ {s} : answers'[q] = answers[q] /\ client'[q] = client[q]
         /\ AnswersOf(s) \subseteq AnswersOf(s)'
         /\ \A a \in AnswersOf(s)' : a \in AnswersOf(s) \/ a.bridge = current
<1>1. \E t, mode, at, outcome : Answer(s, t, mode, at, outcome)
  BY DEF Setup, SetupUDPMedia, SetupUDPBack, SetupTCP
<1>2. clients \in Tables /\ current \in Bridges /\ client \in [Sessions -> Asked]
  BY Types
<1>3. \A q \in Sessions \ {s} : client'[q] = client[q]
  BY <1>2 DEF Setup, SetupUDPMedia, SetupUDPBack, SetupTCP
<1>4. \/ clients' = clients
      \/ \E r : clients' = [clients EXCEPT ![current][s] = r]
  BY DEF Setup, SetupUDPMedia, SetupUDPBack, SetupTCP, AddTCPClient, ExtendUDPClient, AddUDPClient,
         SetupUDPBackchannel, clientVars
<1>5. \A b \in Bridges, q \in Sessions : b # current \/ q # s => clients'[b][q] = clients[b][q]
  BY <1>2, <1>4 DEF Tables
<1>6. PICK t, mode, at, outcome : Answer(s, t, mode, at, outcome)
  BY <1>1
<1>7. inputs'.word = inputs.word
  BY <1>6, InputType DEF Answer
<1>8. /\ \A q \in Sessions \ {s} : answers'[q] = answers[q]
      /\ AnswersOf(s) \subseteq AnswersOf(s)'
      /\ \A a \in AnswersOf(s)' : a \in AnswersOf(s) \/ a.bridge = current
  BY <1>6, AnswersGrow
<1>9. /\ handler[s] = "serving" /\ readers[current] = {}
      /\ UNCHANGED <<streamVars, handler, conn, mediaVars>>
  BY <1>6 DEF Answer, CanWriteLock
<1> QED
  BY <1>3, <1>5, <1>7, <1>8, <1>9

(* What is unchanged while answers are.                                    *)
LEMMA SameAnswers ==
  ASSUME UNCHANGED answers
  PROVE  \A s \in Sessions : AnswersOf(s)' = AnswersOf(s)
BY DEF AnswersOf

(* Every step keeps the clients attended.                                  *)
LEMMA AttendedStep ==
  ASSUME Typed, AttendedInv, [Next]_vars
  PROVE  AttendedInv'
<1>1. /\ clients \in Tables /\ current \in Bridges
      /\ handler \in [Sessions -> {"none", "serving", "leaving", "removing", "gone"}]
  BY Types DEF Typed, TypeOK
<1>2. ASSUME NEW s \in Sessions, Setup(s) PROVE AttendedInv'
  <2>1. \A q \in Sessions : q # s => AnswersOf(q)' = AnswersOf(q)
    BY <1>2, SetupOnly DEF AnswersOf
  <2> QED
    BY <1>1, <1>2, <2>1, SetupOnly DEF AttendedInv, streamVars, Bridges
<1>3. ASSUME NEW s \in Sessions, Connect(s) \/ HandlerEnds(s) \/ Lock(s) \/ PeerChanges(s)
      PROVE  AttendedInv'
  <2>1. UNCHANGED <<current, clients, answers>>
    BY <1>3 DEF Connect, HandlerEnds, Lock, PeerChanges, streamVars, clientVars
  <2>2. \A q \in Sessions : AnswersOf(q)' = AnswersOf(q)
    BY <2>1, SameAnswers
  <2> QED
    BY <1>1, <1>3, <2>1, <2>2
    DEF AttendedInv, Connect, HandlerEnds, Lock, PeerChanges, StreamLocked, streamVars, CanLock
<1>4. ASSUME NEW s \in Sessions, Remove(s) \/ StopRemoves(s) PROVE AttendedInv'
  <2>1. UNCHANGED <<current, stage, answers>> /\ clients' = [clients EXCEPT ![current][s] = None]
    BY <1>4 DEF Remove, StopRemoves, RemoveClient, sessionVars
  <2>2. \A q \in Sessions : AnswersOf(q)' = AnswersOf(q)
    BY <2>1, SameAnswers
  <2>3. \A b \in Bridges, q \in Sessions :
          IF b = current /\ q = s THEN clients'[b][q] = None ELSE clients'[b][q] = clients[b][q]
    BY <1>1, <2>1 DEF Tables
  <2> QED
    BY <1>1, <1>4, <2>1, <2>2, <2>3 DEF AttendedInv, Remove, StopRemoves, sessionVars, Bridges
<1>5. CASE BeginStart \/ StartReturns \/ ErrorReported \/ StopBegins \/ StopEnds
  <2>1. UNCHANGED <<handler, clients, answers, members>>
    BY <1>5 DEF BeginStart, StartReturns, ErrorReported, StopBegins, StopEnds, sessionVars, clientVars
  <2>2. \A q \in Sessions : AnswersOf(q)' = AnswersOf(q)
    BY <2>1, SameAnswers
  <2>3. CASE BeginStart
    <3>1. ASSUME stage = "between" PROVE AttendedInv'
      BY <1>1, <2>1, <2>2, <2>3, <3>1 DEF AttendedInv, BeginStart, Bridges
    <3>2. ASSUME stage = "pending" PROVE AttendedInv'
      BY <1>1, <2>1, <2>2, <2>3, <3>2 DEF AttendedInv, BeginStart, Bridges
    <3> QED
      BY <2>3, <3>1, <3>2 DEF BeginStart
  <2>4. CASE StartReturns \/ ErrorReported \/ StopBegins \/ StopEnds
    BY <1>1, <2>1, <2>2, <2>4 DEF AttendedInv, StartReturns, ErrorReported, StopBegins, StopEnds
  <2> QED
    BY <1>5, <2>3, <2>4
<1>6. ASSUME NEW b \in Bridges, WriteVideo(b) PROVE AttendedInv'
  <2>1. PICK dead \in SUBSET Sessions :
          clients' = [clients EXCEPT ![b] = [s \in Sessions |-> IF s \in dead THEN None ELSE @[s]]]
    BY <1>6 DEF WriteVideo, OverTCP, Registered
  <2>2. \A c \in Bridges, s \in Sessions : clients'[c][s] = clients[c][s] \/ clients'[c][s] = None
    BY <1>1, <2>1 DEF Tables
  <2>3. UNCHANGED <<stage, current, members, handler, answers>>
    BY <1>6 DEF WriteVideo, streamVars, sessionVars
  <2>4. \A q \in Sessions : AnswersOf(q)' = AnswersOf(q)
    BY <2>3, SameAnswers
  <2> QED
    BY <1>1, <2>2, <2>3, <2>4 DEF AttendedInv, Bridges
<1>7. ASSUME UNCHANGED <<stage, current, members, handler, answers, clients>> PROVE AttendedInv'
  <2>1. \A q \in Sessions : AnswersOf(q)' = AnswersOf(q)
    BY <1>7, SameAnswers
  <2> QED
    BY <1>7, <2>1 DEF AttendedInv
<1>8. ASSUME NEW b \in Bridges, Arrival(b) \/ WriteAudio(b) PROVE AttendedInv'
  BY <1>7, <1>8
  DEF Arrival, ForwardAudio, DropVideo, ForwardVideo, WriteAudio, streamVars, sessionVars, clientVars
<1>9. CASE UNCHANGED vars
  BY <1>7, <1>9 DEF vars, streamVars, sessionVars, clientVars
<1> QED
  BY <1>2, <1>3, <1>4, <1>5, <1>6, <1>8, <1>9 DEF Next

(* At first nobody is attended to.                                         *)
LEMMA AttendedInit == Init => AttendedInv
BY DEF Init, AttendedInv, AnswersOf, Bridges

(* No client outlives its session, but for those a retry left behind.      *)
THEOREM RegisteredAliveHolds == Spec => []RegisteredAlive
<1>1. AttendedInv => RegisteredAlive
  BY DEF AttendedInv, RegisteredAlive, Registered
<1> QED
  BY <1>1, AttendedInit, AttendedStep, TypeCorrect, PTL DEF Spec

-----------------------------------------------------------------------------
(* Keyframes.  A parameter set the camera has sent is cached, unless it    *)
(* found no client; a keyframe is under way only when both were sent; and  *)
(* between the packets of an injection nobody becomes a receiver.          *)

Watching(b) == {s \in Registered(b) : /\ Route(b, s, "video") # None
                                      /\ s \in OverTCP(b) => conn[s] # "down"}

FramesAt(b) ==
  /\ \A p \in sent[b] \ missed[b] : cache[b][p] = "fresh"
  /\ writing[b] \in {"cachedSPS", "cachedPPS", "idr"} => sent[b] = Params
  /\ writing[b] = "cachedPPS" => \A s \in Watching(b) : "sps" \in has[b][s] \/ missed[b] # {}
  /\ writing[b] = "idr" => \A s \in Watching(b) : has[b][s] = Params \/ missed[b] # {}

FramesInv == \A b \in Bridges : FramesAt(b)

(* A bridge's frames stay in order while its packets do, if nobody joins   *)
(* those who watch while a packet is written.                              *)
LEMMA FramesQuiet ==
  ASSUME NEW b \in Bridges, FramesAt(b), Reading,
         UNCHANGED <<sent[b], missed[b], cache[b], writing[b], has[b]>>,
         "video" \in readers[b] => Watching(b)' \subseteq Watching(b)
  PROVE  FramesAt(b)'
BY DEF FramesAt, Reading

(* Who watches does not change while the clients do not and nobody who had *)
(* gone away comes back.                                                   *)
LEMMA WatchingSame ==
  ASSUME NEW b \in Bridges, UNCHANGED clients,
         \A s \in Sessions : conn[s] = "down" => conn'[s] = "down"
  PROVE  Watching(b)' \subseteq Watching(b)
BY DEF Watching, Registered, OverTCP, Route

(* Removing clients brings no one to watch.                                *)
LEMMA WatchingFewer ==
  ASSUME NEW b \in Bridges, UNCHANGED conn,
         \A s \in Sessions : clients'[b][s] = clients[b][s] \/ clients'[b][s] = None
  PROVE  Watching(b)' \subseteq Watching(b)
BY DEF Watching, Registered, OverTCP, Route

(* Forwarding a packet caches the parameter sets in it; a keyframe for     *)
(* which nothing is injected had one of them missed.                       *)
LEMMA FramesForward ==
  ASSUME Typed, NEW b \in Bridges, FramesAt(b), NEW k \in DOMAIN Carries, NEW new \in BOOLEAN,
         ForwardVideo(b, k, new)
  PROVE  FramesAt(b)'
<1>1. /\ sent \in [Bridges -> SUBSET Params] /\ missed \in [Bridges -> SUBSET Params]
      /\ cache \in [Bridges -> [Params -> {"none", "stale", "fresh"}]]
      /\ DOMAIN writing = Bridges
  BY DEF Typed, TypeOK
<1>2. /\ sent'[b] = IF new THEN Carries[k] ELSE sent[b] \cup Carries[k]
      /\ new => Carries[k] # {}
      /\ k = "idr" => sent[b] = Params
  BY <1>1 DEF ForwardVideo, CameraSends
<1>3. missed'[b] = missed[b] \ Carries[k]
  BY <1>1 DEF ForwardVideo
<1>4. \A p \in Params : cache'[b][p] = IF p \in Carries[k] THEN "fresh" ELSE Aged(b, new)[p]
  BY <1>1 DEF ForwardVideo
<1>5. \A p \in Params : ~new => Aged(b, new)[p] = cache[b][p]
  BY DEF Aged
<1>6. \A p \in sent'[b] \ missed'[b] : cache'[b][p] = "fresh"
  <2> SUFFICES ASSUME NEW p \in sent'[b], p \notin missed'[b] PROVE cache'[b][p] = "fresh"
    OBVIOUS
  <2>1. p \in Params
    BY <1>1, <1>2, CarriesType
  <2>2. CASE p \in Carries[k]
    BY <1>4, <2>1, <2>2
  <2>3. CASE p \notin Carries[k]
    BY <1>2, <1>3, <1>4, <1>5, <2>1, <2>3 DEF FramesAt
  <2> QED
    BY <2>2, <2>3
<1>7. writing'[b] = IF k = "idr" /\ \A p \in Params : cache[b][p] # "none" THEN "cachedSPS" ELSE k
  BY <1>1 DEF ForwardVideo
<1>8. k = "idr" => sent'[b] = Params /\ missed'[b] = missed[b]
  BY <1>2, <1>3, CarriesType
<1>9. ASSUME writing'[b] = "idr" PROVE missed'[b] # {}
  <2>1. k = "idr" /\ \E p \in Params : cache[b][p] = "none"
    BY <1>7, <1>9
  <2>2. PICK p \in Params : cache[b][p] = "none"
    BY <2>1
  <2>3. p \in missed[b]
    BY <1>2, <2>1, <2>2 DEF FramesAt
  <2> QED
    BY <1>8, <2>1, <2>3
<1>10. writing'[b] \in {"cachedSPS", "cachedPPS", "idr"} => k = "idr"
  BY <1>7, CarriesType
<1>11. writing'[b] # "cachedPPS"
  BY <1>7, CarriesType
<1> QED
  BY <1>6, <1>8, <1>9, <1>10, <1>11 DEF FramesAt

(* A packet that finds no client is missed.                                *)
LEMMA FramesDrop ==
  ASSUME Typed, NEW b \in Bridges, FramesAt(b), NEW k \in DOMAIN Carries, NEW new \in BOOLEAN,
         DropVideo(b, k, new)
  PROVE  FramesAt(b)'
<1>1. /\ sent \in [Bridges -> SUBSET Params] /\ missed \in [Bridges -> SUBSET Params]
      /\ cache \in [Bridges -> [Params -> {"none", "stale", "fresh"}]]
  BY DEF Typed, TypeOK
<1>2. sent'[b] = IF new THEN Carries[k] ELSE sent[b] \cup Carries[k]
  BY <1>1 DEF DropVideo, CameraSends
<1>3. missed'[b] = missed[b] \cup Carries[k] /\ cache'[b] = Aged(b, new)
  BY <1>1 DEF DropVideo
<1>4. \A p \in Params : ~new => Aged(b, new)[p] = cache[b][p]
  BY DEF Aged
<1>5. \A p \in sent'[b] \ missed'[b] : cache'[b][p] = "fresh"
  BY <1>1, <1>2, <1>3, <1>4, CarriesType DEF FramesAt
<1>6. writing'[b] = "none"
  BY DEF Typed, Reading, DropVideo
<1> QED
  BY <1>5, <1>6 DEF FramesAt

(* Writing an injected parameter set gives it to all who watch: none of    *)
(* them is stalled.                                                        *)
LEMMA FramesWrite ==
  ASSUME Typed, NEW b \in Bridges, FramesAt(b), WriteVideo(b)
  PROVE  FramesAt(b)'
<1>1. /\ has \in [Bridges -> [Sessions -> SUBSET Params]] /\ clients \in Tables
      /\ conn \in [Sessions -> {"up", "stalled", "down"}]
      /\ DOMAIN writing = Bridges
  BY Types DEF Typed, TypeOK
<1>2. UNCHANGED <<sent, missed, cache, conn>> /\ writing'[b] = After(writing[b])
  BY <1>1 DEF WriteVideo, sessionVars
<1>3. Watching(b)' \subseteq Watching(b)
  <2>1. PICK dead \in SUBSET Sessions :
          clients' = [clients EXCEPT ![b] = [s \in Sessions |-> IF s \in dead THEN None ELSE @[s]]]
    BY DEF WriteVideo, OverTCP, Registered
  <2>2. \A s \in Sessions : clients'[b][s] = clients[b][s] \/ clients'[b][s] = None
    BY <1>1, <2>1 DEF Tables
  <2> QED
    BY <1>2, <2>2, WatchingFewer
<1>4. ASSUME NEW s \in Watching(b) PROVE s \in Sessions /\ has'[b][s] = has[b][s] \cup Given(b, writing[b])
  <2>1. s \in Receivers(b)
    BY <1>1 DEF Watching, WriteVideo, Blocked, Receivers, Registered, OverTCP, CanWriteVideo
  <2>2. s \in Sessions
    BY DEF Watching, Registered
  <2> QED
    BY <1>1, <2>1, <2>2 DEF WriteVideo
<1>5. CASE writing[b] = "cachedSPS"
  <2>1. writing'[b] = "cachedPPS" /\ Given(b, writing[b]) = {p \in {"sps"} : cache[b][p] = "fresh"}
    BY <1>2, <1>5 DEF After, Given
  <2>2. missed[b] = {} => cache[b]["sps"] = "fresh"
    BY <1>5 DEF FramesAt, Params
  <2> QED
    BY <1>2, <1>3, <1>4, <1>5, <2>1, <2>2 DEF FramesAt
<1>6. CASE writing[b] = "cachedPPS"
  <2>1. writing'[b] = "idr" /\ Given(b, writing[b]) = {p \in {"pps"} : cache[b][p] = "fresh"}
    BY <1>2, <1>6 DEF After, Given
  <2>2. missed[b] = {} => cache[b]["pps"] = "fresh"
    BY <1>6 DEF FramesAt, Params
  <2>3. \A s \in Watching(b) : has[b][s] \subseteq Params
    BY <1>1, <1>4
  <2>4. ASSUME NEW s \in Watching(b), missed[b] = {} PROVE has'[b][s] = Params
    <3>1. "sps" \in has[b][s]
      BY <1>6, <2>4 DEF FramesAt
    <3>2. "pps" \in Given(b, writing[b]) /\ Given(b, writing[b]) \subseteq Params
      BY <2>1, <2>2, <2>4 DEF Params
    <3> QED
      BY <1>4, <2>3, <3>1, <3>2 DEF Params
  <2> QED
    BY <1>2, <1>3, <1>6, <2>1, <2>4 DEF FramesAt
<1>7. CASE writing[b] \notin {"cachedSPS", "cachedPPS"}
  <2>1. writing'[b] = "none"
    BY <1>2, <1>7 DEF After
  <2> QED
    BY <1>2, <2>1 DEF FramesAt
<1> QED
  BY <1>5, <1>6, <1>7

(* When a keyframe is written to a client, it was written both of the      *)
(* camera's present parameter sets, unless they found no client to be      *)
(* cached for.                                                             *)
THEOREM KeyframesDecodableHolds == Spec => []KeyframesDecodable
<1>1. Init => FramesInv
  BY DEF Init, FramesInv, FramesAt
<1>2. ASSUME Typed, FramesInv, [Next]_vars PROVE FramesInv'
  <2>1. clients \in Tables /\ current \in Bridges /\ Reading /\ \A b \in Bridges : FramesAt(b)
    BY <1>2, Types DEF Typed, FramesInv
  <2>2. ASSUME UNCHANGED <<sent, missed, cache, writing, has>>,
               \A b \in Bridges : "video" \in readers[b] => Watching(b)' \subseteq Watching(b)
        PROVE  FramesInv'
    BY <2>1, <2>2, FramesQuiet DEF FramesInv
  <2>3. ASSUME UNCHANGED <<sent, missed, cache, writing, has, clients>>,
               \A s \in Sessions : conn[s] = "down" => conn'[s] = "down"
        PROVE  FramesInv'
    BY <2>2, <2>3, WatchingSame
  <2>4. ASSUME NEW s \in Sessions, Setup(s) PROVE FramesInv'
    <3>1. UNCHANGED <<sent, missed, cache, writing, has, conn>> /\ readers[current] = {}
      BY <1>2, <2>4, SetupOnly DEF mediaVars
    <3>2. ASSUME NEW b \in Bridges, "video" \in readers[b] PROVE Watching(b)' \subseteq Watching(b)
      BY <1>2, <2>4, <3>1, <3>2, SetupOnly, WatchingFewer
    <3> QED
      BY <2>2, <3>1, <3>2
  <2>5. ASSUME NEW s \in Sessions, Remove(s) PROVE FramesInv'
    <3>1. /\ UNCHANGED <<sent, missed, cache, writing, has>> /\ readers[current] = {}
          /\ clients' = [clients EXCEPT ![current][s] = None]
          /\ conn' = [conn EXCEPT ![s] = "down"]
      BY <2>5 DEF Remove, RemoveClient, mediaVars, CanWriteLock
    <3>2. \A b \in Bridges : b # current => clients'[b] = clients[b]
      BY <2>1, <3>1 DEF Tables
    <3>3. \A q \in Sessions : conn[q] = "down" => conn'[q] = "down"
      BY <1>2, <3>1 DEF Typed, TypeOK
    <3>4. ASSUME NEW b \in Bridges, "video" \in readers[b] PROVE Watching(b)' \subseteq Watching(b)
      BY <3>1, <3>2, <3>3, <3>4 DEF Watching, Registered, OverTCP, Route
    <3> QED
      BY <2>2, <3>1, <3>4
  <2>6. ASSUME NEW s \in Sessions, StopRemoves(s) PROVE FramesInv'
    <3>1. /\ UNCHANGED <<sent, missed, cache, writing, has, conn>>
          /\ clients' = [clients EXCEPT ![current][s] = None]
      BY <2>6 DEF StopRemoves, RemoveClient, mediaVars, sessionVars
    <3>2. \A b \in Bridges, q \in Sessions : clients'[b][q] = clients[b][q] \/ clients'[b][q] = None
      BY <2>1, <3>1 DEF Tables
    <3> QED
      BY <2>2, <3>1, <3>2, WatchingFewer
  <2>7. ASSUME NEW s \in Sessions, Connect(s) \/ HandlerEnds(s) \/ Lock(s) \/ PeerChanges(s)
        PROVE  FramesInv'
    <3>1. UNCHANGED <<sent, missed, cache, writing, has, clients>>
      BY <2>7 DEF Connect, HandlerEnds, Lock, PeerChanges, mediaVars, clientVars
    <3>2. \A q \in Sessions : conn[q] = "down" => conn'[q] = "down"
      BY <1>2, <2>7 DEF Connect, HandlerEnds, Lock, PeerChanges, Typed, TypeOK
    <3> QED
      BY <2>3, <3>1, <3>2
  <2>8. CASE BeginStart \/ StartReturns \/ ErrorReported \/ StopBegins \/ StopEnds
    BY <2>3, <2>8
    DEF BeginStart, StartReturns, ErrorReported, StopBegins, StopEnds, mediaVars, clientVars, sessionVars
  <2>9. ASSUME NEW b \in Bridges, ForwardAudio(b) \/ WriteAudio(b) PROVE FramesInv'
    BY <2>3, <2>9 DEF ForwardAudio, WriteAudio, sessionVars, clientVars
  <2>10. ASSUME NEW b \in Bridges, NEW k \in DOMAIN Carries, NEW new \in BOOLEAN,
                DropVideo(b, k, new) \/ ForwardVideo(b, k, new)
         PROVE  FramesInv'
    <3>1. FramesAt(b)'
      BY <1>2, <2>1, <2>10, FramesDrop, FramesForward
    <3>2. UNCHANGED <<clients, conn>>
      BY <2>10 DEF DropVideo, ForwardVideo, sessionVars, clientVars
    <3>3. ASSUME NEW c \in Bridges \ {b}
          PROVE  UNCHANGED <<sent[c], missed[c], cache[c], writing[c], has[c]>>
      BY <1>2, <2>10 DEF DropVideo, ForwardVideo, CameraSends, Typed, TypeOK
    <3>4. ASSUME NEW c \in Bridges \ {b} PROVE FramesAt(c)'
      BY <2>1, <3>2, <3>3, FramesQuiet, WatchingSame
    <3> QED
      BY <3>1, <3>4 DEF FramesInv
  <2>11. ASSUME NEW b \in Bridges, WriteVideo(b) PROVE FramesInv'
    <3>1. FramesAt(b)'
      BY <1>2, <2>1, <2>11, FramesWrite
    <3>2. UNCHANGED conn
      BY <2>11 DEF WriteVideo, sessionVars
    <3>3. ASSUME NEW c \in Bridges \ {b}
          PROVE  UNCHANGED <<sent[c], missed[c], cache[c], writing[c], has[c], clients[c]>>
      BY <1>2, <2>1, <2>11 DEF WriteVideo, Typed, TypeOK
    <3>4. ASSUME NEW c \in Bridges \ {b} PROVE FramesAt(c)'
      <4>1. Watching(c)' \subseteq Watching(c)
        BY <3>2, <3>3, WatchingFewer
      <4> QED
        BY <2>1, <3>3, <4>1, FramesQuiet
    <3> QED
      BY <3>1, <3>4 DEF FramesInv
  <2>12. CASE UNCHANGED vars
    BY <2>3, <2>12 DEF vars, mediaVars, clientVars, sessionVars
  <2> QED
    BY <1>2, <2>4, <2>5, <2>6, <2>7, <2>8, <2>9, <2>10, <2>11, <2>12 DEF Next, Arrival
<1>3. Typed /\ FramesInv => KeyframesDecodable
  <2> SUFFICES ASSUME Typed, NEW b \in Bridges, FramesAt(b), writing[b] = "idr", NEW s \in Receivers(b)
               PROVE  has[b][s] = Params \/ missed[b] # {}
    BY DEF FramesInv, KeyframesDecodable
  <2>1. s \in Watching(b)
    BY DEF Receivers, Watching
  <2> QED
    BY <2>1 DEF FramesAt
<1> QED
  BY <1>1, <1>2, <1>3, TypeCorrect, PTL DEF Spec

-----------------------------------------------------------------------------
(* Routes.  What a session stores, and its clients too, are ports and      *)
(* channels it asked for; the channel of the last SETUP is the one stored; *)
(* and while the session can be served, its client in the present bridge's *)
(* forwarder has what was answered in that bridge's name.                  *)

AskedAt(A, m, mode, x) == \E a \in A : a.track = m /\ a.mode = mode /\ a.at = x

Live(s) == handler[s] = "serving" /\ conn[s] # "down" /\ stage \notin {"halting", "stopped"}

StoredAt(s) ==
  \A m \in Media :
    /\ client[s].port[m] # 0 => AskedAt(AnswersOf(s), m, "udp", client[s].port[m])
    /\ client[s].channel[m] # DefaultChannel[m] => AskedAt(AnswersOf(s), m, "tcp", client[s].channel[m])

ReachedAt(s) ==
  \A b \in Bridges, m \in Media : clients[b][s] # None =>
    /\ clients[b][s].dialed[m] # 0 => AskedAt(AnswersOf(s), m, "udp", clients[b][s].dialed[m])
    /\ clients[b][s].channel[m] # DefaultChannel[m] => AskedAt(AnswersOf(s), m, "tcp", clients[b][s].channel[m])

LastAt(s) ==
  \A i \in DOMAIN answers[s] :
    IsLast(s, i) /\ answers[s][i].mode = "tcp" /\ answers[s][i].track \in Media
      => client[s].channel[answers[s][i].track] = answers[s][i].at

KeptAt(s) ==
  Live(s) => \A a \in AnswersOf(s) : a.bridge = current =>
    /\ a.mode = "udp" /\ a.outcome = "ok" /\ a.track \in Media
         => clients[current][s] # None /\ clients[current][s].dialed[a.track] # 0
    /\ a.mode = "tcp"
         => /\ clients[current][s] # None
            /\ Mixed(s) \/ \A m \in Media : clients[current][s].channel[m] = client[s].channel[m]

PromiseAt(s) == ~Misread(s) => StoredAt(s) /\ ReachedAt(s) /\ LastAt(s) /\ KeptAt(s)
PromiseInv == \A s \in Sessions : PromiseAt(s)

(* What was stored and reached after a step.                               *)
LEMMA StoredNext ==
  ASSUME NEW s \in Sessions
  PROVE  /\ StoredAt(s)' <=> \A m \in Media :
              /\ client'[s].port[m] # 0
                   => AskedAt(AnswersOf(s)', m, "udp", client'[s].port[m])
              /\ client'[s].channel[m] # DefaultChannel[m]
                   => AskedAt(AnswersOf(s)', m, "tcp", client'[s].channel[m])
         /\ ReachedAt(s)' <=> \A b \in Bridges, m \in Media : clients'[b][s] # None =>
              /\ clients'[b][s].dialed[m] # 0
                   => AskedAt(AnswersOf(s)', m, "udp", clients'[b][s].dialed[m])
              /\ clients'[b][s].channel[m] # DefaultChannel[m]
                   => AskedAt(AnswersOf(s)', m, "tcp", clients'[b][s].channel[m])
BY DEF StoredAt, ReachedAt, AskedAt

(* A SETUP that is read right: it stores the port or the channel asked     *)
(* for; the client is dialed at stored ports and given stored channels;    *)
(* what was dialed stays, and what is answered 200 is done.                *)
Effect(s, t, mode, at, outcome, old, new) ==
  /\ mode \in {"udp", "tcp"} /\ (mode = "tcp" => outcome = "ok")
  /\ \A m \in Media :
       /\ client'[s].port[m] = IF mode = "udp" /\ m = t THEN at ELSE client[s].port[m]
       /\ client'[s].channel[m] = IF mode = "tcp" /\ m = t THEN at ELSE client[s].channel[m]
  /\ new # None => \A m \in Media :
       /\ new.dialed[m] \in {0, client'[s].port[m]} \/ (old # None /\ new.dialed[m] = old.dialed[m])
       /\ \/ new.channel[m] \in {DefaultChannel[m], client'[s].channel[m]}
          \/ old # None /\ new.channel[m] = old.channel[m]
  /\ old # None => new # None /\ \A m \in Media : old.dialed[m] # 0 => new.dialed[m] # 0
  /\ mode = "tcp" => new # None /\ \A m \in Media : new.channel[m] = client'[s].channel[m]
  /\ mode = "udp" /\ outcome = "ok" /\ t \in Media => new # None /\ new.dialed[t] # 0

(* Every SETUP that is read right has such an effect.                      *)
LEMMA SetupEffect ==
  ASSUME Typed, NEW s \in Sessions, Setup(s), ~Misread(s)'
  PROVE  \E t, mode, at, outcome :
           /\ Answer(s, t, mode, at, outcome)
           /\ Effect(s, t, mode, at, outcome, clients[current][s], clients'[current][s])
<1>0. PICK b \in Bridges : b = current
  BY Types
<1> DEFINE old == clients[b][s]
<1>1. /\ clients \in Tables /\ client \in [Sessions -> Asked] /\ old \in RTPClient \cup {None}
      /\ inputs.tracks \subseteq Tracks /\ inputs.ports \subseteq Ports
  BY Types, ClientsType DEF Inputs
<1>2. ASSUME NEW t, NEW mode, NEW at, NEW outcome, Answer(s, t, mode, at, outcome)
      PROVE  TrackOf(t) = t
  <2>1. [bridge |-> current, track |-> t, mode |-> mode, at |-> at, outcome |-> outcome] \in AnswersOf(s)'
    BY <1>2, AnswersGrow
  <2>2. inputs'.word = inputs.word
    BY <1>2, InputType DEF Answer
  <2> QED
    BY <2>1, <2>2 DEF Misread, TrackOf
<1>3. PICK t \in Tracks :
        \/ \E at \in inputs.ports : SetupUDPMedia(s, t, at) \/ SetupUDPBack(s, t, at)
        \/ \E at \in Channels \cup {DefaultChannel[TrackOf(t)]} : SetupTCP(s, t, at)
  BY <1>1 DEF Setup
<1>4. SUFFICES ASSUME NEW mode, NEW at, NEW outcome, Answer(s, t, mode, at, outcome),
                      \/ mode = "udp" /\ at \in inputs.ports /\ SetupUDPMedia(s, t, at)
                      \/ mode = "udp" /\ at \in inputs.ports /\ SetupUDPBack(s, t, at)
                      \/ mode = "tcp" /\ SetupTCP(s, t, at)
               PROVE  \E o : Answer(s, t, mode, at, o)
                              /\ Effect(s, t, mode, at, o, clients[b][s], clients'[b][s])
  BY <1>0, <1>3 DEF SetupUDPMedia, SetupUDPBack, SetupTCP
<1>5. TrackOf(t) = t
  BY <1>2, <1>4
<1>6. CASE mode = "udp" /\ at \in inputs.ports /\ SetupUDPMedia(s, t, at)
  <2> DEFINE port == client'[s].port
  <2>1. /\ t \in Media /\ at # 0 /\ client'[s].channel = client[s].channel
        /\ \A m \in Media : port[m] = IF m = t THEN at ELSE client[s].port[m]
        /\ port \in PortsOf
    BY <1>1, <1>5, <1>6, PortsAssumption DEF SetupUDPMedia, Asked, PortsOf
  <2>2. ASSUME NEW failed \in SUBSET Media, ExtendUDPClient(b, s, port, failed),
               NEW o, Answer(s, t, "udp", at, o),
               o = IF clients'[b][s].dialed[TrackOf(t)] = 0 THEN "undialed" ELSE "ok"
        PROVE  Effect(s, t, "udp", at, o, clients[b][s], clients'[b][s])
    <3> DEFINE new == {m \in Media \ failed : old.dialed[m] = 0 /\ port[m] # 0}
               r == [old EXCEPT !.dialed = [m \in Media |-> IF m \in new THEN port[m] ELSE old.dialed[m]]]
    <3>1. old \in RTPClient /\ old # None
      BY <1>1, <2>2 DEF ExtendUDPClient
    <3>2. /\ r \in RTPClient /\ r.channel = old.channel
          /\ \A m \in Media : r.dialed[m] = IF m \in new THEN port[m] ELSE old.dialed[m]
      BY <2>1, <3>1 DEF RTPClient, PortsOf
    <3>3. clients' = [clients EXCEPT ![b][s] = r]
      BY <2>2, <3>1 DEF ExtendUDPClient, RTPClient
    <3>4. clients'[b][s] = r /\ r # None
      BY <1>1, <3>2, <3>3, NoneAssumption DEF Tables
    <3>5. o = "ok" => r.dialed[t] # 0
      BY <1>5, <2>2, <3>4
    <3>6. \A m \in Media : \/ r.dialed[m] = port[m]
                           \/ r.dialed[m] = old.dialed[m]
      BY <3>2
    <3>7. \A m \in Media : old.dialed[m] # 0 => r.dialed[m] # 0
      BY <3>2
    <3> HIDE DEF r
    <3> QED
      BY <2>1, <3>1, <3>2, <3>4, <3>5, <3>6, <3>7 DEF Effect
  <2>3. ASSUME AddUDPClient(b, s, port), Answer(s, t, "udp", at, "ok")
        PROVE  Effect(s, t, "udp", at, "ok", clients[b][s], clients'[b][s])
    <3> DEFINE r == [mode |-> "udp", dialed |-> port, back |-> FALSE, channel |-> DefaultChannel]
    <3>1. r \in RTPClient /\ r.dialed = port /\ r.channel = DefaultChannel
      BY <2>1, DefaultType DEF RTPClient, PortsOf
    <3>2. clients'[b][s] = r /\ r # None /\ old = None
      BY <1>1, <2>3, <3>1, NoneAssumption DEF AddUDPClient, Tables
    <3> HIDE DEF r
    <3> QED
      BY <2>1, <3>1, <3>2 DEF Effect
  <2>4. ASSUME clients[b][s] = None, UNCHANGED clientVars, Answer(s, t, "udp", at, "error")
        PROVE  Effect(s, t, "udp", at, "error", clients[b][s], clients'[b][s])
    BY <2>1, <2>4 DEF Effect, clientVars
  <2>5. /\ SetupUDPMedia(s, t, at)
        /\ mode = "udp"
    BY <1>6
  <2> QED
    BY <1>0, <2>2, <2>3, <2>4, <2>5 DEF SetupUDPMedia
<1>7. CASE mode = "udp" /\ at \in inputs.ports /\ SetupUDPBack(s, t, at)
  <2>1. t = "backchannel" /\ t \notin Media /\ client' = client
    BY <1>5, <1>7 DEF SetupUDPBack, Media
  <2>2. ASSUME SetupUDPBackchannel(b, s), NEW o
        PROVE  Effect(s, t, "udp", at, o, clients[b][s], clients'[b][s])
    <3> DEFINE r == [old EXCEPT !.back = TRUE]
    <3>1. old \in RTPClient /\ old # None
      BY <1>1, <2>2 DEF SetupUDPBackchannel, CanListen
    <3>2. r \in RTPClient /\ r.dialed = old.dialed /\ r.channel = old.channel
      BY <3>1 DEF RTPClient
    <3>3. clients'[b][s] = r /\ r # None
      BY <1>1, <2>2, <3>2, NoneAssumption DEF SetupUDPBackchannel, Tables
    <3> HIDE DEF r
    <3> QED
      BY <2>1, <3>1, <3>2, <3>3 DEF Effect
  <2>3. ASSUME UNCHANGED clientVars, NEW o
        PROVE  Effect(s, t, "udp", at, o, clients[b][s], clients'[b][s])
    BY <1>1, <2>1, <2>3 DEF Effect, clientVars
  <2> QED
    BY <1>0, <1>7, <2>2, <2>3 DEF SetupUDPBack
<1>8. CASE mode = "tcp" /\ SetupTCP(s, t, at)
  <2> DEFINE channel == client'[s].channel
             r == IF old = None
                  THEN [mode |-> "tcp", dialed |-> NoPorts, back |-> FALSE, channel |-> channel]
                  ELSE [old EXCEPT !.channel = channel]
  <2>1. /\ client'[s].port = client[s].port
        /\ \A m \in Media : channel[m] = IF m = t THEN at ELSE client[s].channel[m]
    BY <1>1, <1>5, <1>8 DEF SetupTCP, Asked, Tracks
  <2>2. channel \in [Tracks -> Nat]
    <3>1. Typed'
      BY SetupType
    <3> QED
      BY <3>1 DEF Typed, TypeOK
  <2>3. /\ r \in RTPClient /\ r.channel = channel
        /\ old = None => r.dialed = NoPorts
        /\ old # None => r.dialed = old.dialed
    BY <1>1, <2>2, DefaultType DEF RTPClient, PortsOf
  <2>4. clients' = [clients EXCEPT ![b][s] = r]
    BY <1>0, <1>8 DEF SetupTCP, AddTCPClient
  <2>5. clients'[b][s] = r /\ r # None
    BY <1>1, <2>3, <2>4, NoneAssumption DEF Tables
  <2>6. old = None => \A m \in Media : r.dialed[m] = 0
    BY <2>3 DEF NoPorts
  <2>7. Answer(s, t, "tcp", at, "ok") /\ mode = "tcp"
    BY <1>8 DEF SetupTCP
  <2>8. Effect(s, t, "tcp", at, "ok", clients[b][s], clients'[b][s])
    <3> HIDE DEF r
    <3> QED
      BY <2>1, <2>3, <2>5, <2>6 DEF Effect
  <2> QED
    BY <2>7, <2>8
<1> QED
  BY <1>4, <1>6, <1>7, <1>8

(* A SETUP keeps the promises made to its session.                         *)
LEMMA PromiseSetup ==
  ASSUME Typed, NEW s \in Sessions, Setup(s), PromiseAt(s)
  PROVE  PromiseAt(s)'
<1> SUFFICES ASSUME ~Misread(s)'
             PROVE  StoredAt(s)' /\ ReachedAt(s)' /\ LastAt(s)' /\ KeptAt(s)'
  BY DEF PromiseAt
<1>1. PICK t, mode, at, outcome :
        /\ Answer(s, t, mode, at, outcome)
        /\ Effect(s, t, mode, at, outcome, clients[current][s], clients'[current][s])
  BY SetupEffect
<1> DEFINE a0 == [bridge |-> current, track |-> t, mode |-> mode, at |-> at, outcome |-> outcome]
<1>2. /\ AnswersOf(s) \subseteq AnswersOf(s)'
      /\ AnswersOf(s)' = AnswersOf(s) \cup {a0}
  BY <1>1, AnswersGrow
<1>3. /\ UNCHANGED <<current, stage, handler, conn>> /\ inputs'.word = inputs.word
      /\ \A b \in Bridges : b # current => clients'[b][s] = clients[b][s]
  BY SetupOnly DEF streamVars
<1>4. StoredAt(s) /\ ReachedAt(s) /\ LastAt(s) /\ KeptAt(s)
  <2>1. ~Misread(s)
    BY <1>2, <1>3 DEF Misread, TrackOf
  <2> QED
    BY <2>1 DEF PromiseAt
<1>5. \A m, w, x : AskedAt(AnswersOf(s), m, w, x) => AskedAt(AnswersOf(s)', m, w, x)
  BY <1>2 DEF AskedAt
<1>6. a0 \in AnswersOf(s)' /\ AskedAt(AnswersOf(s)', t, mode, at)
  <2>1. a0 \in AnswersOf(s)' /\ a0.track = t /\ a0.mode = mode /\ a0.at = at
    BY <1>2
  <2> QED
    BY <2>1, Zenon DEF AskedAt
<1>7. /\ \A m \in Media :
           /\ client'[s].port[m] = IF mode = "udp" /\ m = t THEN at ELSE client[s].port[m]
           /\ client'[s].channel[m] = IF mode = "tcp" /\ m = t THEN at ELSE client[s].channel[m]
      /\ mode \in {"udp", "tcp"} /\ (mode = "tcp" => outcome = "ok")
  BY <1>1 DEF Effect
<1>8. StoredAt(s)'
  BY <1>4, <1>5, <1>6, <1>7, StoredNext DEF StoredAt
<1>9. ReachedAt(s)'
  <2> SUFFICES ASSUME NEW b \in Bridges, NEW m \in Media, clients'[b][s] # None
               PROVE  /\ clients'[b][s].dialed[m] # 0 => AskedAt(AnswersOf(s)', m, "udp", clients'[b][s].dialed[m])
                      /\ clients'[b][s].channel[m] # DefaultChannel[m]
                           => AskedAt(AnswersOf(s)', m, "tcp", clients'[b][s].channel[m])
    BY StoredNext
  <2>1. CASE b # current
    BY <1>3, <1>4, <1>5, <2>1 DEF ReachedAt
  <2>2. CASE b = current
    <3> DEFINE old == clients[b][s]
               new == clients'[b][s]
    <3>1. /\ new.dialed[m] \in {0, client'[s].port[m]} \/ (old # None /\ new.dialed[m] = old.dialed[m])
          /\ \/ new.channel[m] \in {DefaultChannel[m], client'[s].channel[m]}
             \/ old # None /\ new.channel[m] = old.channel[m]
      BY <1>1, <2>2 DEF Effect
    <3>2. old # None =>
            /\ old.dialed[m] # 0 => AskedAt(AnswersOf(s)', m, "udp", old.dialed[m])
            /\ old.channel[m] # DefaultChannel[m] => AskedAt(AnswersOf(s)', m, "tcp", old.channel[m])
      BY <1>4, <1>5 DEF ReachedAt
    <3>3. /\ client'[s].port[m] # 0 => AskedAt(AnswersOf(s)', m, "udp", client'[s].port[m])
          /\ client'[s].channel[m] # DefaultChannel[m] => AskedAt(AnswersOf(s)', m, "tcp", client'[s].channel[m])
      BY <1>8, StoredNext
    <3> HIDE DEF old, new
    <3>4. /\ new.dialed[m] # 0 => AskedAt(AnswersOf(s)', m, "udp", new.dialed[m])
          /\ new.channel[m] # DefaultChannel[m] => AskedAt(AnswersOf(s)', m, "tcp", new.channel[m])
      BY <3>1, <3>2, <3>3
    <3> QED
      BY <3>4 DEF new
  <2> QED
    BY <2>1, <2>2
<1>10. LastAt(s)'
  <2>1. answers[s] \in Seq(Answers) /\ answers'[s] = Append(answers[s], a0)
    BY <1>1, Types DEF Answer
  <2>2. /\ DOMAIN answers'[s] = DOMAIN answers[s] \cup {Len(answers[s]) + 1}
        /\ \A i \in DOMAIN answers[s] : answers'[s][i] = answers[s][i] /\ Len(answers[s]) + 1 > i
        /\ answers'[s][Len(answers[s]) + 1] = a0
    BY <2>1
  <2> SUFFICES ASSUME NEW i \in DOMAIN answers'[s], IsLast(s, i)',
                      answers'[s][i].mode = "tcp", answers'[s][i].track \in Media
               PROVE  client'[s].channel[answers'[s][i].track] = answers'[s][i].at
    BY DEF LastAt
  <2>3. CASE i = Len(answers[s]) + 1
    BY <1>7, <2>2, <2>3
  <2>4. CASE i \in DOMAIN answers[s]
    <3>1. IsLast(s, i)
      BY <2>2, <2>4 DEF IsLast
    <3>2. client[s].channel[answers[s][i].track] = answers[s][i].at
      BY <1>4, <2>2, <2>4, <3>1 DEF LastAt
    <3>3. mode = "tcp" => answers[s][i].track # t
      BY <1>7, <2>2, <2>4 DEF IsLast
    <3> QED
      BY <1>7, <2>2, <2>4, <3>2, <3>3
  <2> QED
    BY <2>2, <2>3, <2>4
<1>11. KeptAt(s)'
  <2> DEFINE old == clients[current][s]
             new == clients'[current][s]
  <2> SUFFICES ASSUME Live(s), NEW a \in AnswersOf(s)', a.bridge = current
               PROVE  /\ a.mode = "udp" /\ a.outcome = "ok" /\ a.track \in Media
                           => new # None /\ new.dialed[a.track] # 0
                      /\ a.mode = "tcp"
                           => /\ new # None
                              /\ Mixed(s)' \/ \A m \in Media : new.channel[m] = client'[s].channel[m]
    BY <1>3 DEF KeptAt, Live
  <2>1. /\ old # None => new # None /\ \A m \in Media : old.dialed[m] # 0 => new.dialed[m] # 0
        /\ mode = "tcp" => new # None /\ \A m \in Media : new.channel[m] = client'[s].channel[m]
        /\ mode = "udp" /\ outcome = "ok" /\ t \in Media => new # None /\ new.dialed[t] # 0
    BY <1>1 DEF Effect
  <2>2. mode = "udp" /\ a.mode = "tcp" => Mixed(s)'
    BY <1>6 DEF Mixed
  <2>3. CASE a = a0
    BY <2>1, <2>3
  <2>4. CASE a \in AnswersOf(s)
    <3>1. /\ a.mode = "udp" /\ a.outcome = "ok" /\ a.track \in Media
               => old # None /\ old.dialed[a.track] # 0
          /\ a.mode = "tcp" => old # None
      BY <1>4, <2>4 DEF KeptAt
    <3> HIDE DEF old, new
    <3> QED
      BY <1>7, <2>1, <2>2, <3>1
  <2> QED
    BY <1>2, <2>3, <2>4
<1> QED
  BY <1>8, <1>9, <1>10, <1>11

(* A step that is not a session's SETUP keeps the promises made to it,     *)
(* unless it takes its client off the present forwarder or brings another  *)
(* forwarder, while the session can be served and was answered.            *)
LEMMA PromiseFrame ==
  ASSUME NEW s \in Sessions, PromiseAt(s),
         answers'[s] = answers[s], client'[s] = client[s], inputs'.word = inputs.word,
         \A b \in Bridges : clients'[b][s] = clients[b][s] \/ clients'[b][s] = None,
         \/ ~Live(s)'
         \/ Live(s) /\ current' = current /\ clients'[current][s] = clients[current][s]
         \/ \A a \in AnswersOf(s) : a.bridge # current'
  PROVE  PromiseAt(s)'
<1>1. AnswersOf(s)' = AnswersOf(s) /\ (Misread(s)' <=> Misread(s))
  BY DEF AnswersOf, Misread, TrackOf
<1>2. \A m, mode, x : AskedAt(AnswersOf(s)', m, mode, x) <=> AskedAt(AnswersOf(s), m, mode, x)
  BY <1>1 DEF AskedAt
<1>3. Mixed(s)' <=> Mixed(s)
  BY <1>1 DEF Mixed
<1>4. StoredAt(s) => StoredAt(s)'
  BY <1>2, StoredNext DEF StoredAt
<1>5. ReachedAt(s) => ReachedAt(s)'
  BY <1>2, StoredNext DEF ReachedAt
<1>6. LastAt(s) => LastAt(s)'
  BY DEF LastAt, IsLast
<1>7. KeptAt(s) => KeptAt(s)'
  BY <1>1, <1>3 DEF KeptAt
<1> QED
  BY <1>1, <1>4, <1>5, <1>6, <1>7 DEF PromiseAt

(* Every step keeps every session's promises.                              *)
LEMMA PromiseStep ==
  ASSUME Typed, AttendedInv, PromiseInv, [Next]_vars
  PROVE  PromiseInv'
<1>1. /\ clients \in Tables /\ current \in Bridges
      /\ handler \in [Sessions -> {"none", "serving", "leaving", "removing", "gone"}]
      /\ conn \in [Sessions -> {"up", "stalled", "down"}]
  BY Types DEF Typed, TypeOK
<1>2. ASSUME NEW s \in Sessions, Setup(s) PROVE PromiseInv'
  <2>1. PromiseAt(s)'
    BY <1>2, PromiseSetup DEF PromiseInv
  <2>2. ASSUME NEW q \in Sessions \ {s} PROVE PromiseAt(q)'
    <3>1. /\ answers'[q] = answers[q] /\ client'[q] = client[q] /\ inputs'.word = inputs.word
          /\ \A b \in Bridges : clients'[b][q] = clients[b][q]
          /\ UNCHANGED <<stage, current, handler, conn>>
      BY <1>2, <2>2, SetupOnly DEF streamVars
    <3>2. (Live(q)' <=> Live(q)) /\ PromiseAt(q)
      BY <3>1 DEF Live, PromiseInv
    <3> QED
      BY <1>1, <3>1, <3>2, PromiseFrame
  <2> QED
    BY <2>1, <2>2 DEF PromiseInv
<1>3. ASSUME UNCHANGED <<answers, client>>, inputs'.word = inputs.word,
             \A b \in Bridges, q \in Sessions : clients'[b][q] = clients[b][q] \/ clients'[b][q] = None,
             \A q \in Sessions :
               \/ ~Live(q)'
               \/ Live(q) /\ current' = current /\ clients'[current][q] = clients[current][q]
               \/ \A a \in AnswersOf(q) : a.bridge # current'
      PROVE  PromiseInv'
  BY <1>3, PromiseFrame DEF PromiseInv
<1>4. ASSUME NEW s \in Sessions, Connect(s) PROVE PromiseInv'
  <2>1. UNCHANGED <<answers, client, inputs, clients, current, conn>>
    BY <1>4 DEF Connect, clientVars
  <2>2. \A a \in AnswersOf(s) : a.bridge # current'
    BY <1>4 DEF Connect, AttendedInv
  <2>3. ASSUME NEW q \in Sessions \ {s} PROVE Live(q)' => Live(q)
    BY <1>1, <1>4, <2>1 DEF Connect, Live
  <2> QED
    BY <1>3, <2>1, <2>2, <2>3
<1>5. ASSUME NEW s \in Sessions, HandlerEnds(s) \/ Lock(s) \/ PeerChanges(s) PROVE PromiseInv'
  <2>1. UNCHANGED <<answers, client, clients, current, stage>> /\ inputs'.word = inputs.word
    BY <1>5, InputType DEF HandlerEnds, Lock, PeerChanges, clientVars, streamVars
  <2>2. \A q \in Sessions : Live(q)' => Live(q)
    BY <1>1, <1>5 DEF HandlerEnds, Lock, PeerChanges, Live, streamVars
  <2> QED
    BY <1>3, <2>1, <2>2
<1>6. ASSUME NEW s \in Sessions, Remove(s) PROVE PromiseInv'
  <2>1. /\ UNCHANGED <<answers, client, inputs, current, stage>>
        /\ clients' = [clients EXCEPT ![current][s] = None]
        /\ handler' = [handler EXCEPT ![s] = "gone"] /\ conn' = [conn EXCEPT ![s] = "down"]
    BY <1>6 DEF Remove, RemoveClient
  <2>2. /\ \A b \in Bridges, q \in Sessions : clients'[b][q] = clients[b][q] \/ clients'[b][q] = None
        /\ \A q \in Sessions \ {s} : clients'[current][q] = clients[current][q]
    BY <1>1, <2>1 DEF Tables
  <2>3. ~Live(s)' /\ \A q \in Sessions : Live(q)' => Live(q)
    BY <1>1, <2>1 DEF Live
  <2> QED
    BY <1>3, <2>1, <2>2, <2>3
<1>7. ASSUME NEW s \in Sessions, StopRemoves(s) PROVE PromiseInv'
  <2>1. /\ UNCHANGED <<answers, client, inputs, handler, stage>>
        /\ clients' = [clients EXCEPT ![current][s] = None]
    BY <1>7 DEF StopRemoves, RemoveClient, sessionVars
  <2>2. \A b \in Bridges, q \in Sessions : clients'[b][q] = clients[b][q] \/ clients'[b][q] = None
    BY <1>1, <2>1 DEF Tables
  <2>3. \A q \in Sessions : ~Live(q)'
    <3>1. stage = "stopping" => members = {}
      BY DEF AttendedInv
    <3>2. \A q \in Sessions : handler[q] = "serving" => q \in members
      BY DEF AttendedInv
    <3> QED
      BY <1>7, <2>1, <3>1, <3>2 DEF StopRemoves, Live, CanStopRemove
  <2> QED
    BY <1>3, <2>1, <2>2, <2>3
<1>8. CASE BeginStart
  <2>1. UNCHANGED <<answers, client, inputs, handler, conn, clients>>
    BY <1>8 DEF BeginStart, sessionVars, clientVars
  <2>2. CASE stage = "between"
    <3>1. current = 1 /\ current' = 2
      BY <1>8, <2>2 DEF BeginStart, AttendedInv
    <3>2. \A q \in Sessions : \A a \in AnswersOf(q) : a.bridge # current'
      BY <3>1 DEF AttendedInv
    <3> QED
      BY <1>3, <2>1, <3>2
  <2>3. CASE stage = "pending"
    <3>1. current' = current
      BY <1>8, <2>3 DEF BeginStart, AttendedInv
    <3>2. \A q \in Sessions : Live(q)' => Live(q)
      BY <2>1, <2>3 DEF Live
    <3> QED
      BY <1>3, <2>1, <3>1, <3>2
  <2> QED
    BY <1>8, <2>2, <2>3 DEF BeginStart
<1>9. CASE StartReturns \/ ErrorReported \/ StopBegins \/ StopEnds
  <2>1. UNCHANGED <<answers, client, inputs, handler, conn, clients, current>>
    BY <1>9 DEF StartReturns, ErrorReported, StopBegins, StopEnds, sessionVars, clientVars
  <2>2. \A q \in Sessions : Live(q)' => Live(q)
    BY <1>9, <2>1 DEF StartReturns, ErrorReported, StopBegins, StopEnds, Live
  <2> QED
    BY <1>3, <2>1, <2>2
<1>10. ASSUME NEW b \in Bridges, WriteVideo(b) PROVE PromiseInv'
  <2>1. PICK dead \in SUBSET {s \in OverTCP(b) : conn[s] = "down"} :
          clients' = [clients EXCEPT ![b] = [s \in Sessions |-> IF s \in dead THEN None ELSE @[s]]]
    BY <1>10 DEF WriteVideo
  <2>2. UNCHANGED <<answers, client, inputs, current, stage, handler, conn>>
    BY <1>10 DEF WriteVideo, streamVars, sessionVars
  <2>3. \A c \in Bridges, q \in Sessions :
          \/ clients'[c][q] = clients[c][q]
          \/ clients'[c][q] = None /\ conn[q] = "down"
    BY <1>1, <2>1 DEF Tables
  <2>4. \A q \in Sessions : Live(q)' => Live(q) /\ conn[q] # "down"
    BY <2>2 DEF Live
  <2> QED
    BY <1>1, <1>3, <2>2, <2>3, <2>4
<1>11. ASSUME UNCHANGED <<answers, client, current, stage, handler, conn, clients>>,
              inputs'.word = inputs.word
       PROVE  PromiseInv'
  <2>1. \A q \in Sessions : Live(q)' => Live(q)
    BY <1>11 DEF Live
  <2> QED
    BY <1>3, <1>11, <2>1
<1>12. ASSUME NEW b \in Bridges, Arrival(b) \/ WriteAudio(b) PROVE PromiseInv'
  <2>1. inputs'.word = inputs.word
    BY <1>12, InputType DEF Arrival, ForwardAudio, DropVideo, ForwardVideo, WriteAudio
  <2> QED
    BY <1>11, <1>12, <2>1
    DEF Arrival, ForwardAudio, DropVideo, ForwardVideo, WriteAudio, streamVars, sessionVars, clientVars
<1>13. CASE UNCHANGED vars
  BY <1>11, <1>13 DEF vars, streamVars, sessionVars, clientVars
<1> QED
  BY <1>2, <1>4, <1>5, <1>6, <1>7, <1>8, <1>9, <1>10, <1>12, <1>13 DEF Next

(* Media go where an answered SETUP said, and nowhere else, but for the    *)
(* exceptions RoutesAsPromised names.                                      *)
THEOREM RoutesAsPromisedHolds == Spec => []RoutesAsPromised
<1>1. Init => PromiseInv
  BY DEF Init, NewClient, NoPorts, PromiseInv, PromiseAt, StoredAt, ReachedAt, LastAt, KeptAt, Live
<1>2. ASSUME PromiseInv PROVE MediaAskedFor
  <2> SUFFICES ASSUME NEW b \in Bridges, NEW s \in Sessions, NEW m \in Media,
                      Route(b, s, m) # None, ~Misread(s)
               PROVE  \/ \E a \in AnswersOf(s) : /\ a.track = m /\ a.mode = Route(b, s, m).mode
                                                 /\ a.at = Route(b, s, m).at
                      \/ Route(b, s, m).mode = "tcp" /\ Route(b, s, m).at = DefaultChannel[m]
    BY DEF MediaAskedFor
  <2>1. ReachedAt(s) /\ clients[b][s] # None
    BY <1>2 DEF PromiseInv, PromiseAt, Route
  <2>2. CASE clients[b][s].mode = "tcp"
    BY <2>1, <2>2 DEF ReachedAt, Route, AskedAt
  <2>3. CASE clients[b][s].mode # "tcp"
    BY <2>1, <2>3 DEF ReachedAt, Route, AskedAt
  <2> QED
    BY <2>2, <2>3
<1>3. ASSUME Typed, SocketInv, AttendedInv, PromiseInv PROVE RoutesAsPromised
  <2> SUFFICES ASSUME NEW s \in Sessions, NEW i \in DOMAIN answers[s],
                      handler[s] = "serving", conn[s] # "down",
                      answers[s][i].track \in Media, IsLast(s, i),
                      answers[s][i].bridge = current, stage \notin {"halting", "stopped"},
                      ~Mixed(s), ~Misread(s), answers[s][i].outcome # "undialed",
                      answers[s][i].mode = "udp" => \A c \in AnswersOf(s) :
                        c.track = answers[s][i].track => c.at = answers[s][i].at
               PROVE  Route(current, s, answers[s][i].track)
                        = [mode |-> answers[s][i].mode, at |-> answers[s][i].at]
    BY <1>2, <1>3 DEF RoutesAsPromised
  <2> DEFINE a == answers[s][i]
             m == a.track
             r == clients[current][s]
  <2>1. a \in AnswersOf(s) /\ a \in Answers /\ current \in Bridges
    BY <1>3, Types DEF AnswersOf
  <2>2. a.outcome = "ok" /\ a.mode \in {"udp", "tcp"}
    BY <2>1 DEF IsLast, Answers
  <2>3. Live(s) /\ StoredAt(s) /\ ReachedAt(s) /\ LastAt(s) /\ KeptAt(s)
    BY <1>3 DEF Live, PromiseInv, PromiseAt
  <2>4. r # None
    BY <2>1, <2>2, <2>3 DEF KeptAt
  <2>5. r.mode = a.mode
    <3>1. PICK c \in AnswersOf(s) : c.mode = r.mode
      BY <1>3, <2>1, <2>4 DEF SocketInv, OwnedAt, Asks
    <3> QED
      BY <2>1, <3>1 DEF Mixed
  <2>6. CASE a.mode = "tcp"
    <3>1. r.channel[m] = client[s].channel[m]
      BY <2>1, <2>3, <2>6 DEF KeptAt
    <3>2. client[s].channel[m] = a.at
      BY <2>3, <2>6 DEF LastAt
    <3> QED
      BY <2>4, <2>5, <2>6, <3>1, <3>2 DEF Route
  <2>7. CASE a.mode = "udp"
    <3>1. r.dialed[m] # 0
      BY <2>1, <2>2, <2>3, <2>7 DEF KeptAt
    <3>2. PICK c \in AnswersOf(s) : c.track = m /\ c.at = r.dialed[m]
      BY <2>1, <2>3, <2>4, <3>1 DEF ReachedAt, AskedAt
    <3> QED
      BY <2>4, <2>5, <2>7, <3>1, <3>2 DEF Route
  <2> QED
    BY <2>2, <2>6, <2>7
<1>4. Typed /\ AttendedInv /\ PromiseInv /\ [Next]_vars => PromiseInv'
  BY PromiseStep
<1>5. Typed /\ AttendedInv /\ [Next]_vars => AttendedInv'
  BY AttendedStep
<1> QED
  BY <1>1, <1>3, <1>4, <1>5, AttendedInit, TypeCorrect, SocketInvHolds, PTL DEF Spec

(* While no Start is under way, whoever holds a lock can go on or waits    *)
(* for a writer that can: a removal waits for the readers, and these write *)
(* unless a client over TCP has stopped reading (NobodyStuck).             *)
THEOREM NobodyStuckHolds == Spec => []NobodyStuck
<1>1. Typed => NobodyStuck
  <2> SUFFICES ASSUME Typed, NEW s \in Sessions, handler[s] \in {"leaving", "removing"},
                      stage # "starting", ~Blocked(current)
               PROVE  \/ \E q \in Sessions :
                            \/ CanLock(q)
                            \/ CanWriteLock(current) /\ (handler[q] = "removing" \/ CanStopRemove(q))
                      \/ CanStopEnd
                      \/ CanWriteVideo(current) \/ CanWriteAudio(current)
    BY DEF NobodyStuck
  <2>1. CASE ~CanWriteLock(current)
    BY <2>1, Types DEF CanWriteLock, CanWriteVideo, CanWriteAudio, Typed, TypeOK, Reading, Media
  <2>2. CASE CanWriteLock(current) /\ Removing
    BY <2>2 DEF Removing
  <2>3. CASE CanWriteLock(current) /\ ~Removing /\ ~StreamLocked
    BY <2>3 DEF CanLock, Removing
  <2>4. CASE CanWriteLock(current) /\ ~Removing /\ StreamLocked
    <3>1. stage = "stopping"
      BY <2>4 DEF StreamLocked
    <3> QED
      BY <2>4, <3>1 DEF CanStopRemove, CanStopEnd, Registered
  <2> QED
    BY <2>1, <2>2, <2>3, <2>4
<1> QED
  BY <1>1, TypeCorrect, PTL
=============================================================================
