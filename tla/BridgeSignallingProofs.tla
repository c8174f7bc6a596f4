----------------------- MODULE BridgeSignallingProofs -----------------------
(***************************************************************************)
(* Proofs about the signalling of bridges, whatever the number of devices, *)
(* resolutions, connections, candidates and failures.                      *)
(***************************************************************************)
EXTENDS BridgeSignalling, SequenceTheorems, TLAPS

-----------------------------------------------------------------------------
(* Types.                                                                  *)

(* A bridge is stopped.                                                    *)
LEMMA StopBridgeType ==
  ASSUME TypeOK, NEW b \in Bridges, StopBridge(b)
  PROVE  /\ connected' \subseteq Bridges /\ alarm' \subseteq Bridges
         /\ peer' \in [Bridges -> {"none", "offered", "described", "connected", "failed", "closed"}]
         /\ cameras' \in [Conns -> SUBSET Bridges]
         /\ device' \in [Bridges -> {"none", "offered", "answered", "gone"}]
<1>1. CASE b \in connected
  <2>1. connected' = connected \ {b} /\ alarm' = alarm \cup {b}
    BY <1>1 DEF StopBridge
  <2>2. peer' = [peer EXCEPT ![b] = "closed"]
    BY <1>1 DEF StopBridge
  <2>3. cameras' = [cameras EXCEPT ![link[b]] = @ \ {b}]
    BY <1>1 DEF StopBridge
  <2>4. device' = [device EXCEPT ![b] = "gone"] \/ device' = device
    <3>1. device' = [device EXCEPT ![b] = IF link[b] \in online THEN "gone" ELSE @]
      BY <1>1 DEF StopBridge
    <3>2. CASE link[b] \in online
      BY <3>1, <3>2
    <3>3. CASE link[b] \notin online
      BY <3>1, <3>3 DEF TypeOK
    <3>4. QED
      BY <3>2, <3>3
  <2>5. QED
    BY <2>1, <2>2, <2>3, <2>4 DEF TypeOK
<1>2. CASE b \notin connected
  BY <1>2 DEF StopBridge, TypeOK
<1>3. QED
  BY <1>1, <1>2

(* A stream is stopped.                                                    *)
LEMMA StopStreamType ==
  ASSUME TypeOK, NEW s \in Streams, StopStream(s)
  PROVE  /\ active' \subseteq Streams /\ connecting' \subseteq Streams
         /\ connected' \subseteq Bridges /\ alarm' \subseteq Bridges
         /\ peer' \in [Bridges -> {"none", "offered", "described", "connected", "failed", "closed"}]
         /\ cameras' \in [Conns -> SUBSET Bridges]
         /\ device' \in [Bridges -> {"none", "offered", "answered", "gone"}]
<1>1. active' \subseteq Streams /\ connecting' \subseteq Streams
  BY DEF StopStream, TypeOK
<1>2. CASE Running(s)
  <2>1. StopBridge(Current(s)) /\ Current(s) \in Bridges
    BY <1>2 DEF StopStream, Current, Bridges, TypeOK
  <2>2. QED
    BY <1>1, <2>1, StopBridgeType
<1>3. CASE ~Running(s)
  BY <1>1, <1>3 DEF StopStream, TypeOK
<1>4. QED
  BY <1>2, <1>3

(* A client of the manager is found or made.                               *)
LEMMA GetClientType ==
  ASSUME TypeOK, NEW b \in Bridges, GetClient(b)
  PROVE  /\ online' \subseteq used' /\ used' \subseteq Conns
         /\ clients' \in [Devices -> Conns \cup {None}]
         /\ link' \in [Bridges -> Conns \cup {None}]
<1> DEFINE d == DeviceOf(Owner(b))
<1>1. d \in Devices
  BY DEF Bridges, Streams, DeviceOf, Owner
<1>2. CASE clients[d] \in online
  <2>1. clients[d] \in Conns
    BY <1>2 DEF TypeOK
  <2>2. QED
    BY <1>2, <2>1 DEF GetClient, TypeOK
<1>3. CASE clients[d] \notin online
  <2>1. PICK k \in Conns \ used : /\ link' = [link EXCEPT ![b] = k]
                                 /\ clients' = [clients EXCEPT ![d] = k]
                                 /\ used' = used \cup {k} /\ online' = {k}
    BY <1>3 DEF GetClient
  <2>2. QED
    BY <1>1, <2>1 DEF TypeOK
<1>4. QED
  BY <1>2, <1>3

(* Messages and reports are what the handlers take them for.               *)
LEMMA MessageType ==
  ASSUME NEW b \in Bridges, NEW n \in 0 .. MaxCandidates,
         NEW t \in {"answer", "garbled", "candidate", "disconnect"}
  PROVE  Message(b, t, n) \in Messages
BY DEF Message, Messages

(* A device's message keeps the inboxes' types.                            *)
LEMMA SendType ==
  ASSUME TypeOK, NEW b \in Bridges, NEW n \in 0 .. MaxCandidates,
         NEW t \in {"answer", "garbled", "candidate", "disconnect"}, Send(b, t, n)
  PROVE  inbox' \in [Conns -> Seq(Messages)]
<1>1. link[b] \in Conns /\ inbox[link[b]] \in Seq(Messages)
  BY DEF Send, TypeOK
<1>2. Append(inbox[link[b]], Message(b, t, n)) \in Seq(Messages)
  BY <1>1, MessageType, AppendProperties
<1>3. QED
  BY <1>1, <1>2 DEF Send, TypeOK

(* A report keeps the callers' types.                                      *)
LEMMA ReportType ==
  ASSUME TypeOK, NEW r \in Callers, NEW m \in Messages, Report(r, m)
  PROVE  /\ stage' \in [Callers -> {"idle", "tell", "store", "check", "count", "stop", "halt", "drop"}]
         /\ job' \in [Callers -> Messages \cup {None}]
         /\ \A q \in Callers : stage'[q] = "idle" <=> job'[q] = None
BY NoneAssumption DEF Report, TypeOK

(* A caller goes on in handleError.                                        *)
LEMMA GoesType ==
  ASSUME TypeOK, NEW r \in Callers, stage[r] # "idle",
         stage' = [stage EXCEPT ![r] = stage'[r]], job' = [job EXCEPT ![r] = job'[r]],
         stage'[r] \in {"idle", "check", "count", "stop", "halt", "drop"},
         job'[r] = IF stage'[r] = "idle" THEN None ELSE job[r]
  PROVE  /\ stage' \in [Callers -> {"idle", "tell", "store", "check", "count", "stop", "halt", "drop"}]
         /\ job' \in [Callers -> Messages \cup {None}]
         /\ \A q \in Callers : stage'[q] = "idle" <=> job'[q] = None
<1>1. job[r] \in Messages
  BY DEF TypeOK
<1>2. \A q \in Callers \ {r} : stage'[q] = stage[q] /\ job'[q] = job[q]
  BY DEF TypeOK
<1>3. stage'[r] = "idle" <=> job'[r] = None
  BY <1>1, NoneAssumption
<1>4. \A q \in Callers : stage'[q] = "idle" <=> job'[q] = None
  BY <1>2, <1>3 DEF TypeOK
<1>5. stage' \in [Callers -> {"idle", "tell", "store", "check", "count", "stop", "halt", "drop"}]
  BY DEF TypeOK
<1>6. job' \in [Callers -> Messages \cup {None}]
  BY <1>1 DEF TypeOK
<1>7. QED
  BY <1>4, <1>5, <1>6

(* Every step keeps the types.                                             *)
LEMMA TypeInductive == TypeOK /\ [Next]_vars => TypeOK'
<1> SUFFICES ASSUME TypeOK, [Next]_vars PROVE TypeOK'
    OBVIOUS
<1> USE DEF vars, streamVars, bridgeVars, iceVars, peerVars, connVars, mqttVars, callVars, deviceVars
<1>1. ASSUME NEW s \in Streams, Open(s) PROVE TypeOK'
  <2>1. <<1, s>> \in Bridges
    BY DEF Bridges
  <2>2. QED
    BY <1>1, <2>1, GetClientType DEF Open, TypeOK
<1>2. ASSUME NEW s \in Streams, Join(s) PROVE TypeOK'
  BY <1>2, BoundsAssumption DEF Join, TypeOK, Current, Streams, Bridges
<1>3. ASSUME NEW s \in Streams, Leave(s) PROVE TypeOK'
  BY <1>3, BoundsAssumption DEF Leave, TypeOK, Current, Streams, Bridges
<1>4. ASSUME NEW s \in Streams, Shutdown(s) PROVE TypeOK'
  BY <1>4, StopStreamType DEF Shutdown, TypeOK
<1>5. ASSUME NEW s \in Streams, Attempt(s) PROVE TypeOK'
  BY <1>5, BoundsAssumption, SMTT(60) DEF Attempt, TypeOK, Current, Streams, Bridges
<1>6. ASSUME NEW s \in Streams, Retry(s) PROVE TypeOK'
  <2>1. <<2, s>> \in Bridges
    BY DEF Bridges
  <2>2. /\ online' \subseteq used' /\ used' \subseteq Conns
        /\ clients' \in [Devices -> Conns \cup {None}]
        /\ link' \in [Bridges -> Conns \cup {None}]
    <3>1. CASE UNCHANGED connVars
      BY <3>1 DEF TypeOK
    <3>2. QED
      BY <1>6, <2>1, <3>1, GetClientType DEF Retry
  <2>3. QED
    BY <1>6, <2>2 DEF Retry, TypeOK
<1>7. ASSUME NEW s \in Streams, Abandon(s) PROVE TypeOK'
  BY <1>7, BoundsAssumption DEF Abandon, TypeOK, Current, Streams, Bridges
<1>8. ASSUME NEW s \in Streams, StartOffers(s) PROVE TypeOK'
  <2> DEFINE b == Current(s)
  <2>1. b \in Bridges
    BY DEF Current, Bridges, TypeOK
  <2>2. /\ start' \in [Streams -> {"none", "attempt", "starting", "waiting", "pause", "giveup",
                                  "done"}]
        /\ locked' \subseteq Streams
    <3>1. AttemptFails(s) \/ (start' = [start EXCEPT ![s] = "waiting"] /\ locked' = locked)
      BY <1>8 DEF StartOffers
    <3>2. QED
      BY <3>1, ZenonT(60) DEF AttemptFails, TypeOK
  <2>3. \/ UNCHANGED <<cameras, peer>>
        \/ /\ link[b] # None
           /\ cameras' = [cameras EXCEPT ![link[b]] = @ \cup {b}]
           /\ peer' = [peer EXCEPT ![b] = "offered"]
    BY <1>8 DEF StartOffers
  <2>4. UNCHANGED device \/ device' = [device EXCEPT ![b] = "offered"]
    BY <1>8 DEF StartOffers
  <2>5. /\ cameras' \in [Conns -> SUBSET Bridges]
        /\ peer' \in [Bridges -> {"none", "offered", "described", "connected", "failed",
                                 "closed"}]
        /\ device' \in [Bridges -> {"none", "offered", "answered", "gone"}]
    <3> HIDE DEF b
    <3>1. peer' \in [Bridges -> {"none", "offered", "described", "connected", "failed",
                                "closed"}]
      BY <2>1, <2>3, ZenonT(60) DEF TypeOK
    <3>2. device' \in [Bridges -> {"none", "offered", "answered", "gone"}]
      BY <2>4 DEF TypeOK
    <3>3. cameras \in [Conns -> SUBSET Bridges]
      BY DEF TypeOK
    <3>4. cameras' \in [Conns -> SUBSET Bridges]
      BY <2>1, <2>3, <3>3
    <3>5. QED
      BY <3>1, <3>2, <3>4
  <2>6. QED
    BY <1>8, <2>2, <2>5 DEF StartOffers, TypeOK
<1>9. ASSUME NEW s \in Streams, StartSucceeds(s) PROVE TypeOK'
  BY <1>9, BoundsAssumption, SMTT(60) DEF StartSucceeds, TypeOK, Current, Streams, Bridges
<1>10. ASSUME NEW s \in Streams, StartFails(s) PROVE TypeOK'
  BY <1>10, BoundsAssumption DEF StartFails, AttemptFails, TypeOK, Current, Streams, Bridges
<1>11. ASSUME NEW s \in Streams, GiveUp(s) PROVE TypeOK'
  BY <1>11, StopStreamType DEF GiveUp, TypeOK
<1>12. ASSUME NEW k \in Conns, Consume(k) PROVE TypeOK'
  <2> DEFINE m == Head(inbox[k])
  <2>1. inbox[k] \in Seq(Messages) /\ inbox[k] # <<>>
    BY <1>12 DEF Consume, TypeOK
  <2>2. m \in Messages /\ Tail(inbox[k]) \in Seq(Messages)
    BY <2>1, HeadTailProperties
  <2>3. inbox' \in [Conns -> Seq(Messages)]
    BY <1>12, <2>2 DEF Consume, TypeOK
  <2>4. k \in Callers /\ m.to \in Bridges
    BY <2>2 DEF Callers, Messages
  <2> DEFINE Rest == UNCHANGED <<streamVars, bridgeVars, channel, alarm, connVars, cameras,
                                 deviceVars, faults>>
  <2>5. Rest
    BY <1>12 DEF Consume
  <2>6. CASE UNCHANGED <<iceVars, peer, callVars>>
    BY <2>3, <2>5, <2>6 DEF TypeOK
  <2>7. CASE TakeAnswer(m.to) /\ UNCHANGED callVars
    <3>1. pending[m.to] \in Seq(0 .. MaxCandidates) /\ applied[m.to] \in Seq(0 .. MaxCandidates)
      BY <2>4 DEF TypeOK
    <3>2. applied[m.to] \o pending[m.to] \in Seq(0 .. MaxCandidates)
      BY <3>1, ConcatProperties
    <3>3. applied' \in [Bridges -> Seq(0 .. MaxCandidates)]
      BY <2>4, <2>7, <3>2 DEF TakeAnswer, TypeOK
    <3>4. pending' \in [Bridges -> Seq(0 .. MaxCandidates)]
      <4>1. pending' = [pending EXCEPT ![m.to] = <<>>]
        BY <2>7 DEF TakeAnswer
      <4>2. pending \in [Bridges -> Seq(0 .. MaxCandidates)]
        BY DEF TypeOK
      <4>3. <<>> \in Seq(0 .. MaxCandidates)
        BY EmptySeq, SMTT(60)
      <4> HIDE DEF m
      <4>4. QED
        BY <4>1, <4>2, <4>3
    <3>5. answered' \subseteq Bridges
      BY <2>4, <2>7, ZenonT(60) DEF TakeAnswer, TypeOK
    <3>6. peer' \in [Bridges -> {"none", "offered", "described", "connected", "failed", "closed"}]
      BY <2>4, <2>7 DEF TakeAnswer, TypeOK
    <3> HIDE DEF m
    <3>7. QED
      BY <2>3, <2>5, <2>7, <3>3, <3>4, <3>5, <3>6 DEF TypeOK
  <2>8. CASE m.type = "candidate" /\ TakeCandidate(m.to, m.n) /\ UNCHANGED callVars
    <3>1. m.n \in 0 .. MaxCandidates
      BY <2>2, <2>8, BoundsAssumption DEF Messages
    <3>2. pending[m.to] \in Seq(0 .. MaxCandidates) /\ applied[m.to] \in Seq(0 .. MaxCandidates)
      BY <2>4 DEF TypeOK
    <3>3. /\ Append(pending[m.to], m.n) \in Seq(0 .. MaxCandidates)
          /\ Append(applied[m.to], m.n) \in Seq(0 .. MaxCandidates)
      BY <3>1, <3>2, AppendProperties
    <3> DEFINE b == m.to
               n == m.n
    <3>4. \/ applied' = [applied EXCEPT ![b] = Append(@, n)] /\ UNCHANGED pending
          \/ pending' = [pending EXCEPT ![b] = Append(@, n)] /\ UNCHANGED applied
      BY <2>8 DEF TakeCandidate
    <3>5. UNCHANGED <<answered, peer>>
      BY <2>8, SMTT(60) DEF TakeCandidate
    <3>6. /\ applied' \in [Bridges -> Seq(0 .. MaxCandidates)]
          /\ pending' \in [Bridges -> Seq(0 .. MaxCandidates)]
      <4>1. /\ pending \in [Bridges -> Seq(0 .. MaxCandidates)]
            /\ applied \in [Bridges -> Seq(0 .. MaxCandidates)]
        BY DEF TypeOK
      <4>2. CASE applied' = [applied EXCEPT ![b] = Append(@, n)] /\ UNCHANGED pending
        <5> HIDE DEF m
        <5>1. QED
          BY <4>1, <4>2, <3>3
      <4>3. CASE pending' = [pending EXCEPT ![b] = Append(@, n)] /\ UNCHANGED applied
        <5> HIDE DEF m
        <5>1. QED
          BY <4>1, <4>3, <3>3
      <4>4. QED
        BY <3>4, <4>2, <4>3
    <3> HIDE DEF m
    <3>7. QED
      BY <2>3, <2>5, <2>8, <3>5, <3>6 DEF TypeOK
  <2>9. CASE Report(k, m) /\ UNCHANGED <<iceVars, peer>>
    <3> HIDE DEF m
    <3>1. QED
      BY <2>2, <2>3, <2>4, <2>5, <2>9, ReportType DEF TypeOK
  <2>10. QED
    BY <1>12, <2>1, <2>6, <2>7, <2>8, <2>9 DEF Consume
<1>13. ASSUME NEW b \in Bridges, PeerConnects(b) PROVE TypeOK'
  <2>1. UNCHANGED waiter \/ waiter' = [waiter EXCEPT ![b] = IF @ = "open" THEN "ok" ELSE @]
    BY <1>13 DEF PeerConnects, Succeed
  <2>2. waiter' \in [Bridges -> {"open", "ok", "failing", "err"}]
    <3>1. waiter \in [Bridges -> {"open", "ok", "failing", "err"}]
      BY DEF TypeOK
    <3>2. QED
      BY <2>1, <3>1
  <2>3. QED
    BY <1>13, <2>2 DEF PeerConnects, TypeOK
<1>14. ASSUME NEW b \in Bridges, ChannelOpens(b) PROVE TypeOK'
  BY <1>14, BoundsAssumption DEF ChannelOpens, ChannelStep, TypeOK, Current, Streams, Bridges
<1>15. ASSUME NEW b \in Bridges, ChannelCodec(b) PROVE TypeOK'
  BY <1>15, BoundsAssumption DEF ChannelCodec, ChannelStep, TypeOK, Current, Streams, Bridges
<1>16. ASSUME NEW b \in Bridges, ChannelRecv(b) PROVE TypeOK'
  BY <1>16, BoundsAssumption DEF ChannelRecv, ChannelStep, Succeed, TypeOK, Current, Streams, Bridges
<1>17. ASSUME NEW b \in Bridges, PeerFails(b) PROVE TypeOK'
  BY <1>17, BoundsAssumption, SMTT(30) DEF PeerFails, TypeOK, Current, Streams, Bridges
<1>18. ASSUME NEW b \in Bridges, PeerAlarm(b) PROVE TypeOK'
  <2>1. Message(b, "garbled", 0) \in Messages /\ b \in Callers
    BY MessageType, BoundsAssumption DEF Callers
  <2>2. QED
    BY <1>18, <2>1, ReportType DEF PeerAlarm, TypeOK
<1>19. ASSUME NEW r \in Callers, TellWaiter(r) PROVE TypeOK'
  <2>1. Subject(r) \in Bridges
    BY <1>19 DEF TellWaiter, Subject, Messages, TypeOK
  <2>2. waiter' \in [Bridges -> {"open", "ok", "failing", "err"}]
    BY <1>19, <2>1 DEF TellWaiter, TypeOK
  <2>3. QED
    BY <1>19, <2>2 DEF TellWaiter, TypeOK
<1>20. ASSUME NEW r \in Callers, StoreError(r) PROVE TypeOK'
  <2>0. /\ stage[r] # "idle" /\ stage' = [stage EXCEPT ![r] = stage'[r]]
        /\ job' = [job EXCEPT ![r] = job'[r]]
        /\ stage'[r] \in {"idle", "check", "count", "stop", "halt", "drop"}
        /\ job'[r] = IF stage'[r] = "idle" THEN None ELSE job[r]
    BY <1>20 DEF StoreError, Goes, TypeOK
  <2>9. /\ stage' \in [Callers -> {"idle", "tell", "store", "check", "count", "stop", "halt", "drop"}]
        /\ job' \in [Callers -> Messages \cup {None}]
        /\ \A q \in Callers : stage'[q] = "idle" <=> job'[q] = None
    BY <2>0, GoesType
  <2>1. Subject(r) \in Bridges
    BY <1>20 DEF StoreError, Goes, Subject, Messages, TypeOK
  <2>2. waiter' \in [Bridges -> {"open", "ok", "failing", "err"}]
    BY <1>20, <2>1 DEF StoreError, TypeOK
  <2>3. QED
    BY <1>20, <2>2, <2>9 DEF StoreError, TypeOK
<1>21. ASSUME NEW r \in Callers, CheckFlags(r) PROVE TypeOK'
  <2>0. /\ stage[r] # "idle" /\ stage' = [stage EXCEPT ![r] = stage'[r]]
        /\ job' = [job EXCEPT ![r] = job'[r]]
        /\ stage'[r] \in {"idle", "check", "count", "stop", "halt", "drop"}
        /\ job'[r] = IF stage'[r] = "idle" THEN None ELSE job[r]
    BY <1>21 DEF CheckFlags, Goes, TypeOK
  <2>9. /\ stage' \in [Callers -> {"idle", "tell", "store", "check", "count", "stop", "halt", "drop"}]
        /\ job' \in [Callers -> Messages \cup {None}]
        /\ \A q \in Callers : stage'[q] = "idle" <=> job'[q] = None
    BY <2>0, GoesType
  <2>10. QED
    BY <1>21, <2>9 DEF CheckFlags, Running, TypeOK
<1>22. ASSUME NEW r \in Callers, CountClients(r) PROVE TypeOK'
  <2>0. /\ stage[r] # "idle" /\ stage' = [stage EXCEPT ![r] = stage'[r]]
        /\ job' = [job EXCEPT ![r] = job'[r]]
        /\ stage'[r] \in {"idle", "check", "count", "stop", "halt", "drop"}
        /\ job'[r] = IF stage'[r] = "idle" THEN None ELSE job[r]
    BY <1>22 DEF CountClients, Goes, TypeOK
  <2>9. /\ stage' \in [Callers -> {"idle", "tell", "store", "check", "count", "stop", "halt", "drop"}]
        /\ job' \in [Callers -> Messages \cup {None}]
        /\ \A q \in Callers : stage'[q] = "idle" <=> job'[q] = None
    BY <2>0, GoesType
  <2>10. QED
    BY <1>22, <2>9 DEF CountClients, Running, TypeOK
<1>23. ASSUME NEW r \in Callers, ErrorStop(r) PROVE TypeOK'
  <2>0. /\ stage[r] # "idle" /\ stage' = [stage EXCEPT ![r] = stage'[r]]
        /\ job' = [job EXCEPT ![r] = job'[r]]
        /\ stage'[r] \in {"idle", "check", "count", "stop", "halt", "drop"}
        /\ job'[r] = IF stage'[r] = "idle" THEN None ELSE job[r]
    BY <1>23 DEF ErrorStop, Goes, TypeOK
  <2>9. /\ stage' \in [Callers -> {"idle", "tell", "store", "check", "count", "stop", "halt", "drop"}]
        /\ job' \in [Callers -> Messages \cup {None}]
        /\ \A q \in Callers : stage'[q] = "idle" <=> job'[q] = None
    BY <2>0, GoesType
  <2>10. QED
    BY <1>23, <2>9 DEF ErrorStop, Running, TypeOK
<1>24. ASSUME NEW r \in Callers, ErrorHalt(r) PROVE TypeOK'
  <2>0. /\ stage[r] # "idle" /\ stage' = [stage EXCEPT ![r] = stage'[r]]
        /\ job' = [job EXCEPT ![r] = job'[r]]
        /\ stage'[r] \in {"idle", "check", "count", "stop", "halt", "drop"}
        /\ job'[r] = IF stage'[r] = "idle" THEN None ELSE job[r]
    BY <1>24 DEF ErrorHalt, Goes, TypeOK
  <2>9. /\ stage' \in [Callers -> {"idle", "tell", "store", "check", "count", "stop", "halt", "drop"}]
        /\ job' \in [Callers -> Messages \cup {None}]
        /\ \A q \in Callers : stage'[q] = "idle" <=> job'[q] = None
    BY <2>0, GoesType
  <2>1. Current(StreamOf(r)) \in Bridges
    <3>1. job[r] \in Messages
      BY <2>0 DEF TypeOK
    <3>2. QED
      BY <3>1 DEF Messages, Bridges, StreamOf, Subject, Owner, Current, TypeOK
  <2>2. StopBridge(Current(StreamOf(r)))
    BY <1>24 DEF ErrorHalt
  <2>3. QED
    BY <1>24, <2>1, <2>2, <2>9, StopBridgeType DEF ErrorHalt, TypeOK
<1>25. ASSUME NEW r \in Callers, Drop(r) PROVE TypeOK'
  <2>0. /\ stage[r] # "idle" /\ stage' = [stage EXCEPT ![r] = stage'[r]]
        /\ job' = [job EXCEPT ![r] = job'[r]]
        /\ stage'[r] \in {"idle", "check", "count", "stop", "halt", "drop"}
        /\ job'[r] = IF stage'[r] = "idle" THEN None ELSE job[r]
    BY <1>25 DEF Drop, Goes, TypeOK
  <2>9. /\ stage' \in [Callers -> {"idle", "tell", "store", "check", "count", "stop", "halt", "drop"}]
        /\ job' \in [Callers -> Messages \cup {None}]
        /\ \A q \in Callers : stage'[q] = "idle" <=> job'[q] = None
    BY <2>0, GoesType
  <2>10. QED
    BY <1>25, <2>9 DEF Drop, Running, TypeOK
<1>26. ASSUME NEW b \in Bridges, DeviceAnswers(b) PROVE TypeOK'
  <2>1. PICK t \in {"answer", "garbled"} : Send(b, t, 0)
    BY <1>26 DEF DeviceAnswers
  <2>2. inbox' \in [Conns -> Seq(Messages)]
    BY <2>1, SendType, BoundsAssumption
  <2>3. QED
    BY <1>26, <2>2 DEF DeviceAnswers, TypeOK
<1>27. ASSUME NEW b \in Bridges, DeviceSendsCandidate(b) PROVE TypeOK'
  <2>1. sent[b] + 1 \in 0 .. MaxCandidates
    <3>1. PICK s \in Streams : b = <<1, s>> \/ b = <<2, s>>
      BY DEF Bridges
    <3>2. Owner(b) = s /\ <<1, s>> \in Bridges /\ <<2, s>> \in Bridges
      BY <3>1 DEF Owner, Bridges
    <3>3. sent[<<1, s>>] + sent[<<2, s>>] < MaxCandidates
      BY <1>27, <3>2 DEF DeviceSendsCandidate
    <3>4. sent[<<1, s>>] \in Nat /\ sent[<<2, s>>] \in Nat
      BY <3>2, BoundsAssumption DEF TypeOK
    <3>5. QED
      BY <3>1, <3>3, <3>4, BoundsAssumption
  <2>2. inbox' \in [Conns -> Seq(Messages)]
    BY <1>27, <2>1, SendType DEF DeviceSendsCandidate
  <2>3. QED
    BY <1>27, <2>1, <2>2 DEF DeviceSendsCandidate, TypeOK
<1>28. ASSUME NEW b \in Bridges, DeviceDisconnects(b) PROVE TypeOK'
  <2>1. inbox' \in [Conns -> Seq(Messages)]
    BY <1>28, SendType, BoundsAssumption DEF DeviceDisconnects
  <2>2. QED
    BY <1>28, <2>1 DEF DeviceDisconnects, TypeOK
<1>29. ASSUME NEW k \in Conns, ConnectionLost(k) PROVE TypeOK'
  BY <1>29, BoundsAssumption, SMTT(60) DEF ConnectionLost, TypeOK, Current, Streams, Bridges
<1>30. CASE UNCHANGED vars
  BY <1>30 DEF TypeOK
<1>31. QED
  BY <1>1, <1>2, <1>3, <1>4, <1>5, <1>6, <1>7, <1>8, <1>9, <1>10, <1>11, <1>12, <1>13,
     <1>14, <1>15, <1>16, <1>17, <1>18, <1>19, <1>20, <1>21, <1>22, <1>23, <1>24, <1>25,
     <1>26, <1>27, <1>28, <1>29, <1>30
     DEF Next, Program, Peers, Starter, Callback

-----------------------------------------------------------------------------
(* Where the attempts and the peer connections are.                        *)

(* Nothing is known of an attempt's session before it makes its offer.     *)
Fresh(s) ==
  /\ start[s] \in {"none", "attempt", "pause"} => attempt[s] = 1
  /\ attempt[s] = 1 => peer[<<2, s>>] = "none"
  /\ start[s] \in {"none", "attempt", "starting"} => peer[Current(s)] = "none"
  /\ start[s] = "waiting" => peer[Current(s)] # "none"

StartsFresh == \A s \in Streams : Fresh(s)

(* A peer connection has the device's description once the answer came.    *)
PeersDescribed ==
  /\ \A b \in Bridges : /\ peer[b] \in {"described", "connected"} => b \in answered
                        /\ b \in answered => peer[b] \notin {"none", "offered"}
                        /\ b \in connected => peer[b] # "none"
  /\ \A k \in Conns : \A b \in cameras[k] : peer[b] # "none"

(* Whoever stores an error is the one whom the waiter waits for.           *)
ErrorsBeingStored ==
  /\ \A r \in Callers : stage[r] = "store" => waiter[Subject(r)] = "failing"
  /\ \A r, q \in Callers : stage[r] = "store" /\ stage[q] = "store" /\ Subject(r) = Subject(q)
                             => r = q

(* A session has no past before its offer, and no mail.                    *)
NothingEarly ==
  /\ \A b \in Bridges : peer[b] = "none" =>
       device[b] = "none" /\ sent[b] = 0 /\ applied[b] = <<>> /\ pending[b] = <<>>
  /\ \A k \in Conns : \A i \in DOMAIN inbox[k] : peer[inbox[k][i].to] # "none"

(* A session's mail is on the connection its bridge has.                   *)
MailAtLink ==
  /\ \A b \in Bridges : link[b] \in used \cup {None}
  /\ \A k \in Conns : \A i \in DOMAIN inbox[k] : link[inbox[k][i].to] = k

KeptForAnswer == \A b \in answered : pending[b] = <<>>

(* CandidatesKept, bridge by bridge.                                       *)
Reachable(b) == link[b] \in online /\ b \in cameras[link[b]]
Numbered(W, mail, t, s) == /\ {mail[i].n : i \in W} = t + 1 .. s
                           /\ \A i, j \in W : i < j => mail[i].n < mail[j].n
InOrder(b) ==
  LET taken == applied[b] \o pending[b]
  IN /\ Len(taken) <= sent[b] /\ \A i \in 1 .. Len(taken) : taken[i] = i
     /\ Numbered(OnTheWay(b), inbox[link[b]], Len(taken), sent[b])

Delivery == NothingEarly /\ MailAtLink /\ KeptForAnswer /\ CandidatesKept

IInv == /\ TypeOK /\ StartsFresh /\ PeersDescribed /\ AnswerFirst /\ SuccessIsEarned
        /\ LatchBeforeLock /\ ErrorsBeingStored /\ Delivery

(* A stop only takes away.                                                 *)
OnlyCloses == /\ \A b \in Bridges : \/ peer'[b] = peer[b]
                                    \/ peer[b] # "none" /\ peer'[b] = "closed"
              /\ connected' \subseteq connected
              /\ \A k \in Conns : cameras'[k] \subseteq cameras[k]
              /\ \A b \in Bridges : device'[b] # "none" => device[b] # "none" \/ peer[b] # "none"

(* The stop of one bridge, ...                                             *)
LEMMA StopBridgeCloses ==
  ASSUME TypeOK, PeersDescribed, NEW b \in Bridges, StopBridge(b) PROVE OnlyCloses
<1>1. CASE b \in connected
  <2>1. /\ connected' = connected \ {b} /\ peer' = [peer EXCEPT ![b] = "closed"]
        /\ cameras' = [cameras EXCEPT ![link[b]] = @ \ {b}] /\ peer[b] # "none"
        /\ device' = [device EXCEPT ![b] = IF link[b] \in online THEN "gone" ELSE @]
    BY <1>1 DEF StopBridge, PeersDescribed
  <2>2. QED
    BY <2>1 DEF OnlyCloses, TypeOK
<1>2. CASE b \notin connected
  BY <1>2 DEF StopBridge, OnlyCloses
<1>3. QED
  BY <1>1, <1>2

(* ... that of a stream, whose current bridge it stops, ...                *)
LEMMA StopStreamCloses ==
  ASSUME TypeOK, PeersDescribed, NEW s \in Streams, StopStream(s) PROVE OnlyCloses
<1>1. CASE Running(s)
  <2>1. Current(s) \in Bridges /\ StopBridge(Current(s))
    BY <1>1 DEF StopStream, Current, Bridges, TypeOK
  <2>2. QED
    BY <2>1, StopBridgeCloses
<1>2. CASE ~Running(s)
  BY <1>2 DEF StopStream, OnlyCloses
<1>3. QED
  BY <1>1, <1>2

(* An error callback's own stop.                                           *)
LEMMA ErrorHaltCloses ==
  ASSUME TypeOK, PeersDescribed, NEW r \in Callers, ErrorHalt(r) PROVE OnlyCloses
<1>1. job[r] \in Messages /\ StopBridge(Current(StreamOf(r)))
  BY DEF ErrorHalt, Goes, TypeOK
<1>2. Current(StreamOf(r)) \in Bridges
  BY <1>1 DEF Messages, Bridges, StreamOf, Subject, Owner, Current, TypeOK
<1>3. QED
  BY <1>1, <1>2, StopBridgeCloses

(* What one message can do.                                                *)
LEMMA MessageHandled ==
  ASSUME TypeOK, NEW k \in Conns, Consume(k)
  PROVE  /\ UNCHANGED <<streamVars, bridgeVars, channel, alarm, connVars, cameras, deviceVars,
                        faults>>
         /\ \/ UNCHANGED <<iceVars, peer, callVars>>
            \/ \E m \in Messages :
                 /\ m.to \in cameras[k] /\ m.to \in Bridges
                 /\ \/ TakeAnswer(m.to) /\ UNCHANGED callVars
                    \/ TakeCandidate(m.to, m.n) /\ UNCHANGED callVars
                    \/ Report(k, m) /\ UNCHANGED <<iceVars, peer>>
<1> DEFINE m == Head(inbox[k])
<1>1. inbox[k] \in Seq(Messages) /\ inbox[k] # <<>>
  BY DEF Consume, TypeOK
<1>2. m \in Messages
  BY <1>1, HeadTailProperties
<1>3. m.to \in Bridges
  BY <1>2 DEF Messages
<1>4. \/ UNCHANGED <<iceVars, peer, callVars>>
      \/ /\ m.to \in cameras[k]
         /\ \/ TakeAnswer(m.to) /\ UNCHANGED callVars
            \/ TakeCandidate(m.to, m.n) /\ UNCHANGED callVars
            \/ Report(k, m) /\ UNCHANGED <<iceVars, peer>>
  BY DEF Consume
<1>5. UNCHANGED <<streamVars, bridgeVars, channel, alarm, connVars, cameras, deviceVars, faults>>
  BY DEF Consume
<1> HIDE DEF m
<1>6. QED
  BY <1>2, <1>3, <1>4, <1>5

-----------------------------------------------------------------------------
(* Steps that begin no session leave StartsFresh to the starts.            *)
NoneBegins == \A b \in Bridges : peer'[b] = "none" <=> peer[b] = "none"

(* A step that moves no startStream, ...                                   *)
LEMMA PeersKeepFresh ==
  ASSUME TypeOK, StartsFresh, UNCHANGED <<start, attempt>>, NoneBegins PROVE StartsFresh'
<1> SUFFICES ASSUME NEW s \in Streams PROVE Fresh(s)'
    BY DEF StartsFresh
<1>1. Fresh(s) /\ <<2, s>> \in Bridges /\ Current(s) \in Bridges /\ Current(s)' = Current(s)
  BY DEF StartsFresh, Bridges, Current, TypeOK
<1>2. QED
  BY <1>1 DEF Fresh, NoneBegins

(* ... and one that moves that of s.                                       *)
LEMMA StartsKeepFresh ==
  ASSUME TypeOK, StartsFresh, NEW s \in Streams, Fresh(s)',
         \A q \in Streams \ {s} : start'[q] = start[q] /\ attempt'[q] = attempt[q],
         \A q \in Streams \ {s}, i \in {1, 2} : peer'[<<i, q>>] = "none" <=> peer[<<i, q>>] = "none"
  PROVE  StartsFresh'
<1> SUFFICES ASSUME NEW q \in Streams \ {s} PROVE Fresh(q)'
    BY DEF StartsFresh
<1>1. Fresh(q) /\ attempt[q] \in {1, 2}
  BY DEF StartsFresh, TypeOK
<1>2. /\ start'[q] = start[q] /\ attempt'[q] = attempt[q]
      /\ peer'[<<2, q>>] = "none" <=> peer[<<2, q>>] = "none"
      /\ peer'[<<attempt[q], q>>] = "none" <=> peer[<<attempt[q], q>>] = "none"
  BY <1>1
<1>3. QED
  BY <1>1, <1>2 DEF Fresh, Current

(* A stop is one of them.                                                  *)
LEMMA ClosingBeginsNone == TypeOK /\ OnlyCloses => NoneBegins
BY DEF OnlyCloses, NoneBegins

(* Every step keeps StartsFresh.                                           *)
LEMMA FreshInductive ==
  TypeOK /\ StartsFresh /\ PeersDescribed /\ [Next]_vars => StartsFresh'
<1> SUFFICES ASSUME TypeOK, StartsFresh, PeersDescribed, [Next]_vars PROVE StartsFresh'
    OBVIOUS
<1> USE DEF vars, streamVars, bridgeVars, iceVars, peerVars, connVars, mqttVars, callVars,
            deviceVars
<1>1. ASSUME NEW s \in Streams, Open(s) PROVE StartsFresh'
  <2>1. Fresh(s)
    BY DEF StartsFresh
  <2>2. Fresh(s)'
    BY <1>1, <2>1 DEF Open, Fresh, Current, Bridges, TypeOK
  <2>3. \A q \in Streams \ {s} : start'[q] = start[q] /\ attempt'[q] = attempt[q]
    BY <1>1 DEF Open, TypeOK
  <2>4. peer' = peer
    BY <1>1 DEF Open
  <2>5. QED
    BY <2>2, <2>3, <2>4, StartsKeepFresh
<1>2. ASSUME NEW s \in Streams, Join(s) PROVE StartsFresh'
  <2>1. UNCHANGED <<start, attempt, peer>>
    BY <1>2 DEF Join
  <2>2. QED
    BY <2>1, PeersKeepFresh DEF NoneBegins
<1>3. ASSUME NEW s \in Streams, Leave(s) PROVE StartsFresh'
  <2>1. UNCHANGED <<start, attempt, peer>>
    BY <1>3 DEF Leave
  <2>2. QED
    BY <2>1, PeersKeepFresh DEF NoneBegins
<1>4. ASSUME NEW s \in Streams, Shutdown(s) PROVE StartsFresh'
  <2>1. OnlyCloses /\ UNCHANGED <<start, attempt>>
    BY <1>4, StopStreamCloses DEF Shutdown
  <2>2. QED
    BY <2>1, ClosingBeginsNone, PeersKeepFresh
<1>5. ASSUME NEW s \in Streams, Attempt(s) PROVE StartsFresh'
  <2>1. Fresh(s)
    BY DEF StartsFresh
  <2>2. Fresh(s)'
    BY <1>5, <2>1 DEF Attempt, Fresh, Current, Bridges, TypeOK
  <2>3. \A q \in Streams \ {s} : start'[q] = start[q] /\ attempt'[q] = attempt[q]
    BY <1>5 DEF Attempt, TypeOK
  <2>4. peer' = peer
    BY <1>5 DEF Attempt
  <2>5. QED
    BY <2>2, <2>3, <2>4, StartsKeepFresh
<1>6. ASSUME NEW s \in Streams, Retry(s) PROVE StartsFresh'
  <2>1. Fresh(s)
    BY DEF StartsFresh
  <2>2. Fresh(s)'
    BY <1>6, <2>1 DEF Retry, Fresh, Current, Bridges, TypeOK
  <2>3. \A q \in Streams \ {s} : start'[q] = start[q] /\ attempt'[q] = attempt[q]
    BY <1>6 DEF Retry, TypeOK
  <2>4. peer' = peer
    BY <1>6 DEF Retry
  <2>5. QED
    BY <2>2, <2>3, <2>4, StartsKeepFresh
<1>7. ASSUME NEW s \in Streams, Abandon(s) PROVE StartsFresh'
  <2>1. Fresh(s)
    BY DEF StartsFresh
  <2>2. Fresh(s)'
    BY <1>7, <2>1 DEF Abandon, Fresh, Current, Bridges, TypeOK
  <2>3. \A q \in Streams \ {s} : start'[q] = start[q] /\ attempt'[q] = attempt[q]
    BY <1>7 DEF Abandon, TypeOK
  <2>4. peer' = peer
    BY <1>7 DEF Abandon
  <2>5. QED
    BY <2>2, <2>3, <2>4, StartsKeepFresh
<1>8. ASSUME NEW s \in Streams, StartOffers(s) PROVE StartsFresh'
  <2> DEFINE b == Current(s)
  <2>1. Fresh(s) /\ attempt[s] \in {1, 2} /\ attempt' = attempt
    BY <1>8 DEF StartsFresh, StartOffers, TypeOK
  <2>2. \/ peer' = peer /\ AttemptFails(s)
        \/ /\ peer' = [peer EXCEPT ![b] = "offered"]
           /\ AttemptFails(s) \/ start' = [start EXCEPT ![s] = "waiting"]
    BY <1>8 DEF StartOffers
  <2>3. b \in Bridges /\ <<2, s>> \in Bridges
    BY <2>1 DEF Current, Bridges
  <2>4. Fresh(s)'
    BY <2>1, <2>2, <2>3 DEF Fresh, AttemptFails, Current, TypeOK
  <2>5. /\ \A q \in Streams \ {s} : start'[q] = start[q] /\ attempt'[q] = attempt[q]
        /\ \A q \in Streams \ {s}, i \in {1, 2} : peer'[<<i, q>>] = peer[<<i, q>>]
    <3>1. \A q \in Streams \ {s}, i \in {1, 2} : <<i, q>> # b /\ <<i, q>> \in Bridges
      BY DEF Current, Bridges
    <3>2. \A q \in Streams \ {s}, i \in {1, 2} : peer'[<<i, q>>] = peer[<<i, q>>]
      <4>1. \A c \in Bridges : c # b => peer'[c] = peer[c]
        <5> HIDE DEF b
        <5>1. QED
          BY <2>2 DEF TypeOK
      <4>2. QED
        BY <3>1, <4>1
    <3>3. \A q \in Streams \ {s} : start'[q] = start[q] /\ attempt'[q] = attempt[q]
      BY <2>1, <2>2 DEF AttemptFails, TypeOK
    <3>4. QED
      BY <3>2, <3>3
  <2>6. QED
    BY <2>4, <2>5, StartsKeepFresh
<1>9. ASSUME NEW s \in Streams, StartSucceeds(s) PROVE StartsFresh'
  <2>1. Fresh(s)
    BY DEF StartsFresh
  <2>2. Fresh(s)'
    BY <1>9, <2>1 DEF StartSucceeds, Fresh, Current, Bridges, TypeOK
  <2>3. \A q \in Streams \ {s} : start'[q] = start[q] /\ attempt'[q] = attempt[q]
    BY <1>9 DEF StartSucceeds, TypeOK
  <2>4. peer' = peer
    BY <1>9 DEF StartSucceeds
  <2>5. QED
    BY <2>2, <2>3, <2>4, StartsKeepFresh
<1>10. ASSUME NEW s \in Streams, StartFails(s) PROVE StartsFresh'
  <2>1. Fresh(s)
    BY DEF StartsFresh
  <2>2. Fresh(s)'
    BY <1>10, <2>1 DEF StartFails, Fresh, Current, Bridges, TypeOK, AttemptFails
  <2>3. \A q \in Streams \ {s} : start'[q] = start[q] /\ attempt'[q] = attempt[q]
    BY <1>10 DEF StartFails, TypeOK, AttemptFails
  <2>4. peer' = peer
    BY <1>10 DEF StartFails
  <2>5. QED
    BY <2>2, <2>3, <2>4, StartsKeepFresh
<1>11. ASSUME NEW s \in Streams, GiveUp(s) PROVE StartsFresh'
  <2>1. NoneBegins
    BY <1>11, StopStreamCloses, ClosingBeginsNone DEF GiveUp
  <2>2. /\ start' = [start EXCEPT ![s] = "done"] /\ attempt' = attempt
        /\ \A q \in Streams, i \in {1, 2} : <<i, q>> \in Bridges
    BY <1>11 DEF GiveUp, Bridges
  <2>3. Fresh(s)
    BY DEF StartsFresh
  <2>4. Fresh(s)'
    BY <2>1, <2>2, <2>3 DEF Fresh, NoneBegins, TypeOK
  <2>5. QED
    BY <2>1, <2>2, <2>4, StartsKeepFresh DEF NoneBegins, TypeOK
<1>12. ASSUME NEW k \in Conns, Consume(k) PROVE StartsFresh'
  <2>1. CASE UNCHANGED <<iceVars, peer, callVars>>
    BY <1>12, <2>1, MessageHandled, PeersKeepFresh DEF NoneBegins
  <2>2. ASSUME NEW m \in Messages, m.to \in cameras[k], m.to \in Bridges,
               \/ TakeAnswer(m.to) /\ UNCHANGED callVars
               \/ TakeCandidate(m.to, m.n) /\ UNCHANGED callVars
               \/ Report(k, m) /\ UNCHANGED <<iceVars, peer>>
        PROVE  StartsFresh'
    <3>1. NoneBegins
      BY <2>2 DEF TakeAnswer, TakeCandidate, Report, NoneBegins, TypeOK
    <3>2. UNCHANGED streamVars
      BY <1>12, MessageHandled
    <3>3. QED
      BY <3>1, <3>2, PeersKeepFresh
  <2>3. QED
    BY <1>12, <2>1, <2>2, MessageHandled
<1>13. ASSUME NEW b \in Bridges, PeerConnects(b) PROVE StartsFresh'
  <2>1. NoneBegins /\ UNCHANGED <<start, attempt>>
    BY <1>13 DEF PeerConnects, NoneBegins, TypeOK
  <2>2. QED
    BY <2>1, PeersKeepFresh
<1>14. ASSUME NEW b \in Bridges, ChannelOpens(b) PROVE StartsFresh'
  <2>1. UNCHANGED <<start, attempt, peer>>
    BY <1>14 DEF ChannelOpens, ChannelStep
  <2>2. QED
    BY <2>1, PeersKeepFresh DEF NoneBegins
<1>15. ASSUME NEW b \in Bridges, ChannelCodec(b) PROVE StartsFresh'
  <2>1. UNCHANGED <<start, attempt, peer>>
    BY <1>15 DEF ChannelCodec, ChannelStep
  <2>2. QED
    BY <2>1, PeersKeepFresh DEF NoneBegins
<1>16. ASSUME NEW b \in Bridges, ChannelRecv(b) PROVE StartsFresh'
  <2>1. UNCHANGED <<start, attempt, peer>>
    BY <1>16 DEF ChannelRecv, ChannelStep, Succeed
  <2>2. QED
    BY <2>1, PeersKeepFresh DEF NoneBegins
<1>17. ASSUME NEW b \in Bridges, PeerFails(b) PROVE StartsFresh'
  <2>1. NoneBegins /\ UNCHANGED <<start, attempt>>
    BY <1>17 DEF PeerFails, NoneBegins, TypeOK
  <2>2. QED
    BY <2>1, PeersKeepFresh
<1>18. ASSUME NEW b \in Bridges, PeerAlarm(b) PROVE StartsFresh'
  <2>1. UNCHANGED <<start, attempt, peer>>
    BY <1>18 DEF PeerAlarm, Report, Message
  <2>2. QED
    BY <2>1, PeersKeepFresh DEF NoneBegins
<1>19. ASSUME NEW r \in Callers, TellWaiter(r) PROVE StartsFresh'
  <2>1. UNCHANGED <<start, attempt, peer>>
    BY <1>19 DEF TellWaiter
  <2>2. QED
    BY <2>1, PeersKeepFresh DEF NoneBegins
<1>20. ASSUME NEW r \in Callers, StoreError(r) PROVE StartsFresh'
  <2>1. UNCHANGED <<start, attempt, peer>>
    BY <1>20 DEF StoreError, Goes
  <2>2. QED
    BY <2>1, PeersKeepFresh DEF NoneBegins
<1>21. ASSUME NEW r \in Callers, CheckFlags(r) PROVE StartsFresh'
  <2>1. UNCHANGED <<start, attempt, peer>>
    BY <1>21 DEF CheckFlags, Goes
  <2>2. QED
    BY <2>1, PeersKeepFresh DEF NoneBegins
<1>22. ASSUME NEW r \in Callers, CountClients(r) PROVE StartsFresh'
  <2>1. UNCHANGED <<start, attempt, peer>>
    BY <1>22 DEF CountClients, Goes
  <2>2. QED
    BY <2>1, PeersKeepFresh DEF NoneBegins
<1>23. ASSUME NEW r \in Callers, ErrorStop(r) PROVE StartsFresh'
  <2>1. UNCHANGED <<start, attempt, peer>>
    BY <1>23 DEF ErrorStop, Goes
  <2>2. QED
    BY <2>1, PeersKeepFresh DEF NoneBegins
<1>24. ASSUME NEW r \in Callers, ErrorHalt(r) PROVE StartsFresh'
  <2>1. OnlyCloses /\ UNCHANGED <<start, attempt>>
    BY <1>24, ErrorHaltCloses DEF ErrorHalt
  <2>2. QED
    BY <2>1, ClosingBeginsNone, PeersKeepFresh
<1>25. ASSUME NEW r \in Callers, Drop(r) PROVE StartsFresh'
  <2>1. UNCHANGED <<start, attempt, peer>>
    BY <1>25 DEF Drop, Goes
  <2>2. QED
    BY <2>1, PeersKeepFresh DEF NoneBegins
<1>26. ASSUME NEW b \in Bridges, DeviceAnswers(b) PROVE StartsFresh'
  <2>1. UNCHANGED <<start, attempt, peer>>
    BY <1>26 DEF DeviceAnswers, Send, Message
  <2>2. QED
    BY <2>1, PeersKeepFresh DEF NoneBegins
<1>27. ASSUME NEW b \in Bridges, DeviceSendsCandidate(b) PROVE StartsFresh'
  <2>1. UNCHANGED <<start, attempt, peer>>
    BY <1>27 DEF DeviceSendsCandidate, Send, Message
  <2>2. QED
    BY <2>1, PeersKeepFresh DEF NoneBegins
<1>28. ASSUME NEW b \in Bridges, DeviceDisconnects(b) PROVE StartsFresh'
  <2>1. UNCHANGED <<start, attempt, peer>>
    BY <1>28 DEF DeviceDisconnects, Send, Message
  <2>2. QED
    BY <2>1, PeersKeepFresh DEF NoneBegins
<1>29. ASSUME NEW k \in Conns, ConnectionLost(k) PROVE StartsFresh'
  <2>1. UNCHANGED <<start, attempt, peer>>
    BY <1>29 DEF ConnectionLost
  <2>2. QED
    BY <2>1, PeersKeepFresh DEF NoneBegins
<1>30. CASE UNCHANGED vars
  BY <1>30, PeersKeepFresh DEF NoneBegins
<1>31. QED
  BY <1>1, <1>2, <1>3, <1>4, <1>5, <1>6, <1>7, <1>8, <1>9, <1>10, <1>11, <1>12, <1>13,
     <1>14, <1>15, <1>16, <1>17, <1>18, <1>19, <1>20, <1>21, <1>22, <1>23, <1>24, <1>25,
     <1>26, <1>27, <1>28, <1>29, <1>30
     DEF Next, Program, Peers, Starter, Callback

(* Every step keeps PeersDescribed.                                        *)
LEMMA DescribedInductive ==
  TypeOK /\ StartsFresh /\ PeersDescribed /\ [Next]_vars => PeersDescribed'
<1> SUFFICES ASSUME TypeOK, StartsFresh, PeersDescribed, [Next]_vars PROVE PeersDescribed'
    OBVIOUS
<1> USE DEF vars, streamVars, bridgeVars, iceVars, peerVars, connVars, mqttVars, callVars,
            deviceVars, TypeOK, StartsFresh, PeersDescribed, Current, Bridges
<1>1. ASSUME NEW s \in Streams, Open(s) PROVE PeersDescribed'
  BY <1>1 DEF Open, GetClient
<1>2. ASSUME NEW s \in Streams, Join(s) PROVE PeersDescribed'
  BY <1>2 DEF Join
<1>3. ASSUME NEW s \in Streams, Leave(s) PROVE PeersDescribed'
  BY <1>3 DEF Leave
<1>4. ASSUME NEW s \in Streams, Shutdown(s) PROVE PeersDescribed'
  <2>1. OnlyCloses
    BY <1>4, StopStreamCloses DEF Shutdown
  <2>2. QED
    BY <1>4, <2>1 DEF Shutdown, OnlyCloses
<1>5. ASSUME NEW s \in Streams, Attempt(s) PROVE PeersDescribed'
  BY <1>5 DEF Attempt
<1>6. ASSUME NEW s \in Streams, Retry(s) PROVE PeersDescribed'
  BY <1>6 DEF Retry, GetClient
<1>7. ASSUME NEW s \in Streams, Abandon(s) PROVE PeersDescribed'
  BY <1>7 DEF Abandon
<1>8. ASSUME NEW s \in Streams, StartOffers(s) PROVE PeersDescribed'
  <2> DEFINE b == Current(s)
  <2>1. b \in Bridges /\ peer[b] = "none" /\ UNCHANGED <<answered, connected>>
    BY <1>8, ZenonT(60) DEF StartOffers, Fresh
  <2>2. \/ UNCHANGED <<cameras, peer>>
        \/ /\ cameras' = [cameras EXCEPT ![link[b]] = @ \cup {b}]
           /\ peer' = [peer EXCEPT ![b] = "offered"]
    BY <1>8 DEF StartOffers
  <2>3. b \notin answered /\ b \notin connected
    BY <2>1
  <2> HIDE DEF b
  <2>4. CASE UNCHANGED <<cameras, peer>>
    BY <2>1, <2>4
  <2>5. ASSUME cameras' = [cameras EXCEPT ![link[b]] = @ \cup {b}],
               peer' = [peer EXCEPT ![b] = "offered"]
        PROVE  PeersDescribed'
    <3>1. peer'[b] = "offered" /\ \A c \in Bridges \ {b} : peer'[c] = peer[c]
      BY <2>1, <2>5
    <3>2. \A k \in Conns : cameras'[k] \subseteq cameras[k] \cup {b}
      BY <2>5
    <3>3. \A k \in Conns : \A c \in cameras'[k] : peer'[c] # "none"
      BY <3>1, <3>2, ZenonT(60)
    <3>4. QED
      BY <2>1, <2>3, <3>1, <3>3, ZenonT(60)
  <2>6. QED
    BY <2>2, <2>4, <2>5
<1>9. ASSUME NEW s \in Streams, StartSucceeds(s) PROVE PeersDescribed'
  <2>1. Current(s) \in Bridges /\ peer[Current(s)] # "none"
    BY <1>9 DEF StartSucceeds, Fresh
  <2>2. connected' = connected \cup {Current(s)} /\ UNCHANGED <<answered, peer, cameras>>
    BY <1>9 DEF StartSucceeds
  <2>3. QED
    BY <2>1, <2>2
<1>10. ASSUME NEW s \in Streams, StartFails(s) PROVE PeersDescribed'
  BY <1>10 DEF StartFails, AttemptFails
<1>11. ASSUME NEW s \in Streams, GiveUp(s) PROVE PeersDescribed'
  <2>1. OnlyCloses
    BY <1>11, StopStreamCloses DEF GiveUp
  <2>2. QED
    BY <1>11, <2>1, ZenonT(60) DEF GiveUp, OnlyCloses
<1>12. ASSUME NEW k \in Conns, Consume(k) PROVE PeersDescribed'
  <2>1. UNCHANGED <<streamVars, bridgeVars, channel, alarm, connVars, cameras>>
    BY <1>12, MessageHandled
  <2>2. CASE UNCHANGED <<iceVars, peer, callVars>>
    BY <2>1, <2>2
  <2>3. ASSUME NEW b \in Bridges, b \in cameras[k], TakeAnswer(b), UNCHANGED callVars
        PROVE  PeersDescribed'
    <3>1. /\ answered' = answered \cup {b} /\ peer[b] # "none"
          /\ peer' = [peer EXCEPT ![b] = IF @ = "offered" THEN "described" ELSE @]
      BY <2>3 DEF TakeAnswer
    <3>2. peer'[b] \notin {"none", "offered"} /\ \A c \in Bridges \ {b} : peer'[c] = peer[c]
      BY <3>1
    <3>3. \A c \in Bridges : peer[c] # "none" => peer'[c] # "none"
      BY <3>2
    <3>4. QED
      BY <2>1, <3>1, <3>2, <3>3
  <2>4. ASSUME NEW b \in Bridges, b \in cameras[k], NEW n, TakeCandidate(b, n), UNCHANGED callVars
        PROVE  PeersDescribed'
    BY <2>1, <2>4 DEF TakeCandidate
  <2>5. ASSUME NEW m \in Messages, Report(k, m), UNCHANGED <<iceVars, peer>>
        PROVE  PeersDescribed'
    BY <2>1, <2>5
  <2>6. QED
    BY <1>12, <2>2, <2>3, <2>4, <2>5, MessageHandled, ZenonT(60)
<1>13. ASSUME NEW b \in Bridges, PeerConnects(b) PROVE PeersDescribed'
  BY <1>13 DEF PeerConnects, Succeed
<1>14. ASSUME NEW b \in Bridges, ChannelOpens(b) PROVE PeersDescribed'
  BY <1>14 DEF ChannelOpens, ChannelStep
<1>15. ASSUME NEW b \in Bridges, ChannelCodec(b) PROVE PeersDescribed'
  BY <1>15 DEF ChannelCodec, ChannelStep
<1>16. ASSUME NEW b \in Bridges, ChannelRecv(b) PROVE PeersDescribed'
  BY <1>16 DEF ChannelRecv, ChannelStep, Succeed
<1>17. ASSUME NEW b \in Bridges, PeerFails(b) PROVE PeersDescribed'
  BY <1>17 DEF PeerFails
<1>18. ASSUME NEW b \in Bridges, PeerAlarm(b) PROVE PeersDescribed'
  BY <1>18 DEF PeerAlarm, Report, Message
<1>19. ASSUME NEW r \in Callers, TellWaiter(r) PROVE PeersDescribed'
  BY <1>19 DEF TellWaiter
<1>20. ASSUME NEW r \in Callers, StoreError(r) PROVE PeersDescribed'
  BY <1>20 DEF StoreError, Goes
<1>21. ASSUME NEW r \in Callers, CheckFlags(r) PROVE PeersDescribed'
  BY <1>21 DEF CheckFlags, Goes
<1>22. ASSUME NEW r \in Callers, CountClients(r) PROVE PeersDescribed'
  BY <1>22 DEF CountClients, Goes
<1>23. ASSUME NEW r \in Callers, ErrorStop(r) PROVE PeersDescribed'
  BY <1>23 DEF ErrorStop, Goes
<1>24. ASSUME NEW r \in Callers, ErrorHalt(r) PROVE PeersDescribed'
  <2>1. OnlyCloses
    BY <1>24, ErrorHaltCloses DEF ErrorHalt
  <2>2. QED
    BY <1>24, <2>1 DEF ErrorHalt, OnlyCloses
<1>25. ASSUME NEW r \in Callers, Drop(r) PROVE PeersDescribed'
  BY <1>25 DEF Drop, Goes
<1>26. ASSUME NEW b \in Bridges, DeviceAnswers(b) PROVE PeersDescribed'
  BY <1>26 DEF DeviceAnswers, Send, Message
<1>27. ASSUME NEW b \in Bridges, DeviceSendsCandidate(b) PROVE PeersDescribed'
  BY <1>27, SMTT(30) DEF DeviceSendsCandidate, Send, Message
<1>28. ASSUME NEW b \in Bridges, DeviceDisconnects(b) PROVE PeersDescribed'
  BY <1>28 DEF DeviceDisconnects, Send, Message
<1>29. ASSUME NEW k \in Conns, ConnectionLost(k) PROVE PeersDescribed'
  BY <1>29 DEF ConnectionLost
<1>30. CASE UNCHANGED vars
  BY <1>30
<1>31. QED
  BY <1>1, <1>2, <1>3, <1>4, <1>5, <1>6, <1>7, <1>8, <1>9, <1>10, <1>11, <1>12, <1>13,
     <1>14, <1>15, <1>16, <1>17, <1>18, <1>19, <1>20, <1>21, <1>22, <1>23, <1>24, <1>25,
     <1>26, <1>27, <1>28, <1>29, <1>30
     DEF Next, Program, Peers, Starter, Callback

(* Every step keeps AnswerFirst.                                           *)
LEMMA AnswerFirstInductive ==
  TypeOK /\ StartsFresh /\ PeersDescribed /\ AnswerFirst /\ [Next]_vars => AnswerFirst'
<1> SUFFICES ASSUME TypeOK, StartsFresh, PeersDescribed, AnswerFirst, [Next]_vars PROVE AnswerFirst'
    OBVIOUS
<1> USE DEF vars, streamVars, bridgeVars, iceVars, peerVars, connVars, mqttVars, callVars,
            deviceVars, TypeOK, StartsFresh, PeersDescribed, AnswerFirst, Current, Bridges
<1>1. ASSUME NEW s \in Streams, Open(s) PROVE AnswerFirst'
  BY <1>1 DEF Open, GetClient
<1>2. ASSUME NEW s \in Streams, Join(s) PROVE AnswerFirst'
  BY <1>2 DEF Join
<1>3. ASSUME NEW s \in Streams, Leave(s) PROVE AnswerFirst'
  BY <1>3 DEF Leave
<1>4. ASSUME NEW s \in Streams, Shutdown(s) PROVE AnswerFirst'
  <2>1. OnlyCloses
    BY <1>4, StopStreamCloses DEF Shutdown
  <2>2. QED
    BY <1>4, <2>1 DEF Shutdown, OnlyCloses
<1>5. ASSUME NEW s \in Streams, Attempt(s) PROVE AnswerFirst'
  BY <1>5 DEF Attempt
<1>6. ASSUME NEW s \in Streams, Retry(s) PROVE AnswerFirst'
  BY <1>6 DEF Retry, GetClient
<1>7. ASSUME NEW s \in Streams, Abandon(s) PROVE AnswerFirst'
  BY <1>7 DEF Abandon
<1>8. ASSUME NEW s \in Streams, StartOffers(s) PROVE AnswerFirst'
  <2> DEFINE b == Current(s)
  <2>1. b \in Bridges /\ peer[b] = "none" /\ UNCHANGED <<applied, pending>>
    BY <1>8, ZenonT(60) DEF StartOffers, Fresh
  <2>2. peer' = peer \/ peer' = [peer EXCEPT ![b] = "offered"]
    BY <1>8 DEF StartOffers
  <2>3. applied[b] = <<>>
    BY <2>1
  <2> HIDE DEF b
  <2>4. QED
    BY <2>1, <2>2, <2>3
<1>9. ASSUME NEW s \in Streams, StartSucceeds(s) PROVE AnswerFirst'
  BY <1>9 DEF StartSucceeds
<1>10. ASSUME NEW s \in Streams, StartFails(s) PROVE AnswerFirst'
  BY <1>10 DEF StartFails, AttemptFails
<1>11. ASSUME NEW s \in Streams, GiveUp(s) PROVE AnswerFirst'
  <2>1. OnlyCloses
    BY <1>11, StopStreamCloses DEF GiveUp
  <2>2. QED
    BY <1>11, <2>1 DEF GiveUp, OnlyCloses
<1>12. ASSUME NEW k \in Conns, Consume(k) PROVE AnswerFirst'
  <2>1. UNCHANGED <<streamVars, bridgeVars, channel, alarm, connVars, cameras>>
    BY <1>12, MessageHandled
  <2>2. CASE UNCHANGED <<iceVars, peer, callVars>>
    BY <2>1, <2>2
  <2>3. ASSUME NEW b \in Bridges, b \in cameras[k], TakeAnswer(b), UNCHANGED callVars
        PROVE  AnswerFirst'
    <3>1. /\ pending' = [pending EXCEPT ![b] = <<>>] /\ peer[b] # "none"
          /\ peer' = [peer EXCEPT ![b] = IF @ = "offered" THEN "described" ELSE @]
          /\ \A c \in Bridges \ {b} : applied'[c] = applied[c]
      BY <2>3 DEF TakeAnswer
    <3>2. peer'[b] \notin {"none", "offered"} /\ \A c \in Bridges \ {b} : peer'[c] = peer[c]
      BY <3>1
    <3>3. pending'[b] = <<>> /\ \A c \in Bridges \ {b} : pending'[c] = pending[c]
      BY <3>1
    <3>4. QED
      BY <3>1, <3>2, <3>3
  <2>4. ASSUME NEW b \in Bridges, b \in cameras[k], NEW n, TakeCandidate(b, n), UNCHANGED callVars
        PROVE  AnswerFirst'
    BY <2>4 DEF TakeCandidate
  <2>5. ASSUME NEW m \in Messages, Report(k, m), UNCHANGED <<iceVars, peer>>
        PROVE  AnswerFirst'
    BY <2>5
  <2>6. QED
    BY <1>12, <2>2, <2>3, <2>4, <2>5, MessageHandled
<1>13. ASSUME NEW b \in Bridges, PeerConnects(b) PROVE AnswerFirst'
  BY <1>13 DEF PeerConnects, Succeed
<1>14. ASSUME NEW b \in Bridges, ChannelOpens(b) PROVE AnswerFirst'
  BY <1>14 DEF ChannelOpens, ChannelStep
<1>15. ASSUME NEW b \in Bridges, ChannelCodec(b) PROVE AnswerFirst'
  BY <1>15 DEF ChannelCodec, ChannelStep
<1>16. ASSUME NEW b \in Bridges, ChannelRecv(b) PROVE AnswerFirst'
  BY <1>16 DEF ChannelRecv, ChannelStep, Succeed
<1>17. ASSUME NEW b \in Bridges, PeerFails(b) PROVE AnswerFirst'
  BY <1>17 DEF PeerFails
<1>18. ASSUME NEW b \in Bridges, PeerAlarm(b) PROVE AnswerFirst'
  BY <1>18 DEF PeerAlarm, Report, Message
<1>19. ASSUME NEW r \in Callers, TellWaiter(r) PROVE AnswerFirst'
  BY <1>19 DEF TellWaiter
<1>20. ASSUME NEW r \in Callers, StoreError(r) PROVE AnswerFirst'
  BY <1>20 DEF StoreError, Goes
<1>21. ASSUME NEW r \in Callers, CheckFlags(r) PROVE AnswerFirst'
  BY <1>21 DEF CheckFlags, Goes
<1>22. ASSUME NEW r \in Callers, CountClients(r) PROVE AnswerFirst'
  BY <1>22 DEF CountClients, Goes
<1>23. ASSUME NEW r \in Callers, ErrorStop(r) PROVE AnswerFirst'
  BY <1>23 DEF ErrorStop, Goes
<1>24. ASSUME NEW r \in Callers, ErrorHalt(r) PROVE AnswerFirst'
  <2>1. OnlyCloses
    BY <1>24, ErrorHaltCloses DEF ErrorHalt
  <2>2. QED
    BY <1>24, <2>1 DEF ErrorHalt, OnlyCloses
<1>25. ASSUME NEW r \in Callers, Drop(r) PROVE AnswerFirst'
  BY <1>25 DEF Drop, Goes
<1>26. ASSUME NEW b \in Bridges, DeviceAnswers(b) PROVE AnswerFirst'
  BY <1>26 DEF DeviceAnswers, Send, Message
<1>27. ASSUME NEW b \in Bridges, DeviceSendsCandidate(b) PROVE AnswerFirst'
  BY <1>27 DEF DeviceSendsCandidate, Send, Message
<1>28. ASSUME NEW b \in Bridges, DeviceDisconnects(b) PROVE AnswerFirst'
  BY <1>28 DEF DeviceDisconnects, Send, Message
<1>29. ASSUME NEW k \in Conns, ConnectionLost(k) PROVE AnswerFirst'
  BY <1>29 DEF ConnectionLost
<1>30. CASE UNCHANGED vars
  BY <1>30
<1>31. QED
  BY <1>1, <1>2, <1>3, <1>4, <1>5, <1>6, <1>7, <1>8, <1>9, <1>10, <1>11, <1>12, <1>13,
     <1>14, <1>15, <1>16, <1>17, <1>18, <1>19, <1>20, <1>21, <1>22, <1>23, <1>24, <1>25,
     <1>26, <1>27, <1>28, <1>29, <1>30
     DEF Next, Program, Peers, Starter, Callback

(* Every step keeps SuccessIsEarned.                                       *)
LEMMA SuccessInductive ==
  TypeOK /\ PeersDescribed /\ SuccessIsEarned /\ [Next]_vars => SuccessIsEarned'
<1> SUFFICES ASSUME TypeOK, PeersDescribed, SuccessIsEarned, [Next]_vars PROVE SuccessIsEarned'
    OBVIOUS
<1> USE DEF vars, streamVars, bridgeVars, iceVars, peerVars, connVars, mqttVars, callVars,
            deviceVars, TypeOK, PeersDescribed, SuccessIsEarned
<1>1. ASSUME NEW s \in Streams, Open(s) PROVE SuccessIsEarned'
  BY <1>1 DEF Open, GetClient
<1>2. ASSUME NEW s \in Streams, Join(s) PROVE SuccessIsEarned'
  BY <1>2 DEF Join
<1>3. ASSUME NEW s \in Streams, Leave(s) PROVE SuccessIsEarned'
  BY <1>3 DEF Leave
<1>4. ASSUME NEW s \in Streams, Shutdown(s) PROVE SuccessIsEarned'
  BY <1>4 DEF Shutdown
<1>5. ASSUME NEW s \in Streams, Attempt(s) PROVE SuccessIsEarned'
  BY <1>5 DEF Attempt
<1>6. ASSUME NEW s \in Streams, Retry(s) PROVE SuccessIsEarned'
  BY <1>6 DEF Retry, GetClient
<1>7. ASSUME NEW s \in Streams, Abandon(s) PROVE SuccessIsEarned'
  BY <1>7 DEF Abandon
<1>8. ASSUME NEW s \in Streams, StartOffers(s) PROVE SuccessIsEarned'
  BY <1>8 DEF StartOffers, AttemptFails
<1>9. ASSUME NEW s \in Streams, StartSucceeds(s) PROVE SuccessIsEarned'
  BY <1>9 DEF StartSucceeds
<1>10. ASSUME NEW s \in Streams, StartFails(s) PROVE SuccessIsEarned'
  BY <1>10 DEF StartFails, AttemptFails
<1>11. ASSUME NEW s \in Streams, GiveUp(s) PROVE SuccessIsEarned'
  BY <1>11 DEF GiveUp
<1>12. ASSUME NEW k \in Conns, Consume(k) PROVE SuccessIsEarned'
  <2>1. UNCHANGED <<streamVars, bridgeVars, channel, alarm, connVars, cameras>>
    BY <1>12, MessageHandled
  <2>2. CASE UNCHANGED <<iceVars, peer, callVars>>
    BY <2>1, <2>2
  <2>3. ASSUME NEW b \in Bridges, b \in cameras[k], TakeAnswer(b), UNCHANGED callVars
        PROVE  SuccessIsEarned'
    BY <2>1, <2>3 DEF TakeAnswer
  <2>4. ASSUME NEW b \in Bridges, b \in cameras[k], NEW n, TakeCandidate(b, n), UNCHANGED callVars
        PROVE  SuccessIsEarned'
    BY <2>1, <2>4 DEF TakeCandidate
  <2>5. ASSUME NEW m \in Messages, Report(k, m), UNCHANGED <<iceVars, peer>>
        PROVE  SuccessIsEarned'
    BY <2>1, <2>5
  <2>6. QED
    BY <1>12, <2>2, <2>3, <2>4, <2>5, MessageHandled
<1>13. ASSUME NEW b \in Bridges, PeerConnects(b) PROVE SuccessIsEarned'
  BY <1>13 DEF PeerConnects, Succeed
<1>14. ASSUME NEW b \in Bridges, ChannelOpens(b) PROVE SuccessIsEarned'
  BY <1>14 DEF ChannelOpens, ChannelStep
<1>15. ASSUME NEW b \in Bridges, ChannelCodec(b) PROVE SuccessIsEarned'
  BY <1>15 DEF ChannelCodec, ChannelStep
<1>16. ASSUME NEW b \in Bridges, ChannelRecv(b) PROVE SuccessIsEarned'
  BY <1>16 DEF ChannelRecv, ChannelStep, Succeed
<1>17. ASSUME NEW b \in Bridges, PeerFails(b) PROVE SuccessIsEarned'
  BY <1>17 DEF PeerFails
<1>18. ASSUME NEW b \in Bridges, PeerAlarm(b) PROVE SuccessIsEarned'
  BY <1>18 DEF PeerAlarm, Report, Message
<1>19. ASSUME NEW r \in Callers, TellWaiter(r) PROVE SuccessIsEarned'
  BY <1>19 DEF TellWaiter
<1>20. ASSUME NEW r \in Callers, StoreError(r) PROVE SuccessIsEarned'
  BY <1>20 DEF StoreError, Goes
<1>21. ASSUME NEW r \in Callers, CheckFlags(r) PROVE SuccessIsEarned'
  BY <1>21 DEF CheckFlags, Goes
<1>22. ASSUME NEW r \in Callers, CountClients(r) PROVE SuccessIsEarned'
  BY <1>22 DEF CountClients, Goes
<1>23. ASSUME NEW r \in Callers, ErrorStop(r) PROVE SuccessIsEarned'
  BY <1>23 DEF ErrorStop, Goes
<1>24. ASSUME NEW r \in Callers, ErrorHalt(r) PROVE SuccessIsEarned'
  BY <1>24 DEF ErrorHalt
<1>25. ASSUME NEW r \in Callers, Drop(r) PROVE SuccessIsEarned'
  BY <1>25 DEF Drop, Goes
<1>26. ASSUME NEW b \in Bridges, DeviceAnswers(b) PROVE SuccessIsEarned'
  BY <1>26 DEF DeviceAnswers, Send, Message
<1>27. ASSUME NEW b \in Bridges, DeviceSendsCandidate(b) PROVE SuccessIsEarned'
  BY <1>27 DEF DeviceSendsCandidate, Send, Message
<1>28. ASSUME NEW b \in Bridges, DeviceDisconnects(b) PROVE SuccessIsEarned'
  BY <1>28 DEF DeviceDisconnects, Send, Message
<1>29. ASSUME NEW k \in Conns, ConnectionLost(k) PROVE SuccessIsEarned'
  BY <1>29 DEF ConnectionLost
<1>30. CASE UNCHANGED vars
  BY <1>30
<1>31. QED
  BY <1>1, <1>2, <1>3, <1>4, <1>5, <1>6, <1>7, <1>8, <1>9, <1>10, <1>11, <1>12, <1>13,
     <1>14, <1>15, <1>16, <1>17, <1>18, <1>19, <1>20, <1>21, <1>22, <1>23, <1>24, <1>25,
     <1>26, <1>27, <1>28, <1>29, <1>30
     DEF Next, Program, Peers, Starter, Callback

(* Every step keeps LatchBeforeLock.                                       *)
LEMMA LatchInductive ==
  TypeOK /\ LatchBeforeLock /\ [Next]_vars => LatchBeforeLock'
<1> SUFFICES ASSUME TypeOK, LatchBeforeLock, [Next]_vars PROVE LatchBeforeLock'
    OBVIOUS
<1> USE DEF vars, streamVars, bridgeVars, iceVars, peerVars, connVars, mqttVars, callVars,
            deviceVars, TypeOK, LatchBeforeLock, Subject
<1>1. ASSUME NEW s \in Streams, Open(s) PROVE LatchBeforeLock'
  BY <1>1 DEF Open, GetClient
<1>2. ASSUME NEW s \in Streams, Join(s) PROVE LatchBeforeLock'
  BY <1>2 DEF Join
<1>3. ASSUME NEW s \in Streams, Leave(s) PROVE LatchBeforeLock'
  BY <1>3 DEF Leave
<1>4. ASSUME NEW s \in Streams, Shutdown(s) PROVE LatchBeforeLock'
  BY <1>4 DEF Shutdown
<1>5. ASSUME NEW s \in Streams, Attempt(s) PROVE LatchBeforeLock'
  BY <1>5 DEF Attempt
<1>6. ASSUME NEW s \in Streams, Retry(s) PROVE LatchBeforeLock'
  BY <1>6 DEF Retry, GetClient
<1>7. ASSUME NEW s \in Streams, Abandon(s) PROVE LatchBeforeLock'
  BY <1>7 DEF Abandon
<1>8. ASSUME NEW s \in Streams, StartOffers(s) PROVE LatchBeforeLock'
  BY <1>8 DEF StartOffers, AttemptFails
<1>9. ASSUME NEW s \in Streams, StartSucceeds(s) PROVE LatchBeforeLock'
  BY <1>9 DEF StartSucceeds
<1>10. ASSUME NEW s \in Streams, StartFails(s) PROVE LatchBeforeLock'
  BY <1>10 DEF StartFails, AttemptFails
<1>11. ASSUME NEW s \in Streams, GiveUp(s) PROVE LatchBeforeLock'
  BY <1>11 DEF GiveUp
<1>12. ASSUME NEW k \in Conns, Consume(k) PROVE LatchBeforeLock'
  <2>1. UNCHANGED <<streamVars, bridgeVars, channel, alarm, connVars, cameras>>
    BY <1>12, MessageHandled
  <2>2. CASE UNCHANGED <<iceVars, peer, callVars>>
    BY <2>1, <2>2
  <2>3. ASSUME NEW b \in Bridges, b \in cameras[k], TakeAnswer(b), UNCHANGED callVars
        PROVE  LatchBeforeLock'
    BY <2>1, <2>3
  <2>4. ASSUME NEW b \in Bridges, b \in cameras[k], NEW n, TakeCandidate(b, n), UNCHANGED callVars
        PROVE  LatchBeforeLock'
    BY <2>1, <2>4
  <2>5. ASSUME NEW m \in Messages, Report(k, m), UNCHANGED <<iceVars, peer>>
        PROVE  LatchBeforeLock'
    <3>1. k \in Callers
      BY DEF Callers
    <3>2. stage'[k] = "tell" /\ \A r \in Callers \ {k} : stage'[r] = stage[r] /\ job'[r] = job[r]
      BY <2>5, <3>1 DEF Report
    <3>3. QED
      BY <2>1, <3>2
  <2>6. QED
    BY <1>12, <2>2, <2>3, <2>4, <2>5, MessageHandled
<1>13. ASSUME NEW b \in Bridges, PeerConnects(b) PROVE LatchBeforeLock'
  <2>0. /\ UNCHANGED callVars
        /\ \A c \in Bridges : waiter'[c] = waiter[c] \/ (waiter[c] = "open" /\ waiter'[c] = "ok")
    <3>1. waiter' = waiter \/ waiter' = [waiter EXCEPT ![b] = IF @ = "open" THEN "ok" ELSE @]
      BY <1>13 DEF PeerConnects, Succeed
    <3>2. UNCHANGED callVars
      BY <1>13 DEF PeerConnects
    <3>3. CASE waiter' = waiter
      BY <3>2, <3>3
    <3>4. CASE waiter' = [waiter EXCEPT ![b] = IF @ = "open" THEN "ok" ELSE @]
      <4>1. waiter'[b] = waiter[b] \/ (waiter[b] = "open" /\ waiter'[b] = "ok")
        BY <3>4
      <4>2. \A c \in Bridges \ {b} : waiter'[c] = waiter[c]
        BY <3>4
      <4>3. QED
        BY <3>2, <4>1, <4>2
    <3>5. QED
      BY <3>1, <3>3, <3>4
  <2>1. \A r \in Callers : stage[r] # "idle" => Subject(r) \in Bridges
    BY DEF Messages
  <2>2. QED
    BY <2>0, <2>1
<1>14. ASSUME NEW b \in Bridges, ChannelOpens(b) PROVE LatchBeforeLock'
  BY <1>14 DEF ChannelOpens, ChannelStep
<1>15. ASSUME NEW b \in Bridges, ChannelCodec(b) PROVE LatchBeforeLock'
  BY <1>15 DEF ChannelCodec, ChannelStep
<1>16. ASSUME NEW b \in Bridges, ChannelRecv(b) PROVE LatchBeforeLock'
  BY <1>16 DEF ChannelRecv, ChannelStep, Succeed
<1>17. ASSUME NEW b \in Bridges, PeerFails(b) PROVE LatchBeforeLock'
  BY <1>17 DEF PeerFails
<1>18. ASSUME NEW b \in Bridges, PeerAlarm(b) PROVE LatchBeforeLock'
  BY <1>18 DEF PeerAlarm, Report, Message
<1>19. ASSUME NEW r \in Callers, TellWaiter(r) PROVE LatchBeforeLock'
  <2> DEFINE b == Subject(r)
  <2>1. b \in Bridges /\ \A q \in Callers : stage[q] # "idle" => Subject(q) \in Bridges
    BY <1>19 DEF TellWaiter, Messages
  <2>2. /\ stage' = [stage EXCEPT ![r] = IF waiter[b] = "open" THEN "store" ELSE "check"]
        /\ waiter' = [waiter EXCEPT ![b] = IF @ = "open" THEN "failing" ELSE @]
        /\ job' = job /\ waiter[b] # "failing"
    BY <1>19 DEF TellWaiter
  <2>3. \A c \in Bridges : waiter[c] \in {"ok", "err"} => waiter'[c] = waiter[c]
    BY <2>1, <2>2
  <2>4. /\ stage'[r] = "check" => waiter[b] \in {"ok", "err"}
        /\ stage'[r] \in {"store", "check"}
    BY <2>1, <2>2
  <2>5. \A q \in Callers \ {r} : stage'[q] = stage[q]
    BY <2>2
  <2>6. QED
    BY <2>1, <2>2, <2>3, <2>4, <2>5
<1>20. ASSUME NEW r \in Callers, StoreError(r) PROVE LatchBeforeLock'
  <2>1. Subject(r) \in Bridges /\ stage'[r] \in {"check", "drop", "idle"}
    BY <1>20 DEF StoreError, Goes, Messages
  <2>2. waiter' = [waiter EXCEPT ![Subject(r)] = "err"]
    BY <1>20 DEF StoreError
  <2>3. /\ \A q \in Callers \ {r} : stage'[q] = stage[q] /\ job'[q] = job[q]
        /\ stage'[r] = "check" /\ job'[r] = job[r]
    BY <1>20 DEF StoreError, Goes
  <2>4. \A c \in Bridges : waiter[c] \in {"ok", "err"} => waiter'[c] \in {"ok", "err"}
    BY <2>1, <2>2
  <2>5. waiter'[Subject(r)] = "err"
    BY <2>1, <2>2
  <2>6. \A q \in Callers : stage[q] # "idle" => Subject(q) \in Bridges
    BY DEF Messages
  <2>7. QED
    BY <2>3, <2>4, <2>5, <2>6, ZenonT(60)
<1>21. ASSUME NEW r \in Callers, CheckFlags(r) PROVE LatchBeforeLock'
  BY <1>21 DEF CheckFlags, Goes
<1>22. ASSUME NEW r \in Callers, CountClients(r) PROVE LatchBeforeLock'
  BY <1>22 DEF CountClients, Goes
<1>23. ASSUME NEW r \in Callers, ErrorStop(r) PROVE LatchBeforeLock'
  BY <1>23 DEF ErrorStop, Goes
<1>24. ASSUME NEW r \in Callers, ErrorHalt(r) PROVE LatchBeforeLock'
  BY <1>24 DEF ErrorHalt, Goes
<1>25. ASSUME NEW r \in Callers, Drop(r) PROVE LatchBeforeLock'
  BY <1>25 DEF Drop, Goes
<1>26. ASSUME NEW b \in Bridges, DeviceAnswers(b) PROVE LatchBeforeLock'
  BY <1>26 DEF DeviceAnswers, Send, Message
<1>27. ASSUME NEW b \in Bridges, DeviceSendsCandidate(b) PROVE LatchBeforeLock'
  BY <1>27 DEF DeviceSendsCandidate, Send, Message
<1>28. ASSUME NEW b \in Bridges, DeviceDisconnects(b) PROVE LatchBeforeLock'
  BY <1>28 DEF DeviceDisconnects, Send, Message
<1>29. ASSUME NEW k \in Conns, ConnectionLost(k) PROVE LatchBeforeLock'
  BY <1>29 DEF ConnectionLost
<1>30. CASE UNCHANGED vars
  BY <1>30
<1>31. QED
  BY <1>1, <1>2, <1>3, <1>4, <1>5, <1>6, <1>7, <1>8, <1>9, <1>10, <1>11, <1>12, <1>13,
     <1>14, <1>15, <1>16, <1>17, <1>18, <1>19, <1>20, <1>21, <1>22, <1>23, <1>24, <1>25,
     <1>26, <1>27, <1>28, <1>29, <1>30
     DEF Next, Program, Peers, Starter, Callback

(* Every step keeps ErrorsBeingStored.                                     *)
LEMMA StoredInductive ==
  TypeOK /\ ErrorsBeingStored /\ [Next]_vars => ErrorsBeingStored'
<1> SUFFICES ASSUME TypeOK, ErrorsBeingStored, [Next]_vars PROVE ErrorsBeingStored'
    OBVIOUS
<1> USE DEF vars, streamVars, bridgeVars, iceVars, peerVars, connVars, mqttVars, callVars,
            deviceVars, TypeOK, ErrorsBeingStored, Subject
<1>1. ASSUME NEW s \in Streams, Open(s) PROVE ErrorsBeingStored'
  BY <1>1 DEF Open, GetClient
<1>2. ASSUME NEW s \in Streams, Join(s) PROVE ErrorsBeingStored'
  BY <1>2 DEF Join
<1>3. ASSUME NEW s \in Streams, Leave(s) PROVE ErrorsBeingStored'
  BY <1>3 DEF Leave
<1>4. ASSUME NEW s \in Streams, Shutdown(s) PROVE ErrorsBeingStored'
  BY <1>4 DEF Shutdown
<1>5. ASSUME NEW s \in Streams, Attempt(s) PROVE ErrorsBeingStored'
  BY <1>5 DEF Attempt
<1>6. ASSUME NEW s \in Streams, Retry(s) PROVE ErrorsBeingStored'
  BY <1>6 DEF Retry, GetClient
<1>7. ASSUME NEW s \in Streams, Abandon(s) PROVE ErrorsBeingStored'
  BY <1>7 DEF Abandon
<1>8. ASSUME NEW s \in Streams, StartOffers(s) PROVE ErrorsBeingStored'
  BY <1>8 DEF StartOffers, AttemptFails
<1>9. ASSUME NEW s \in Streams, StartSucceeds(s) PROVE ErrorsBeingStored'
  BY <1>9 DEF StartSucceeds
<1>10. ASSUME NEW s \in Streams, StartFails(s) PROVE ErrorsBeingStored'
  BY <1>10 DEF StartFails, AttemptFails
<1>11. ASSUME NEW s \in Streams, GiveUp(s) PROVE ErrorsBeingStored'
  BY <1>11 DEF GiveUp
<1>12. ASSUME NEW k \in Conns, Consume(k) PROVE ErrorsBeingStored'
  <2>1. UNCHANGED <<streamVars, bridgeVars, channel, alarm, connVars, cameras>>
    BY <1>12, MessageHandled
  <2>2. CASE UNCHANGED <<iceVars, peer, callVars>>
    BY <2>1, <2>2
  <2>3. ASSUME NEW b \in Bridges, b \in cameras[k], TakeAnswer(b), UNCHANGED callVars
        PROVE  ErrorsBeingStored'
    BY <2>1, <2>3
  <2>4. ASSUME NEW b \in Bridges, b \in cameras[k], NEW n, TakeCandidate(b, n), UNCHANGED callVars
        PROVE  ErrorsBeingStored'
    BY <2>1, <2>4
  <2>5. ASSUME NEW m \in Messages, Report(k, m), UNCHANGED <<iceVars, peer>>
        PROVE  ErrorsBeingStored'
    <3>1. k \in Callers
      BY DEF Callers
    <3>2. stage'[k] = "tell" /\ \A r \in Callers \ {k} : stage'[r] = stage[r] /\ job'[r] = job[r]
      BY <2>5, <3>1 DEF Report
    <3>3. \A r \in Callers : stage'[r] = "store" => stage[r] = "store" /\ job'[r] = job[r]
      BY <3>2
    <3>4. QED
      BY <2>1, <3>3
  <2>6. QED
    BY <1>12, <2>2, <2>3, <2>4, <2>5, MessageHandled
<1>13. ASSUME NEW b \in Bridges, PeerConnects(b) PROVE ErrorsBeingStored'
  <2>0. /\ UNCHANGED callVars
        /\ \A c \in Bridges : waiter'[c] = waiter[c] \/ (waiter[c] = "open" /\ waiter'[c] = "ok")
    <3>1. waiter' = waiter \/ waiter' = [waiter EXCEPT ![b] = IF @ = "open" THEN "ok" ELSE @]
      BY <1>13 DEF PeerConnects, Succeed
    <3>2. UNCHANGED callVars
      BY <1>13 DEF PeerConnects
    <3>3. CASE waiter' = waiter
      BY <3>2, <3>3
    <3>4. CASE waiter' = [waiter EXCEPT ![b] = IF @ = "open" THEN "ok" ELSE @]
      <4>1. waiter'[b] = waiter[b] \/ (waiter[b] = "open" /\ waiter'[b] = "ok")
        BY <3>4
      <4>2. \A c \in Bridges \ {b} : waiter'[c] = waiter[c]
        BY <3>4
      <4>3. QED
        BY <3>2, <4>1, <4>2
    <3>5. QED
      BY <3>1, <3>3, <3>4
  <2>1. \A r \in Callers : stage[r] # "idle" => Subject(r) \in Bridges
    BY DEF Messages
  <2>2. QED
    BY <2>0, <2>1
<1>14. ASSUME NEW b \in Bridges, ChannelOpens(b) PROVE ErrorsBeingStored'
  BY <1>14 DEF ChannelOpens, ChannelStep
<1>15. ASSUME NEW b \in Bridges, ChannelCodec(b) PROVE ErrorsBeingStored'
  BY <1>15 DEF ChannelCodec, ChannelStep
<1>16. ASSUME NEW b \in Bridges, ChannelRecv(b) PROVE ErrorsBeingStored'
  BY <1>16 DEF ChannelRecv, ChannelStep, Succeed
<1>17. ASSUME NEW b \in Bridges, PeerFails(b) PROVE ErrorsBeingStored'
  BY <1>17 DEF PeerFails
<1>18. ASSUME NEW b \in Bridges, PeerAlarm(b) PROVE ErrorsBeingStored'
  BY <1>18 DEF PeerAlarm, Report, Message
<1>19. ASSUME NEW r \in Callers, TellWaiter(r) PROVE ErrorsBeingStored'
  <2> DEFINE b == Subject(r)
  <2>1. b \in Bridges /\ \A q \in Callers : stage[q] # "idle" => Subject(q) \in Bridges
    BY <1>19 DEF TellWaiter, Messages
  <2>2. /\ stage' = [stage EXCEPT ![r] = IF waiter[b] = "open" THEN "store" ELSE "check"]
        /\ waiter' = [waiter EXCEPT ![b] = IF @ = "open" THEN "failing" ELSE @]
        /\ job' = job
    BY <1>19 DEF TellWaiter
  <2>3. \A q \in Callers \ {r} : stage'[q] = stage[q]
    BY <2>2
  <2>4. CASE waiter[b] = "open"
    <3>1. \A q \in Callers : stage[q] = "store" => Subject(q) # b
      BY <2>4
    <3>2. waiter'[b] = "failing" /\ \A c \in Bridges \ {b} : waiter'[c] = waiter[c]
      BY <2>1, <2>2, <2>4
    <3>3. \A q \in Callers : Subject(q)' = Subject(q)
      BY <2>2
    <3>4. \A q \in Callers : stage'[q] = "store" => waiter'[Subject(q)'] = "failing"
      <4>1. ASSUME NEW q \in Callers \ {r}, stage'[q] = "store" PROVE waiter'[Subject(q)'] = "failing"
        <5>1. stage[q] = "store" /\ Subject(q) \in Bridges \ {b} /\ Subject(q)' = Subject(q)
          BY <2>1, <2>3, <3>1, <3>3, <4>1
        <5>2. QED
          BY <3>2, <5>1
      <4>2. waiter'[Subject(r)'] = "failing"
        BY <3>2, <3>3
      <4>3. QED
        BY <4>1, <4>2
    <3>5. \A q \in Callers \ {r} : stage'[q] = "store" => Subject(q)' # Subject(r)'
      BY <2>3, <3>1, <3>3
    <3>6. ASSUME NEW p \in Callers, NEW q \in Callers, stage'[p] = "store", stage'[q] = "store",
                 Subject(p)' = Subject(q)'
          PROVE  p = q
      <4>1. CASE p # r /\ q # r
        BY <2>3, <3>3, <3>6, <4>1
      <4>2. CASE p = r \/ q = r
        BY <3>5, <3>6, <4>2
      <4>3. QED
        BY <4>1, <4>2
    <3>7. QED
      BY <3>4, <3>6
  <2>5. CASE waiter[b] # "open"
    <3>1. waiter' = waiter /\ stage'[r] = "check"
      BY <2>1, <2>2, <2>5
    <3>2. QED
      BY <2>2, <2>3, <3>1
  <2>6. QED
    BY <2>4, <2>5
<1>20. ASSUME NEW r \in Callers, StoreError(r) PROVE ErrorsBeingStored'
  BY <1>20 DEF StoreError, Goes
<1>21. ASSUME NEW r \in Callers, CheckFlags(r) PROVE ErrorsBeingStored'
  BY <1>21 DEF CheckFlags, Goes
<1>22. ASSUME NEW r \in Callers, CountClients(r) PROVE ErrorsBeingStored'
  BY <1>22 DEF CountClients, Goes
<1>23. ASSUME NEW r \in Callers, ErrorStop(r) PROVE ErrorsBeingStored'
  BY <1>23 DEF ErrorStop, Goes
<1>24. ASSUME NEW r \in Callers, ErrorHalt(r) PROVE ErrorsBeingStored'
  BY <1>24 DEF ErrorHalt, Goes
<1>25. ASSUME NEW r \in Callers, Drop(r) PROVE ErrorsBeingStored'
  BY <1>25 DEF Drop, Goes
<1>26. ASSUME NEW b \in Bridges, DeviceAnswers(b) PROVE ErrorsBeingStored'
  BY <1>26 DEF DeviceAnswers, Send, Message
<1>27. ASSUME NEW b \in Bridges, DeviceSendsCandidate(b) PROVE ErrorsBeingStored'
  BY <1>27 DEF DeviceSendsCandidate, Send, Message
<1>28. ASSUME NEW b \in Bridges, DeviceDisconnects(b) PROVE ErrorsBeingStored'
  BY <1>28 DEF DeviceDisconnects, Send, Message
<1>29. ASSUME NEW k \in Conns, ConnectionLost(k) PROVE ErrorsBeingStored'
  BY <1>29 DEF ConnectionLost
<1>30. CASE UNCHANGED vars
  BY <1>30
<1>31. QED
  BY <1>1, <1>2, <1>3, <1>4, <1>5, <1>6, <1>7, <1>8, <1>9, <1>10, <1>11, <1>12, <1>13,
     <1>14, <1>15, <1>16, <1>17, <1>18, <1>19, <1>20, <1>21, <1>22, <1>23, <1>24, <1>25,
     <1>26, <1>27, <1>28, <1>29, <1>30
     DEF Next, Program, Peers, Starter, Callback

-----------------------------------------------------------------------------
(* The contract.                                                           *)

(* The stop of one bridge, in the contract's terms, ...                    *)
LEMMA StopBridgeGoesDown ==
  ASSUME NEW b \in Bridges, StopBridge(b), UNCHANGED waiter
  PROVE  [Contract!Next]_(Contract!vars)
<1>1. CASE b \in connected
  <2>1. Contract!GoDown(b)
    BY <1>1 DEF StopBridge, Contract!GoDown
  <2>2. QED
    BY <2>1 DEF Contract!Next
<1>2. CASE b \notin connected
  BY <1>2 DEF StopBridge, Contract!vars
<1>3. QED
  BY <1>1, <1>2

(* ... and that of a stream.                                               *)
LEMMA StopStreamGoesDown ==
  ASSUME TypeOK, NEW s \in Streams, StopStream(s), UNCHANGED waiter
  PROVE  [Contract!Next]_(Contract!vars)
<1>1. CASE Running(s)
  <2>1. Current(s) \in Bridges /\ StopBridge(Current(s))
    BY <1>1 DEF StopStream, Current, Bridges, TypeOK
  <2>2. QED
    BY <2>1, StopBridgeGoesDown
<1>2. CASE ~Running(s)
  BY <1>2 DEF StopStream, Contract!vars
<1>3. QED
  BY <1>1, <1>2

(* A success, in the contract's terms.                                     *)
LEMMA SucceedReports ==
  ASSUME TypeOK, NEW b \in Bridges, waiter' = waiter \/ Succeed(b), UNCHANGED connected
  PROVE  [Contract!Next]_(Contract!vars)
<1>1. CASE waiter' = waiter
  BY <1>1 DEF Contract!vars
<1>2. CASE Succeed(b) /\ waiter[b] = "open"
  <2>1. Contract!ReportSuccess(b)
    BY <1>2 DEF Succeed, Contract!ReportSuccess
  <2>2. QED
    BY <2>1 DEF Contract!Next
<1>3. CASE Succeed(b) /\ waiter[b] # "open"
  <2>1. waiter' = waiter
    BY <1>3 DEF Succeed, TypeOK
  <2>2. QED
    BY <2>1 DEF Contract!vars
<1>4. QED
  BY <1>1, <1>2, <1>3

(* Every step is one of the contract, or none of its business.             *)
LEMMA ContractStep ==
  TypeOK /\ ErrorsBeingStored /\ [Next]_vars => [Contract!Next]_(Contract!vars)
<1> SUFFICES ASSUME TypeOK, ErrorsBeingStored, [Next]_vars PROVE [Contract!Next]_(Contract!vars)
    OBVIOUS
<1> USE DEF vars, streamVars, bridgeVars, iceVars, peerVars, connVars, mqttVars, callVars,
            deviceVars
<1>1. ASSUME NEW s \in Streams, Open(s) PROVE [Contract!Next]_(Contract!vars)
  BY <1>1 DEF Open, GetClient, Contract!vars
<1>2. ASSUME NEW s \in Streams, Join(s) PROVE [Contract!Next]_(Contract!vars)
  BY <1>2 DEF Join, Contract!vars
<1>3. ASSUME NEW s \in Streams, Leave(s) PROVE [Contract!Next]_(Contract!vars)
  BY <1>3 DEF Leave, Contract!vars
<1>4. ASSUME NEW s \in Streams, Shutdown(s) PROVE [Contract!Next]_(Contract!vars)
  <2>1. StopStream(s) /\ waiter' = waiter
    BY <1>4 DEF Shutdown
  <2>2. QED
    BY <2>1, StopStreamGoesDown
<1>5. ASSUME NEW s \in Streams, Attempt(s) PROVE [Contract!Next]_(Contract!vars)
  BY <1>5 DEF Attempt, Contract!vars
<1>6. ASSUME NEW s \in Streams, Retry(s) PROVE [Contract!Next]_(Contract!vars)
  BY <1>6 DEF Retry, GetClient, Contract!vars
<1>7. ASSUME NEW s \in Streams, Abandon(s) PROVE [Contract!Next]_(Contract!vars)
  BY <1>7 DEF Abandon, Contract!vars
<1>8. ASSUME NEW s \in Streams, StartOffers(s) PROVE [Contract!Next]_(Contract!vars)
  BY <1>8 DEF StartOffers, AttemptFails, Contract!vars
<1>9. ASSUME NEW s \in Streams, StartSucceeds(s) PROVE [Contract!Next]_(Contract!vars)
  <2>1. Current(s) \in Bridges
    BY DEF Current, Bridges, TypeOK
  <2>2. Contract!ComeUp(Current(s))
    BY <1>9 DEF StartSucceeds, Contract!ComeUp
  <2>3. QED
    BY <2>1, <2>2 DEF Contract!Next
<1>10. ASSUME NEW s \in Streams, StartFails(s) PROVE [Contract!Next]_(Contract!vars)
  BY <1>10 DEF StartFails, AttemptFails, Contract!vars
<1>11. ASSUME NEW s \in Streams, GiveUp(s) PROVE [Contract!Next]_(Contract!vars)
  <2>1. StopStream(s) /\ waiter' = waiter
    BY <1>11, ZenonT(60) DEF GiveUp
  <2>2. QED
    BY <2>1, StopStreamGoesDown
<1>12. ASSUME NEW k \in Conns, Consume(k) PROVE [Contract!Next]_(Contract!vars)
  BY <1>12 DEF Consume, TakeAnswer, TakeCandidate, Report, Contract!vars
<1>13. ASSUME NEW b \in Bridges, PeerConnects(b) PROVE [Contract!Next]_(Contract!vars)
  <2>1. UNCHANGED connected /\ (waiter' = waiter \/ Succeed(b))
    BY <1>13 DEF PeerConnects
  <2>2. QED
    BY <2>1, SucceedReports
<1>14. ASSUME NEW b \in Bridges, ChannelOpens(b) PROVE [Contract!Next]_(Contract!vars)
  BY <1>14 DEF ChannelOpens, ChannelStep, Contract!vars
<1>15. ASSUME NEW b \in Bridges, ChannelCodec(b) PROVE [Contract!Next]_(Contract!vars)
  BY <1>15 DEF ChannelCodec, ChannelStep, Contract!vars
<1>16. ASSUME NEW b \in Bridges, ChannelRecv(b) PROVE [Contract!Next]_(Contract!vars)
  <2>1. UNCHANGED connected /\ (waiter' = waiter \/ Succeed(b))
    BY <1>16 DEF ChannelRecv
  <2>2. QED
    BY <2>1, SucceedReports
<1>17. ASSUME NEW b \in Bridges, PeerFails(b) PROVE [Contract!Next]_(Contract!vars)
  BY <1>17 DEF PeerFails, Contract!vars
<1>18. ASSUME NEW b \in Bridges, PeerAlarm(b) PROVE [Contract!Next]_(Contract!vars)
  BY <1>18 DEF PeerAlarm, Report, Message, Contract!vars
<1>19. ASSUME NEW r \in Callers, TellWaiter(r) PROVE [Contract!Next]_(Contract!vars)
  <2>1. Subject(r) \in Bridges
    BY <1>19 DEF TellWaiter, Subject, Messages, TypeOK
  <2>2. CASE waiter[Subject(r)] = "open"
    <3>1. Contract!ReportError(Subject(r))
      BY <1>19, <2>2 DEF TellWaiter, Contract!ReportError
    <3>2. QED
      BY <2>1, <3>1 DEF Contract!Next
  <2>3. CASE waiter[Subject(r)] # "open"
    <3>1. waiter' = waiter
      BY <1>19, <2>1, <2>3 DEF TellWaiter, TypeOK
    <3>2. QED
      BY <1>19, <3>1 DEF TellWaiter, Contract!vars
  <2>4. QED
    BY <2>2, <2>3
<1>20. ASSUME NEW r \in Callers, StoreError(r) PROVE [Contract!Next]_(Contract!vars)
  <2>1. Subject(r) \in Bridges
    BY <1>20 DEF StoreError, Goes, Subject, Messages, TypeOK
  <2>2. waiter[Subject(r)] = "failing"
    BY <1>20 DEF StoreError, Goes, ErrorsBeingStored
  <2>3. Contract!StoreError(Subject(r))
    BY <1>20, <2>2 DEF StoreError, Contract!StoreError
  <2>4. QED
    BY <2>1, <2>3 DEF Contract!Next
<1>21. ASSUME NEW r \in Callers, CheckFlags(r) PROVE [Contract!Next]_(Contract!vars)
  BY <1>21 DEF CheckFlags, Goes, Contract!vars
<1>22. ASSUME NEW r \in Callers, CountClients(r) PROVE [Contract!Next]_(Contract!vars)
  BY <1>22 DEF CountClients, Goes, Contract!vars
<1>23. ASSUME NEW r \in Callers, ErrorStop(r) PROVE [Contract!Next]_(Contract!vars)
  BY <1>23 DEF ErrorStop, Goes, Contract!vars
<1>24. ASSUME NEW r \in Callers, ErrorHalt(r) PROVE [Contract!Next]_(Contract!vars)
  <2>1. job[r] \in Messages /\ StopBridge(Current(StreamOf(r))) /\ waiter' = waiter
    BY <1>24 DEF ErrorHalt, Goes, TypeOK
  <2>2. Current(StreamOf(r)) \in Bridges
    BY <2>1 DEF Messages, Bridges, StreamOf, Subject, Owner, Current, TypeOK
  <2>3. QED
    BY <2>1, <2>2, StopBridgeGoesDown
<1>25. ASSUME NEW r \in Callers, Drop(r) PROVE [Contract!Next]_(Contract!vars)
  <2>1. Subject(r) \in Bridges
    BY <1>25 DEF Drop, Goes, Subject, Messages, TypeOK
  <2>2. Contract!GoDown(Subject(r))
    BY <1>25 DEF Drop, Contract!GoDown
  <2>3. QED
    BY <2>1, <2>2 DEF Contract!Next
<1>26. ASSUME NEW b \in Bridges, DeviceAnswers(b) PROVE [Contract!Next]_(Contract!vars)
  BY <1>26 DEF DeviceAnswers, Send, Message, Contract!vars
<1>27. ASSUME NEW b \in Bridges, DeviceSendsCandidate(b) PROVE [Contract!Next]_(Contract!vars)
  BY <1>27 DEF DeviceSendsCandidate, Send, Message, Contract!vars
<1>28. ASSUME NEW b \in Bridges, DeviceDisconnects(b) PROVE [Contract!Next]_(Contract!vars)
  BY <1>28 DEF DeviceDisconnects, Send, Message, Contract!vars
<1>29. ASSUME NEW k \in Conns, ConnectionLost(k) PROVE [Contract!Next]_(Contract!vars)
  BY <1>29 DEF ConnectionLost, Contract!vars
<1>30. CASE UNCHANGED vars
  BY <1>30 DEF Contract!vars
<1>31. QED
  BY <1>1, <1>2, <1>3, <1>4, <1>5, <1>6, <1>7, <1>8, <1>9, <1>10, <1>11, <1>12, <1>13,
     <1>14, <1>15, <1>16, <1>17, <1>18, <1>19, <1>20, <1>21, <1>22, <1>23, <1>24, <1>25,
     <1>26, <1>27, <1>28, <1>29, <1>30
     DEF Next, Program, Peers, Starter, Callback

-----------------------------------------------------------------------------
(* Candidates on their way.                                                *)

(* What is in the inboxes.                                                 *)
LEMMA MailTyped ==
  ASSUME TypeOK, NEW k \in Conns, NEW i \in DOMAIN inbox[k]
  PROVE  /\ i \in 1 .. Len(inbox[k]) /\ Len(inbox[k]) \in Nat
         /\ inbox[k][i].to \in Bridges /\ inbox[k][i].n \in 0 .. MaxCandidates
<1>1. inbox[k] \in Seq(Messages)
  BY DEF TypeOK
<1>2. i \in 1 .. Len(inbox[k]) /\ Len(inbox[k]) \in Nat
  BY <1>1, LenProperties
<1>3. inbox[k][i] \in Messages
  BY <1>1, <1>2, ElementOfSeq
<1> QED
  BY <1>2, <1>3 DEF Messages

(* Candidates in the order of their numbers, from t + 1 to s: one more     *)
(* behind them, ...                                                        *)
LEMMA OneMoreBehind ==
  ASSUME NEW W, NEW mail, NEW new, NEW last \in Nat, NEW t \in Nat, NEW s \in Nat, t <= s,
         \A i \in W : i \in 1 .. last - 1 /\ new[i] = mail[i], new[last].n = s + 1,
         Numbered(W, mail, t, s)
  PROVE  Numbered(W \cup {last}, new, t, s + 1)
<1> USE DEF Numbered
<1>1. {new[i].n : i \in W \cup {last}} = {mail[i].n : i \in W} \cup {s + 1}
  OBVIOUS
<1>2. (t + 1 .. s) \cup {s + 1} = t + 1 .. s + 1
  OBVIOUS
<1>3. ASSUME NEW i \in W \cup {last}, NEW j \in W \cup {last}, i < j
      PROVE  new[i].n < new[j].n
  <2>1. i \in W
    BY <1>3
  <2>2. mail[i].n \in t + 1 .. s
    BY <2>1
  <2>3. CASE j \in W
    BY <1>3, <2>1, <2>3
  <2>4. CASE j = last
    BY <2>1, <2>2, <2>4
  <2> QED
    BY <2>3, <2>4
<1> QED
  BY <1>1, <1>2, <1>3

(* ... or the first message gone, be it one of them or not.                *)
LEMMA FirstGone ==
  ASSUME NEW mail, NEW rest, NEW W, NEW V, \A i \in W : i \in Nat \ {0},
         \A i : i \in V <=> i \in Nat \ {0} /\ i + 1 \in W,
         \A i \in V : rest[i] = mail[i + 1],
         NEW t \in Nat, NEW s \in Nat, t <= s, Numbered(W, mail, t, s)
  PROVE  IF 1 \in W THEN mail[1].n = t + 1 /\ t + 1 <= s /\ Numbered(V, rest, t + 1, s)
                    ELSE Numbered(V, rest, t, s)
<1> USE DEF Numbered
<1>1. \A i \in V : i \in Nat /\ i + 1 \in W /\ i + 1 # 1 /\ rest[i] = mail[i + 1]
  OBVIOUS
<1>2. \A j \in W \ {1} : j - 1 \in V /\ rest[j - 1] = mail[j]
  <2> SUFFICES ASSUME NEW j \in W \ {1} PROVE j - 1 \in V /\ rest[j - 1] = mail[j]
    OBVIOUS
  <2>1. j \in Nat /\ j - 1 \in Nat \ {0} /\ (j - 1) + 1 = j
    OBVIOUS
  <2> QED
    BY <2>1
<1>3. {rest[i].n : i \in V} = {mail[j].n : j \in W \ {1}}
  <2>1. ASSUME NEW i \in V PROVE rest[i].n \in {mail[j].n : j \in W \ {1}}
    BY <1>1
  <2>2. ASSUME NEW j \in W \ {1} PROVE mail[j].n \in {rest[i].n : i \in V}
    BY <1>2
  <2> QED
    BY <2>1, <2>2
<1>4. \A i, j \in V : i < j => rest[i].n < rest[j].n
  <2> SUFFICES ASSUME NEW i \in V, NEW j \in V, i < j PROVE rest[i].n < rest[j].n
    OBVIOUS
  <2>1. i + 1 < j + 1
    BY <1>1
  <2> QED
    BY <1>1, <2>1
<1>5. ASSUME 1 \notin W PROVE {rest[i].n : i \in V} = t + 1 .. s
  <2>1. W \ {1} = W
    BY <1>5
  <2> QED
    BY <1>3, <2>1
<1>6. ASSUME 1 \in W
      PROVE  mail[1].n = t + 1 /\ t + 1 <= s /\ {rest[i].n : i \in V} = t + 2 .. s
  <2>1. \A j \in W \ {1} : mail[1].n < mail[j].n /\ mail[j].n \in t + 1 .. s
    <3> SUFFICES ASSUME NEW j \in W \ {1}
                 PROVE  mail[1].n < mail[j].n /\ mail[j].n \in t + 1 .. s
      OBVIOUS
    <3>1. 1 < j
      OBVIOUS
    <3> QED
      BY <1>6, <3>1
  <2>2. mail[1].n \in t + 1 .. s
    BY <1>6
  <2>3. t + 1 \in t + 1 .. s /\ t + 1 <= s
    BY <2>2
  <2>4. PICK j \in W : mail[j].n = t + 1
    BY <2>3
  <2>5. mail[1].n = t + 1
    BY <2>1, <2>2, <2>4
  <2>6. \A v : v \in {mail[i].n : i \in W \ {1}} <=> v \in t + 2 .. s
    <3> SUFFICES ASSUME NEW v
                 PROVE  v \in {mail[i].n : i \in W \ {1}} <=> v \in t + 2 .. s
      OBVIOUS
    <3>1. ASSUME v \in {mail[i].n : i \in W \ {1}} PROVE v \in t + 2 .. s
      BY <2>1, <2>5, <3>1
    <3>2. ASSUME v \in t + 2 .. s PROVE v \in {mail[i].n : i \in W \ {1}}
      <4>1. v \in t + 1 .. s /\ v # t + 1
        BY <3>2
      <4>2. PICK i \in W : mail[i].n = v
        BY <4>1
      <4> QED
        BY <2>5, <4>1, <4>2
    <3> QED
      BY <3>1, <3>2
  <2> QED
    BY <1>3, <2>3, <2>5, <2>6
<1>7. (t + 1) + 1 = t + 2
  OBVIOUS
<1> QED
  BY <1>4, <1>5, <1>6, <1>7

(* What makes up the order, one value at a time.                           *)
LEMMA OrderNext ==
  ASSUME NEW b, NEW taken, NEW s, NEW mail, NEW W,
         applied'[b] \o pending'[b] = taken, sent'[b] = s, inbox'[link'[b]] = mail,
         OnTheWay(b)' = W,
         Len(taken) <= s, \A i \in 1 .. Len(taken) : taken[i] = i,
         Numbered(W, mail, Len(taken), s)
  PROVE  InOrder(b)'
BY DEF InOrder

(* CandidatesKept is about each bridge on its own, ...                     *)
LEMMA KeptByBridge == CandidatesKept <=> \A b \in Bridges : Reachable(b) => InOrder(b)
BY DEF CandidatesKept, Reachable, InOrder, Numbered

(* ... after a step, too.                                                  *)
LEMMA KeptByBridgeNext ==
  CandidatesKept' <=> \A b \in Bridges : Reachable(b)' => InOrder(b)'
BY DEF CandidatesKept, Reachable, InOrder, Numbered

(* What a bridge that a step leaves alone has is in order as before.       *)
LEMMA OrderSame ==
  ASSUME NEW b \in Bridges, InOrder(b), applied'[b] = applied[b], pending'[b] = pending[b],
         sent'[b] = sent[b], link'[b] = link[b], inbox'[link[b]] = inbox[link[b]]
  PROVE  InOrder(b)'
BY DEF InOrder, OnTheWay

(* Before the offer everything is in order.                                *)
LEMMA OrderEarly ==
  ASSUME TypeOK, NothingEarly, NEW b \in Bridges, peer[b] = "none",
         UNCHANGED <<applied, pending, sent, inbox>>, link'[b] \in Conns
  PROVE  InOrder(b)'
<1>1. applied'[b] = <<>> /\ pending'[b] = <<>> /\ sent'[b] = 0
  BY DEF NothingEarly
<1>2. \A i \in DOMAIN inbox[link'[b]] : inbox[link'[b]][i].to # b
  BY DEF NothingEarly
<1>3. OnTheWay(b)' = {}
  BY <1>2 DEF OnTheWay
<1>4. applied'[b] \o pending'[b] = <<>>
  BY <1>1
<1>5. Numbered({}, inbox'[link'[b]], 0, 0)
  BY DEF Numbered
<1> DEFINE taken == applied'[b] \o pending'[b]
<1>6. taken = <<>> /\ Len(taken) = 0
  BY <1>4
<1> HIDE DEF taken
<1>7. Len(taken) <= 0 /\ \A i \in 1 .. Len(taken) : taken[i] = i
  BY <1>6
<1> QED
  BY <1>1, <1>3, <1>5, <1>6, <1>7, OrderNext DEF taken

(* Steps that neither send nor take a message.                             *)
LEMMA QuietDelivery ==
  ASSUME TypeOK, Delivery, UNCHANGED <<applied, pending, sent, inbox, answered>>, used \subseteq used',
         \A b \in Bridges :
           /\ peer[b] # "none" => peer'[b] # "none" /\ link'[b] = link[b]
           /\ device'[b] # "none" => device[b] # "none" \/ peer'[b] # "none"
           /\ link'[b] = link[b] \/ link'[b] \in used'
           /\ Reachable(b)' => link'[b] \in Conns /\ (Reachable(b) \/ peer[b] = "none")
  PROVE  Delivery'
<1>1. NothingEarly'
  <2>1. \A k \in Conns : \A i \in DOMAIN inbox[k] : inbox[k][i].to \in Bridges
    BY MailTyped
  <2> QED
    BY <2>1 DEF Delivery, NothingEarly
<1>2. MailAtLink'
  <2>1. \A k \in Conns : \A i \in DOMAIN inbox[k] : inbox[k][i].to \in Bridges
    BY MailTyped
  <2> QED
    BY <2>1 DEF Delivery, NothingEarly, MailAtLink
<1>3. KeptForAnswer'
  BY DEF Delivery, KeptForAnswer
<1>4. CandidatesKept'
  <2> SUFFICES ASSUME NEW b \in Bridges, Reachable(b)' PROVE InOrder(b)'
    BY KeptByBridgeNext
  <2>1. CASE peer[b] = "none"
    BY <2>1, OrderEarly DEF Delivery
  <2>2. CASE peer[b] # "none"
    <3>1. InOrder(b) /\ link'[b] = link[b]
      BY <2>2, KeptByBridge DEF Delivery
    <3> QED
      BY <3>1, OrderSame
  <2> QED
    BY <2>1, <2>2
<1> QED
  BY <1>1, <1>2, <1>3, <1>4 DEF Delivery

(* A message is put behind those on their way.                             *)
LEMMA SendBehind ==
  ASSUME TypeOK, NEW c \in Bridges, NEW t, NEW n, Send(c, t, n), link' = link,
         NEW b \in Bridges, link[b] \in Conns
  PROVE  LET last == Len(inbox[link[b]]) + 1 IN
         /\ OnTheWay(b)' = OnTheWay(b) \cup (IF b = c /\ t = "candidate" THEN {last} ELSE {})
         /\ \A i \in OnTheWay(b) : i \in 1 .. last - 1 /\ inbox'[link[b]][i] = inbox[link[b]][i]
         /\ b = c => inbox'[link[b]][last].n = n
         /\ last \in Nat
<1> DEFINE mail == inbox[link[b]]
           m == Message(c, t, n)
<1>1. link[c] \in Conns /\ mail \in Seq(Messages) /\ Len(mail) \in Nat /\ DOMAIN mail = 1 .. Len(mail)
  BY DEF Send, TypeOK
<1>2. m.to = c /\ m.type = t /\ m.n = n
  BY DEF Message
<1>3. CASE link[b] = link[c]
  <2>1. inbox'[link[b]] = Append(mail, m)
    BY <1>1, <1>3 DEF Send, TypeOK
  <2>2. /\ DOMAIN inbox'[link[b]] = 1 .. Len(mail) + 1
        /\ \A i \in 1 .. Len(mail) : inbox'[link[b]][i] = mail[i]
        /\ inbox'[link[b]][Len(mail) + 1] = m
    <3> HIDE DEF m, mail
    <3> QED
      BY <1>1, <2>1
  <2> DEFINE new == inbox'[link[b]]
  <2>3. OnTheWay(b) = {i \in 1 .. Len(mail) : mail[i].to = b /\ mail[i].type = "candidate"}
    BY <1>1 DEF OnTheWay
  <2>4. OnTheWay(b)' = {i \in 1 .. Len(mail) + 1 : new[i].to = b /\ new[i].type = "candidate"}
    BY <2>2 DEF OnTheWay
  <2>5. new[Len(mail) + 1].to = c /\ new[Len(mail) + 1].type = t /\ new[Len(mail) + 1].n = n
    BY <1>2, <2>2
  <2> HIDE DEF new, mail, m
  <2>6. Len(mail) \in Nat /\ \A i \in 1 .. Len(mail) : new[i] = mail[i]
    BY <1>1, <2>2 DEF new
  <2>7. OnTheWay(b)' = OnTheWay(b) \cup (IF b = c /\ t = "candidate" THEN {Len(mail) + 1} ELSE {})
    <3>1. CASE b = c /\ t = "candidate"
      BY <2>3, <2>4, <2>5, <2>6, <3>1
    <3>2. CASE ~(b = c /\ t = "candidate")
      BY <2>3, <2>4, <2>5, <2>6, <3>2
    <3> QED
      BY <3>1, <3>2
  <2> QED
    BY <2>3, <2>5, <2>6, <2>7 DEF mail, new
<1>4. CASE link[b] # link[c]
  <2>1. inbox'[link[b]] = mail /\ b # c
    BY <1>1, <1>4 DEF Send, TypeOK
  <2> QED
    BY <1>1, <2>1 DEF OnTheWay
<1> QED
  BY <1>3, <1>4

(* A device sends: the next candidate, or something else.                  *)
LEMMA SendDelivery ==
  ASSUME TypeOK, Delivery, NEW c \in Bridges, peer[c] # "none",
         NEW t \in {"answer", "garbled", "candidate", "disconnect"},
         NEW n \in 0 .. MaxCandidates, Send(c, t, n),
         UNCHANGED <<applied, pending, answered, link, used, online, cameras, peer>>,
         IF t = "candidate" THEN n = sent[c] + 1 /\ sent' = [sent EXCEPT ![c] = n] ELSE sent' = sent,
         \A b \in Bridges \ {c} : device'[b] = device[b]
  PROVE  Delivery'
<1> DEFINE m == Message(c, t, n)
<1>1. m.to = c /\ m.type = t /\ m.n = n
  BY DEF Message
<1>2. /\ link[c] \in Conns
      /\ inbox' = [inbox EXCEPT ![link[c]] = Append(@, m)]
  BY DEF Send, TypeOK
<1>3. \A k \in Conns : \A i \in DOMAIN inbox'[k] :
        \/ i \in DOMAIN inbox[k] /\ inbox'[k][i] = inbox[k][i]
        \/ k = link[c] /\ inbox'[k][i] = m
  <2> SUFFICES ASSUME NEW k \in Conns, NEW i \in DOMAIN inbox'[k]
               PROVE  \/ i \in DOMAIN inbox[k] /\ inbox'[k][i] = inbox[k][i]
                      \/ k = link[c] /\ inbox'[k][i] = m
    OBVIOUS
  <2>1. CASE k = link[c]
    <3>1. inbox[k] \in Seq(Messages) /\ inbox'[k] = Append(inbox[k], m)
      BY <1>2, <2>1 DEF TypeOK
    <3> HIDE DEF m
    <3> QED
      BY <2>1, <3>1
  <2>2. CASE k # link[c]
    BY <1>2, <2>2 DEF TypeOK
  <2> QED
    BY <2>1, <2>2
<1>4. NothingEarly'
  <2>1. \A b \in Bridges : b # c => sent'[b] = sent[b]
    BY DEF TypeOK
  <2>2. \A k \in Conns : \A i \in DOMAIN inbox'[k] : peer'[inbox'[k][i].to] # "none"
    BY <1>1, <1>3 DEF Delivery, NothingEarly
  <2>3. \A b \in Bridges : peer'[b] = "none" =>
          device'[b] = "none" /\ sent'[b] = 0 /\ applied'[b] = <<>> /\ pending'[b] = <<>>
    BY <2>1 DEF Delivery, NothingEarly
  <2> QED
    BY <2>2, <2>3 DEF NothingEarly
<1>5. MailAtLink'
  <2>1. \A k \in Conns : \A i \in DOMAIN inbox'[k] : link'[inbox'[k][i].to] = k
    BY <1>1, <1>3 DEF Delivery, MailAtLink
  <2> QED
    BY <2>1 DEF Delivery, MailAtLink
<1>6. KeptForAnswer'
  BY DEF Delivery, KeptForAnswer
<1>7. CandidatesKept'
  <2> SUFFICES ASSUME NEW b \in Bridges, Reachable(b)' PROVE InOrder(b)'
    BY KeptByBridgeNext
  <2>1. Reachable(b) /\ InOrder(b) /\ link[b] \in Conns
    BY KeptByBridge DEF Reachable, Delivery, TypeOK
  <2> DEFINE taken == applied[b] \o pending[b]
             mail == inbox[link[b]]
             W == OnTheWay(b)
             last == Len(mail) + 1
  <2>2. /\ OnTheWay(b)' = W \cup (IF b = c /\ t = "candidate" THEN {last} ELSE {})
        /\ \A i \in W : i \in 1 .. last - 1 /\ inbox'[link[b]][i] = mail[i]
        /\ b = c => inbox'[link[b]][last].n = n
        /\ last \in Nat
    BY <2>1, SendBehind
  <2>3. /\ Len(taken) <= sent[b] /\ \A i \in 1 .. Len(taken) : taken[i] = i
        /\ Numbered(W, mail, Len(taken), sent[b])
    BY <2>1 DEF InOrder
  <2>4. /\ taken = applied'[b] \o pending'[b]
        /\ link'[b] = link[b]
    OBVIOUS
  <2>5. Len(taken) \in Nat /\ sent[b] \in Nat
    BY ConcatProperties DEF TypeOK
  <2>6. CASE b = c /\ t = "candidate"
    <3>1. sent'[b] = sent[b] + 1 /\ n = sent[b] + 1
      BY <2>6 DEF TypeOK
    <3>2. OnTheWay(b)' = W \cup {last}
      BY <2>2, <2>6
    <3> DEFINE new == inbox'[link[b]]
    <3>3. (\A i \in W : i \in 1 .. last - 1 /\ new[i] = mail[i]) /\ new[last].n = sent[b] + 1
      BY <2>2, <2>6, <3>1
    <3>4. Len(taken) <= sent[b] + 1
      <4> HIDE DEF taken
      <4> QED
        BY <2>3, <2>5
    <3>5. last \in Nat
      BY <2>2
    <3> HIDE DEF new, taken, mail, W, last
    <3>6. Numbered(W \cup {last}, new, Len(taken), sent[b] + 1)
      BY <2>3, <2>5, <3>3, <3>5, OneMoreBehind
    <3>7. new = inbox'[link'[b]]
      BY <2>4 DEF new
    <3> QED
      BY <2>3, <2>4, <3>1, <3>2, <3>4, <3>6, <3>7, OrderNext
  <2>7. CASE ~(b = c /\ t = "candidate")
    <3>1. sent'[b] = sent[b] /\ OnTheWay(b)' = W
      BY <2>2, <2>7 DEF TypeOK
    <3> DEFINE new == inbox'[link[b]]
    <3>2. \A i \in W : new[i] = mail[i]
      BY <2>2
    <3> HIDE DEF new, taken, mail, W, last
    <3>4. Numbered(W, new, Len(taken), sent[b])
      <4>1. {new[i].n : i \in W} = {mail[i].n : i \in W}
        BY <3>2
      <4> QED
        BY <2>3, <3>2, <4>1 DEF Numbered
    <3>5. new = inbox'[link'[b]]
      BY <2>4 DEF new
    <3> QED
      BY <2>3, <2>4, <3>1, <3>4, <3>5, OrderNext
  <2> QED
    BY <2>6, <2>7
<1> QED
  BY <1>4, <1>5, <1>6, <1>7 DEF Delivery

(* Once the first message is taken the others move up; if it was a         *)
(* candidate of b it was the next one.                                     *)
LEMMA TakeFirst ==
  ASSUME TypeOK, NEW k \in Conns, inbox[k] # <<>>, inbox' = [inbox EXCEPT ![k] = Tail(@)],
         NEW b \in Bridges, link[b] = k, UNCHANGED <<link, sent>>, InOrder(b),
         IF Head(inbox[k]).to = b /\ Head(inbox[k]).type = "candidate"
         THEN applied'[b] \o pending'[b] = Append(applied[b] \o pending[b], Head(inbox[k]).n)
         ELSE applied'[b] \o pending'[b] = applied[b] \o pending[b]
  PROVE  InOrder(b)'
<1> DEFINE taken == applied[b] \o pending[b]
           mail == inbox[k]
           rest == Tail(mail)
           W == OnTheWay(b)
           V == OnTheWay(b)'
           L == Len(taken)
<1>1. /\ mail \in Seq(Messages) /\ Len(mail) \in Nat \ {0} /\ DOMAIN mail = 1 .. Len(mail)
      /\ DOMAIN rest = 1 .. Len(mail) - 1 /\ \A i \in 1 .. Len(mail) - 1 : rest[i] = mail[i + 1]
      /\ mail[1] = Head(mail)
  BY HeadTailProperties, EmptySeq, LenProperties DEF TypeOK
<1>2. inbox'[link'[b]] = rest
  BY DEF TypeOK
<1>3. W = {i \in 1 .. Len(mail) : mail[i].to = b /\ mail[i].type = "candidate"}
  BY <1>1 DEF OnTheWay
<1>4. V = {i \in 1 .. Len(mail) - 1 : rest[i].to = b /\ rest[i].type = "candidate"}
  BY <1>1, <1>2 DEF OnTheWay
<1>5. \A i : i \in V <=> i \in 1 .. Len(mail) - 1 /\ i + 1 \in W
  <2> HIDE DEF mail, rest, V, W
  <2> QED
    BY <1>1, <1>3, <1>4
<1>6. /\ L <= sent[b] /\ \A i \in 1 .. L : taken[i] = i
      /\ Numbered(W, mail, L, sent[b])
  BY DEF InOrder
<1>7. /\ taken \in Seq(0 .. MaxCandidates) /\ L \in Nat
      /\ sent[b] \in 0 .. MaxCandidates /\ sent[b] \in Nat
  BY ConcatProperties DEF TypeOK
<1>8. /\ \A i \in W : i \in Nat \ {0}
      /\ \A i : i \in V <=> i \in Nat \ {0} /\ i + 1 \in W
      /\ \A i \in V : rest[i] = mail[i + 1]
  <2>1. \A i \in W : i \in 1 .. Len(mail)
    BY <1>3
  <2> HIDE DEF taken, mail, rest, V, W, L
  <2> QED
    BY <1>1, <1>5, <2>1
<1>9. IF 1 \in W THEN applied'[b] \o pending'[b] = Append(taken, mail[1].n)
                 ELSE applied'[b] \o pending'[b] = taken
  <2>1. 1 \in W <=> mail[1].to = b /\ mail[1].type = "candidate"
    <3>1. 1 \in 1 .. Len(mail)
      BY <1>1
    <3> HIDE DEF mail, W
    <3> QED
      BY <1>3, <3>1
  <2> QED
    BY <1>1, <2>1
<1> DEFINE more == applied'[b] \o pending'[b]
<1> HIDE DEF taken, mail, rest, V, W, L, more
<1>10. IF 1 \in W THEN mail[1].n = L + 1 /\ L + 1 <= sent[b] /\ Numbered(V, rest, L + 1, sent[b])
                   ELSE Numbered(V, rest, L, sent[b])
  BY <1>6, <1>7, <1>8, FirstGone
<1>11. /\ Len(more) <= sent[b] /\ \A i \in 1 .. Len(more) : more[i] = i
       /\ Numbered(V, rest, Len(more), sent[b])
  <2>1. CASE 1 \notin W
    BY <1>6, <1>9, <1>10, <2>1 DEF more, L
  <2>2. CASE 1 \in W
    <3>1. more = Append(taken, L + 1)
      BY <1>9, <1>10, <2>2 DEF more
    <3>2. L + 1 \in 0 .. MaxCandidates
      BY <1>7, <1>10, <2>2, BoundsAssumption
    <3>3. Len(more) = L + 1 /\ \A i \in 1 .. L + 1 : more[i] = i
      BY <1>6, <1>7, <3>1, <3>2, AppendProperties DEF L
    <3> QED
      BY <1>10, <2>2, <3>3
  <2> QED
    BY <2>1, <2>2
<1>12. V = OnTheWay(b)' /\ sent'[b] = sent[b] /\ more = applied'[b] \o pending'[b]
  BY DEF V, more
<1> QED
  BY <1>2, <1>11, <1>12, OrderNext

(* To append to the second of two sequences is to append to both.          *)
LEMMA ConcatAppend ==
  ASSUME NEW S, NEW p \in Seq(S), NEW q \in Seq(S), NEW x \in S
  PROVE  p \o Append(q, x) = Append(p \o q, x)
OBVIOUS

(* A message is taken: unless its session is gone an answer releases what  *)
(* was kept, and a candidate joins those kept or those the peer connection *)
(* has.                                                                    *)
LEMMA ConsumeDelivery ==
  ASSUME TypeOK, PeersDescribed, Delivery, NEW k \in Conns, Consume(k)
  PROVE  Delivery'
<1> DEFINE m == Head(inbox[k])
<1>1. /\ inbox[k] # <<>> /\ inbox[k] \in Seq(Messages)
      /\ inbox' = [inbox EXCEPT ![k] = Tail(@)]
      /\ UNCHANGED <<link, used, online, cameras, device, sent>>
  BY DEF Consume, TypeOK, connVars, deviceVars
<1>2. m \in Messages /\ m = inbox[k][1] /\ 1 \in DOMAIN inbox[k]
  BY <1>1, HeadTailProperties, LenProperties, EmptySeq
<1>3. m.to \in Bridges /\ m.n \in 0 .. MaxCandidates /\ link[m.to] = k /\ peer[m.to] # "none"
  BY <1>2 DEF Messages, Delivery, MailAtLink, NothingEarly
<1>4. \/ /\ m.to \notin cameras[k] /\ UNCHANGED <<applied, pending, answered, peer>>
      \/ m.to \in cameras[k] /\ m.type = "answer" /\ TakeAnswer(m.to)
      \/ m.to \in cameras[k] /\ m.type = "candidate" /\ TakeCandidate(m.to, m.n)
      \/ /\ m.to \in cameras[k] /\ m.type \in {"garbled", "disconnect"}
         /\ UNCHANGED <<applied, pending, answered, peer>>
  BY DEF Consume, iceVars
<1> HIDE DEF m
<1>5. /\ \A b \in Bridges \ {m.to} : applied'[b] = applied[b] /\ pending'[b] = pending[b]
      /\ \A b \in Bridges : peer'[b] = "none" <=> peer[b] = "none"
  BY <1>3, <1>4, SMTT(30) DEF TakeAnswer, TakeCandidate, TypeOK
<1>6. \A q \in Conns : \A i \in DOMAIN inbox'[q] :
        \E j \in DOMAIN inbox[q] : inbox'[q][i] = inbox[q][j]
  <2> SUFFICES ASSUME NEW q \in Conns, NEW i \in DOMAIN inbox'[q]
               PROVE  \E j \in DOMAIN inbox[q] : inbox'[q][i] = inbox[q][j]
    OBVIOUS
  <2>1. CASE q = k
    <3>1. inbox'[k] = Tail(inbox[k])
      BY <1>1 DEF TypeOK
    <3>2. i \in 1 .. Len(inbox[k]) - 1 /\ inbox'[k][i] = inbox[k][i + 1]
      <4>1. /\ Tail(inbox[k]) \in Seq(Messages) /\ Len(Tail(inbox[k])) = Len(inbox[k]) - 1
            /\ \A j \in 1 .. Len(Tail(inbox[k])) : Tail(inbox[k])[j] = inbox[k][j + 1]
        BY <1>1, HeadTailProperties
      <4>2. i \in 1 .. Len(Tail(inbox[k]))
        BY <2>1, <3>1, <4>1, LenProperties
      <4> QED
        BY <3>1, <4>1, <4>2
    <3>3. i + 1 \in DOMAIN inbox[k]
      BY <1>1, <3>2, LenProperties
    <3> QED
      BY <2>1, <3>2, <3>3
  <2>2. CASE q # k
    BY <1>1, <2>2 DEF TypeOK
  <2> QED
    BY <2>1, <2>2
<1>7. NothingEarly'
  <2>1. \A q \in Conns : \A i \in DOMAIN inbox[q] : inbox[q][i].to \in Bridges
    BY MailTyped
  <2>2. \A q \in Conns : \A i \in DOMAIN inbox'[q] : peer'[inbox'[q][i].to] # "none"
    BY <1>5, <1>6, <2>1 DEF Delivery, NothingEarly
  <2>3. \A b \in Bridges : peer'[b] = "none" =>
          device'[b] = "none" /\ sent'[b] = 0 /\ applied'[b] = <<>> /\ pending'[b] = <<>>
    BY <1>1, <1>3, <1>5 DEF Delivery, NothingEarly
  <2> QED
    BY <2>2, <2>3 DEF NothingEarly
<1>8. MailAtLink'
  BY <1>1, <1>6 DEF Delivery, MailAtLink
<1>9. KeptForAnswer'
  BY <1>3, <1>4 DEF Delivery, KeptForAnswer, TakeAnswer, TakeCandidate, TypeOK
<1>10. CandidatesKept'
  <2> SUFFICES ASSUME NEW b \in Bridges, Reachable(b)' PROVE InOrder(b)'
    BY KeptByBridgeNext
  <2>1. Reachable(b) /\ InOrder(b) /\ link[b] \in Conns
    BY <1>1, KeptByBridge DEF Reachable, Delivery, TypeOK
  <2>2. CASE link[b] # k
    <3>1. b # m.to
      BY <1>3, <2>2
    <3> QED
      BY <1>1, <1>5, <2>1, <2>2, <3>1, OrderSame DEF TypeOK
  <2>3. CASE link[b] = k
    <3>1. b \in cameras[k]
      BY <2>1, <2>3 DEF Reachable
    <3>2. CASE b # m.to \/ m.type \notin {"answer", "candidate"}
      <4>1. applied'[b] = applied[b] /\ pending'[b] = pending[b]
        BY <1>4, <1>5, <3>2
      <4> QED
        BY <1>1, <2>1, <2>3, <3>2, <4>1, TakeFirst DEF m
    <3>3. CASE b = m.to /\ m.type = "answer"
      <4>1. TakeAnswer(b)
        BY <1>4, <3>1, <3>3
      <4>2. applied[b] \in Seq(0 .. MaxCandidates) /\ pending[b] \in Seq(0 .. MaxCandidates)
        BY DEF TypeOK
      <4>3. applied'[b] = applied[b] \o pending[b] /\ pending'[b] = <<>>
        BY <4>1, SMTT(30) DEF TakeAnswer, TypeOK
      <4>4. applied'[b] \o pending'[b] = applied[b] \o pending[b]
        BY <4>2, <4>3, ConcatProperties, ConcatEmptySeq
      <4> QED
        BY <1>1, <2>1, <2>3, <3>3, <4>4, TakeFirst DEF m
    <3>4. CASE b = m.to /\ m.type = "candidate"
      <4>1. TakeCandidate(b, m.n)
        BY <1>4, <3>1, <3>4
      <4>2. applied[b] \in Seq(0 .. MaxCandidates) /\ pending[b] \in Seq(0 .. MaxCandidates)
        BY DEF TypeOK
      <4>3. applied'[b] \o pending'[b] = Append(applied[b] \o pending[b], m.n)
        <5>1. CASE b \in answered
          <6>1. applied'[b] = Append(applied[b], m.n) /\ pending'[b] = <<>> /\ pending[b] = <<>>
            BY <4>1, <5>1 DEF TakeCandidate, TypeOK, Delivery, KeptForAnswer
          <6>2. Append(applied[b], m.n) \in Seq(0 .. MaxCandidates)
            BY <1>3, <4>2, AppendProperties
          <6> QED
            BY <4>2, <6>1, <6>2, ConcatEmptySeq
        <5>2. CASE b \notin answered
          <6>1. applied'[b] = applied[b] /\ pending'[b] = Append(pending[b], m.n)
            BY <4>1, <5>2 DEF TakeCandidate, TypeOK
          <6>2. \A p, q \in Seq(0 .. MaxCandidates) : \A x \in 0 .. MaxCandidates :
                  p \o Append(q, x) = Append(p \o q, x)
            BY ConcatAppend
          <6>3. applied[b] \o Append(pending[b], m.n) = Append(applied[b] \o pending[b], m.n)
            BY <1>3, <4>2, <6>2, Zenon
          <6> QED
            BY <6>1, <6>3
        <5> QED
          BY <5>1, <5>2
      <4> QED
        BY <1>1, <2>1, <2>3, <3>4, <4>3, TakeFirst DEF m
    <3> QED
      BY <3>2, <3>3, <3>4
  <2> QED
    BY <2>2, <2>3
<1> QED
  BY <1>7, <1>8, <1>9, <1>10 DEF Delivery

(* Steps that leave every session its connection and register none.        *)
LEMMA StillDelivery ==
  ASSUME TypeOK, Delivery, NoneBegins,
         UNCHANGED <<applied, pending, sent, inbox, answered, link, used, online>>,
         \A b \in Bridges : device'[b] # "none" => device[b] # "none" \/ peer[b] # "none",
         \A k \in Conns : cameras'[k] \subseteq cameras[k]
  PROVE  Delivery'
<1>1. \A b \in Bridges : Reachable(b)' => link'[b] \in Conns /\ Reachable(b)
  BY DEF Reachable, TypeOK
<1> QED
  BY <1>1, QuietDelivery DEF NoneBegins

(* A session that has not begun is given a connection: a new one is not    *)
(* that of any other.                                                      *)
LEMMA OpenDelivery ==
  ASSUME TypeOK, Delivery, NEW c \in Bridges, peer[c] = "none", GetClient(c),
         UNCHANGED <<applied, pending, sent, inbox, answered, peer, device, cameras>>
  PROVE  Delivery'
<1>1. \A b \in Bridges : link[b] \in used \cup {None} /\ (b # c => link'[b] = link[b])
  BY DEF Delivery, MailAtLink, GetClient, TypeOK
<1>2. CASE link'[c] \in online /\ UNCHANGED <<online, used>>
  <2>1. \A b \in Bridges : Reachable(b)' => link'[b] \in Conns /\ (Reachable(b) \/ peer[b] = "none")
    BY <1>1, <1>2 DEF Reachable, TypeOK
  <2> QED
    BY <1>1, <1>2, <2>1, QuietDelivery DEF TypeOK
<1>3. ASSUME NEW k \in Conns \ used, link'[c] = k, used' = used \cup {k}, online' = {k}
      PROVE  Delivery'
  <2>1. \A b \in Bridges : Reachable(b)' => link'[b] \in Conns /\ peer[b] = "none"
    BY <1>1, <1>3, NoneAssumption DEF Reachable
  <2> QED
    BY <1>1, <1>3, <2>1, QuietDelivery
<1> QED
  BY <1>2, <1>3 DEF GetClient, TypeOK

(* Every step keeps Delivery.                                              *)
LEMMA DeliveryInductive ==
  TypeOK /\ StartsFresh /\ PeersDescribed /\ Delivery /\ [Next]_vars => Delivery'
<1> SUFFICES ASSUME TypeOK, StartsFresh, PeersDescribed, Delivery, [Next]_vars PROVE Delivery'
    OBVIOUS
<1> USE DEF vars, streamVars, bridgeVars, iceVars, peerVars, connVars, mqttVars, callVars,
            deviceVars
<1>1. ASSUME NEW s \in Streams, Open(s) PROVE Delivery'
  <2>1. Fresh(s)
    BY DEF StartsFresh
  <2>2. <<1, s>> \in Bridges /\ peer[<<1, s>>] = "none"
    BY <1>1, <2>1 DEF Open, Fresh, Current, Bridges
  <2>3. /\ GetClient(<<1, s>>)
        /\ UNCHANGED <<applied, pending, sent, inbox, answered, peer, device, cameras>>
    BY <1>1 DEF Open
  <2> QED
    BY <2>2, <2>3, OpenDelivery
<1>2. ASSUME NEW s \in Streams, Join(s) PROVE Delivery'
  <2>1. UNCHANGED <<applied, pending, sent, inbox, answered, link, used, online, peer, device,
                    cameras>>
    BY <1>2 DEF Join
  <2> QED
    BY <2>1, StillDelivery DEF NoneBegins
<1>3. ASSUME NEW s \in Streams, Leave(s) PROVE Delivery'
  <2>1. UNCHANGED <<applied, pending, sent, inbox, answered, link, used, online, peer, device,
                    cameras>>
    BY <1>3 DEF Leave
  <2> QED
    BY <2>1, StillDelivery DEF NoneBegins
<1>4. ASSUME NEW s \in Streams, Shutdown(s) PROVE Delivery'
  <2>1. /\ OnlyCloses
        /\ UNCHANGED <<applied, pending, sent, inbox, answered, link, used, online>>
    BY <1>4, StopStreamCloses DEF Shutdown
  <2>2. NoneBegins
    BY <2>1, ClosingBeginsNone
  <2> QED
    BY <2>1, <2>2, StillDelivery DEF OnlyCloses
<1>5. ASSUME NEW s \in Streams, Attempt(s) PROVE Delivery'
  <2>1. UNCHANGED <<applied, pending, sent, inbox, answered, link, used, online, peer, device,
                    cameras>>
    BY <1>5 DEF Attempt
  <2> QED
    BY <2>1, StillDelivery DEF NoneBegins
<1>6. ASSUME NEW s \in Streams, Retry(s) PROVE Delivery'
  <2>1. Fresh(s)
    BY DEF StartsFresh
  <2>2. <<2, s>> \in Bridges /\ peer[<<2, s>>] = "none"
    BY <1>6, <2>1 DEF Retry, Fresh, Bridges
  <2>3. UNCHANGED <<applied, pending, sent, inbox, answered, peer, device, cameras>>
    BY <1>6 DEF Retry
  <2>4. CASE GetClient(<<2, s>>)
    BY <2>2, <2>3, <2>4, OpenDelivery
  <2>5. CASE UNCHANGED connVars
    BY <2>3, <2>5, StillDelivery DEF NoneBegins
  <2> QED
    BY <1>6, <2>4, <2>5 DEF Retry
<1>7. ASSUME NEW s \in Streams, Abandon(s) PROVE Delivery'
  <2>1. UNCHANGED <<applied, pending, sent, inbox, answered, link, used, online, peer, device,
                    cameras>>
    BY <1>7 DEF Abandon
  <2> QED
    BY <2>1, StillDelivery DEF NoneBegins
<1>8. ASSUME NEW s \in Streams, StartOffers(s) PROVE Delivery'
  <2> DEFINE c == Current(s)
  <2>1. Fresh(s) /\ c \in Bridges
    BY DEF StartsFresh, Current, Bridges, TypeOK
  <2>2. /\ peer[c] = "none"
        /\ UNCHANGED <<applied, pending, sent, inbox, answered, link, used, online>>
        /\ \/ UNCHANGED <<cameras, peer, device>>
           \/ /\ cameras' = [cameras EXCEPT ![link[c]] = @ \cup {c}]
              /\ peer' = [peer EXCEPT ![c] = "offered"]
              /\ device' = [device EXCEPT ![c] = "offered"] \/ device' = device
    BY <1>8, <2>1 DEF StartOffers, Fresh
  <2> HIDE DEF c
  <2>3. CASE UNCHANGED <<cameras, peer, device>>
    BY <2>2, <2>3, StillDelivery DEF NoneBegins
  <2>4. CASE /\ cameras' = [cameras EXCEPT ![link[c]] = @ \cup {c}]
             /\ peer' = [peer EXCEPT ![c] = "offered"]
             /\ device' = [device EXCEPT ![c] = "offered"] \/ device' = device
    <3>1. \A b \in Bridges : Reachable(b)' => link'[b] \in Conns /\ (Reachable(b) \/ peer[b] = "none")
      BY <2>1, <2>2, <2>4 DEF Reachable, TypeOK
    <3>2. \A b \in Bridges :
            /\ peer[b] # "none" => peer'[b] # "none"
            /\ device'[b] # "none" => device[b] # "none" \/ peer'[b] # "none"
      BY <2>1, <2>4 DEF TypeOK
    <3> QED
      BY <2>2, <3>1, <3>2, QuietDelivery
  <2> QED
    BY <2>2, <2>3, <2>4
<1>9. ASSUME NEW s \in Streams, StartSucceeds(s) PROVE Delivery'
  <2>1. UNCHANGED <<applied, pending, sent, inbox, answered, link, used, online, peer, device,
                    cameras>>
    BY <1>9 DEF StartSucceeds
  <2> QED
    BY <2>1, StillDelivery DEF NoneBegins
<1>10. ASSUME NEW s \in Streams, StartFails(s) PROVE Delivery'
  <2>1. UNCHANGED <<applied, pending, sent, inbox, answered, link, used, online, peer, device,
                    cameras>>
    BY <1>10 DEF StartFails
  <2> QED
    BY <2>1, StillDelivery DEF NoneBegins
<1>11. ASSUME NEW s \in Streams, GiveUp(s) PROVE Delivery'
  <2>1. /\ OnlyCloses
        /\ UNCHANGED <<applied, pending, sent, inbox, answered, link, used, online>>
    BY <1>11, StopStreamCloses DEF GiveUp
  <2>2. NoneBegins
    BY <2>1, ClosingBeginsNone
  <2> QED
    BY <2>1, <2>2, StillDelivery DEF OnlyCloses
<1>12. ASSUME NEW k \in Conns, Consume(k) PROVE Delivery'
  BY <1>12, ConsumeDelivery
<1>13. ASSUME NEW b \in Bridges, PeerConnects(b) PROVE Delivery'
  <2>1. NoneBegins /\ UNCHANGED <<applied, pending, sent, inbox, answered, link, used, online,
                                  device, cameras>>
    BY <1>13 DEF PeerConnects, NoneBegins, TypeOK
  <2> QED
    BY <2>1, StillDelivery
<1>14. ASSUME NEW b \in Bridges, ChannelOpens(b) PROVE Delivery'
  <2>1. UNCHANGED <<applied, pending, sent, inbox, answered, link, used, online, peer, device,
                    cameras>>
    BY <1>14 DEF ChannelOpens, ChannelStep
  <2> QED
    BY <2>1, StillDelivery DEF NoneBegins
<1>15. ASSUME NEW b \in Bridges, ChannelCodec(b) PROVE Delivery'
  <2>1. UNCHANGED <<applied, pending, sent, inbox, answered, link, used, online, peer, device,
                    cameras>>
    BY <1>15 DEF ChannelCodec, ChannelStep
  <2> QED
    BY <2>1, StillDelivery DEF NoneBegins
<1>16. ASSUME NEW b \in Bridges, ChannelRecv(b) PROVE Delivery'
  <2>1. UNCHANGED <<applied, pending, sent, inbox, answered, link, used, online, peer, device,
                    cameras>>
    BY <1>16 DEF ChannelRecv, ChannelStep
  <2> QED
    BY <2>1, StillDelivery DEF NoneBegins
<1>17. ASSUME NEW b \in Bridges, PeerFails(b) PROVE Delivery'
  <2>1. NoneBegins /\ UNCHANGED <<applied, pending, sent, inbox, answered, link, used, online,
                                  device, cameras>>
    BY <1>17 DEF PeerFails, NoneBegins, TypeOK
  <2> QED
    BY <2>1, StillDelivery
<1>18. ASSUME NEW b \in Bridges, PeerAlarm(b) PROVE Delivery'
  <2>1. UNCHANGED <<applied, pending, sent, inbox, answered, link, used, online, peer, device,
                    cameras>>
    BY <1>18 DEF PeerAlarm
  <2> QED
    BY <2>1, StillDelivery DEF NoneBegins
<1>19. ASSUME NEW r \in Callers, TellWaiter(r) PROVE Delivery'
  <2>1. UNCHANGED <<applied, pending, sent, inbox, answered, link, used, online, peer, device,
                    cameras>>
    BY <1>19 DEF TellWaiter
  <2> QED
    BY <2>1, StillDelivery DEF NoneBegins
<1>20. ASSUME NEW r \in Callers, StoreError(r) PROVE Delivery'
  <2>1. UNCHANGED <<applied, pending, sent, inbox, answered, link, used, online, peer, device,
                    cameras>>
    BY <1>20 DEF StoreError
  <2> QED
    BY <2>1, StillDelivery DEF NoneBegins
<1>21. ASSUME NEW r \in Callers, CheckFlags(r) PROVE Delivery'
  <2>1. UNCHANGED <<applied, pending, sent, inbox, answered, link, used, online, peer, device,
                    cameras>>
    BY <1>21 DEF CheckFlags
  <2> QED
    BY <2>1, StillDelivery DEF NoneBegins
<1>22. ASSUME NEW r \in Callers, CountClients(r) PROVE Delivery'
  <2>1. UNCHANGED <<applied, pending, sent, inbox, answered, link, used, online, peer, device,
                    cameras>>
    BY <1>22 DEF CountClients
  <2> QED
    BY <2>1, StillDelivery DEF NoneBegins
<1>23. ASSUME NEW r \in Callers, ErrorStop(r) PROVE Delivery'
  <2>1. UNCHANGED <<applied, pending, sent, inbox, answered, link, used, online, peer, device,
                    cameras>>
    BY <1>23 DEF ErrorStop
  <2> QED
    BY <2>1, StillDelivery DEF NoneBegins
<1>24. ASSUME NEW r \in Callers, ErrorHalt(r) PROVE Delivery'
  <2>1. /\ OnlyCloses
        /\ UNCHANGED <<applied, pending, sent, inbox, answered, link, used, online>>
    BY <1>24, ErrorHaltCloses DEF ErrorHalt
  <2>2. NoneBegins
    BY <2>1, ClosingBeginsNone
  <2> QED
    BY <2>1, <2>2, StillDelivery DEF OnlyCloses
<1>25. ASSUME NEW r \in Callers, Drop(r) PROVE Delivery'
  <2>1. UNCHANGED <<applied, pending, sent, inbox, answered, link, used, online, peer, device,
                    cameras>>
    BY <1>25 DEF Drop
  <2> QED
    BY <2>1, StillDelivery DEF NoneBegins
<1>26. ASSUME NEW b \in Bridges, DeviceAnswers(b) PROVE Delivery'
  <2>1. PICK t \in {"answer", "garbled"} : Send(b, t, 0)
    BY <1>26 DEF DeviceAnswers
  <2>2. peer[b] # "none" /\ 0 \in 0 .. MaxCandidates
    BY <1>26, BoundsAssumption DEF DeviceAnswers, Delivery, NothingEarly
  <2>3. UNCHANGED <<applied, pending, answered, link, used, online, cameras, peer, sent>>
    BY <1>26 DEF DeviceAnswers
  <2>4. \A c \in Bridges \ {b} : device'[c] = device[c]
    BY <1>26 DEF DeviceAnswers, TypeOK
  <2> QED
    BY <2>1, <2>2, <2>3, <2>4, SendDelivery
<1>27. ASSUME NEW b \in Bridges, DeviceSendsCandidate(b) PROVE Delivery'
  <2>1. /\ Send(b, "candidate", sent[b] + 1) /\ sent' = [sent EXCEPT ![b] = sent[b] + 1]
        /\ UNCHANGED <<applied, pending, answered, link, used, online, cameras, peer, device>>
        /\ sent[<<1, Owner(b)>>] + sent[<<2, Owner(b)>>] < MaxCandidates
    BY <1>27 DEF DeviceSendsCandidate
  <2>2. peer[b] # "none"
    BY <1>27 DEF DeviceSendsCandidate, Delivery, NothingEarly
  <2>3. sent[b] + 1 \in 0 .. MaxCandidates
    <3>1. /\ <<1, Owner(b)>> \in Bridges /\ <<2, Owner(b)>> \in Bridges
          /\ b = <<1, Owner(b)>> \/ b = <<2, Owner(b)>>
      BY DEF Owner, Bridges
    <3>2. sent[<<1, Owner(b)>>] \in Nat /\ sent[<<2, Owner(b)>>] \in Nat
      BY <3>1 DEF TypeOK
    <3>3. sent[b] = sent[<<1, Owner(b)>>] \/ sent[b] = sent[<<2, Owner(b)>>]
      BY <3>1
    <3> QED
      BY <2>1, <3>2, <3>3, BoundsAssumption
  <2> QED
    BY <2>1, <2>2, <2>3, SendDelivery
<1>28. ASSUME NEW b \in Bridges, DeviceDisconnects(b) PROVE Delivery'
  <2>1. /\ Send(b, "disconnect", 0)
        /\ UNCHANGED <<applied, pending, answered, link, used, online, cameras, peer, sent>>
    BY <1>28 DEF DeviceDisconnects
  <2>2. peer[b] # "none" /\ 0 \in 0 .. MaxCandidates
    BY <1>28, BoundsAssumption DEF DeviceDisconnects, Delivery, NothingEarly
  <2>3. \A c \in Bridges \ {b} : device'[c] = device[c]
    BY <1>28 DEF DeviceDisconnects, TypeOK
  <2> QED
    BY <2>1, <2>2, <2>3, SendDelivery
<1>29. ASSUME NEW k \in Conns, ConnectionLost(k) PROVE Delivery'
  <2>1. /\ online' = online \ {k} /\ inbox' = [inbox EXCEPT ![k] = <<>>]
        /\ UNCHANGED <<applied, pending, sent, answered, link, used, peer, device, cameras>>
    BY <1>29 DEF ConnectionLost
  <2>2. /\ inbox'[k] = <<>> /\ DOMAIN inbox'[k] = {}
        /\ \A q \in Conns \ {k} : inbox'[q] = inbox[q]
    BY <2>1 DEF TypeOK
  <2>3. NothingEarly'
    BY <2>1, <2>2 DEF Delivery, NothingEarly
  <2>4. MailAtLink'
    BY <2>1, <2>2 DEF Delivery, MailAtLink
  <2>5. KeptForAnswer'
    BY <2>1 DEF Delivery, KeptForAnswer
  <2>6. CandidatesKept'
    <3> SUFFICES ASSUME NEW b \in Bridges, Reachable(b)' PROVE InOrder(b)'
      BY KeptByBridgeNext
    <3>1. Reachable(b) /\ link[b] \in Conns \ {k}
      BY <2>1 DEF Reachable, TypeOK
    <3>2. InOrder(b)
      BY <3>1, KeptByBridge DEF Delivery
    <3> QED
      BY <2>1, <2>2, <3>1, <3>2, OrderSame
  <2> QED
    BY <2>3, <2>4, <2>5, <2>6 DEF Delivery
<1>30. CASE UNCHANGED vars
  BY <1>30, StillDelivery DEF NoneBegins
<1> QED
  BY <1>1, <1>2, <1>3, <1>4, <1>5, <1>6, <1>7, <1>8, <1>9, <1>10, <1>11, <1>12, <1>13,
     <1>14, <1>15, <1>16, <1>17, <1>18, <1>19, <1>20, <1>21, <1>22, <1>23, <1>24, <1>25,
     <1>26, <1>27, <1>28, <1>29, <1>30
     DEF Next, Program, Peers, Starter, Callback

-----------------------------------------------------------------------------
(* Wake-ups.                                                               *)

(* What keeps a waiter's wake-up under way: a goroutine about to tell it,  *)
(* or mail that will make one.                                             *)
Telling(b) == \E r \in Callers : stage[r] = "tell" /\ Subject(r) = b
Mail(b) == \E i \in DOMAIN inbox[link[b]] :
             inbox[link[b]][i].to = b /\ inbox[link[b]][i].type # "candidate"

(* An open waiter, by where the peer connection of its bridge is.          *)
Awaited(b) ==
  waiter[b] = "open" =>
    /\ channel[b] # "complete"
    /\ peer[b] = "offered" /\ Reachable(b) => device[b] = "offered" \/ Mail(b) \/ Telling(b)
    /\ peer[b] = "connected" => Owner(b) \in hevc \/ Owner(b)[2] # "hd"
    /\ peer[b] \in {"failed", "closed"} => b \in alarm \/ Telling(b)
AllAwaited == \A b \in Bridges : Awaited(b)

(* The session of a Start that waits is registered: only the bridges of    *)
(* streams whose startStream is through are ever stopped.                  *)
UpWhenDone == \A b \in connected : start[Owner(b)] = "done"
Registered ==
  \A s \in Streams : start[s] = "waiting" =>
    link[Current(s)] \in Conns /\ Current(s) \in cameras[link[Current(s)]]

(* A goroutine that is not telling anybody moves on.                       *)
LEMMA TellingKept ==
  ASSUME NEW r \in Callers, stage[r] # "tell",
         \A q \in Callers \ {r} : stage'[q] = stage[q] /\ job'[q] = job[q]
  PROVE  \A b \in Bridges : Telling(b) => Telling(b)'
BY DEF Telling, Subject

(* Steps that touch neither waiters nor mail, and close peer connections   *)
(* at most.                                                                *)
LEMMA QuietAwaited ==
  ASSUME AllAwaited, UNCHANGED <<hevc, waiter, channel, inbox>>, alarm \subseteq alarm',
         \A b \in Bridges : Telling(b) => Telling(b)',
         \A b \in Bridges :
           /\ peer'[b] = peer[b] \/ (peer'[b] = "closed" /\ b \in alarm')
           /\ peer[b] = "offered" /\ peer'[b] = "offered" /\ Reachable(b)' =>
                Reachable(b) /\ device'[b] = device[b] /\ link'[b] = link[b]
  PROVE  AllAwaited'
<1> SUFFICES ASSUME NEW b \in Bridges, waiter'[b] = "open" PROVE Awaited(b)'
  BY DEF AllAwaited, Awaited
<1>1. Awaited(b) /\ waiter[b] = "open"
  BY DEF AllAwaited
<1>2. CASE peer'[b] = peer[b]
  <2>1. peer[b] = "offered" /\ Reachable(b)' => device'[b] = "offered" \/ Mail(b)' \/ Telling(b)'
    BY <1>1, <1>2 DEF Awaited, Mail
  <2> QED
    BY <1>1, <1>2, <2>1 DEF Awaited
<1>3. CASE peer'[b] = "closed" /\ b \in alarm'
  BY <1>1, <1>3 DEF Awaited
<1> QED
  BY <1>2, <1>3

(* A stop, as far as wake-ups go: of one bridge, ...                       *)
Stops == /\ alarm \subseteq alarm'
         /\ \A b \in Bridges : \/ peer'[b] = peer[b] /\ device'[b] = device[b]
                               \/ peer'[b] = "closed" /\ b \in alarm'
         /\ \A b \in Bridges : device'[b] \in {device[b], "gone"}
         /\ \A b \in alarm' : (b \in alarm /\ peer'[b] = peer[b]) \/ peer'[b] = "closed"
         /\ \A k \in Conns : cameras'[k] \subseteq cameras[k]

LEMMA StopBridgeStops == ASSUME TypeOK, NEW b \in Bridges, StopBridge(b) PROVE Stops
<1>1. CASE b \in connected
  <2>1. /\ peer' = [peer EXCEPT ![b] = "closed"] /\ alarm' = alarm \cup {b}
        /\ cameras' = [cameras EXCEPT ![link[b]] = @ \ {b}]
        /\ device' = [device EXCEPT ![b] = IF link[b] \in online THEN "gone" ELSE @]
    BY <1>1 DEF StopBridge
  <2>2. \A c \in Bridges \ {b} : peer'[c] = peer[c] /\ device'[c] = device[c]
    BY <2>1 DEF TypeOK
  <2>3. peer'[b] = "closed" /\ b \in alarm'
    BY <2>1 DEF TypeOK
  <2>4. \A k \in Conns : cameras'[k] \subseteq cameras[k]
    BY <2>1 DEF TypeOK
  <2>5. device'[b] \in {device[b], "gone"}
    BY <2>1 DEF TypeOK
  <2>6. \A c \in alarm' : (c \in alarm /\ peer'[c] = peer[c]) \/ peer'[c] = "closed"
    BY <2>1, <2>2, <2>3 DEF TypeOK
  <2> QED
    BY <2>1, <2>2, <2>3, <2>4, <2>5, <2>6 DEF Stops
<1>2. CASE b \notin connected
  BY <1>2 DEF StopBridge, Stops
<1> QED
  BY <1>1, <1>2

(* ... or of a stream.                                                     *)
LEMMA StopStreamStops == ASSUME TypeOK, NEW s \in Streams, StopStream(s) PROVE Stops
<1>1. CASE Running(s)
  <2>1. Current(s) \in Bridges /\ StopBridge(Current(s))
    BY <1>1 DEF StopStream, Current, Bridges, TypeOK
  <2> QED
    BY <2>1, StopBridgeStops
<1>2. CASE ~Running(s)
  BY <1>2 DEF StopStream, Stops
<1> QED
  BY <1>1, <1>2

LEMMA StopAwaited ==
  ASSUME TypeOK, AllAwaited, Stops, UNCHANGED <<hevc, waiter, channel, inbox, link, online>>,
         \A b \in Bridges : Telling(b) => Telling(b)'
  PROVE  AllAwaited'
<1>1. \A b \in Bridges :
           /\ peer'[b] = peer[b] \/ (peer'[b] = "closed" /\ b \in alarm')
           /\ peer[b] = "offered" /\ peer'[b] = "offered" /\ Reachable(b)' =>
                Reachable(b) /\ device'[b] = device[b] /\ link'[b] = link[b]
  BY DEF Stops, Reachable, TypeOK
<1> QED
  BY <1>1, QuietAwaited DEF Stops

(* A session that has no offer out is given a connection.                  *)
LEMMA ClientAwaited ==
  ASSUME TypeOK, MailAtLink, AllAwaited, NEW c \in Bridges, peer[c] = "none", GetClient(c),
         UNCHANGED <<hevc, waiter, channel, inbox, alarm, stage, job, peer, device, cameras>>
  PROVE  AllAwaited'
<1>1. \A b \in Bridges \ {c} : link'[b] = link[b]
  BY DEF GetClient, TypeOK
<1>2. \A b \in Bridges \ {c} : Reachable(b)' => Reachable(b)
  <2>1. CASE UNCHANGED online
    BY <1>1, <2>1 DEF Reachable
  <2>2. ASSUME NEW k \in Conns \ used, online' = {k}
        PROVE  \A b \in Bridges \ {c} : ~Reachable(b)'
    BY <1>1, <2>2, NoneAssumption DEF Reachable, MailAtLink
  <2> QED
    BY <2>1, <2>2 DEF GetClient
<1>3. \A b \in Bridges : Telling(b) => Telling(b)'
  BY DEF Telling, Subject
<1> QED
  BY <1>1, <1>2, <1>3, QuietAwaited

(* Mail that is sent stays until it is taken, ...                          *)
LEMMA SendKeepsMail ==
  ASSUME TypeOK, NEW c \in Bridges, NEW t, NEW n, Send(c, t, n), link' = link,
         NEW b \in Bridges, link[b] \in Conns, Mail(b) \/ (b = c /\ t # "candidate")
  PROVE  Mail(b)'
<1> DEFINE m == Message(c, t, n)
           mail == inbox[link[b]]
<1>1. mail \in Seq(Messages) /\ Len(mail) \in Nat /\ DOMAIN mail = 1 .. Len(mail)
  BY DEF TypeOK
<1>2. m.to = c /\ m.type = t
  BY DEF Message
<1>3. CASE link[b] = link[c]
  <2>1. inbox'[link'[b]] = Append(mail, m)
    BY <1>1, <1>3 DEF Send, TypeOK
  <2> DEFINE new == inbox'[link'[b]]
  <2>2. /\ DOMAIN new = 1 .. Len(mail) + 1
        /\ \A i \in 1 .. Len(mail) : new[i] = mail[i]
        /\ new[Len(mail) + 1] = m
    <3> HIDE DEF m, mail
    <3> QED
      BY <1>1, <2>1
  <2> HIDE DEF new, m
  <2>3. CASE Mail(b)
    <3>1. PICK i \in DOMAIN mail : mail[i].to = b /\ mail[i].type # "candidate"
      BY <2>3 DEF Mail
    <3>2. i \in DOMAIN new /\ new[i] = mail[i]
      BY <1>1, <2>2
    <3> QED
      BY <3>1, <3>2 DEF Mail, new
  <2>4. CASE b = c /\ t # "candidate"
    <3>1. Len(mail) + 1 \in DOMAIN new /\ new[Len(mail) + 1].to = b
          /\ new[Len(mail) + 1].type # "candidate"
      BY <1>1, <1>2, <2>2, <2>4
    <3> QED
      BY <3>1 DEF Mail, new
  <2> QED
    BY <2>3, <2>4
<1>4. CASE link[b] # link[c]
  <2>1. inbox'[link'[b]] = mail /\ b # c
    BY <1>4 DEF Send, TypeOK
  <2> QED
    BY <2>1 DEF Mail
<1> QED
  BY <1>3, <1>4

(* ... first come, first served.                                           *)
LEMMA TakeKeepsMail ==
  ASSUME TypeOK, NEW k \in Conns, inbox[k] # <<>>, inbox' = [inbox EXCEPT ![k] = Tail(@)],
         link' = link, NEW b \in Bridges, link[b] \in Conns, Mail(b)
  PROVE  \/ Mail(b)'
         \/ link[b] = k /\ Head(inbox[k]).to = b /\ Head(inbox[k]).type # "candidate"
<1>1. CASE link[b] # k
  <2>1. inbox'[link'[b]] = inbox[link[b]]
    BY <1>1 DEF TypeOK
  <2> QED
    BY <2>1 DEF Mail
<1>2. CASE link[b] = k
  <2> DEFINE mail == inbox[k]
             new == inbox'[k]
  <2>1. mail \in Seq(Messages) /\ Len(mail) \in Nat /\ DOMAIN mail = 1 .. Len(mail)
    BY DEF TypeOK
  <2>2. new = Tail(mail)
    BY DEF TypeOK
  <2>3. PICK i \in 1 .. Len(mail) : mail[i].to = b /\ mail[i].type # "candidate"
    BY <1>2, <2>1 DEF Mail
  <2>4. CASE i = 1
    <3>1. Head(mail) = mail[1]
      BY <2>1
    <3> QED
      BY <1>2, <2>3, <2>4, <3>1
  <2>5. CASE i # 1
    <3>1. /\ Len(new) = Len(mail) - 1 /\ DOMAIN new = 1 .. Len(new)
          /\ \A j \in 1 .. Len(new) : new[j] = mail[j + 1]
      BY <2>1, <2>2, HeadTailProperties, LenProperties
    <3>2. i - 1 \in 1 .. Len(new) /\ (i - 1) + 1 = i
      BY <2>1, <2>5, <3>1
    <3>3. i - 1 \in DOMAIN new /\ new[i - 1] = mail[i]
      BY <3>1, <3>2
    <3> QED
      BY <1>2, <2>3, <3>3 DEF Mail
  <2> QED
    BY <2>4, <2>5
<1> QED
  BY <1>1, <1>2

(* Steps that touch nothing of the kind.                                   *)
LEMMA StillAwaited ==
  ASSUME AllAwaited,
         UNCHANGED <<hevc, waiter, channel, inbox, alarm, peer, device, cameras, link, online>>,
         \A b \in Bridges : Telling(b) => Telling(b)'
  PROVE  AllAwaited'
<1>1. \A b \in Bridges : Reachable(b)' => Reachable(b)
  BY DEF Reachable
<1> QED
  BY <1>1, QuietAwaited

(* A message is taken: it is an answer, or the one who took it will tell.  *)
LEMMA ConsumeAwaited ==
  ASSUME TypeOK, MailAtLink, AllAwaited, NEW k \in Conns, Consume(k)
  PROVE  AllAwaited'
<1> DEFINE m == Head(inbox[k])
<1>1. /\ inbox[k] # <<>> /\ inbox[k] \in Seq(Messages)
      /\ inbox' = [inbox EXCEPT ![k] = Tail(@)] /\ stage[k] = "idle"
      /\ UNCHANGED <<hevc, waiter, channel, alarm, link, online, cameras, device>>
  BY DEF Consume, TypeOK, connVars, deviceVars, bridgeVars
<1>2. m \in Messages /\ m = inbox[k][1] /\ 1 \in DOMAIN inbox[k]
  BY <1>1, HeadTailProperties, LenProperties, EmptySeq
<1>3. m.to \in Bridges /\ link[m.to] = k /\ k \in Callers
  BY <1>2, SMTT(30) DEF Messages, MailAtLink, Callers
<1>4. \/ m.to \notin cameras[k] /\ UNCHANGED <<peer, stage, job>>
      \/ m.type = "answer" /\ TakeAnswer(m.to) /\ UNCHANGED <<stage, job>>
      \/ m.type = "candidate" /\ UNCHANGED <<peer, stage, job>>
      \/ Report(k, m) /\ UNCHANGED peer
  BY DEF Consume, iceVars, callVars, TakeCandidate
<1> HIDE DEF m
<1>5. \A b \in Bridges : Telling(b) => Telling(b)'
  <2>1. CASE UNCHANGED <<stage, job>>
    BY <2>1 DEF Telling, Subject
  <2>2. CASE Report(k, m)
    <3>1. \A q \in Callers \ {k} : stage'[q] = stage[q] /\ job'[q] = job[q]
      BY <2>2 DEF Report, TypeOK
    <3> QED
      BY <1>1, <1>3, <3>1, TellingKept
  <2> QED
    BY <1>4, <2>1, <2>2
<1>6. \A b \in Bridges : /\ peer'[b] = peer[b] \/ (peer[b] = "offered" /\ peer'[b] = "described")
                         /\ Reachable(b)' <=> Reachable(b)
  BY <1>1, <1>3, <1>4 DEF TakeAnswer, Reachable, TypeOK
<1> SUFFICES ASSUME NEW b \in Bridges, waiter[b] = "open" PROVE Awaited(b)'
  BY <1>1 DEF AllAwaited, Awaited
<1>7. Awaited(b)
  BY DEF AllAwaited
<1>8. CASE peer'[b] # "offered"
  BY <1>1, <1>5, <1>6, <1>7, <1>8 DEF Awaited
<1>9. CASE peer'[b] = "offered" /\ ~Reachable(b)
  BY <1>1, <1>6, <1>7, <1>9 DEF Awaited
<1>10. CASE peer'[b] = "offered" /\ Reachable(b)
  <2>1. peer[b] = "offered" /\ (device[b] = "offered" \/ Mail(b) \/ Telling(b))
    BY <1>6, <1>7, <1>10 DEF Awaited
  <2>2. CASE ~Mail(b) \/ Mail(b)'
    <3>1. device'[b] = "offered" \/ Mail(b)' \/ Telling(b)'
      BY <1>1, <1>5, <2>1, <2>2
    <3> QED
      BY <1>1, <1>7, <1>10, <3>1 DEF Awaited
  <2>3. CASE Mail(b) /\ ~Mail(b)'
    <3>1. link[b] \in Conns
      BY <1>10 DEF Reachable, TypeOK
    <3>2. link[b] = k /\ m.to = b /\ m.type # "candidate"
      BY <1>1, <2>3, <3>1, TakeKeepsMail DEF m
    <3>3. b \in cameras[k]
      BY <1>10, <3>2 DEF Reachable
    <3>4. ~TakeAnswer(b)
      BY <1>10, <2>1 DEF TakeAnswer, TypeOK
    <3>5. Report(k, m)
      BY <1>4, <3>2, <3>3, <3>4
    <3>6. stage'[k] = "tell" /\ job'[k] = m
      BY <1>3, <3>5 DEF Report, TypeOK
    <3>7. Telling(b)'
      BY <1>3, <3>2, <3>6 DEF Telling, Subject
    <3> QED
      BY <1>1, <1>7, <1>10, <3>7 DEF Awaited
  <2> QED
    BY <2>2, <2>3
<1> QED
  BY <1>8, <1>9, <1>10

(* A device sends: its answer, at least, will be told.                     *)
LEMMA SendAwaited ==
  ASSUME TypeOK, AllAwaited, NEW c \in Bridges, NEW t, NEW n, Send(c, t, n),
         UNCHANGED <<hevc, waiter, channel, alarm, stage, job, peer, cameras, link, online>>,
         \A b \in Bridges : device'[b] = device[b] \/ (b = c /\ t # "candidate")
  PROVE  AllAwaited'
<1> SUFFICES ASSUME NEW b \in Bridges, waiter[b] = "open" PROVE Awaited(b)'
  BY DEF AllAwaited, Awaited
<1>1. Awaited(b)
  BY DEF AllAwaited
<1>2. Telling(b)' <=> Telling(b)
  BY DEF Telling, Subject
<1>3. CASE Reachable(b)
  <2>1. link[b] \in Conns
    BY <1>3 DEF Reachable, TypeOK
  <2>2. Mail(b) \/ (b = c /\ t # "candidate") => Mail(b)'
    BY <2>1, SendKeepsMail
  <2>3. device'[b] = "offered" \/ Mail(b)' \/ Telling(b)' \/ peer[b] # "offered"
    BY <1>1, <1>2, <1>3, <2>2 DEF Awaited
  <2> QED
    BY <1>1, <1>2, <2>3 DEF Awaited
<1>4. CASE ~Reachable(b)
  <2>1. ~Reachable(b)'
    BY <1>4 DEF Reachable
  <2> QED
    BY <1>1, <1>2, <2>1 DEF Awaited
<1> QED
  BY <1>3, <1>4

(* One bridge's connection gets on, or its waiter is told.                 *)
LEMMA OtherAwaited ==
  ASSUME TypeOK, AllAwaited, NEW c \in Bridges, Awaited(c)',
         UNCHANGED <<hevc, inbox, device, cameras, link, online>>,
         \A b \in Bridges \ {c} :
           /\ waiter'[b] = waiter[b] /\ channel'[b] = channel[b] /\ peer'[b] = peer[b]
           /\ b \in alarm => b \in alarm'
           /\ Telling(b) => Telling(b)'
  PROVE  AllAwaited'
<1> SUFFICES ASSUME NEW b \in Bridges \ {c} PROVE Awaited(b)'
  BY DEF AllAwaited
<1>1. Awaited(b) /\ (Reachable(b)' <=> Reachable(b)) /\ (Mail(b)' <=> Mail(b))
  BY DEF AllAwaited, Reachable, Mail
<1> QED
  BY <1>1 DEF Awaited

(* Every step keeps AllAwaited.                                            *)
LEMMA AwaitedInductive ==
  IInv /\ AllAwaited /\ [Next]_vars => AllAwaited'
<1> SUFFICES ASSUME TypeOK, StartsFresh, PeersDescribed, MailAtLink, AllAwaited, [Next]_vars
             PROVE  AllAwaited'
  BY DEF IInv, Delivery
<1> USE DEF vars, streamVars, bridgeVars, iceVars, peerVars, connVars, mqttVars, callVars,
            deviceVars
<1>0. UNCHANGED callVars => \A b \in Bridges : Telling(b) => Telling(b)'
  BY DEF Telling, Subject
<1>1. ASSUME NEW s \in Streams, Open(s) PROVE AllAwaited'
  <2>1. Fresh(s)
    BY DEF StartsFresh
  <2>2. <<1, s>> \in Bridges /\ peer[<<1, s>>] = "none"
    BY <1>1, <2>1 DEF Open, Fresh, Current, Bridges
  <2>3. /\ GetClient(<<1, s>>)
        /\ UNCHANGED <<hevc, waiter, channel, inbox, alarm, stage, job, peer, device, cameras>>
    BY <1>1 DEF Open
  <2> QED
    BY <2>2, <2>3, ClientAwaited
<1>2. ASSUME NEW s \in Streams, Join(s) PROVE AllAwaited'
  <2>1. UNCHANGED <<hevc, waiter, channel, inbox, alarm, peer, device, cameras, link, online>>
        /\ UNCHANGED callVars
    BY <1>2 DEF Join
  <2> QED
    BY <1>0, <2>1, StillAwaited
<1>3. ASSUME NEW s \in Streams, Leave(s) PROVE AllAwaited'
  <2>1. UNCHANGED <<hevc, waiter, channel, inbox, alarm, peer, device, cameras, link, online>>
        /\ UNCHANGED callVars
    BY <1>3 DEF Leave
  <2> QED
    BY <1>0, <2>1, StillAwaited
<1>4. ASSUME NEW s \in Streams, Shutdown(s) PROVE AllAwaited'
  <2>1. /\ StopStream(s) /\ UNCHANGED callVars
        /\ UNCHANGED <<hevc, waiter, channel, inbox, link, online>>
    BY <1>4 DEF Shutdown
  <2> QED
    BY <1>0, <2>1, StopStreamStops, StopAwaited
<1>5. ASSUME NEW s \in Streams, Attempt(s) PROVE AllAwaited'
  <2>1. UNCHANGED <<hevc, waiter, channel, inbox, alarm, peer, device, cameras, link, online>>
        /\ UNCHANGED callVars
    BY <1>5 DEF Attempt
  <2> QED
    BY <1>0, <2>1, StillAwaited
<1>6. ASSUME NEW s \in Streams, Retry(s) PROVE AllAwaited'
  <2>1. Fresh(s)
    BY DEF StartsFresh
  <2>2. <<2, s>> \in Bridges /\ peer[<<2, s>>] = "none"
    BY <1>6, <2>1 DEF Retry, Fresh, Bridges
  <2>3. UNCHANGED <<hevc, waiter, channel, inbox, alarm, stage, job, peer, device, cameras>>
    BY <1>6 DEF Retry
  <2>4. CASE GetClient(<<2, s>>)
    BY <2>2, <2>3, <2>4, ClientAwaited
  <2>5. CASE UNCHANGED connVars
    BY <1>0, <2>3, <2>5, StillAwaited
  <2> QED
    BY <1>6, <2>4, <2>5 DEF Retry
<1>7. ASSUME NEW s \in Streams, Abandon(s) PROVE AllAwaited'
  <2>1. UNCHANGED <<hevc, waiter, channel, inbox, alarm, peer, device, cameras, link, online>>
        /\ UNCHANGED callVars
    BY <1>7 DEF Abandon
  <2> QED
    BY <1>0, <2>1, StillAwaited
<1>8. ASSUME NEW s \in Streams, StartOffers(s) PROVE AllAwaited'
  <2> DEFINE c == Current(s)
             k == link[c]
  <2>1. Fresh(s) /\ c \in Bridges
    BY DEF StartsFresh, Current, Bridges, TypeOK
  <2>2. /\ UNCHANGED <<hevc, waiter, channel, inbox, alarm, link, online>> /\ UNCHANGED callVars
        /\ \/ UNCHANGED <<cameras, peer, device>>
           \/ /\ cameras' = [cameras EXCEPT ![k] = @ \cup {c}]
              /\ peer' = [peer EXCEPT ![c] = "offered"]
              /\ IF k \in online THEN device' = [device EXCEPT ![c] = "offered"]
                                 ELSE device' = device
    BY <1>8 DEF StartOffers
  <2>3. peer[c] = "none"
    BY <1>8, <2>1 DEF StartOffers, Fresh
  <2> HIDE DEF c
  <2>4. CASE UNCHANGED <<cameras, peer, device>>
    BY <1>0, <2>2, <2>4, StillAwaited
  <2>5. CASE /\ cameras' = [cameras EXCEPT ![k] = @ \cup {c}]
             /\ peer' = [peer EXCEPT ![c] = "offered"]
             /\ IF k \in online THEN device' = [device EXCEPT ![c] = "offered"]
                                ELSE device' = device
    <3> SUFFICES ASSUME NEW b \in Bridges PROVE Awaited(b)'
      BY DEF AllAwaited
    <3>1. Awaited(b) /\ (Mail(b)' <=> Mail(b)) /\ (Telling(b) => Telling(b)')
      BY <1>0, <2>2 DEF AllAwaited, Mail
    <3>2. CASE b = c
      <4>1. peer'[b] = "offered" /\ (Reachable(b)' => device'[b] = "offered")
        BY <2>1, <2>2, <2>5, <3>2 DEF Reachable, TypeOK
      <4> QED
        BY <2>2, <3>1, <4>1 DEF Awaited
    <3>3. CASE b # c
      <4>1. peer'[b] = peer[b] /\ device'[b] = device[b] /\ (Reachable(b)' => Reachable(b))
        BY <2>2, <2>5, <3>3 DEF Reachable, TypeOK
      <4> QED
        BY <2>2, <3>1, <4>1 DEF Awaited
    <3> QED
      BY <3>2, <3>3
  <2> QED
    BY <2>2, <2>4, <2>5
<1>9. ASSUME NEW s \in Streams, StartSucceeds(s) PROVE AllAwaited'
  <2>1. UNCHANGED <<hevc, waiter, channel, inbox, alarm, peer, device, cameras, link, online>>
        /\ UNCHANGED callVars
    BY <1>9 DEF StartSucceeds
  <2> QED
    BY <1>0, <2>1, StillAwaited
<1>10. ASSUME NEW s \in Streams, StartFails(s) PROVE AllAwaited'
  <2>1. UNCHANGED <<hevc, waiter, channel, inbox, alarm, peer, device, cameras, link, online>>
        /\ UNCHANGED callVars
    BY <1>10 DEF StartFails, AttemptFails
  <2> QED
    BY <1>0, <2>1, StillAwaited
<1>11. ASSUME NEW s \in Streams, GiveUp(s) PROVE AllAwaited'
  <2>1. /\ StopStream(s) /\ UNCHANGED callVars
        /\ UNCHANGED <<hevc, waiter, channel, inbox, link, online>>
    BY <1>11 DEF GiveUp
  <2> QED
    BY <1>0, <2>1, StopStreamStops, StopAwaited
<1>12. ASSUME NEW k \in Conns, Consume(k) PROVE AllAwaited'
  BY <1>12, ConsumeAwaited
<1>13. ASSUME NEW b \in Bridges, PeerConnects(b) PROVE AllAwaited'
  <2>1. /\ peer[b] = "described" /\ peer' = [peer EXCEPT ![b] = "connected"]
        /\ IF Owner(b) \notin hevc /\ Owner(b)[2] = "hd" THEN Succeed(b) ELSE UNCHANGED waiter
        /\ UNCHANGED <<hevc, channel, alarm, inbox, device, cameras, link, online>>
        /\ UNCHANGED callVars
    BY <1>13 DEF PeerConnects
  <2>2. /\ peer'[b] = "connected"
        /\ waiter'[b] = "open" => waiter[b] = "open" /\ (Owner(b) \in hevc \/ Owner(b)[2] # "hd")
    BY <2>1 DEF Succeed, TypeOK
  <2>3. Awaited(b)'
    BY <2>1, <2>2 DEF AllAwaited, Awaited
  <2>4. \A c \in Bridges \ {b} : waiter'[c] = waiter[c] /\ peer'[c] = peer[c]
    BY <2>1 DEF Succeed, TypeOK
  <2> QED
    BY <1>0, <2>1, <2>3, <2>4, OtherAwaited
<1>14. ASSUME NEW b \in Bridges, ChannelOpens(b) PROVE AllAwaited'
  <2>1. /\ UNCHANGED <<hevc, waiter, inbox, alarm, peer, device, cameras, link, online>>
        /\ UNCHANGED callVars
    BY <1>14 DEF ChannelOpens
  <2>2. channel'[b] # "complete" /\ \A c \in Bridges \ {b} : channel'[c] = channel[c]
    BY <1>14 DEF ChannelOpens, ChannelStep, TypeOK
  <2>3. (Reachable(b)' <=> Reachable(b)) /\ (Mail(b)' <=> Mail(b))
    BY <2>1 DEF Reachable, Mail
  <2>4. Awaited(b)'
    BY <1>0, <2>1, <2>2, <2>3 DEF AllAwaited, Awaited
  <2> QED
    BY <1>0, <2>1, <2>2, <2>4, OtherAwaited
<1>15. ASSUME NEW b \in Bridges, ChannelCodec(b) PROVE AllAwaited'
  <2>1. /\ UNCHANGED <<hevc, waiter, inbox, alarm, peer, device, cameras, link, online>>
        /\ UNCHANGED callVars
    BY <1>15 DEF ChannelCodec
  <2>2. channel'[b] # "complete" /\ \A c \in Bridges \ {b} : channel'[c] = channel[c]
    BY <1>15 DEF ChannelCodec, ChannelStep, TypeOK
  <2>3. (Reachable(b)' <=> Reachable(b)) /\ (Mail(b)' <=> Mail(b))
    BY <2>1 DEF Reachable, Mail
  <2>4. Awaited(b)'
    BY <1>0, <2>1, <2>2, <2>3 DEF AllAwaited, Awaited
  <2> QED
    BY <1>0, <2>1, <2>2, <2>4, OtherAwaited
<1>16. ASSUME NEW b \in Bridges, ChannelRecv(b) PROVE AllAwaited'
  <2>1. /\ Succeed(b) /\ channel' = [channel EXCEPT ![b] = "complete"]
        /\ UNCHANGED <<hevc, inbox, alarm, peer, device, cameras, link, online>>
        /\ UNCHANGED callVars
    BY <1>16 DEF ChannelRecv, ChannelStep
  <2>2. waiter'[b] # "open"
    BY <2>1 DEF Succeed, TypeOK
  <2>3. \A c \in Bridges \ {b} : waiter'[c] = waiter[c] /\ channel'[c] = channel[c]
    BY <2>1 DEF Succeed, TypeOK
  <2>4. Awaited(b)'
    BY <2>2 DEF Awaited
  <2> QED
    BY <1>0, <2>1, <2>3, <2>4, OtherAwaited
<1>17. ASSUME NEW b \in Bridges, PeerFails(b) PROVE AllAwaited'
  <2>1. /\ peer' = [peer EXCEPT ![b] = "failed"] /\ alarm' = alarm \cup {b}
        /\ UNCHANGED <<hevc, waiter, channel, inbox, device, cameras, link, online>>
        /\ UNCHANGED callVars
    BY <1>17 DEF PeerFails
  <2>2. peer'[b] = "failed" /\ \A c \in Bridges \ {b} : peer'[c] = peer[c]
    BY <2>1 DEF TypeOK
  <2>3. Awaited(b)'
    BY <2>1, <2>2 DEF AllAwaited, Awaited
  <2> QED
    BY <1>0, <2>1, <2>2, <2>3, OtherAwaited
<1>18. ASSUME NEW b \in Bridges, PeerAlarm(b) PROVE AllAwaited'
  <2> DEFINE m == Message(b, "garbled", 0)
  <2>1. /\ stage[b] = "idle" /\ alarm' = alarm \ {b} /\ Report(b, m)
        /\ UNCHANGED <<hevc, waiter, channel, inbox, peer, device, cameras, link, online>>
    BY <1>18 DEF PeerAlarm
  <2>2. b \in Callers /\ m.to = b
    BY DEF Callers, Message
  <2>3. \A q \in Callers \ {b} : stage'[q] = stage[q] /\ job'[q] = job[q]
    BY <2>1 DEF Report, TypeOK
  <2>4. \A c \in Bridges : Telling(c) => Telling(c)'
    BY <2>1, <2>2, <2>3, TellingKept
  <2>5. Telling(b)'
    <3>1. stage'[b] = "tell" /\ job'[b] = m
      BY <2>1, <2>2 DEF Report, TypeOK
    <3> QED
      BY <2>2, <3>1 DEF Telling, Subject
  <2>6. Awaited(b)'
    BY <2>1, <2>5 DEF AllAwaited, Awaited
  <2>7. \A c \in Bridges \ {b} : c \in alarm => c \in alarm'
    BY <2>1
  <2> HIDE DEF m
  <2> QED
    BY <2>1, <2>4, <2>6, <2>7, OtherAwaited
<1>19. ASSUME NEW r \in Callers, TellWaiter(r) PROVE AllAwaited'
  <2>1. PICK b \in Bridges : b = Subject(r)
    BY <1>19 DEF TellWaiter, Subject, Messages, TypeOK
  <2>2. /\ waiter' = [waiter EXCEPT ![b] = IF @ = "open" THEN "failing" ELSE @]
        /\ stage' = [stage EXCEPT ![r] = IF waiter[b] = "open" THEN "store" ELSE "check"]
        /\ UNCHANGED <<job, hevc, channel, inbox, alarm, peer, device, cameras, link, online>>
    BY <1>19, <2>1 DEF TellWaiter
  <2>3. waiter'[b] # "open" /\ \A c \in Bridges \ {b} : waiter'[c] = waiter[c]
    BY <2>1, <2>2 DEF TypeOK
  <2>4. Awaited(b)'
    BY <2>3 DEF Awaited
  <2>5. \A q \in Callers \ {r} : stage'[q] = stage[q]
    BY <2>2 DEF TypeOK
  <2>6. \A c \in Bridges \ {b} : Telling(c) => Telling(c)'
    BY <2>1, <2>2, <2>5 DEF Telling, Subject
  <2> QED
    BY <2>1, <2>2, <2>3, <2>4, <2>6, OtherAwaited
<1>20. ASSUME NEW r \in Callers, StoreError(r) PROVE AllAwaited'
  <2>1. PICK b \in Bridges : b = Subject(r)
    BY <1>20, ZenonT(60) DEF StoreError, Goes, Subject, Messages, TypeOK
  <2>2. /\ stage[r] = "store" /\ waiter' = [waiter EXCEPT ![b] = "err"]
        /\ UNCHANGED <<hevc, channel, inbox, alarm, peer, device, cameras, link, online>>
    BY <1>20, <2>1 DEF StoreError, Goes
  <2>3. waiter'[b] # "open" /\ \A c \in Bridges \ {b} : waiter'[c] = waiter[c]
    BY <2>1, <2>2 DEF TypeOK
  <2>4. Awaited(b)'
    BY <2>3 DEF Awaited
  <2>5. \A q \in Callers \ {r} : stage'[q] = stage[q] /\ job'[q] = job[q]
    BY <1>20 DEF StoreError, Goes, TypeOK
  <2>6. \A c \in Bridges : Telling(c) => Telling(c)'
    BY <2>2, <2>5, TellingKept
  <2> QED
    BY <2>1, <2>2, <2>3, <2>4, <2>6, OtherAwaited
<1>21. ASSUME NEW r \in Callers, CheckFlags(r) PROVE AllAwaited'
  <2>1. /\ UNCHANGED <<hevc, waiter, channel, inbox, alarm, peer, device, cameras, link, online>>
        /\ stage[r] # "tell"
    BY <1>21 DEF CheckFlags, Goes
  <2>2. \A q \in Callers \ {r} : stage'[q] = stage[q] /\ job'[q] = job[q]
    BY <1>21 DEF CheckFlags, Goes, TypeOK
  <2> QED
    BY <2>1, <2>2, TellingKept, StillAwaited
<1>22. ASSUME NEW r \in Callers, CountClients(r) PROVE AllAwaited'
  <2>1. /\ UNCHANGED <<hevc, waiter, channel, inbox, alarm, peer, device, cameras, link, online>>
        /\ stage[r] # "tell"
    BY <1>22 DEF CountClients, Goes
  <2>2. \A q \in Callers \ {r} : stage'[q] = stage[q] /\ job'[q] = job[q]
    BY <1>22 DEF CountClients, Goes, TypeOK
  <2> QED
    BY <2>1, <2>2, TellingKept, StillAwaited
<1>23. ASSUME NEW r \in Callers, ErrorStop(r) PROVE AllAwaited'
  <2>1. /\ UNCHANGED <<hevc, waiter, channel, inbox, alarm, peer, device, cameras, link, online>>
        /\ stage[r] # "tell"
    BY <1>23 DEF ErrorStop, Goes
  <2>2. \A q \in Callers \ {r} : stage'[q] = stage[q] /\ job'[q] = job[q]
    BY <1>23 DEF ErrorStop, Goes, TypeOK
  <2> QED
    BY <2>1, <2>2, TellingKept, StillAwaited
<1>24. ASSUME NEW r \in Callers, ErrorHalt(r) PROVE AllAwaited'
  <2>1. /\ UNCHANGED <<hevc, waiter, channel, inbox, link, online>>
        /\ stage[r] = "halt" /\ StopBridge(Current(StreamOf(r)))
    BY <1>24 DEF ErrorHalt, Goes
  <2>2. Current(StreamOf(r)) \in Bridges
    BY <2>1 DEF Messages, Bridges, StreamOf, Subject, Owner, Current, TypeOK
  <2>3. \A q \in Callers \ {r} : stage'[q] = stage[q] /\ job'[q] = job[q]
    BY <1>24 DEF ErrorHalt, Goes, TypeOK
  <2> QED
    BY <2>1, <2>2, <2>3, TellingKept, StopBridgeStops, StopAwaited
<1>25. ASSUME NEW r \in Callers, Drop(r) PROVE AllAwaited'
  <2>1. /\ UNCHANGED <<hevc, waiter, channel, inbox, alarm, peer, device, cameras, link, online>>
        /\ stage[r] # "tell"
    BY <1>25 DEF Drop, Goes
  <2>2. \A q \in Callers \ {r} : stage'[q] = stage[q] /\ job'[q] = job[q]
    BY <1>25 DEF Drop, Goes, TypeOK
  <2> QED
    BY <2>1, <2>2, TellingKept, StillAwaited
<1>26. ASSUME NEW b \in Bridges, DeviceAnswers(b) PROVE AllAwaited'
  <2>1. PICK t \in {"answer", "garbled"} : Send(b, t, 0)
    BY <1>26 DEF DeviceAnswers
  <2>2. UNCHANGED <<hevc, waiter, channel, alarm, stage, job, peer, cameras, link, online>>
    BY <1>26 DEF DeviceAnswers
  <2>3. \A c \in Bridges \ {b} : device'[c] = device[c]
    BY <1>26 DEF DeviceAnswers, TypeOK
  <2> QED
    BY <2>1, <2>2, <2>3, SendAwaited
<1>27. ASSUME NEW b \in Bridges, DeviceSendsCandidate(b) PROVE AllAwaited'
  <2>1. /\ Send(b, "candidate", sent[b] + 1)
        /\ UNCHANGED <<hevc, waiter, channel, alarm, stage, job, peer, cameras, link, online,
                       device>>
    BY <1>27 DEF DeviceSendsCandidate
  <2> QED
    BY <2>1, SendAwaited
<1>28. ASSUME NEW b \in Bridges, DeviceDisconnects(b) PROVE AllAwaited'
  <2>1. /\ Send(b, "disconnect", 0)
        /\ UNCHANGED <<hevc, waiter, channel, alarm, stage, job, peer, cameras, link, online>>
    BY <1>28 DEF DeviceDisconnects
  <2>2. \A c \in Bridges \ {b} : device'[c] = device[c]
    BY <1>28 DEF DeviceDisconnects, TypeOK
  <2> QED
    BY <2>1, <2>2, SendAwaited
<1>29. ASSUME NEW k \in Conns, ConnectionLost(k) PROVE AllAwaited'
  <2>1. /\ online' = online \ {k} /\ inbox' = [inbox EXCEPT ![k] = <<>>]
        /\ UNCHANGED <<hevc, waiter, channel, alarm, peer, link, device, cameras>>
        /\ UNCHANGED callVars
    BY <1>29 DEF ConnectionLost
  <2> SUFFICES ASSUME NEW b \in Bridges PROVE Awaited(b)'
    BY DEF AllAwaited
  <2>2. Awaited(b) /\ (Telling(b) => Telling(b)')
    BY <1>0, <2>1 DEF AllAwaited
  <2>3. CASE Reachable(b)'
    <3>1. Reachable(b) /\ inbox'[link'[b]] = inbox[link[b]] /\ link' = link
      BY <2>1, <2>3 DEF Reachable, TypeOK
    <3>2. Mail(b)' <=> Mail(b)
      BY <3>1 DEF Mail
    <3> QED
      BY <2>1, <2>2, <3>1, <3>2 DEF Awaited
  <2>4. CASE ~Reachable(b)'
    BY <2>1, <2>2, <2>4 DEF Awaited
  <2> QED
    BY <2>3, <2>4
<1>30. CASE UNCHANGED vars
  BY <1>0, <1>30, StillAwaited
<1> QED
  BY <1>1, <1>2, <1>3, <1>4, <1>5, <1>6, <1>7, <1>8, <1>9, <1>10, <1>11, <1>12, <1>13,
     <1>14, <1>15, <1>16, <1>17, <1>18, <1>19, <1>20, <1>21, <1>22, <1>23, <1>24, <1>25,
     <1>26, <1>27, <1>28, <1>29, <1>30
     DEF Next, Program, Peers, Starter, Callback

(* A stop takes away no session but that of a bridge that was up.          *)
Spares == /\ connected' \subseteq connected
          /\ \A k \in Conns : \A b \in cameras[k] : b \in connected \/ b \in cameras'[k]

LEMMA StopBridgeSpares == ASSUME TypeOK, NEW b \in Bridges, StopBridge(b) PROVE Spares
<1>1. CASE b \in connected
  <2>1. /\ connected' = connected \ {b}
        /\ cameras' = [cameras EXCEPT ![link[b]] = @ \ {b}]
    BY <1>1 DEF StopBridge
  <2> QED
    BY <1>1, <2>1 DEF Spares, TypeOK
<1>2. CASE b \notin connected
  BY <1>2 DEF StopBridge, Spares
<1> QED
  BY <1>1, <1>2

LEMMA StopStreamSpares == ASSUME TypeOK, NEW s \in Streams, StopStream(s) PROVE Spares
<1>1. CASE Running(s)
  <2>1. Current(s) \in Bridges /\ StopBridge(Current(s))
    BY <1>1 DEF StopStream, Current, Bridges, TypeOK
  <2> QED
    BY <2>1, StopBridgeSpares
<1>2. CASE ~Running(s)
  BY <1>2 DEF StopStream, Spares
<1> QED
  BY <1>1, <1>2

(* A step in which no Start begins to wait.                                *)
LEMMA RegistrationKept ==
  ASSUME TypeOK, UpWhenDone, Registered, Spares,
         \A s \in Streams : /\ start'[s] = "waiting" => start[s] = "waiting"
                            /\ start[s] = "done" => start'[s] = "done"
                            /\ start[s] = "waiting" =>
                                 attempt'[s] = attempt[s] /\ link'[Current(s)] = link[Current(s)]
  PROVE  UpWhenDone' /\ Registered'
<1>1. \A b \in Bridges : Owner(b) \in Streams
  BY DEF Owner, Bridges
<1>2. UpWhenDone'
  BY <1>1 DEF UpWhenDone, Spares, TypeOK
<1>3. ASSUME NEW s \in Streams, start'[s] = "waiting"
      PROVE  link'[Current(s)'] \in Conns /\ Current(s)' \in cameras'[link'[Current(s)']]
  <2>1. start[s] = "waiting" /\ Current(s)' = Current(s) /\ link'[Current(s)] = link[Current(s)]
    BY <1>3 DEF Current
  <2>2. link[Current(s)] \in Conns /\ Current(s) \in cameras[link[Current(s)]]
    BY <2>1 DEF Registered
  <2>3. Current(s) \notin connected
    BY <2>1 DEF UpWhenDone, Owner, Current
  <2> QED
    BY <2>1, <2>2, <2>3 DEF Spares
<1> QED
  BY <1>2, <1>3 DEF Registered

(* A step that leaves the registrations and the starts alone.              *)
LEMMA RegistrationStill ==
  ASSUME TypeOK, UpWhenDone, Registered, Spares, UNCHANGED <<start, attempt, link>>
  PROVE  UpWhenDone' /\ Registered'
BY RegistrationKept

(* Every step keeps the two.                                               *)
LEMMA RegisteredInductive ==
  TypeOK /\ UpWhenDone /\ Registered /\ [Next]_vars => UpWhenDone' /\ Registered'
<1> SUFFICES ASSUME TypeOK, UpWhenDone, Registered, [Next]_vars
             PROVE  UpWhenDone' /\ Registered'
  OBVIOUS
<1> USE DEF vars, streamVars, bridgeVars, iceVars, peerVars, connVars, mqttVars, callVars,
            deviceVars
<1>0. UNCHANGED <<connected, cameras>> => Spares
  BY DEF Spares
<1>1. ASSUME NEW s \in Streams, Open(s) PROVE UpWhenDone' /\ Registered'
  <2>1. UNCHANGED <<connected, cameras, attempt>> /\ start[s] = "none"
        /\ start' = [start EXCEPT ![s] = "attempt"]
    BY <1>1 DEF Open
  <2>2. \A q \in Streams \ {s} : link'[Current(q)] = link[Current(q)]
    BY <1>1, SMTT(30) DEF Open, GetClient, Current, Bridges, TypeOK
  <2>3. \A q \in Streams : /\ start'[q] = "waiting" => start[q] = "waiting"
                           /\ start[q] = "done" => start'[q] = "done"
    BY <2>1 DEF TypeOK
  <2> QED
    BY <1>0, <2>1, <2>2, <2>3, RegistrationKept
<1>2. ASSUME NEW s \in Streams, Join(s) PROVE UpWhenDone' /\ Registered'
  <2>1. UNCHANGED <<connected, cameras, start, attempt, link>>
    BY <1>2 DEF Join
  <2> QED
    BY <1>0, <2>1, RegistrationStill
<1>3. ASSUME NEW s \in Streams, Leave(s) PROVE UpWhenDone' /\ Registered'
  <2>1. UNCHANGED <<connected, cameras, start, attempt, link>>
    BY <1>3 DEF Leave
  <2> QED
    BY <1>0, <2>1, RegistrationStill
<1>4. ASSUME NEW s \in Streams, Shutdown(s) PROVE UpWhenDone' /\ Registered'
  <2>1. StopStream(s) /\ UNCHANGED <<start, attempt, link>>
    BY <1>4 DEF Shutdown
  <2> QED
    BY <2>1, StopStreamSpares, RegistrationStill
<1>5. ASSUME NEW s \in Streams, Attempt(s) PROVE UpWhenDone' /\ Registered'
  <2>1. UNCHANGED <<connected, cameras, attempt, link>>
    BY <1>5 DEF Attempt
  <2>2. \A q \in Streams : /\ start'[q] = "waiting" => start[q] = "waiting"
                           /\ start[q] = "done" => start'[q] = "done"
    BY <1>5 DEF Attempt, TypeOK
  <2> QED
    BY <1>0, <2>1, <2>2, RegistrationKept
<1>6. ASSUME NEW s \in Streams, Retry(s) PROVE UpWhenDone' /\ Registered'
  <2>1. UNCHANGED <<connected, cameras>> /\ start[s] = "pause"
        /\ start' = [start EXCEPT ![s] = "starting"] /\ attempt' = [attempt EXCEPT ![s] = 2]
    BY <1>6 DEF Retry
  <2>2. \A q \in Streams \ {s} :
          link'[Current(q)] = link[Current(q)] /\ attempt'[q] = attempt[q]
    <3>1. link' = link \/ \E k \in Conns : link' = [link EXCEPT ![<<2, s>>] = k]
      BY <1>6 DEF Retry, GetClient, TypeOK
    <3> QED
      BY <2>1, <3>1 DEF Current, Bridges, TypeOK
  <2>3. \A q \in Streams : /\ start'[q] = "waiting" => start[q] = "waiting"
                           /\ start[q] = "done" => start'[q] = "done"
    BY <2>1 DEF TypeOK
  <2> QED
    BY <1>0, <2>1, <2>2, <2>3, RegistrationKept
<1>7. ASSUME NEW s \in Streams, Abandon(s) PROVE UpWhenDone' /\ Registered'
  <2>1. UNCHANGED <<connected, cameras, attempt, link>>
    BY <1>7 DEF Abandon
  <2>2. \A q \in Streams : /\ start'[q] = "waiting" => start[q] = "waiting"
                           /\ start[q] = "done" => start'[q] = "done"
    BY <1>7 DEF Abandon, TypeOK
  <2> QED
    BY <1>0, <2>1, <2>2, RegistrationKept
<1>8. ASSUME NEW s \in Streams, StartOffers(s) PROVE UpWhenDone' /\ Registered'
  <2> DEFINE b == Current(s)
             k == link[b]
  <2>1. UNCHANGED <<connected, attempt, link>> /\ start[s] = "starting"
    BY <1>8 DEF StartOffers
  <2>2. CASE AttemptFails(s) /\ UNCHANGED cameras
    <3>1. \A q \in Streams : /\ start'[q] = "waiting" => start[q] = "waiting"
                             /\ start[q] = "done" => start'[q] = "done"
      BY <2>1, <2>2 DEF AttemptFails, TypeOK
    <3> QED
      BY <1>0, <2>1, <2>2, <3>1, RegistrationKept
  <2>3. CASE /\ k # None /\ cameras' = [cameras EXCEPT ![k] = @ \cup {b}]
             /\ start' = [start EXCEPT ![s] = "waiting"] \/ AttemptFails(s)
    <3>1. b \in Bridges /\ k \in Conns
      BY <2>3 DEF Current, Bridges, TypeOK
    <3>2. b \in cameras'[k] /\ \A c \in Conns : cameras[c] \subseteq cameras'[c]
      BY <2>3, <3>1 DEF TypeOK
    <3>3. \A q \in Streams : /\ start'[q] = "waiting" => start[q] = "waiting" \/ q = s
                             /\ start[q] = "done" => start'[q] = "done"
      BY <2>1, <2>3 DEF AttemptFails, TypeOK
    <3>4. UpWhenDone'
      BY <2>1, <3>3 DEF UpWhenDone, Owner, Bridges, TypeOK
    <3>5. ASSUME NEW q \in Streams, start'[q] = "waiting"
          PROVE  link[Current(q)] \in Conns /\ Current(q) \in cameras'[link[Current(q)]]
      <4>1. CASE q = s
        BY <3>1, <3>2, <4>1
      <4>2. CASE q # s
        BY <3>2, <3>3, <3>5, <4>2 DEF Registered
      <4> QED
        BY <4>1, <4>2
    <3>6. \A q \in Streams : Current(q)' = Current(q)
      BY <2>1 DEF Current
    <3> QED
      BY <2>1, <3>4, <3>5, <3>6 DEF Registered
  <2> QED
    BY <1>8, <2>2, <2>3 DEF StartOffers
<1>9. ASSUME NEW s \in Streams, StartSucceeds(s) PROVE UpWhenDone' /\ Registered'
  <2>1. /\ connected' = connected \cup {Current(s)} /\ UNCHANGED <<cameras, attempt, link>>
        /\ start[s] = "waiting" /\ start' = [start EXCEPT ![s] = "done"]
    BY <1>9 DEF StartSucceeds
  <2>2. start'[s] = "done" /\ \A q \in Streams \ {s} : start'[q] = start[q]
    BY <2>1 DEF TypeOK
  <2>3. UpWhenDone'
    BY <2>1, <2>2 DEF UpWhenDone, Owner, Current, Bridges, TypeOK
  <2>4. \A q \in Streams : start'[q] = "waiting" => start[q] = "waiting" /\ Current(q)' = Current(q)
    BY <2>1, <2>2 DEF Current
  <2> QED
    BY <2>1, <2>3, <2>4 DEF Registered
<1>10. ASSUME NEW s \in Streams, StartFails(s) PROVE UpWhenDone' /\ Registered'
  <2>1. UNCHANGED <<connected, cameras, attempt, link>>
    BY <1>10 DEF StartFails
  <2>2. \A q \in Streams : /\ start'[q] = "waiting" => start[q] = "waiting"
                           /\ start[q] = "done" => start'[q] = "done"
    BY <1>10 DEF StartFails, AttemptFails, TypeOK
  <2> QED
    BY <1>0, <2>1, <2>2, RegistrationKept
<1>11. ASSUME NEW s \in Streams, GiveUp(s) PROVE UpWhenDone' /\ Registered'
  <2>1. /\ StopStream(s) /\ UNCHANGED <<attempt, link>>
        /\ start[s] = "giveup" /\ start' = [start EXCEPT ![s] = "done"]
    BY <1>11 DEF GiveUp
  <2>2. \A q \in Streams : /\ start'[q] = "waiting" => start[q] = "waiting"
                           /\ start[q] = "done" => start'[q] = "done"
    BY <2>1 DEF TypeOK
  <2> QED
    BY <2>1, <2>2, StopStreamSpares, RegistrationKept
<1>12. ASSUME NEW k \in Conns, Consume(k) PROVE UpWhenDone' /\ Registered'
  <2>1. UNCHANGED <<connected, cameras, start, attempt, link>>
    BY <1>12 DEF Consume
  <2> QED
    BY <1>0, <2>1, RegistrationStill
<1>13. ASSUME NEW b \in Bridges, PeerConnects(b) PROVE UpWhenDone' /\ Registered'
  <2>1. UNCHANGED <<connected, cameras, start, attempt, link>>
    BY <1>13 DEF PeerConnects
  <2> QED
    BY <1>0, <2>1, RegistrationStill
<1>14. ASSUME NEW b \in Bridges, ChannelOpens(b) PROVE UpWhenDone' /\ Registered'
  <2>1. UNCHANGED <<connected, cameras, start, attempt, link>>
    BY <1>14 DEF ChannelOpens
  <2> QED
    BY <1>0, <2>1, RegistrationStill
<1>15. ASSUME NEW b \in Bridges, ChannelCodec(b) PROVE UpWhenDone' /\ Registered'
  <2>1. UNCHANGED <<connected, cameras, start, attempt, link>>
    BY <1>15 DEF ChannelCodec
  <2> QED
    BY <1>0, <2>1, RegistrationStill
<1>16. ASSUME NEW b \in Bridges, ChannelRecv(b) PROVE UpWhenDone' /\ Registered'
  <2>1. UNCHANGED <<connected, cameras, start, attempt, link>>
    BY <1>16 DEF ChannelRecv
  <2> QED
    BY <1>0, <2>1, RegistrationStill
<1>17. ASSUME NEW b \in Bridges, PeerFails(b) PROVE UpWhenDone' /\ Registered'
  <2>1. UNCHANGED <<connected, cameras, start, attempt, link>>
    BY <1>17 DEF PeerFails
  <2> QED
    BY <1>0, <2>1, RegistrationStill
<1>18. ASSUME NEW b \in Bridges, PeerAlarm(b) PROVE UpWhenDone' /\ Registered'
  <2>1. UNCHANGED <<connected, cameras, start, attempt, link>>
    BY <1>18 DEF PeerAlarm
  <2> QED
    BY <1>0, <2>1, RegistrationStill
<1>19. ASSUME NEW r \in Callers, TellWaiter(r) PROVE UpWhenDone' /\ Registered'
  <2>1. UNCHANGED <<connected, cameras, start, attempt, link>>
    BY <1>19 DEF TellWaiter
  <2> QED
    BY <1>0, <2>1, RegistrationStill
<1>20. ASSUME NEW r \in Callers, StoreError(r) PROVE UpWhenDone' /\ Registered'
  <2>1. UNCHANGED <<connected, cameras, start, attempt, link>>
    BY <1>20 DEF StoreError
  <2> QED
    BY <1>0, <2>1, RegistrationStill
<1>21. ASSUME NEW r \in Callers, CheckFlags(r) PROVE UpWhenDone' /\ Registered'
  <2>1. UNCHANGED <<connected, cameras, start, attempt, link>>
    BY <1>21 DEF CheckFlags
  <2> QED
    BY <1>0, <2>1, RegistrationStill
<1>22. ASSUME NEW r \in Callers, CountClients(r) PROVE UpWhenDone' /\ Registered'
  <2>1. UNCHANGED <<connected, cameras, start, attempt, link>>
    BY <1>22 DEF CountClients
  <2> QED
    BY <1>0, <2>1, RegistrationStill
<1>23. ASSUME NEW r \in Callers, ErrorStop(r) PROVE UpWhenDone' /\ Registered'
  <2>1. UNCHANGED <<connected, cameras, start, attempt, link>>
    BY <1>23 DEF ErrorStop
  <2> QED
    BY <1>0, <2>1, RegistrationStill
<1>24. ASSUME NEW r \in Callers, ErrorHalt(r) PROVE UpWhenDone' /\ Registered'
  <2>1. job[r] \in Messages /\ StopBridge(Current(StreamOf(r))) /\ UNCHANGED <<start, attempt, link>>
    BY <1>24 DEF ErrorHalt, Goes, TypeOK
  <2>2. Current(StreamOf(r)) \in Bridges
    BY <2>1 DEF Messages, Bridges, StreamOf, Subject, Owner, Current, TypeOK
  <2> QED
    BY <2>1, <2>2, StopBridgeSpares, RegistrationStill
<1>25. ASSUME NEW r \in Callers, Drop(r) PROVE UpWhenDone' /\ Registered'
  <2>1. connected' \subseteq connected /\ UNCHANGED <<cameras, start, attempt, link>>
    BY <1>25 DEF Drop
  <2> QED
    BY <2>1, RegistrationStill DEF Spares
<1>26. ASSUME NEW b \in Bridges, DeviceAnswers(b) PROVE UpWhenDone' /\ Registered'
  <2>1. UNCHANGED <<connected, cameras, start, attempt, link>>
    BY <1>26 DEF DeviceAnswers
  <2> QED
    BY <1>0, <2>1, RegistrationStill
<1>27. ASSUME NEW b \in Bridges, DeviceSendsCandidate(b) PROVE UpWhenDone' /\ Registered'
  <2>1. UNCHANGED <<connected, cameras, start, attempt, link>>
    BY <1>27 DEF DeviceSendsCandidate
  <2> QED
    BY <1>0, <2>1, RegistrationStill
<1>28. ASSUME NEW b \in Bridges, DeviceDisconnects(b) PROVE UpWhenDone' /\ Registered'
  <2>1. UNCHANGED <<connected, cameras, start, attempt, link>>
    BY <1>28 DEF DeviceDisconnects
  <2> QED
    BY <1>0, <2>1, RegistrationStill
<1>29. ASSUME NEW k \in Conns, ConnectionLost(k) PROVE UpWhenDone' /\ Registered'
  <2>1. UNCHANGED <<connected, cameras, start, attempt, link>>
    BY <1>29 DEF ConnectionLost
  <2> QED
    BY <1>0, <2>1, RegistrationStill
<1>30. CASE UNCHANGED vars
  BY <1>0, <1>30, RegistrationStill
<1> QED
  BY <1>1, <1>2, <1>3, <1>4, <1>5, <1>6, <1>7, <1>8, <1>9, <1>10, <1>11, <1>12, <1>13,
     <1>14, <1>15, <1>16, <1>17, <1>18, <1>19, <1>20, <1>21, <1>22, <1>23, <1>24, <1>25,
     <1>26, <1>27, <1>28, <1>29, <1>30
     DEF Next, Program, Peers, Starter, Callback

-----------------------------------------------------------------------------
(* Whose failure it is.                                                    *)

(* What is told, about to be told, about to be reported and on its way     *)
(* about a session is true of it.                                          *)
TellsTrue == \A r \in Callers : stage[r] = "tell" => Broken(Subject(r))
AlarmsTrue == \A b \in alarm : peer[b] \in {"failed", "closed"}
MailTrue ==
  \A k \in Conns : \A m \in Arriving(k) :
    /\ m.type \in {"answer", "garbled"} => device[m.to] \in {"answered", "gone"}
    /\ m.type = "garbled" => Unanswered(m.to)
    /\ m.type = "disconnect" => device[m.to] = "gone"
AnswersTrue == \A b \in answered : device[b] \in {"answered", "gone"}
OwnInv == FailureIsOwn /\ TellsTrue /\ AlarmsTrue /\ MailTrue /\ AnswersTrue

(* Who is on its way to whom.                                              *)
LEMMA ArrivingTyped == TypeOK => \A k \in Conns : Arriving(k) \subseteq Messages
<1> SUFFICES ASSUME TypeOK, NEW k \in Conns, NEW i \in DOMAIN inbox[k]
             PROVE  inbox[k][i] \in Messages
  BY DEF Arriving
<1>1. inbox[k] \in Seq(Messages)
  BY DEF TypeOK
<1> QED
  BY <1>1

(* Steps that send nothing: a session that is broken stays so, ...         *)
LEMMA BrokenKept ==
  ASSUME OwnInv,
         \A k \in Conns : Arriving(k)' \subseteq Arriving(k),
         \A b \in answered' \ answered :
           \E k \in Conns : \E m \in Arriving(k) : m.to = b /\ m.type = "answer",
         \A b \in Bridges :
           /\ device'[b] = device[b] \/ device'[b] = "gone" \/ device[b] = "none"
           /\ peer[b] \in {"failed", "closed"} => peer'[b] \in {"failed", "closed"}
  PROVE  /\ \A b \in Bridges : Broken(b) => Broken(b)'
         /\ \A b : Unanswered(b) => Unanswered(b)'
<1>1. \A b : Unanswered(b) => Unanswered(b)'
  BY DEF Unanswered
<1> QED
  BY <1>1 DEF Broken

(* ... so they keep the rest if what they tell is true.                    *)
LEMMA QuietOwn ==
  ASSUME TypeOK, OwnInv,
         \A k \in Conns : Arriving(k)' \subseteq Arriving(k),
         \A b \in answered' \ answered :
           \E k \in Conns : \E m \in Arriving(k) : m.to = b /\ m.type = "answer",
         \A b \in Bridges :
           /\ device'[b] = device[b] \/ device'[b] = "gone" \/ device[b] = "none"
           /\ peer[b] \in {"failed", "closed"} => peer'[b] \in {"failed", "closed"}
           /\ waiter'[b] \in {"failing", "err"} => waiter[b] \in {"failing", "err"} \/ Broken(b),
         \A r \in Callers : stage'[r] = "tell" => job'[r].to \in Bridges /\ Broken(job'[r].to),
         \A b \in alarm' : peer'[b] \in {"failed", "closed"}
  PROVE  OwnInv'
<1>1. /\ \A b \in Bridges : Broken(b) => Broken(b)'
      /\ \A b : Unanswered(b) => Unanswered(b)'
  BY BrokenKept
<1>2. FailureIsOwn' /\ TellsTrue' /\ AlarmsTrue'
  BY <1>1 DEF OwnInv, FailureIsOwn, TellsTrue, AlarmsTrue, Subject
<1>3. MailTrue'
  <2> SUFFICES ASSUME NEW k \in Conns, NEW m \in Arriving(k)'
               PROVE  /\ m.type \in {"answer", "garbled"} => device'[m.to] \in {"answered", "gone"}
                      /\ m.type = "garbled" => Unanswered(m.to)'
                      /\ m.type = "disconnect" => device'[m.to] = "gone"
    BY DEF MailTrue
  <2>1. m \in Arriving(k) /\ m.to \in Bridges
    BY ArrivingTyped DEF Messages
  <2> QED
    BY <1>1, <2>1 DEF OwnInv, MailTrue
<1>4. AnswersTrue'
  <2> SUFFICES ASSUME NEW b \in answered' PROVE device'[b] \in {"answered", "gone"}
    BY DEF AnswersTrue
  <2>1. device[b] \in {"answered", "gone"} /\ b \in Bridges
    <3>1. CASE b \in answered
      BY <3>1 DEF OwnInv, AnswersTrue, TypeOK
    <3>2. CASE b \notin answered
      <4>1. PICK k \in Conns : \E m \in Arriving(k) : m.to = b /\ m.type = "answer"
        BY <3>2
      <4> QED
        BY <4>1, ArrivingTyped DEF OwnInv, MailTrue, Messages
    <3> QED
      BY <3>1, <3>2
  <2> QED
    BY <2>1
<1> QED
  BY <1>2, <1>3, <1>4 DEF OwnInv

(* Steps that touch nothing of the kind, but may move a goroutine on.      *)
LEMMA StillOwn ==
  ASSUME TypeOK, OwnInv, UNCHANGED <<waiter, answered, inbox, alarm, peer, device>>,
         \A r \in Callers : stage'[r] = "tell" => stage[r] = "tell" /\ job'[r] = job[r]
  PROVE  OwnInv'
<1>1. \A b : (Broken(b)' <=> Broken(b)) /\ (Unanswered(b)' <=> Unanswered(b))
  BY DEF Broken, Unanswered, Arriving
<1>2. MailTrue'
  BY <1>1 DEF OwnInv, MailTrue, Arriving
<1> QED
  BY <1>1, <1>2 DEF OwnInv, FailureIsOwn, TellsTrue, AlarmsTrue, AnswersTrue, Subject

(* A stop ends the session, and pion reports it.                           *)
LEMMA StopOwn ==
  ASSUME TypeOK, OwnInv, Stops, UNCHANGED <<waiter, answered, inbox>>,
         \A r \in Callers : stage'[r] = "tell" => stage[r] = "tell" /\ job'[r] = job[r]
  PROVE  OwnInv'
<1>1. \A k \in Conns : Arriving(k)' \subseteq Arriving(k)
  BY DEF Arriving
<1>2. \A b \in Bridges :
        /\ device'[b] = device[b] \/ device'[b] = "gone" \/ device[b] = "none"
        /\ peer[b] \in {"failed", "closed"} => peer'[b] \in {"failed", "closed"}
        /\ waiter'[b] \in {"failing", "err"} => waiter[b] \in {"failing", "err"} \/ Broken(b)
  BY DEF Stops
<1>3. \A r \in Callers : stage'[r] = "tell" => job'[r].to \in Bridges /\ Broken(job'[r].to)
  <2> SUFFICES ASSUME NEW r \in Callers, stage[r] = "tell"
               PROVE  job[r].to \in Bridges /\ Broken(job[r].to)
    OBVIOUS
  <2>1. job[r] \in Messages
    BY DEF TypeOK
  <2> QED
    BY <2>1 DEF OwnInv, TellsTrue, Subject, Messages
<1>4. \A b \in alarm' : peer'[b] \in {"failed", "closed"}
  BY DEF Stops, OwnInv, AlarmsTrue, TypeOK
<1> QED
  BY <1>1, <1>2, <1>3, <1>4, QuietOwn

(* A device sends: what it says is true.                                   *)
LEMMA SendOwn ==
  ASSUME TypeOK, OwnInv, NEW c \in Bridges, NEW t, NEW n, Send(c, t, n), link[c] \in Conns,
         UNCHANGED <<waiter, answered, alarm, stage, job, peer>>,
         \A b \in Bridges \ {c} : device'[b] = device[b],
         \/ t = "candidate" /\ device' = device
         \/ t \in {"answer", "garbled"} /\ device[c] = "offered" /\ device'[c] = "answered"
         \/ t = "disconnect" /\ device'[c] = "gone"
  PROVE  OwnInv'
<1> DEFINE new == Message(c, t, n)
<1>1. new.to = c /\ new.type = t
  BY DEF Message
<1>2. \A k \in Conns : Arriving(k)' \subseteq Arriving(k) \cup {new}
  <2> SUFFICES ASSUME NEW k \in Conns, NEW i \in DOMAIN inbox'[k]
               PROVE  inbox'[k][i] \in Arriving(k) \cup {new}
    BY DEF Arriving
  <2>1. inbox[k] \in Seq(Messages) /\ Len(inbox[k]) \in Nat
    BY DEF TypeOK
  <2>2. inbox'[k] = inbox[k] \/ inbox'[k] = Append(inbox[k], new)
    BY DEF Send, TypeOK
  <2> HIDE DEF new
  <2>3. CASE inbox'[k] = inbox[k]
    BY <2>3 DEF Arriving
  <2>4. CASE inbox'[k] = Append(inbox[k], new)
    <3>1. i \in 1 .. Len(inbox[k]) + 1 /\ DOMAIN inbox[k] = 1 .. Len(inbox[k])
      BY <2>1, <2>4
    <3>2. i = Len(inbox[k]) + 1 => inbox'[k][i] = new
      BY <2>1, <2>4
    <3>3. i \in 1 .. Len(inbox[k]) => inbox'[k][i] = inbox[k][i]
      BY <2>1, <2>4
    <3> QED
      BY <2>1, <3>1, <3>2, <3>3 DEF Arriving
  <2> QED
    BY <2>2, <2>3, <2>4
<1> HIDE DEF new
<1>3. device[c] = "offered" =>
        c \notin answered /\ \A k \in Conns : \A m \in Arriving(k) :
          m.to = c => m.type \notin {"answer", "garbled"}
  BY DEF OwnInv, MailTrue, AnswersTrue
<1>4. \A b : Unanswered(b) /\ ~(b = c /\ t = "answer") => Unanswered(b)'
  BY <1>1, <1>2 DEF Unanswered
<1>5. \A b \in Bridges : Broken(b) => Broken(b)'
  BY <1>4 DEF Broken
<1>6. MailTrue'
  <2> SUFFICES ASSUME NEW k \in Conns, NEW m \in Arriving(k)'
               PROVE  /\ m.type \in {"answer", "garbled"} => device'[m.to] \in {"answered", "gone"}
                      /\ m.type = "garbled" => Unanswered(m.to)'
                      /\ m.type = "disconnect" => device'[m.to] = "gone"
    BY DEF MailTrue
  <2>1. CASE m = new
    <3>1. t = "garbled" => Unanswered(c)
      BY <1>3 DEF Unanswered
    <3> QED
      BY <1>1, <1>3, <1>4, <2>1, <3>1 DEF OwnInv, MailTrue
  <2>2. CASE m \in Arriving(k)
    <3>1. m.to \in Bridges
      BY <2>2, ArrivingTyped DEF Messages
    <3>2. /\ m.type \in {"answer", "garbled"} => device[m.to] \in {"answered", "gone"}
          /\ m.type = "garbled" => Unanswered(m.to)
          /\ m.type = "disconnect" => device[m.to] = "gone"
      BY <2>2 DEF OwnInv, MailTrue
    <3>3. CASE m.to # c
      BY <1>4, <3>1, <3>2, <3>3
    <3>4. CASE m.to = c
      <4>1. m.type = "garbled" => t # "answer"
        BY <3>2, <3>4
      <4> QED
        BY <1>4, <3>2, <3>4, <4>1
    <3> QED
      BY <3>3, <3>4
  <2> QED
    BY <1>2, <2>1, <2>2
<1>7. AnswersTrue'
  BY DEF OwnInv, AnswersTrue, TypeOK
<1>8. TellsTrue'
  <2> SUFFICES ASSUME NEW r \in Callers, stage[r] = "tell" PROVE Broken(Subject(r))'
    BY DEF TellsTrue
  <2>1. job[r] \in Messages /\ Broken(Subject(r))
    BY DEF TypeOK, OwnInv, TellsTrue
  <2>2. Subject(r) \in Bridges /\ Subject(r)' = Subject(r)
    BY <2>1 DEF Subject, Messages
  <2> QED
    BY <1>5, <2>1, <2>2 DEF Broken, Unanswered, Arriving
<1> QED
  BY <1>5, <1>6, <1>7, <1>8 DEF OwnInv, FailureIsOwn, AlarmsTrue

(* Every step keeps OwnInv.                                                *)
LEMMA OwnInductive == IInv /\ OwnInv /\ [Next]_vars => OwnInv'
<1> SUFFICES ASSUME TypeOK, StartsFresh, ErrorsBeingStored, NothingEarly, OwnInv, [Next]_vars
             PROVE  OwnInv'
  BY DEF IInv, Delivery
<1> USE DEF vars, streamVars, bridgeVars, iceVars, peerVars, connVars, mqttVars, callVars,
            deviceVars
<1>0. /\ \A r \in Callers : stage[r] = "tell" => job[r].to \in Bridges /\ Broken(job[r].to)
      /\ UNCHANGED inbox => \A k \in Conns : Arriving(k)' \subseteq Arriving(k)
  <2>1. \A r \in Callers : stage[r] = "tell" => job[r] \in Messages
    BY DEF TypeOK
  <2> QED
    BY <2>1 DEF OwnInv, TellsTrue, Subject, Messages, Arriving
<1>1. ASSUME NEW s \in Streams, Open(s) PROVE OwnInv'
  BY <1>1, StillOwn DEF Open
<1>2. ASSUME NEW s \in Streams, Join(s) PROVE OwnInv'
  BY <1>2, StillOwn DEF Join
<1>3. ASSUME NEW s \in Streams, Leave(s) PROVE OwnInv'
  BY <1>3, StillOwn DEF Leave
<1>4. ASSUME NEW s \in Streams, Shutdown(s) PROVE OwnInv'
  <2>1. StopStream(s) /\ UNCHANGED <<waiter, answered, inbox, stage, job>>
    BY <1>4 DEF Shutdown
  <2> QED
    BY <2>1, StopStreamStops, StopOwn
<1>5. ASSUME NEW s \in Streams, Attempt(s) PROVE OwnInv'
  BY <1>5, StillOwn DEF Attempt
<1>6. ASSUME NEW s \in Streams, Retry(s) PROVE OwnInv'
  BY <1>6, StillOwn DEF Retry
<1>7. ASSUME NEW s \in Streams, Abandon(s) PROVE OwnInv'
  BY <1>7, StillOwn DEF Abandon
<1>8. ASSUME NEW s \in Streams, StartOffers(s) PROVE OwnInv'
  <2> DEFINE c == Current(s)
  <2>1. /\ Fresh(s) /\ c \in Bridges /\ UNCHANGED <<waiter, answered, inbox, alarm, stage, job>>
        /\ peer' = [peer EXCEPT ![c] = "offered"] \/ peer' = peer
        /\ device' = [device EXCEPT ![c] = "offered"] \/ device' = device
    BY <1>8 DEF StartOffers, StartsFresh, Current, Bridges, TypeOK
  <2>2. peer[c] = "none" /\ device[c] = "none"
    BY <1>8, <2>1 DEF StartOffers, Fresh, NothingEarly
  <2> HIDE DEF c
  <2>3. \A b \in Bridges :
          /\ device'[b] = device[b] \/ device[b] = "none"
          /\ peer[b] \in {"failed", "closed"} => peer'[b] = peer[b]
    BY <2>1, <2>2 DEF TypeOK
  <2>4. \A b \in alarm' : peer'[b] \in {"failed", "closed"}
    BY <2>1, <2>3 DEF OwnInv, AlarmsTrue, TypeOK
  <2> QED
    BY <1>0, <2>1, <2>3, <2>4, QuietOwn
<1>9. ASSUME NEW s \in Streams, StartSucceeds(s) PROVE OwnInv'
  BY <1>9, StillOwn DEF StartSucceeds
<1>10. ASSUME NEW s \in Streams, StartFails(s) PROVE OwnInv'
  BY <1>10, StillOwn DEF StartFails
<1>11. ASSUME NEW s \in Streams, GiveUp(s) PROVE OwnInv'
  <2>1. StopStream(s) /\ UNCHANGED <<waiter, answered, inbox, stage, job>>
    BY <1>11 DEF GiveUp
  <2> QED
    BY <2>1, StopStreamStops, StopOwn
<1>12. ASSUME NEW k \in Conns, Consume(k) PROVE OwnInv'
  <2> DEFINE m == Head(inbox[k])
  <2>1. /\ inbox[k] # <<>> /\ inbox[k] \in Seq(Messages)
        /\ inbox' = [inbox EXCEPT ![k] = Tail(@)] /\ k \in Callers
        /\ UNCHANGED <<waiter, alarm, device>>
    BY <1>12 DEF Consume, Callers, TypeOK
  <2>2. m \in Messages /\ m \in Arriving(k)
    BY <2>1, HeadTailProperties, LenProperties, EmptySeq, SMTT(30) DEF Arriving
  <2>3. \/ UNCHANGED <<answered, peer, stage, job>>
        \/ m.type = "answer" /\ TakeAnswer(m.to) /\ UNCHANGED <<stage, job>>
        \/ m.type \in {"garbled", "disconnect"} /\ Report(k, m) /\ UNCHANGED <<answered, peer>>
    BY <1>12 DEF Consume, TakeCandidate
  <2> HIDE DEF m
  <2>4. \A j \in Conns : Arriving(j)' \subseteq Arriving(j)
    <3>1. Arriving(k)' \subseteq Arriving(k)
      <4> DEFINE mail == inbox[k]
                 rest == inbox'[k]
      <4>1. mail \in Seq(Messages) /\ mail # <<>> /\ rest = Tail(mail)
        BY <2>1 DEF TypeOK
      <4>2. \A i \in DOMAIN rest : i + 1 \in DOMAIN mail /\ rest[i] = mail[i + 1]
        <5> HIDE DEF mail, rest
        <5>1. /\ Len(rest) = Len(mail) - 1 /\ DOMAIN rest = 1 .. Len(rest)
              /\ \A i \in 1 .. Len(rest) : rest[i] = mail[i + 1]
          BY <4>1, HeadTailProperties, LenProperties
        <5> QED
          BY <4>1, <5>1, LenProperties
      <4> QED
        BY <4>2 DEF Arriving
    <3>2. \A j \in Conns \ {k} : inbox'[j] = inbox[j]
      BY <2>1 DEF TypeOK
    <3> QED
      BY <3>1, <3>2 DEF Arriving
  <2>5. \A b \in answered' \ answered :
          \E j \in Conns : \E n \in Arriving(j) : n.to = b /\ n.type = "answer"
    BY <2>2, <2>3 DEF TakeAnswer
  <2>6. \A b \in Bridges : peer[b] \in {"failed", "closed"} => peer'[b] = peer[b]
    BY <2>2, <2>3 DEF TakeAnswer, TypeOK
  <2>7. m.type \in {"garbled", "disconnect"} => m.to \in Bridges /\ Broken(m.to)
    BY <2>2 DEF OwnInv, MailTrue, Broken, Messages
  <2>8. \A r \in Callers : stage'[r] = "tell" =>
          \/ stage[r] = "tell" /\ job'[r] = job[r]
          \/ job'[r] = m /\ m.type \in {"garbled", "disconnect"}
    BY <2>1, <2>3 DEF Report, TypeOK
  <2>9. \A r \in Callers : stage'[r] = "tell" => job'[r].to \in Bridges /\ Broken(job'[r].to)
    BY <1>0, <2>7, <2>8
  <2>10. \A b \in alarm' : peer'[b] \in {"failed", "closed"}
    BY <2>1, <2>6 DEF OwnInv, AlarmsTrue, TypeOK
  <2> QED
    BY <2>1, <2>4, <2>5, <2>6, <2>9, <2>10, QuietOwn
<1>13. ASSUME NEW b \in Bridges, PeerConnects(b) PROVE OwnInv'
  <2>1. /\ peer[b] = "described" /\ peer' = [peer EXCEPT ![b] = "connected"]
        /\ Succeed(b) \/ UNCHANGED waiter
        /\ UNCHANGED <<answered, inbox, alarm, device, stage, job>>
    BY <1>13 DEF PeerConnects
  <2>2. \A c \in Bridges : /\ peer[c] \in {"failed", "closed"} => peer'[c] = peer[c]
                           /\ waiter'[c] \in {"failing", "err"} => waiter[c] = waiter'[c]
    BY <2>1 DEF Succeed, TypeOK
  <2>3. \A c \in alarm' : peer'[c] \in {"failed", "closed"}
    BY <2>1, <2>2 DEF OwnInv, AlarmsTrue, TypeOK
  <2> QED
    BY <1>0, <2>1, <2>2, <2>3, QuietOwn
<1>14. ASSUME NEW b \in Bridges, ChannelOpens(b) PROVE OwnInv'
  BY <1>14, StillOwn DEF ChannelOpens
<1>15. ASSUME NEW b \in Bridges, ChannelCodec(b) PROVE OwnInv'
  BY <1>15, StillOwn DEF ChannelCodec
<1>16. ASSUME NEW b \in Bridges, ChannelRecv(b) PROVE OwnInv'
  <2>1. Succeed(b) /\ UNCHANGED <<answered, inbox, alarm, peer, device, stage, job>>
    BY <1>16 DEF ChannelRecv
  <2>2. \A c \in Bridges : waiter'[c] \in {"failing", "err"} => waiter[c] = waiter'[c]
    BY <2>1 DEF Succeed, TypeOK
  <2>3. \A c \in alarm' : peer'[c] \in {"failed", "closed"}
    BY <2>1 DEF OwnInv, AlarmsTrue
  <2> QED
    BY <1>0, <2>1, <2>2, <2>3, QuietOwn
<1>17. ASSUME NEW b \in Bridges, PeerFails(b) PROVE OwnInv'
  <2>1. /\ peer' = [peer EXCEPT ![b] = "failed"] /\ alarm' = alarm \cup {b}
        /\ UNCHANGED <<waiter, answered, inbox, device, stage, job>>
    BY <1>17 DEF PeerFails
  <2>2. peer'[b] = "failed" /\ \A c \in Bridges \ {b} : peer'[c] = peer[c]
    BY <2>1 DEF TypeOK
  <2>3. \A c \in alarm' : peer'[c] \in {"failed", "closed"}
    BY <2>1, <2>2 DEF OwnInv, AlarmsTrue, TypeOK
  <2> QED
    BY <1>0, <2>1, <2>2, <2>3, QuietOwn
<1>18. ASSUME NEW b \in Bridges, PeerAlarm(b) PROVE OwnInv'
  <2> DEFINE m == Message(b, "garbled", 0)
  <2>1. /\ b \in alarm /\ alarm' = alarm \ {b} /\ Report(b, m)
        /\ UNCHANGED <<waiter, answered, inbox, peer, device>>
    BY <1>18 DEF PeerAlarm
  <2>2. Broken(b) /\ m.to = b
    BY <2>1 DEF OwnInv, AlarmsTrue, Broken, Message
  <2> HIDE DEF m
  <2>3. \A r \in Callers : stage'[r] = "tell" => job'[r] = m \/ (stage[r] = "tell" /\ job'[r] = job[r])
    BY <2>1 DEF Report, TypeOK
  <2>4. \A r \in Callers : stage'[r] = "tell" => job'[r].to \in Bridges /\ Broken(job'[r].to)
    BY <1>0, <2>2, <2>3
  <2>5. \A c \in alarm' : peer'[c] \in {"failed", "closed"}
    BY <2>1 DEF OwnInv, AlarmsTrue
  <2> QED
    BY <1>0, <2>1, <2>4, <2>5, QuietOwn
<1>19. ASSUME NEW r \in Callers, TellWaiter(r) PROVE OwnInv'
  <2> DEFINE b == Subject(r)
  <2>1. /\ stage[r] = "tell"
        /\ stage' = [stage EXCEPT ![r] = IF waiter[b] = "open" THEN "store" ELSE "check"]
        /\ waiter' = [waiter EXCEPT ![b] = IF @ = "open" THEN "failing" ELSE @]
        /\ UNCHANGED <<answered, inbox, alarm, peer, device, job>>
    BY <1>19 DEF TellWaiter
  <2>2. b \in Bridges /\ Broken(b)
    BY <1>0, <2>1 DEF Subject
  <2> HIDE DEF b
  <2>3. \A c \in Bridges : waiter'[c] \in {"failing", "err"} => waiter[c] = waiter'[c] \/ Broken(c)
    BY <2>1, <2>2 DEF TypeOK
  <2>4. \A q \in Callers : stage'[q] = "tell" => stage[q] = "tell"
    BY <2>1 DEF TypeOK
  <2>5. \A c \in alarm' : peer'[c] \in {"failed", "closed"}
    BY <2>1 DEF OwnInv, AlarmsTrue
  <2> QED
    BY <1>0, <2>1, <2>3, <2>4, <2>5, QuietOwn
<1>20. ASSUME NEW r \in Callers, StoreError(r) PROVE OwnInv'
  <2>1. /\ stage[r] = "store" /\ waiter[Subject(r)] = "failing"
        /\ waiter' = [waiter EXCEPT ![Subject(r)] = "err"]
        /\ UNCHANGED <<answered, inbox, alarm, peer, device>>
    BY <1>20 DEF StoreError, Goes, ErrorsBeingStored
  <2>2. \A c \in Bridges : waiter'[c] \in {"failing", "err"} => waiter[c] \in {"failing", "err"}
    BY <2>1 DEF TypeOK
  <2>3. \A q \in Callers : stage'[q] = "tell" => stage[q] = "tell" /\ job'[q] = job[q]
    BY <1>20 DEF StoreError, Goes, TypeOK
  <2>4. \A c \in alarm' : peer'[c] \in {"failed", "closed"}
    BY <2>1 DEF OwnInv, AlarmsTrue
  <2> QED
    BY <1>0, <2>1, <2>2, <2>3, <2>4, QuietOwn
<1>21. ASSUME NEW r \in Callers, CheckFlags(r) PROVE OwnInv'
  <2>1. UNCHANGED <<waiter, answered, inbox, alarm, peer, device>>
    BY <1>21 DEF CheckFlags
  <2>2. \A q \in Callers : stage'[q] = "tell" => stage[q] = "tell" /\ job'[q] = job[q]
    BY <1>21 DEF CheckFlags, Goes, TypeOK
  <2> QED
    BY <2>1, <2>2, StillOwn
<1>22. ASSUME NEW r \in Callers, CountClients(r) PROVE OwnInv'
  <2>1. UNCHANGED <<waiter, answered, inbox, alarm, peer, device>>
    BY <1>22 DEF CountClients
  <2>2. \A q \in Callers : stage'[q] = "tell" => stage[q] = "tell" /\ job'[q] = job[q]
    BY <1>22 DEF CountClients, Goes, TypeOK
  <2> QED
    BY <2>1, <2>2, StillOwn
<1>23. ASSUME NEW r \in Callers, ErrorStop(r) PROVE OwnInv'
  <2>1. UNCHANGED <<waiter, answered, inbox, alarm, peer, device>>
    BY <1>23 DEF ErrorStop
  <2>2. \A q \in Callers : stage'[q] = "tell" => stage[q] = "tell" /\ job'[q] = job[q]
    BY <1>23 DEF ErrorStop, Goes, TypeOK
  <2> QED
    BY <2>1, <2>2, StillOwn
<1>24. ASSUME NEW r \in Callers, ErrorHalt(r) PROVE OwnInv'
  <2>1. /\ UNCHANGED <<waiter, answered, inbox>>
        /\ stage[r] = "halt" /\ StopBridge(Current(StreamOf(r)))
    BY <1>24 DEF ErrorHalt, Goes
  <2>2. Current(StreamOf(r)) \in Bridges
    BY <2>1 DEF Messages, Bridges, StreamOf, Subject, Owner, Current, TypeOK
  <2>3. \A q \in Callers : stage'[q] = "tell" => stage[q] = "tell" /\ job'[q] = job[q]
    BY <1>24 DEF ErrorHalt, Goes, TypeOK
  <2> QED
    BY <2>1, <2>2, <2>3, StopBridgeStops, StopOwn
<1>25. ASSUME NEW r \in Callers, Drop(r) PROVE OwnInv'
  <2>1. UNCHANGED <<waiter, answered, inbox, alarm, peer, device>>
    BY <1>25 DEF Drop
  <2>2. \A q \in Callers : stage'[q] = "tell" => stage[q] = "tell" /\ job'[q] = job[q]
    BY <1>25 DEF Drop, Goes, TypeOK
  <2> QED
    BY <2>1, <2>2, StillOwn
<1>26. ASSUME NEW b \in Bridges, DeviceAnswers(b) PROVE OwnInv'
  <2>1. PICK t \in {"answer", "garbled"} : Send(b, t, 0)
    BY <1>26 DEF DeviceAnswers
  <2>2. /\ device[b] = "offered" /\ device' = [device EXCEPT ![b] = "answered"]
        /\ UNCHANGED <<waiter, answered, alarm, stage, job, peer>>
    BY <1>26 DEF DeviceAnswers
  <2>3. device'[b] = "answered" /\ \A c \in Bridges \ {b} : device'[c] = device[c]
    BY <2>2 DEF TypeOK
  <2>4. link[b] \in Conns
    BY <2>1 DEF Send, TypeOK
  <2> QED
    BY <2>1, <2>2, <2>3, <2>4, SendOwn
<1>27. ASSUME NEW b \in Bridges, DeviceSendsCandidate(b) PROVE OwnInv'
  <2>1. /\ Send(b, "candidate", sent[b] + 1)
        /\ UNCHANGED <<waiter, answered, alarm, stage, job, peer, device>>
    BY <1>27 DEF DeviceSendsCandidate
  <2>2. link[b] \in Conns
    BY <2>1 DEF Send, TypeOK
  <2> QED
    BY <2>1, <2>2, SendOwn
<1>28. ASSUME NEW b \in Bridges, DeviceDisconnects(b) PROVE OwnInv'
  <2>1. /\ Send(b, "disconnect", 0) /\ device' = [device EXCEPT ![b] = "gone"]
        /\ UNCHANGED <<waiter, answered, alarm, stage, job, peer>>
    BY <1>28 DEF DeviceDisconnects
  <2>2. device'[b] = "gone" /\ \A c \in Bridges \ {b} : device'[c] = device[c]
    BY <2>1 DEF TypeOK
  <2>3. link[b] \in Conns
    BY <2>1 DEF Send, TypeOK
  <2> QED
    BY <2>1, <2>2, <2>3, SendOwn
<1>29. ASSUME NEW k \in Conns, ConnectionLost(k) PROVE OwnInv'
  <2>1. /\ inbox' = [inbox EXCEPT ![k] = <<>>]
        /\ UNCHANGED <<waiter, answered, alarm, peer, device, stage, job>>
    BY <1>29 DEF ConnectionLost
  <2>2. \A j \in Conns : Arriving(j)' \subseteq Arriving(j)
    BY <2>1 DEF Arriving, TypeOK
  <2>3. \A c \in alarm' : peer'[c] \in {"failed", "closed"}
    BY <2>1 DEF OwnInv, AlarmsTrue
  <2> QED
    BY <1>0, <2>1, <2>2, <2>3, QuietOwn
<1>30. CASE UNCHANGED vars
  BY <1>30, StillOwn
<1> QED
  BY <1>1, <1>2, <1>3, <1>4, <1>5, <1>6, <1>7, <1>8, <1>9, <1>10, <1>11, <1>12, <1>13,
     <1>14, <1>15, <1>16, <1>17, <1>18, <1>19, <1>20, <1>21, <1>22, <1>23, <1>24, <1>25,
     <1>26, <1>27, <1>28, <1>29, <1>30
     DEF Next, Program, Peers, Starter, Callback

-----------------------------------------------------------------------------
(* The inductive invariant.  AnswerFirst and SuccessIsEarned rest on       *)
(* PeersDescribed (a peer connection has a description just when the answer*)
(* came), which rests on StartsFresh (an offer is the first thing that     *)
(* happens to a session, so it takes nothing back).  LatchBeforeLock needs *)
(* no more than types.  Delivery is CandidatesKept with what it needs: a   *)
(* session has no past and no mail before its offer, its mail is on the    *)
(* connection its bridge has, and nothing is kept after the answer.        *)
LEMMA InitInvariant == Init => IInv
<1> SUFFICES ASSUME Init PROVE IInv
    OBVIOUS
<1>1. TypeOK
  BY EmptySeq, NoneAssumption, BoundsAssumption DEF Init, TypeOK
<1>2. StartsFresh
  BY DEF Init, StartsFresh, Fresh, Current, Bridges
<1>3. PeersDescribed /\ AnswerFirst /\ SuccessIsEarned
  BY DEF Init, PeersDescribed, AnswerFirst, SuccessIsEarned
<1>4. LatchBeforeLock /\ ErrorsBeingStored
  BY DEF Init, LatchBeforeLock, ErrorsBeingStored
<1>5. Delivery
  <2>1. NothingEarly /\ MailAtLink /\ KeptForAnswer
    BY DEF Init, NothingEarly, MailAtLink, KeptForAnswer
  <2>2. CandidatesKept
    BY DEF Init, CandidatesKept
  <2> QED
    BY <2>1, <2>2 DEF Delivery
<1>6. QED
  BY <1>1, <1>2, <1>3, <1>4, <1>5 DEF IInv

(* Every step keeps it.                                                    *)
LEMMA StepInvariant == IInv /\ [Next]_vars => IInv'
<1> SUFFICES ASSUME IInv, [Next]_vars PROVE IInv'
    OBVIOUS
<1>1. TypeOK /\ StartsFresh /\ PeersDescribed /\ AnswerFirst /\ SuccessIsEarned
      /\ LatchBeforeLock /\ ErrorsBeingStored /\ Delivery
  BY DEF IInv
<1>2. TypeOK' /\ StartsFresh' /\ PeersDescribed' /\ AnswerFirst' /\ Delivery'
  BY <1>1, TypeInductive, FreshInductive, DescribedInductive, AnswerFirstInductive,
     DeliveryInductive
<1>3. SuccessIsEarned' /\ LatchBeforeLock' /\ ErrorsBeingStored'
  BY <1>1, SuccessInductive, LatchInductive, StoredInductive
<1>4. QED
  BY <1>2, <1>3 DEF IInv

(* The inductive invariant holds throughout.                               *)
THEOREM Invariance == Spec => []IInv
BY InitInvariant, StepInvariant, PTL DEF Spec

(* Types, of server.go, bridge.go and mqtt.go's state, for any number of   *)
(* devices, resolutions, connections, candidates and failures.             *)
THEOREM TypeCorrect == Spec => []TypeOK
BY Invariance, PTL DEF IInv

(* Candidates are given to pion after the answer only, and none is kept    *)
(* back then (HandleAnswer and HandleCandidate, bridge.go:452-499).        *)
THEOREM CandidatesCorrect == Spec => []AnswerFirst
BY Invariance, PTL DEF IInv

(* No candidate is lost, duplicated or reordered between the device and    *)
(* pion while the session is registered and its connection up (mqtt.go's   *)
(* consume, HandleAnswer and HandleCandidate, bridge.go:452-499).          *)
THEOREM NoCandidateLost == Spec => []CandidatesKept
BY Invariance, PTL DEF IInv, Delivery

(* Start succeeds only with an answer, and with HEVC only after the data   *)
(* channel's handshake (bridge.go:378-391, 517-551).                       *)
THEOREM SuccessCorrect == Spec => []SuccessIsEarned
BY Invariance, PTL DEF IInv

(* No callback wants a stream's mutex before the Start it reports about    *)
(* has been told (handleError, bridge.go:691-696).                         *)
THEOREM LatchCorrect == Spec => []LatchBeforeLock
BY Invariance, PTL DEF IInv

(* An attempt fails of its own session only, however late the reports of   *)
(* earlier attempts and of other streams come (handleError,                *)
(* bridge.go:691-696; consume's dispatch by session, mqtt.go:166-188): what*)
(* is told, about to be told or on its way about a session is true of it   *)
(* (OwnInv), and a session that is broken stays so.                        *)
THEOREM FailuresOwn == Spec => []FailureIsOwn
<1>1. Init => OwnInv
  BY DEF Init, OwnInv, FailureIsOwn, TellsTrue, AlarmsTrue, MailTrue, AnswersTrue, Arriving
<1>2. IInv /\ OwnInv /\ [Next]_vars => OwnInv'
  BY OwnInductive
<1> QED
  BY Invariance, <1>1, <1>2, PTL DEF Spec, OwnInv

(* A Start that waits has its wake-up under way, whatever came in between  *)
(* (Start, bridge.go:228; handleError, HandleAnswer, HandleDisconnect and  *)
(* pion's callbacks; consume, mqtt.go), but for a lost connection and a    *)
(* resolution that never reports.  An open waiter's wake-up is where its   *)
(* peer connection is (Awaited); the session of a Start that waits stays   *)
(* registered (Registered), as nothing stops a bridge before it is up.     *)
THEOREM WakeUpsKept == Spec => []NoWakeUpLost
<1> DEFINE WInv == AllAwaited /\ UpWhenDone /\ Registered
<1>1. Init => WInv
  BY DEF Init, AllAwaited, Awaited, UpWhenDone, Registered
<1>2. IInv /\ WInv /\ [Next]_vars => WInv'
  BY AwaitedInductive, RegisteredInductive DEF IInv
<1>3. IInv /\ WInv => NoWakeUpLost
  <2> SUFFICES ASSUME IInv, WInv, NEW s \in Streams, start[s] = "waiting",
                      waiter[Current(s)] = "open", link[Current(s)] \in online, ~Unreported(s)
               PROVE  NewsOf(Current(s))
    BY DEF NoWakeUpLost
  <2> DEFINE b == Current(s)
  <2>1. b \in Bridges /\ Owner(b) = s
    BY DEF IInv, TypeOK, Current, Owner, Bridges
  <2>2. Awaited(b) /\ Reachable(b)
    BY <2>1 DEF AllAwaited, Registered, Reachable
  <2>3. peer[b] \in {"offered", "described", "connected", "failed", "closed"}
    <3>1. Fresh(s) /\ TypeOK
      BY DEF IInv, StartsFresh
    <3>2. peer[b] # "none"
      BY <3>1 DEF Fresh
    <3>3. peer[b] \in {"none", "offered", "described", "connected", "failed", "closed"}
      BY <2>1, <3>1 DEF TypeOK
    <3> QED
      BY <3>2, <3>3
  <2> HIDE DEF b
  <2>4. CASE peer[b] = "offered"
    BY <2>2, <2>4 DEF Awaited, NewsOf, Mail, Telling, Reachable, b
  <2>5. CASE peer[b] = "described"
    BY <2>5 DEF NewsOf, b
  <2>6. CASE peer[b] = "connected"
    BY <2>1, <2>2, <2>6 DEF Awaited, NewsOf, Unreported, b
  <2>7. CASE peer[b] \in {"failed", "closed"}
    BY <2>2, <2>7 DEF Awaited, NewsOf, Telling, b
  <2> QED
    BY <2>3, <2>4, <2>5, <2>6, <2>7
<1> QED
  BY Invariance, <1>1, <1>2, <1>3, PTL DEF Spec

(* What goes on inside bridges keeps the contract that CameraStreams, too, *)
(* keeps (ContractKept of CameraStreamsProofs).                            *)
THEOREM ContractKept == Spec => BridgesKeepContract
<1>1. Init => Contract!Init
  BY DEF Init, Contract!Init
<1>2. IInv /\ [Next]_vars => [Contract!Next]_(Contract!vars)
  BY ContractStep DEF IInv
<1>3. QED
  BY Invariance, <1>1, <1>2, PTL DEF Spec, BridgesKeepContract, Contract!Spec
=============================================================================
