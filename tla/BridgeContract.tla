--------------------------- MODULE BridgeContract ---------------------------
(***************************************************************************)
(* What a camera stream may rely on of its bridges (bridge/pkg/rtsp/       *)
(* bridge.go) and what it may do to them: an attempt has one outcome,      *)
(* success or an error, told to the waiter once and for good; a bridge     *)
(* comes up after its waiter was told, though not always told of success:  *)
(* Wait may miss an error that Done has yet to store (utils/waiter.go).    *)
(*                                                                         *)
(* CameraStreams, which sees bridges from the server, and BridgeSignalling,*)
(* which sees what goes on inside, both implement it.                      *)
(***************************************************************************)
CONSTANT Bridges

VARIABLES outcome, up

vars == <<outcome, up>>

Init == outcome = [b \in Bridges |-> "open"] /\ up = {}

(* waiter.Done(nil).                                                       *)
ReportSuccess(b) ==
  /\ outcome[b] = "open"
  /\ outcome' = [outcome EXCEPT ![b] = "ok"]
  /\ UNCHANGED up

(* waiter.Done(err): Wait returns, and the error is stored.                *)
ReportError(b) ==
  /\ outcome[b] = "open"
  /\ outcome' = [outcome EXCEPT ![b] = "failing"]
  /\ UNCHANGED up

StoreError(b) ==
  /\ outcome[b] = "failing"
  /\ outcome' = [outcome EXCEPT ![b] = "err"]
  /\ UNCHANGED up

(* Start returns nil.                                                      *)
ComeUp(b) ==
  /\ outcome[b] \in {"ok", "failing"}
  /\ up' = up \cup {b}
  /\ UNCHANGED outcome

(* Stop, or a disconnect by the device.                                    *)
GoDown(b) == up' = up \ {b} /\ UNCHANGED outcome

Next == \E b \in Bridges : \/ ReportSuccess(b) \/ ReportError(b) \/ StoreError(b)
                           \/ ComeUp(b) \/ GoDown(b)

Spec == Init /\ [][Next]_vars
=============================================================================
