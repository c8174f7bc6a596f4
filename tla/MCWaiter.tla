------------------------------ MODULE MCWaiter ------------------------------
(***************************************************************************)
(* Waiter with a handful of threads: enough for an extra Add, two Waits    *)
(* and two Dones that race.                                                *)
(***************************************************************************)
EXTENDS Waiter
=============================================================================
