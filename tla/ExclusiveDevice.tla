-------------------------- MODULE ExclusiveDevice ---------------------------
(***************************************************************************)
(* What the DeviceClaim of src/rust/src/ledger/mod.rs promises: the device *)
(* is free, granted to one request that is on its way, or serving it.  The *)
(* user is asked only while a request is served, the device is not handed  *)
(* back with a question open, and a granted request is served before any   *)
(* other is granted.                                                       *)
(***************************************************************************)

VARIABLES
    phase,    \* "free", "granted" or "serving"
    asking    \* the request being served waits for the user

vars == <<phase, asking>>

Init == phase = "free" /\ asking = FALSE

Grant    == phase = "free" /\ phase' = "granted" /\ UNCHANGED asking
Serve    == phase = "granted" /\ phase' = "serving" /\ UNCHANGED asking
Ask      == phase = "serving" /\ ~asking /\ asking' = TRUE /\ UNCHANGED phase
Answer   == phase = "serving" /\ asking /\ asking' = FALSE /\ UNCHANGED phase
Finish   == phase = "serving" /\ ~asking /\ phase' = "free" /\ UNCHANGED asking
Withdraw == phase = "granted" /\ ~asking /\ phase' = "free" /\ UNCHANGED asking

Next == Grant \/ Serve \/ Ask \/ Answer \/ Finish \/ Withdraw

Spec == Init /\ [][Next]_vars
=============================================================================
