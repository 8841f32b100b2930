--------------------------- MODULE MCLedgerDevice ---------------------------
(* Instances of LedgerDevice for TLC. *)
EXTENDS LedgerDevice, TLC

CONSTANTS p1

Config(host, confirm, autoOpen) ==
    [host |-> host, confirm |-> confirm, autoOpen |-> autoOpen]

\* Every option, on whichever device is there.
AnyDevice == {Config(NONE, confirm, open) : confirm, open \in BOOLEAN}

\* Every option, with and without naming a device.
AnyOrNamed == AnyDevice \cup {Config(p1, confirm, open) : confirm, open \in BOOLEAN}

Symmetry == Permutations(Callers)
=============================================================================
