------------------------- MODULE MCManagedBroadcast -------------------------
(* Instances of ManagedBroadcast for TLC. *)
EXTENDS ManagedBroadcast

CONSTANTS c1, a1, f1

Signer(backend, fee) ==
    [backend |-> backend, account |-> a1, fee |-> fee, slot |-> TRUE, secret |-> TRUE]

\* Two Fordefi signers that differ in their fee; c2's has no slot.
TwoFees ==
    [c \in Callers |-> IF c = c1 THEN Signer("fordefi", f1)
                       ELSE [Signer("fordefi", NONE) EXCEPT !.slot = FALSE]]

\* One Crossmint account; only c1's signer has the secret that approves.
OneAccount ==
    [c \in Callers |-> [Signer("crossmint", NONE) EXCEPT !.secret = (c = c1)]]
=============================================================================
