--------------------------- MODULE SignerContract ---------------------------
(***************************************************************************)
(* What a signer promises its caller, whatever its provider answers        *)
(* (src/rust/src/traits.rs): sign_transaction changes the caller's         *)
(* transaction only by putting the signer's own valid signature into its   *)
(* own slot, modify_and_sign_transaction replaces it only by one that      *)
(* carries the signer's valid signature, and a call that fails or is       *)
(* dropped leaves it alone.                                                *)
(***************************************************************************)
EXTENDS Transactions

VARIABLES
    shape,    \* "signs" (TransactionSigner) or "rewrites" (ModifyingSigner)
    key,      \* pubkey(), NONE before init
    tx,       \* the caller's transaction
    op,       \* the call in flight, "none" between calls
    text,     \* the bytes of a sign_message
    result    \* what the last call returned; nothing while one is in flight

vars == <<shape, key, tx, op, text, result>>

Operations == {"init", "message", "transaction", "available"}

\* "Timeout" is the RemoteApiError of a poll loop that ran out, "Unconfirmed" a
\* BroadcastUnconfirmed; "Err" is every other error.
Failures == {"Err", "Timeout", "Unconfirmed", "Cancelled", "Unavailable"}
Results == [kind: {"None", "Ok", "Available"} \cup Failures,
            signature: Signature \cup {NONE}, class: {"Complete", "Partial", NONE}]
Outcome(kind) == [kind |-> kind, signature |-> NONE, class |-> NONE]
Signed(signature, class) == [kind |-> "Ok", signature |-> signature, class |-> class]

Init ==
    /\ shape \in {"signs", "rewrites"}
    /\ key \in Keys \cup {NONE}
    /\ tx \in Transaction
    /\ op = "none" /\ text = NONE
    /\ result = Outcome("None")

\* The signer is constructed with the key its configuration names.
Configure ==
    /\ op = "none" /\ key = NONE
    /\ key' \in Keys
    /\ UNCHANGED <<shape, tx, op, text, result>>

\* Between calls the caller may do as it likes with its transaction.
Edit ==
    /\ op = "none"
    /\ tx' \in Transaction
    /\ UNCHANGED <<shape, key, op, text, result>>

Begin ==
    /\ op = "none"
    /\ op' \in Operations
    /\ text' \in Texts \cup {NONE}
    /\ result' = Outcome("None")
    /\ UNCHANGED <<shape, key, tx>>

\* Refused at once, failed later, or dropped.
Fail ==
    /\ op' = "none" /\ text' = NONE
    /\ \E kind \in Failures : result' = Outcome(kind)
    /\ UNCHANGED <<shape, key, tx>>

Report ==
    /\ op = "available"
    /\ op' = "none" /\ text' = NONE
    /\ result' = Outcome("Available")
    /\ UNCHANGED <<shape, key, tx>>

Learn ==
    /\ op = "init"
    /\ op' = "none" /\ text' = NONE
    /\ key' \in Keys
    /\ result' = Outcome("Ok")
    /\ UNCHANGED <<shape, tx>>

SignText ==
    /\ op = "message" /\ text \in Texts
    /\ op' = "none" /\ text' = NONE
    /\ \E s \in Signature : verifies(s, key, text) /\ result' = Signed(s, NONE)
    /\ UNCHANGED <<shape, key, tx>>

SignTransaction ==
    /\ op = "transaction" /\ shape = "signs"
    /\ get_signing_keypair_position(tx, key) # 0
    /\ \E s \in Signature :
        /\ verifies(s, key, tx.message)
        /\ tx' = add_signature_to_transaction(tx, key, s)
        /\ result' = Signed(s, classify_signed_transaction(tx'))
    /\ op' = "none" /\ text' = NONE
    /\ UNCHANGED <<shape, key>>

Rewrite ==
    /\ op = "transaction" /\ shape = "rewrites"
    /\ tx' \in Transaction
    /\ LET s == signature_at_signer_position(tx', key)
       IN  /\ s \in Signature /\ verifies(s, key, tx'.message)
           /\ result' = Signed(s, classify_signed_transaction(tx'))
    /\ op' = "none" /\ text' = NONE
    /\ UNCHANGED <<shape, key>>

Next ==
    \/ Configure \/ Edit \/ Begin \/ Fail \/ Report \/ Learn
    \/ SignText \/ SignTransaction \/ Rewrite

Spec == Init /\ [][Next]_vars
=============================================================================
