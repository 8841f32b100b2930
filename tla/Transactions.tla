---------------------------- MODULE Transactions ----------------------------
(***************************************************************************)
(* Transactions and Ed25519 signatures, with the helpers every backend     *)
(* shares: src/rust/src/transaction_util.rs and signature_util.rs.         *)
(*                                                                         *)
(* A message is its account keys, the number of required signatures and an *)
(* opaque body.  A signature is the key that made it and the bytes it      *)
(* covers; nobody forges one.  Serializing a message is injective.         *)
(* Serializing an in-memory transaction succeeds.                          *)
(***************************************************************************)
EXTENDS Naturals, Sequences, FiniteSetsExt

CONSTANTS
    Keys,       \* public keys
    Messages,   \* transaction messages
    Texts,      \* off-chain messages
    NONE        \* Rust's Option::None; also an Err, where its kind does not matter

Signature == [by: Keys, over: Messages \cup Texts]
NoSignature == [by |-> NONE, over |-> NONE]     \* Signature::default()
Signatures == Signature \cup {NoSignature}

ASSUME TransactionConstants ==
    /\ Messages \subseteq [body: STRING, keys: Seq(Keys), need: Nat]
    /\ NONE \notin Keys \cup Messages \cup Texts \cup Signatures

Transaction == [message: Messages, signatures: Seq(Signatures)]

-----------------------------------------------------------------------------
(* signature_util.rs *)

\* verify_or_reject is this test, with an error when it fails.
verifies(signature, key, bytes) == signature.by = key /\ signature.over = bytes

-----------------------------------------------------------------------------
(* transaction_util.rs *)

\* The slot of `key` among the required signers; 0 for Err.
get_signing_keypair_position(t, key) ==
    LET at == {i \in 1..t.message.need : t.message.keys[i] = key}
    IN  IF Len(t.message.keys) < t.message.need \/ at = {} THEN 0 ELSE Min(at)

\* Mutant: the slots are rebuilt instead of extended.
ClearedSlots(t, n) == [i \in 1..n |-> NoSignature]

\* `signatures.resize(n, default)` where there are fewer.
ResizedSlots(t, n) ==
    [i \in 1..(IF Len(t.signatures) < n THEN n ELSE Len(t.signatures)) |->
        IF i <= Len(t.signatures) THEN t.signatures[i] ELSE NoSignature]

\* The transaction after Ok(()); the caller has seen that the position exists.
add_signature_to_transaction(t, key, signature) ==
    [t EXCEPT !.signatures =
        [ResizedSlots(t, t.message.need) EXCEPT ![get_signing_keypair_position(t, key)] = signature]]

has_all_required_signatures(t) ==
    /\ Len(t.signatures) >= t.message.need
    /\ \A i \in 1..t.message.need : t.signatures[i] # NoSignature

classify_signed_transaction(t) == IF has_all_required_signatures(t) THEN "Complete" ELSE "Partial"

-----------------------------------------------------------------------------
(* Signatures taken out of a transaction the provider returns; NONE for Err *)

signature_at_signer_position(t, key) ==
    LET i == get_signing_keypair_position(t, key)
    IN  IF i \in DOMAIN t.signatures /\ t.signatures[i] # NoSignature THEN t.signatures[i] ELSE NONE

\* Mutant: the signature is taken on the provider's word.
UnverifiedReturnedSignature(t, key, bytes) == signature_at_signer_position(t, key)

\* The returned message is not compared: the signature must cover the bytes submitted.
extract_and_verify_returned_signature(t, key, bytes) ==
    LET s == signature_at_signer_position(t, key)
    IN  IF s # NONE /\ verifies(s, key, bytes) THEN s ELSE NONE

\* For a provider that rewrote the message: the signature must cover what it returned.
extract_and_verify_rewritten_transaction(t, key) ==
    extract_and_verify_returned_signature(t, key, t.message)
=============================================================================
