----------------------------- MODULE SignAndSend -----------------------------
(***************************************************************************)
(* The unified Signer (src/rust/src/lib.rs), sign_and_send (send.rs) and   *)
(* the in-memory backend (memory/mod.rs), driven by an application that    *)
(* wants one payment on chain: it opens signers of the three shapes,       *)
(* collects signatures, sends through a signer, and after an ordinary      *)
(* error rebuilds the transaction and tries again.  After                  *)
(* BroadcastUnconfirmed or a dropped future it stops and reconciles.       *)
(*                                                                         *)
(* Each backend behaves as SignerContract says, which DirectSigner and     *)
(* PollSigner refine; a sending one as ManagedBroadcast shows: an ordinary *)
(* error means that nothing was accepted.  Fireblocks may broadcast what   *)
(* it was asked to sign only, and says so when it shows.  The caller's     *)
(* `send` hands the transaction to a network that may include it at any    *)
(* later time.                                                             *)
(***************************************************************************)
EXTENDS Transactions

CONSTANTS
    Signers,     \* the signers of the application
    Casts,       \* assignments of a backend to each signer
    KeyOf,       \* the key each signer has at its provider
    Drafts,      \* transactions the application builds
    Rewritten,   \* transactions a rewriting or sending provider makes
    MaxCalls     \* bound: calls of the application

Backends == {"memory", "vault", "privy", "turnkey", "aws_kms", "fireblocks", "gcp_kms", "cdp",
             "dfns", "openfort", "para", "crossmint", "utila", "fordefi_black_box",
             "fordefi_native_auto", "fordefi_native_manual", "ledger"}

ASSUME SendConstants ==
    /\ Casts \subseteq [Signers -> Backends]
    /\ KeyOf \in [Signers -> Keys]
    /\ Drafts \subseteq Transaction /\ Rewritten \subseteq Transaction
    /\ MaxCalls \in Nat

VARIABLES
    cast,      \* the backend of each signer
    key,       \* pubkey() of each open signer, NONE for one that is not open
    tx,        \* the caller's transaction
    pc,        \* "idle", "signing", "sending" (the caller's send) or "providing"
    who,       \* the signer called
    op,        \* "sign" or "send"
    handed,    \* what was handed to the caller's send, with the signer's key
    flight,    \* transactions the network or a provider holds
    landed,    \* transactions on chain
    result,    \* what the last call returned
    calls,     \* calls made
    settled,   \* the application no longer retries
    unnamed    \* history: a provider named no signature for what it broadcast

appVars == <<cast, key, calls, settled, unnamed>>
vars == <<appVars, tx, pc, who, op, handed, flight, landed, result>>

Results == [kind: {"None", "Ok", "Err", "Unconfirmed", "Cancelled"},
            signature: Signatures \cup {NONE}]
Outcome(kind, signature) == [kind |-> kind, signature |-> signature]

TypeOK ==
    /\ cast \in Casts
    /\ key \in [Signers -> Keys \cup {NONE}]
    /\ tx \in Transaction
    /\ pc \in {"idle", "signing", "sending", "providing"}
    /\ who \in Signers \cup {NONE}
    /\ op \in {"sign", "send", NONE}
    /\ handed \in SUBSET [tx: Transaction, key: Keys]
    /\ flight \in SUBSET Transaction /\ landed \subseteq flight
    /\ result \in Results
    /\ calls \in 0..MaxCalls
    /\ settled \in BOOLEAN /\ unnamed \in BOOLEAN

Init ==
    /\ cast \in Casts
    /\ key = [s \in Signers |-> NONE]
    /\ tx \in Drafts
    /\ pc = "idle" /\ who = NONE /\ op = NONE
    /\ handed = {} /\ flight = {} /\ landed = {}
    /\ result = Outcome("None", NONE)
    /\ calls = 0 /\ settled = FALSE /\ unnamed = FALSE

-----------------------------------------------------------------------------
(* The shapes: lib.rs *)

as_sending_signer(s) == cast[s] \in {"crossmint", "fordefi_native_auto"}
as_modifying_signer(s) == cast[s] = "fordefi_native_manual"
as_transaction_signer(s) ==
    cast[s] \in {"memory", "vault", "privy", "turnkey", "aws_kms", "fireblocks", "gcp_kms", "cdp",
                 "dfns", "openfort", "para", "utila", "fordefi_black_box", "ledger"}

\* Signer::from_<backend>: the key comes from the configuration or from the init it
\* runs; if either fails there is no signer.
Open(s) ==
    /\ pc = "idle" /\ key[s] = NONE /\ calls = 0
    /\ key' = [key EXCEPT ![s] = KeyOf[s]]
    /\ result' = Outcome("Ok", NONE)
    /\ UNCHANGED <<cast, calls, settled, unnamed, tx, pc, who, op, handed, flight, landed>>

OpenFails(s) ==
    /\ pc = "idle" /\ key[s] = NONE /\ calls = 0
    /\ result' = Outcome("Err", NONE)
    /\ UNCHANGED <<appVars, tx, pc, who, op, handed, flight, landed>>

IsOpen(s) == key[s] # NONE

-----------------------------------------------------------------------------
(* The application *)

Begin(s, o, at) ==
    /\ pc = "idle" /\ IsOpen(s) /\ calls < MaxCalls
    /\ calls' = calls + 1
    /\ who' = s /\ op' = o /\ pc' = at
    /\ result' = Outcome("None", NONE)
    /\ UNCHANGED <<cast, key, settled, unnamed, tx, handed, flight, landed>>

Rebuild ==
    /\ pc = "idle" /\ ~settled
    /\ tx' \in Drafts
    /\ UNCHANGED <<appVars, pc, who, op, handed, flight, landed, result>>

\* sign_transaction or modify_and_sign_transaction of the backend.
Sign(s) ==
    /\ ~settled
    /\ as_transaction_signer(s) \/ as_modifying_signer(s)
    /\ Begin(s, "sign", "signing")

sign_and_send(s) ==
    /\ ~settled
    /\ Begin(s, "send", IF as_sending_signer(s) THEN "providing" ELSE "signing")

-----------------------------------------------------------------------------
(* The call *)

Returns(outcome) ==
    /\ pc' = "idle" /\ who' = NONE /\ op' = NONE
    /\ result' = outcome
    /\ settled' = \/ settled
                  \/ outcome.kind = "Unconfirmed"
                  \/ op = "send" /\ outcome.kind \in {"Ok", "Cancelled"}

FirstSignature(t) == IF t.signatures = <<>> THEN NONE ELSE t.signatures[1]

\* Mutant: whatever is signed is sent.
SendSigned(t, signature) ==
    /\ handed' = handed \cup {[tx |-> t, key |-> key[who]]} /\ flight' = flight \cup {t}
    /\ pc' = "sending" /\ UNCHANGED <<who, op, result, settled>>

\* `send` is called only for a complete transaction that its fee payer's signature
\* identifies.
broadcast_complete(t, signature) ==
    IF ~has_all_required_signatures(t) \/ FirstSignature(t) \in {NONE, NoSignature}
    THEN Returns(Outcome("Err", NONE)) /\ UNCHANGED <<handed, flight>>
    ELSE /\ handed' = handed \cup {[tx |-> t, key |-> key[who]]} /\ flight' = flight \cup {t}
         /\ pc' = "sending" /\ UNCHANGED <<who, op, result, settled>>

\* The backend's Ok, for a sign alone and inside sign_and_send.
Proceed(t, signature) ==
    IF op = "send" THEN broadcast_complete(t, signature)
    ELSE Returns(Outcome("Ok", signature)) /\ UNCHANGED <<handed, flight>>

\* sign_transaction: the signer's own valid signature goes into its own slot.
TransactionSigned ==
    /\ pc = "signing" /\ as_transaction_signer(who)
    /\ get_signing_keypair_position(tx, key[who]) # 0
    /\ LET s == [by |-> key[who], over |-> tx.message]
       IN  /\ tx' = add_signature_to_transaction(tx, key[who], s)
           /\ Proceed(tx', s)
    /\ UNCHANGED <<cast, key, calls, unnamed, landed>>

\* modify_and_sign_transaction: the returned transaction carries the signer's valid
\* signature.
TransactionRewritten ==
    /\ pc = "signing" /\ as_modifying_signer(who)
    /\ \E t \in Rewritten :
        LET s == extract_and_verify_rewritten_transaction(t, key[who])
        IN  s # NONE /\ tx' = t /\ Proceed(t, s)
    /\ UNCHANGED <<cast, key, calls, unnamed, landed>>

\* The memory signer only fails where it has no slot, the others at any time.
SigningFails ==
    /\ pc = "signing"
    /\ cast[who] = "memory" => get_signing_keypair_position(tx, key[who]) = 0
    /\ Returns(Outcome("Err", NONE))
    /\ UNCHANGED <<cast, key, calls, unnamed, tx, handed, flight, landed>>

\* Fireblocks has broadcast the PROGRAM_CALL it was asked to sign: the error of
\* sign_transaction passes through sign_and_send.
SigningUnconfirmed ==
    /\ pc = "signing" /\ cast[who] = "fireblocks"
    /\ get_signing_keypair_position(tx, key[who]) # 0
    /\ LET s == [by |-> key[who], over |-> tx.message]
       IN  flight' = flight \cup {add_signature_to_transaction(tx, key[who], s)}
    /\ Returns(Outcome("Unconfirmed", NONE))
    /\ UNCHANGED <<cast, key, calls, unnamed, tx, handed, landed>>

\* Mutant: the error of `send` propagates as it is.
SendErrorUnchanged(t) == Outcome("Err", NONE)

\* Mutant: the signature the signer made is reported.
OwnSignatureReported(t) == Outcome("Unconfirmed", [by |-> key[who], over |-> t.message])

SendError(t) == Outcome("Unconfirmed", FirstSignature(t))

\* The Ok of `send` is returned as it is.
SendReturns ==
    /\ pc = "sending"
    /\ \/ \E signature \in Signatures : Returns(Outcome("Ok", signature))
       \/ Returns(SendError(tx))
    /\ UNCHANGED <<cast, key, calls, unnamed, tx, handed, flight, landed>>

require_broadcast_signature(signature) ==
    IF signature = NoSignature THEN Outcome("Err", NONE) ELSE Outcome("Ok", signature)

\* sign_and_send_transaction of the sending backends; the caller's transaction stays
\* as it is and `send` is not called.
ProviderReturns ==
    /\ pc = "providing"
    /\ \/ \E t \in Rewritten, signature \in Signatures :
            /\ signature \in {FirstSignature(t), NoSignature}
            /\ flight' = flight \cup {t}
            /\ unnamed' = (unnamed \/ signature = NoSignature)
            /\ Returns(require_broadcast_signature(signature))
       \/ /\ \E kept \in {{}} \cup {{t} : t \in Rewritten} : flight' = flight \cup kept
          /\ Returns(Outcome("Unconfirmed", NONE)) /\ UNCHANGED unnamed
       \/ Returns(Outcome("Err", NONE)) /\ UNCHANGED <<flight, unnamed>>
    /\ UNCHANGED <<cast, key, calls, tx, handed, landed>>

\* The future is dropped at an await; a provider may hold the transaction already.
Cancel ==
    /\ pc # "idle" /\ ~(pc = "signing" /\ cast[who] = "memory")
    /\ Returns(Outcome("Cancelled", NONE))
    /\ \/ UNCHANGED flight
       \/ pc = "providing" /\ \E t \in Rewritten : flight' = flight \cup {t}
    /\ UNCHANGED <<cast, key, calls, unnamed, tx, handed, landed>>

\* The network includes a transaction whose signatures are all valid, once.
Land ==
    /\ \E t \in flight \ landed :
        /\ Len(t.signatures) = t.message.need /\ Len(t.message.keys) >= t.message.need
        /\ \A i \in 1..t.message.need : verifies(t.signatures[i], t.message.keys[i], t.message)
        /\ landed' = landed \cup {t}
    /\ UNCHANGED <<appVars, tx, pc, who, op, handed, flight, result>>

Next ==
    \/ \E s \in Signers : Open(s) \/ OpenFails(s) \/ Sign(s) \/ sign_and_send(s)
    \/ Rebuild \/ TransactionSigned \/ TransactionRewritten \/ SigningFails
    \/ SigningUnconfirmed \/ SendReturns \/ ProviderReturns \/ Cancel \/ Land

Spec == Init /\ [][Next]_vars

-----------------------------------------------------------------------------
(* Properties *)

\* An application that retries only after ordinary errors pays at most once, through
\* failed sends, late inclusion, dropped futures, rebuilt transactions and a Fireblocks
\* that is seen to broadcast what it should only sign, as long as a sending provider names
\* what it broadcast.
AtMostOnce == ~unnamed => Cardinality(landed) <= 1

\* The caller's `send` is handed only transactions with every required slot filled,
\* the one of the signer with its valid signature over the very message handed over.
OnlyCompleteIsSent ==
    \A h \in handed :
        /\ Len(h.tx.signatures) >= h.tx.message.need
        /\ \A i \in 1..h.tx.message.need : h.tx.signatures[i] # NoSignature
        /\ \E i \in 1..h.tx.message.need :
            h.tx.message.keys[i] = h.key /\ verifies(h.tx.signatures[i], h.key, h.tx.message)

\* The transaction_signature of BroadcastUnconfirmed is the id under which what the
\* application handed to `send` is found on chain, now or later.
UnconfirmedNamesTransaction ==
    result.kind = "Unconfirmed" /\ result.signature # NONE =>
        \A h \in handed : h.tx.signatures[1] = result.signature

=============================================================================
