---------------------------- MODULE DirectSigner ----------------------------
(***************************************************************************)
(* The backends whose provider signs within the exchange: Vault, AWS KMS,  *)
(* GCP KMS, Privy, Turnkey, Dfns, Para, CDP and Openfort                   *)
(* (src/rust/src/<backend>/mod.rs).  One signer is constructed,            *)
(* initialised where its key is fetched, asked for its availability and    *)
(* for signatures.  The provider's key is rotated, disabled or replaced at *)
(* any time, every answer may be lost, refused, unreadable or wrong, and   *)
(* the future may be dropped at every await.  init takes &mut self, and    *)
(* the other calls change nothing of the signer, so one call at a time is  *)
(* every interleaving.                                                     *)
(*                                                                         *)
(* Abstractions.  Base58, base64, hex, DER and PEM decode or do not.  Dfns *)
(* names a key by an id; here the id of a key is the key.                  *)
(***************************************************************************)
EXTENDS Transactions

CONSTANTS
    Configs,      \* the configurations a signer is built from
    Returned,     \* transactions a provider may return
    Drafts,       \* transactions the application prepares
    Utf8,         \* the texts that are UTF-8
    WithTables    \* the messages with address table lookups

\* Their key is part of the configuration; the others fetch it in init.
KeyInConfig == {"vault", "aws_kms", "gcp_kms", "turnkey", "cdp"}
KeyFetched == {"privy", "dfns", "para", "openfort"}
Backends == KeyInConfig \cup KeyFetched

Config == [backend: Backends,
           key: Keys \cup {NONE},                    \* NONE: not a public key
           wellFormed: BOOLEAN,                      \* required fields, UUID, https URL
           network: {"unset", "known", "unknown"},   \* CDP
           byAddress: BOOLEAN,                       \* Turnkey: private_key_id is the address
           credential: BOOLEAN]                      \* the local secret parses

ASSUME DirectConstants ==
    /\ Configs \subseteq Config
    /\ Returned \subseteq Transaction
    /\ Drafts \subseteq Transaction
    /\ Utf8 \subseteq Texts
    /\ WithTables \subseteq Messages

VARIABLES
    conf,     \* the configuration
    key,      \* public_key
    keyId,    \* Dfns: key_id
    wallet,   \* the provider: the key it signs with, enabled, of the right kind
    pc,       \* "new", "idle" or the exchange awaited
    op,       \* the call
    text,     \* the bytes of a sign_message
    tx,       \* the caller's transaction, lent to sign_transaction
    result,   \* what the last call returned, nothing while one is in flight
    steady    \* history: the provider has not changed since the last call began

signer == <<conf, key, keyId>>
vars == <<signer, wallet, pc, op, text, tx, result, steady>>

Exchanges == {"describe", "whoami", "wallet", "challenge", "action", "sign"}

\* `key` is NONE when the address is missing or is not a Solana public key.
Wallets == [key: Keys \cup {NONE}, active: BOOLEAN, usable: BOOLEAN]

C == INSTANCE SignerContract WITH shape <- "signs"

TypeOK ==
    /\ conf \in Configs
    /\ key \in Keys \cup {NONE}
    /\ keyId \in Keys \cup {NONE}
    /\ wallet \in Wallets
    /\ pc \in {"new", "idle"} \cup Exchanges
    /\ op \in C!Operations \cup {"none"}
    /\ text \in Texts \cup {NONE}
    /\ tx \in Transaction
    /\ result \in C!Results
    /\ steady \in BOOLEAN

\* A Turnkey address names its key: the provider cannot sign with another one.
Addressed(c, w) == c.backend = "turnkey" /\ c.byAddress => w.key = c.key

Init ==
    /\ conf \in Configs
    /\ wallet \in Wallets /\ Addressed(conf, wallet)
    /\ tx \in Drafts
    /\ key = NONE /\ keyId = NONE
    /\ pc = "new" /\ op = "none" /\ text = NONE
    /\ result = C!Outcome("None")
    /\ steady = TRUE

-----------------------------------------------------------------------------
(* What an exchange brings back.  A wallet is described as it is; anything  *)
(* may come as a signature or as a signed transaction.                      *)

\* No response, a redirect, a status other than 2xx; a body that does not parse.
Failed == [ok |-> FALSE, done |-> FALSE, signature |-> NONE, transaction |-> NONE, wallet |-> NONE]
Garbled == [Failed EXCEPT !.ok = TRUE]

\* `done`: credential allowed, activity completed, status "Signed".
Replies(exchange) ==
    {Failed, Garbled} \cup
    CASE exchange \in {"wallet", "describe"} -> {[Garbled EXCEPT !.wallet = wallet]}
      [] exchange \in {"challenge", "action"} -> {[Garbled EXCEPT !.done = TRUE]}
      [] exchange = "whoami" -> {}
      [] exchange = "sign" ->
            [ok: {TRUE}, done: BOOLEAN, signature: Signatures, transaction: {NONE}, wallet: {NONE}]
            \cup
            [ok: {TRUE}, done: BOOLEAN, signature: {NONE}, transaction: Returned, wallet: {NONE}]

\* Mutant: nothing is verified.
Unverified(r, bytes) == r.signature

\* The decoded signature, once verify_or_reject has accepted it; NONE for Err.
Accepted(r, bytes) ==
    IF r.signature # NONE /\ verifies(r.signature, key, bytes) THEN r.signature ELSE NONE

\* The same for a signature inside a returned transaction.
AcceptedReturned(r) ==
    IF r.transaction = NONE THEN NONE
    ELSE extract_and_verify_returned_signature(r.transaction, key, tx.message)

\* The address a wallet response carries; NONE where it cannot be read.
Address(r) == IF r.wallet = NONE THEN NONE ELSE r.wallet.key

-----------------------------------------------------------------------------
(* HashiCorp Vault *)

vault_from_config(c) == c.key # NONE
vault_sign_bytes(r, bytes) == Accepted(r, bytes)
vault_sign_and_serialize(r) == vault_sign_bytes(r, tx.message)

latest_key_matches_public_key(r) == Address(r) = key
vault_is_available(r) ==
    /\ r.wallet # NONE
    /\ r.wallet.active /\ r.wallet.usable
    /\ latest_key_matches_public_key(r)

(* AWS KMS: describe_key, then get_public_key *)

aws_from_config(c) == c.key # NONE
aws_sign_bytes(r, bytes) == Accepted(r, bytes)
aws_sign_and_serialize(r) == aws_sign_bytes(r, tx.message)
aws_is_available(r) == r.wallet # NONE /\ r.wallet.usable /\ r.wallet.active
key_matches_configured_public_key(r) == r.wallet # NONE /\ r.wallet.key = key

(* GCP KMS *)

gcp_from_config(c) == c.key # NONE
gcp_sign_bytes(r, bytes) == Accepted(r, bytes)
gcp_sign_and_serialize(r) == gcp_sign_bytes(r, tx.message)
gcp_is_available(r) == r.wallet # NONE /\ r.wallet.usable /\ r.wallet.key = key

(* Privy: signTransaction submits and returns a whole transaction *)

privy_from_config(c) == TRUE
privy_fetch_public_key(r) == Address(r)
privy_init(r) == [key |-> privy_fetch_public_key(r), keyId |-> keyId]
privy_post_rpc == conf.credential
privy_sign_bytes(r, bytes) == Accepted(r, bytes)
privy_sign_and_serialize(r) == AcceptedReturned(r)
privy_is_available(r) == privy_fetch_public_key(r) = key

(* Turnkey: activities that must be completed *)

turnkey_from_config(c) == c.key # NONE /\ c.credential
post_activity(r) == r.ok /\ r.done
turnkey_sign_bytes(r, bytes) == IF post_activity(r) THEN Accepted(r, bytes) ELSE NONE
turnkey_sign_and_serialize(r) == IF post_activity(r) THEN AcceptedReturned(r) ELSE NONE
post_query(r) == r.ok
sign_with_matches_public_key(r) == r.wallet # NONE /\ r.wallet.key = key

(* Dfns: every signature needs a user action first *)

dfns_from_config(c) == TRUE

\* Mutant: a signer that has a key id keeps it.
KeepFirstKeyId(r) ==
    IF r.wallet # NONE /\ r.wallet.active /\ r.wallet.usable
    THEN [key |-> Address(r), keyId |-> IF keyId = NONE THEN Address(r) ELSE keyId]
    ELSE [key |-> NONE, keyId |-> NONE]

dfns_init(r) ==
    IF r.wallet # NONE /\ r.wallet.active /\ r.wallet.usable
    THEN [key |-> Address(r), keyId |-> Address(r)]
    ELSE [key |-> NONE, keyId |-> NONE]

send_signature_request(r, bytes) == IF r.ok /\ r.done THEN Accepted(r, bytes) ELSE NONE
dfns_sign_bytes(r) == send_signature_request(r, text)
dfns_sign_transaction_bytes(r) == send_signature_request(r, tx.message)
dfns_is_available(r) == r.wallet # NONE /\ r.wallet.active /\ r.wallet.usable

(* Para: a wallet that is not active yet is accepted with a warning *)

para_from_config(c) == c.wellFormed
para_init(r) ==
    [key |-> IF r.wallet # NONE /\ r.wallet.usable THEN Address(r) ELSE NONE, keyId |-> keyId]
para_sign_bytes(r, bytes) == Accepted(r, bytes)
para_sign_and_serialize(r) == para_sign_bytes(r, tx.message)
para_is_available(r) == r.wallet # NONE /\ r.wallet.usable /\ r.wallet.active

(* CDP: text messages only, and a network where lookup tables are resolved *)

cdp_from_config(c) == c.wellFormed /\ c.network # "unknown" /\ c.key # NONE
cdp_build_auth_headers == conf.credential
cdp_build_get_headers == conf.credential
cdp_sign_bytes(r, bytes) == Accepted(r, bytes)
cdp_sign_and_serialize(r) == AcceptedReturned(r)
cdp_is_available(r) == r.ok

\* The checks that precede the request.
cdp_submits(o, bytes) ==
    /\ o = "message" => bytes \in Utf8
    /\ o = "transaction" => (tx.message \in WithTables => conf.network # "unset")
    /\ cdp_build_auth_headers

(* Openfort *)

openfort_from_config(c) == c.wellFormed
openfort_fetch_public_key(r) == Address(r)
openfort_init(r) == [key |-> openfort_fetch_public_key(r), keyId |-> keyId]
openfort_build_sign_headers == conf.credential
openfort_sign_bytes(r, bytes) == Accepted(r, bytes)
openfort_sign_and_serialize(r) == openfort_sign_bytes(r, tx.message)
openfort_is_available(r) == openfort_fetch_public_key(r) = key

-----------------------------------------------------------------------------
(* Dispatch *)

Is(backend) == conf.backend = backend

from_config(c) ==
    CASE c.backend = "vault" -> vault_from_config(c)
      [] c.backend = "aws_kms" -> aws_from_config(c)
      [] c.backend = "gcp_kms" -> gcp_from_config(c)
      [] c.backend = "privy" -> privy_from_config(c)
      [] c.backend = "turnkey" -> turnkey_from_config(c)
      [] c.backend = "dfns" -> dfns_from_config(c)
      [] c.backend = "para" -> para_from_config(c)
      [] c.backend = "cdp" -> cdp_from_config(c)
      [] c.backend = "openfort" -> openfort_from_config(c)

init(r) ==
    CASE Is("privy") -> privy_init(r)
      [] Is("dfns") -> dfns_init(r)
      [] Is("para") -> para_init(r)
      [] Is("openfort") -> openfort_init(r)

sign_bytes(r) ==
    CASE Is("vault") -> vault_sign_bytes(r, text)
      [] Is("aws_kms") -> aws_sign_bytes(r, text)
      [] Is("gcp_kms") -> gcp_sign_bytes(r, text)
      [] Is("privy") -> privy_sign_bytes(r, text)
      [] Is("turnkey") -> turnkey_sign_bytes(r, text)
      [] Is("dfns") -> dfns_sign_bytes(r)
      [] Is("para") -> para_sign_bytes(r, text)
      [] Is("cdp") -> cdp_sign_bytes(r, text)
      [] Is("openfort") -> openfort_sign_bytes(r, text)

sign_and_serialize(r) ==
    CASE Is("vault") -> vault_sign_and_serialize(r)
      [] Is("aws_kms") -> aws_sign_and_serialize(r)
      [] Is("gcp_kms") -> gcp_sign_and_serialize(r)
      [] Is("privy") -> privy_sign_and_serialize(r)
      [] Is("turnkey") -> turnkey_sign_and_serialize(r)
      [] Is("dfns") -> dfns_sign_transaction_bytes(r)
      [] Is("para") -> para_sign_and_serialize(r)
      [] Is("cdp") -> cdp_sign_and_serialize(r)
      [] Is("openfort") -> openfort_sign_and_serialize(r)

\* The answer to the last exchange of is_available.
is_available(r) ==
    CASE Is("vault") -> vault_is_available(r)
      [] Is("aws_kms") -> key_matches_configured_public_key(r)
      [] Is("gcp_kms") -> gcp_is_available(r)
      [] Is("privy") -> privy_is_available(r)
      [] Is("turnkey") -> sign_with_matches_public_key(r)
      [] Is("dfns") -> dfns_is_available(r)
      [] Is("para") -> para_is_available(r)
      [] Is("cdp") -> cdp_is_available(r)
      [] Is("openfort") -> openfort_is_available(r)

\* The checks a signature passes before its first request is sent: initialized_pubkey
\* and the local authentication of the request.
Submits(o, bytes) ==
    /\ key # NONE
    /\ CASE Is("privy") -> privy_post_rpc
         [] Is("cdp") -> cdp_submits(o, bytes)
         [] Is("openfort") -> openfort_build_sign_headers
         [] OTHER -> TRUE

\* The checks before the first request of is_available.
Probes ==
    /\ Is("privy") \/ Is("openfort") => key # NONE
    /\ Is("cdp") => cdp_build_get_headers

-----------------------------------------------------------------------------
(* The application *)

Construct ==
    /\ pc = "new" /\ from_config(conf)
    /\ pc' = "idle"
    /\ key' = IF conf.backend \in KeyInConfig THEN conf.key ELSE NONE
    /\ result' = C!Outcome("None")
    /\ UNCHANGED <<conf, keyId, wallet, op, text, tx, steady>>

\* from_config returns an error; the application corrects the configuration.
Misconfigured ==
    /\ pc = "new" /\ ~from_config(conf)
    /\ conf' \in {c \in Configs : c.backend = conf.backend}
    /\ Addressed(conf', wallet)
    /\ UNCHANGED <<key, keyId, wallet, pc, op, text, tx, result, steady>>

Call(o, t, exchange) ==
    /\ pc = "idle"
    /\ op' = o /\ text' = t /\ pc' = exchange
    /\ result' = C!Outcome("None") /\ steady' = TRUE
    /\ UNCHANGED <<signer, wallet, tx>>

Refuse(kind) ==
    /\ pc = "idle"
    /\ result' = C!Outcome(kind)
    /\ UNCHANGED <<signer, wallet, pc, op, text, tx, steady>>

CallInit == conf.backend \in KeyFetched /\ Call("init", NONE, "wallet")

FirstSignExchange == IF Is("dfns") THEN "challenge" ELSE "sign"

SignMessage ==
    \E t \in Texts : IF Submits("message", t) THEN Call("message", t, FirstSignExchange)
                     ELSE Refuse("Err")

SignTransaction ==
    IF Submits("transaction", NONE) THEN Call("transaction", NONE, FirstSignExchange)
    ELSE Refuse("Err")

FirstProbe ==
    CASE Is("aws_kms") -> "describe" [] Is("turnkey") -> "whoami" [] OTHER -> "wallet"

IsAvailable ==
    IF Probes THEN Call("available", NONE, FirstProbe) ELSE Refuse("Unavailable")

EditTransaction ==
    /\ op = "none"
    /\ tx' \in Drafts
    /\ UNCHANGED <<signer, wallet, pc, op, text, result, steady>>

-----------------------------------------------------------------------------
(* The answers *)

Continue(exchange) ==
    /\ pc' = exchange
    /\ UNCHANGED <<signer, wallet, op, text, tx, result, steady>>

Returns(r) ==
    /\ pc' = "idle" /\ op' = "none" /\ text' = NONE
    /\ result' = r

Fails(kind) == Returns(C!Outcome(kind)) /\ UNCHANGED <<signer, wallet, tx, steady>>

Reports(available) ==
    /\ Returns(C!Outcome(IF available THEN "Available" ELSE "Unavailable"))
    /\ UNCHANGED <<signer, wallet, tx, steady>>

\* Mutant: describe_key is the whole check.
DescribeAnsweredAlone ==
    pc = "describe" /\ \E r \in Replies(pc) : Reports(aws_is_available(r))

DescribeAnswered ==
    /\ pc = "describe"
    /\ \E r \in Replies(pc) : IF aws_is_available(r) THEN Continue("wallet") ELSE Reports(FALSE)

\* post_query is content with 2xx; an id that is the address needs no lookup.
WhoamiAnswered ==
    /\ pc = "whoami"
    /\ \E r \in Replies(pc) :
        IF ~post_query(r) THEN Reports(FALSE)
        ELSE IF conf.byAddress THEN Reports(TRUE)
        ELSE Continue("wallet")

AvailabilityAnswered ==
    /\ pc = "wallet" /\ op = "available"
    /\ \E r \in Replies(pc) : Reports(is_available(r))

InitAnswered ==
    /\ pc = "wallet" /\ op = "init"
    /\ \E r \in Replies(pc) :
        IF init(r).key = NONE THEN Fails("Err")
        ELSE /\ key' = init(r).key /\ keyId' = init(r).keyId
             /\ Returns(C!Outcome("Ok"))
             /\ UNCHANGED <<conf, wallet, tx, steady>>

\* sign_user_action: the credential must be among the allowed ones and able to sign.
ChallengeAnswered ==
    /\ pc = "challenge"
    /\ \E r \in Replies(pc) : IF r.done /\ conf.credential THEN Continue("action") ELSE Fails("Err")

ActionAnswered ==
    /\ pc = "action"
    /\ \E r \in Replies(pc) : IF r.done THEN Continue("sign") ELSE Fails("Err")

MessageAnswered ==
    /\ pc = "sign" /\ op = "message"
    /\ \E r \in Replies(pc) :
        LET s == sign_bytes(r)
        IN  IF s = NONE THEN Fails("Err")
            ELSE Returns(C!Signed(s, NONE)) /\ UNCHANGED <<signer, wallet, tx, steady>>

\* The signature is put into the transaction only once it is verified, and the slot
\* is looked for only then.
TransactionAnswered ==
    /\ pc = "sign" /\ op = "transaction"
    /\ \E r \in Replies(pc) :
        LET s == sign_and_serialize(r)
        IN  IF s = NONE \/ get_signing_keypair_position(tx, key) = 0 THEN Fails("Err")
            ELSE /\ tx' = add_signature_to_transaction(tx, key, s)
                 /\ Returns(C!Signed(s, classify_signed_transaction(tx')))
                 /\ UNCHANGED <<signer, wallet, steady>>

Answer ==
    \/ DescribeAnswered \/ WhoamiAnswered \/ AvailabilityAnswered \/ InitAnswered
    \/ ChallengeAnswered \/ ActionAnswered \/ MessageAnswered \/ TransactionAnswered

\* The future is dropped at its await.
Cancel == pc \in Exchanges /\ Fails("Cancelled")

\* The provider's side: rotated, disabled, replaced, restored.
ChangeWallet ==
    /\ wallet' \in Wallets \ {wallet} /\ Addressed(conf, wallet')
    /\ steady' = FALSE
    /\ UNCHANGED <<signer, pc, op, text, tx, result>>

Next ==
    \/ Construct \/ Misconfigured \/ CallInit \/ SignMessage \/ SignTransaction \/ IsAvailable
    \/ EditTransaction \/ Answer \/ Cancel \/ ChangeWallet

Spec == Init /\ [][Next]_vars

-----------------------------------------------------------------------------
(* Properties *)

\* Refinement: whatever the provider answers and whenever the future is dropped, the
\* caller sees what the signer traits promise.  sign_transaction puts a signature that
\* verifies under pubkey() over the caller's message into the signer's own slot, or
\* leaves the transaction as it was; init replaces the key only by a fetched one.
KeepsContract == C!Spec

\* is_available returns true only if, unless the provider changed meanwhile, the key
\* it signs with is the signer's (Vault, AWS, GCP, Privy, Turnkey, Openfort) and is
\* enabled and of the right kind (Vault, AWS, Dfns, Para).
AvailabilityChecked ==
    result.kind = "Available" /\ steady =>
        /\ conf.backend \in {"vault", "aws_kms", "gcp_kms", "privy", "turnkey", "openfort"}
              => wallet.key = key
        /\ conf.backend \in {"vault", "aws_kms", "dfns", "para"} => wallet.active /\ wallet.usable

\* A Dfns signature request names the key that verifies its answer, through failed,
\* dropped and repeated inits and rotations between them; no backend asks its
\* provider for a signature before it has a key.
RequestNamesOwnKey ==
    pc \in {"challenge", "action", "sign"} =>
        key # NONE /\ (conf.backend = "dfns" => keyId = key)

\* A signature by another key that is valid for the caller's transaction survives
\* every call, failed or not; only the caller's own edits remove it.
OtherSignaturesSurvive ==
    [][op # "none" =>
        \A i \in DOMAIN tx.signatures \cap DOMAIN tx.message.keys :
            LET other == tx.message.keys[i]
            IN  other # key /\ verifies(tx.signatures[i], other, tx.message)
                    => i \in DOMAIN tx'.signatures /\ tx'.signatures[i] = tx.signatures[i]]_vars
=============================================================================
