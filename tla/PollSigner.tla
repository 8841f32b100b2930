----------------------------- MODULE PollSigner -----------------------------
(***************************************************************************)
(* The backends that create an order at the provider and poll until it is  *)
(* signed: Fireblocks RAW and PROGRAM_CALL (fireblocks/mod.rs), Utila      *)
(* (utila/mod.rs), and of fordefi/mod.rs the black-box signer, the native  *)
(* manual signer, which hands back a rewritten transaction, and the        *)
(* sign_message of the native auto signer, whose sign_and_send_transaction *)
(* is in ManagedBroadcast.                                                 *)
(*                                                                         *)
(* The provider signs, fails or broadcasts an order at any time, told to   *)
(* or not, also after the call has given up or was dropped; answers are    *)
(* lost or carry anything.                                                 *)
(*                                                                         *)
(* Abstractions.  An id is the position of the order.  Provider statuses   *)
(* are five classes.  The hash of an idempotency key is injective, and the *)
(* chain and the vault it covers do not change.  A vault has one page of   *)
(* addresses.                                                              *)
(***************************************************************************)
EXTENDS Transactions

CONSTANTS
    Configs,      \* the configurations a signer is built from
    Fees,         \* FordefiSolanaFee settings
    Returned,     \* transactions a provider may return
    Drafts,       \* transactions the application prepares
    V1Messages,   \* messages of the v1 format
    Vaults,       \* the provider's answers about the vault: sets of address entries
    MaxCalls      \* bound: signatures the application asks for

Fireblocks == {"raw", "program"}
Fordefi == {"black_box", "native_auto", "manual"}
Modes == Fireblocks \cup {"utila"} \cup Fordefi

Config == [mode: Modes, key: Keys \cup {NONE}, wellFormed: BOOLEAN, attempts: Nat,
           chain: BOOLEAN, push: {NONE, "auto", "manual"}, fee: Fees \cup {NONE}]

\* What an idempotency key is the hash of.
IdempotencyKey == [push: {NONE, "auto", "manual"}, fee: Fees \cup {NONE}, bytes: Messages]

\* `asset` is the entry's assetId against the configured one.
Entry == [address: Keys \cup {NONE}, asset: {"same", "other", NONE}]

ASSUME PollConstants ==
    /\ Configs \subseteq Config /\ NONE \notin IdempotencyKey
    /\ Returned \subseteq Transaction /\ Drafts \subseteq Transaction
    /\ V1Messages \subseteq Messages
    /\ Vaults \subseteq SUBSET Entry /\ \A v \in Vaults : IsFiniteSet(v)
    /\ MaxCalls \in Nat

VARIABLES
    conf,     \* the configuration
    key,      \* public_key
    vault,    \* the provider: the addresses of the vault
    orders,   \* the provider: the orders it accepted; the index is the id
    pc,       \* "new", "idle" or the exchange awaited
    op,       \* the call
    text,     \* the bytes of a sign_message
    tx,       \* the caller's transaction
    id,       \* the order the call polls, 0 for none
    polls,    \* answers read by the current or last poll loop
    result,   \* what the last call returned, nothing while one is in flight
    handle,   \* provider_tx_id of the error returned, 0 for None
    \* history
    calls,    \* signatures asked for
    asked,    \* the bytes the last call submitted
    left,     \* the order the provider accepted for the last call, 0 for none
    steady    \* the vault has not changed since the last call began

signer == <<conf, key>>
provider == <<vault, orders>>
history == <<calls, asked, left, steady>>
vars == <<signer, provider, pc, op, text, tx, id, polls, result, handle, history>>

C == INSTANCE SignerContract WITH shape <- IF conf.mode = "manual" THEN "rewrites" ELSE "signs"

Order == [mode: Modes, bytes: Messages \cup Texts, fee: Fees \cup {NONE},
          key: IdempotencyKey \cup {NONE},
          state: {"open", "signed", "broadcast", "reverted", "failed"}]

TypeOK ==
    /\ conf \in Configs
    /\ key \in Keys \cup {NONE}
    /\ vault \in Vaults
    /\ orders \in Seq(Order) /\ Len(orders) <= calls
    /\ pc \in {"new", "idle", "wallet", "create", "poll"}
    /\ op \in C!Operations \cup {"none"}
    /\ text \in Texts \cup {NONE}
    /\ tx \in Transaction
    /\ id \in 0..Len(orders)
    /\ polls \in Nat
    /\ result \in C!Results
    /\ handle \in 0..Len(orders)
    /\ calls \in 0..MaxCalls
    /\ asked \in Messages \cup Texts \cup {NONE}
    /\ left \in 0..Len(orders)
    /\ steady \in BOOLEAN

Init ==
    /\ conf \in Configs
    /\ vault \in Vaults
    /\ tx \in Drafts
    /\ key = NONE /\ orders = <<>>
    /\ pc = "new" /\ op = "none" /\ text = NONE
    /\ id = 0 /\ polls = 0 /\ handle = 0
    /\ result = C!Outcome("None")
    /\ calls = 0 /\ asked = NONE /\ left = 0 /\ steady = TRUE

-----------------------------------------------------------------------------
(* Construction *)

\* Mutant: no attempt is a number of attempts.
BuiltWithoutAttempts(c) == c.wellFormed

fireblocks_from_config(c) == c.wellFormed /\ c.attempts # 0
utila_new(c) == c.wellFormed /\ c.attempts # 0
fordefi_build(c) == c.wellFormed /\ c.attempts # 0 /\ c.key # NONE
black_box_from_config(c) == ~c.chain /\ c.push = NONE /\ fordefi_build(c)
native_auto_from_config(c) == c.chain /\ c.push # "manual" /\ fordefi_build(c)
manual_from_config(c) == c.chain /\ c.push = "manual" /\ fordefi_build(c)

from_config(c) ==
    CASE c.mode \in Fireblocks -> fireblocks_from_config(c)
      [] c.mode = "utila" -> utila_new(c)
      [] c.mode = "black_box" -> black_box_from_config(c)
      [] c.mode = "native_auto" -> native_auto_from_config(c)
      [] c.mode = "manual" -> manual_from_config(c)

Construct ==
    /\ pc = "new" /\ from_config(conf)
    /\ pc' = "idle"
    /\ key' = IF conf.mode \in Fordefi THEN conf.key ELSE NONE
    /\ UNCHANGED <<conf, provider, op, text, tx, id, polls, result, handle, history>>

\* from_config returns an error; the application corrects the configuration.
Misconfigured ==
    /\ pc = "new" /\ ~from_config(conf)
    /\ conf' \in {c \in Configs : c.mode = conf.mode}
    /\ UNCHANGED <<key, provider, pc, op, text, tx, id, polls, result, handle, history>>

\* The application goes on with another signer of the same vault that asks for another
\* fee.
OtherFee ==
    /\ pc = "idle" /\ conf.mode = "manual"
    /\ \E f \in Fees \cup {NONE} : f # conf.fee /\ conf' = [conf EXCEPT !.fee = f]
    /\ conf' \in Configs
    /\ UNCHANGED <<key, provider, pc, op, text, tx, id, polls, result, handle, history>>

-----------------------------------------------------------------------------
(* The key and the availability.  A reply is the vault, or NONE where it is *)
(* lost, refused or unreadable.                                             *)

\* Mutant: the first address will do.
FirstAddress(entries) ==
    LET found == {e.address : e \in entries} \ {NONE}
    IN  IF found = {} THEN NONE ELSE CHOOSE a \in found : TRUE

\* The one address of the asset; none and several are errors.
select_vault_address(entries) ==
    LET found == {e.address : e \in {x \in entries : x.asset # "other"}} \ {NONE}
    IN  IF Cardinality(found) = 1 THEN CHOOSE a \in found : TRUE ELSE NONE

\* A wallet with solanaDetails has one address.
fetch_wallet_address(entries) ==
    IF \E a \in Keys : entries = {[address |-> a, asset |-> "same"]}
    THEN (CHOOSE e \in entries : TRUE).address ELSE NONE

fireblocks_init(r) == IF r = NONE THEN NONE ELSE select_vault_address(r)
utila_init(r) == IF r = NONE THEN NONE ELSE fetch_wallet_address(r)

\* Any 2xx, whatever it says.
check_availability(r) == r # NONE
utila_is_available(r) == r # NONE /\ fetch_wallet_address(r) = key

vault_matches_public_key(r) == [address |-> key, asset |-> "same"] \in r
fordefi_is_available(r) == r # NONE /\ vault_matches_public_key(r)

Available(r) ==
    CASE conf.mode \in Fireblocks -> check_availability(r)
      [] conf.mode = "utila" -> utila_is_available(r)
      [] conf.mode \in Fordefi -> fordefi_is_available(r)

Ask(o) ==
    /\ pc = "idle"
    /\ op' = o /\ text' = NONE /\ pc' = "wallet"
    /\ result' = C!Outcome("None") /\ handle' = 0 /\ steady' = TRUE
    /\ UNCHANGED <<signer, provider, tx, id, polls, calls, asked, left>>

Returns(outcome, h) ==
    /\ pc' = "idle" /\ op' = "none" /\ text' = NONE /\ id' = 0
    /\ result' = outcome /\ handle' = h

Fails(kind, h) == Returns(C!Outcome(kind), h)

\* Refused before any request.
Refuse(kind) ==
    /\ pc = "idle"
    /\ Fails(kind, 0)
    /\ UNCHANGED <<signer, provider, tx, polls, history>>

CallInit == conf.mode \notin Fordefi /\ Ask("init")

IsAvailable ==
    IF conf.mode \in Fordefi \/ key # NONE THEN Ask("available") ELSE Refuse("Unavailable")

InitAnswered ==
    /\ pc = "wallet" /\ op = "init"
    /\ \E r \in {NONE, vault} :
        LET k == IF conf.mode = "utila" THEN utila_init(r) ELSE fireblocks_init(r)
        IN  IF k = NONE THEN Fails("Err", 0) /\ UNCHANGED key
            ELSE Returns(C!Outcome("Ok"), 0) /\ key' = k
    /\ UNCHANGED <<conf, provider, tx, polls, history>>

\* The vault is fetched, or something on the way to it fails: false.
AvailabilityAnswered ==
    /\ pc = "wallet" /\ op = "available"
    /\ \E r \in {NONE, vault} :
        Returns(C!Outcome(IF Available(r) THEN "Available" ELSE "Unavailable"), 0)
    /\ UNCHANGED <<signer, provider, tx, polls, history>>

ChangeVault ==
    /\ vault' \in Vaults \ {vault}
    /\ steady' = FALSE
    /\ UNCHANGED <<signer, orders, pc, op, text, tx, id, polls, result, handle, calls, asked, left>>

-----------------------------------------------------------------------------
(* Submitting *)

EditTransaction ==
    /\ op = "none"
    /\ tx' \in Drafts
    /\ UNCHANGED <<signer, provider, pc, op, text, id, polls, result, handle, history>>

Submit(o, t, bytes) ==
    /\ pc = "idle"
    /\ op' = o /\ text' = t /\ pc' = "create"
    /\ polls' = 0
    /\ result' = C!Outcome("None") /\ handle' = 0
    /\ calls' = calls + 1 /\ asked' = bytes /\ left' = 0 /\ steady' = TRUE
    /\ UNCHANGED <<signer, provider, tx, id>>

\* Utila cannot sign a message.
SignMessage ==
    /\ calls < MaxCalls
    /\ \E t \in Texts :
        IF key = NONE \/ conf.mode = "utila" THEN Refuse("Err") ELSE Submit("message", t, t)

\* The fee payer of the message is the vault.
validate_transaction == Len(tx.message.keys) > 0 /\ tx.message.keys[1] = key

SignTransaction ==
    /\ calls < MaxCalls
    /\ conf.mode # "native_auto"
    /\ IF \/ key = NONE
          \/ conf.mode = "program" /\ tx.message \in V1Messages
          \/ conf.mode = "manual" /\ ~validate_transaction
       THEN Refuse("Err")
       ELSE Submit("transaction", NONE, tx.message)

\* Mutant: the fee is left out of the namespace.
KeyWithoutFee(o, bytes) ==
    IF conf.mode = "manual" /\ o = "transaction"
    THEN [push |-> conf.push, fee |-> NONE, bytes |-> bytes] ELSE NONE

\* The x-idempotence-id of a create; only a native manual transaction carries one.
Key(o, bytes) ==
    IF conf.mode = "manual" /\ o = "transaction"
    THEN [push |-> conf.push, fee |-> conf.fee, bytes |-> bytes] ELSE NONE

\* PROGRAM_CALL and the native manual mode sign transactions; their messages go as RAW
\* and as a solana_message.
Operation ==
    IF op = "message" THEN CASE conf.mode = "program" -> "raw"
                             [] conf.mode = "manual" -> "native_auto"
                             [] OTHER -> conf.mode
    ELSE conf.mode

\* The body of the create: its kind, bytes and, of a Solana transaction, the fee.
Requested ==
    [mode |-> Operation, bytes |-> asked, fee |-> IF Operation = "manual" THEN conf.fee ELSE NONE,
     key |-> Key(op, asked), state |-> "open"]

\* The provider looks at the key alone: an order made with it answers every later create
\* that carries it.
Known(k) == {i \in DOMAIN orders : k # NONE /\ orders[i].key = k}

OrderFor(k) == IF Known(k) = {} THEN {Len(orders) + 1} ELSE Known(k)

Accept(i) == orders' = IF i \in DOMAIN orders THEN orders ELSE Append(orders, Requested)

-----------------------------------------------------------------------------
(* Polling *)

\* Utila reads the response of the create first, then polls.
Limit == conf.attempts + (IF conf.mode = "utila" THEN 1 ELSE 0)

\* The provider_tx_id of the timeout error.
TimeoutId(i) == IF conf.mode = "utila" THEN 0 ELSE i

\* Mutant: the loop starts over when it runs out.
WaitsOn(i, n) ==
    /\ polls' = IF n = Limit THEN 0 ELSE n
    /\ pc' = "poll" /\ id' = i /\ UNCHANGED <<op, text, result, handle>>

\* n answers were read and the order is still pending.
Waits(i, n) ==
    /\ polls' = n
    /\ IF n = Limit THEN Fails("Timeout", TimeoutId(i))
       ELSE pc' = "poll" /\ id' = i /\ UNCHANGED <<op, text, result, handle>>

\* The create is answered with an id, or fails: refused, lost, unreadable or with a
\* blank id, and then nobody knows whether the provider has accepted it.
CreateAnswered ==
    /\ pc = "create"
    /\ \/ \E i \in OrderFor(Key(op, asked)) : Accept(i) /\ left' = i /\ Waits(i, 0)
       \/ \E i \in OrderFor(Key(op, asked)) :
            Accept(i) /\ left' = i /\ Fails("Err", 0) /\ UNCHANGED polls
       \/ Fails("Err", 0) /\ UNCHANGED <<orders, left, polls>>
    /\ UNCHANGED <<signer, vault, tx, calls, asked, steady>>

\* What a response may carry besides the status.
Carried == [signature: {NONE} \cup Signatures, hash: {NONE}, transaction: {NONE}]
           \cup [signature: {NONE}, hash: Signatures, transaction: {NONE}]
           \cup [signature: {NONE}, hash: {NONE}, transaction: Returned]

\* Mutant: nothing is verified.
Unverified(signature, bytes) == signature

Accepted(signature, bytes) ==
    IF signature # NONE /\ verifies(signature, key, bytes) THEN signature ELSE NONE

signature_from_signed_messages(r) == r.signature
sign_raw_bytes(r, bytes) == Accepted(signature_from_signed_messages(r), bytes)
sign_program_call(r, bytes) ==
    Accepted(IF signature_from_signed_messages(r) # NONE THEN r.signature ELSE r.hash, bytes)
extract_signature_from_raw_transaction(r, bytes) ==
    IF r.transaction = NONE THEN NONE
    ELSE extract_and_verify_returned_signature(r.transaction, key, bytes)
extract_signature_from_result(r) == r.signature
sign_black_box(r, bytes) == Accepted(extract_signature_from_result(r), bytes)
sign_solana_message(r, bytes) == Accepted(extract_signature_from_result(r), bytes)

SignatureIn(r) ==
    CASE Operation = "raw" -> sign_raw_bytes(r, asked)
      [] Operation = "program" -> sign_program_call(r, asked)
      [] Operation = "utila" -> extract_signature_from_raw_transaction(r, asked)
      [] Operation = "black_box" -> sign_black_box(r, asked)
      [] Operation = "native_auto" -> sign_solana_message(r, asked)

\* Mutant: COMPLETED ends a PROGRAM_CALL as it ends a RAW.
CompletedIsDone(state) ==
    [open |-> "pending", signed |-> "done", broadcast |-> "done",
     reverted |-> "failed", failed |-> "failed"][state]

\* Mutant: an unknown status counts as broadcast.
UnknownIsBroadcast(state) ==
    [open |-> "unconfirmed", signed |-> "done", broadcast |-> "unconfirmed",
     reverted |-> "failed", failed |-> "failed"][state]

\* What a status means to each loop.  An unpublished Utila order that is published all
\* the same stays pending; Fordefi's `completed` is as good as `signed`.
poll_for_completion(state) ==
    [open |-> "pending", signed |-> "done", broadcast |-> "unconfirmed",
     reverted |-> "failed", failed |-> "failed"][state]
poll_signed_transaction(state) ==
    [open |-> "pending", signed |-> "done", broadcast |-> "pending",
     reverted |-> "failed", failed |-> "failed"][state]
poll_for_result(state) ==
    [open |-> "pending", signed |-> "done", broadcast |-> "done",
     reverted |-> "failed", failed |-> "failed"][state]

Seen ==
    LET state == orders[id].state
    IN  CASE conf.mode \in Fireblocks -> poll_for_completion(state)
          [] conf.mode = "utila" -> poll_signed_transaction(state)
          [] conf.mode \in Fordefi -> poll_for_result(state)

\* get_transaction fails; the response Utila reads first is already there.
PollFails ==
    /\ pc = "poll" /\ ~(conf.mode = "utila" /\ polls = 0)
    /\ Fails("Err", 0)
    /\ UNCHANGED <<signer, provider, tx, polls, history>>

PollPending ==
    /\ pc = "poll" /\ Seen = "pending"
    /\ Waits(id, polls + 1)
    /\ UNCHANGED <<signer, provider, tx, history>>

PollTerminal ==
    /\ pc = "poll"
    /\ \/ Seen = "failed" /\ Fails("Err", 0)
       \/ Seen = "unconfirmed" /\ Fails("Unconfirmed", id)
    /\ UNCHANGED <<signer, provider, tx, polls, history>>

MessageSigned ==
    /\ pc = "poll" /\ Seen = "done" /\ op = "message"
    /\ \E r \in Carried :
        LET s == SignatureIn(r)
        IN  IF s = NONE THEN Fails("Err", 0) ELSE Returns(C!Signed(s, NONE), 0)
    /\ UNCHANGED <<signer, provider, tx, polls, history>>

\* sign_and_serialize of the signers that leave the message alone.
TransactionSigned ==
    /\ pc = "poll" /\ Seen = "done" /\ op = "transaction" /\ conf.mode # "manual"
    /\ \E r \in Carried :
        LET s == SignatureIn(r)
        IN  IF s = NONE \/ get_signing_keypair_position(tx, key) = 0
            THEN Fails("Err", 0) /\ UNCHANGED tx
            ELSE /\ tx' = add_signature_to_transaction(tx, key, s)
                 /\ Returns(C!Signed(s, classify_signed_transaction(tx')), 0)
    /\ UNCHANGED <<signer, provider, polls, history>>

\* Mutant: the signature is checked against the message submitted.
VerifiedAsSubmitted(r) ==
    IF r.transaction = NONE THEN NONE
    ELSE extract_and_verify_returned_signature(r.transaction, key, asked)

\* Base64 of a wire transaction; NONE where there is none or it cannot be decoded.
decode_raw_transaction(r) == r.transaction

\* modify_and_serialize: the caller's transaction is replaced once the returned one is
\* verified.
modify_and_serialize(r) ==
    IF decode_raw_transaction(r) = NONE THEN NONE
    ELSE extract_and_verify_rewritten_transaction(decode_raw_transaction(r), key)

TransactionRewritten ==
    /\ pc = "poll" /\ Seen = "done" /\ op = "transaction" /\ conf.mode = "manual"
    /\ \E r \in Carried :
        LET s == modify_and_serialize(r)
        IN  IF s = NONE THEN Fails("Err", 0) /\ UNCHANGED tx
            ELSE /\ tx' = decode_raw_transaction(r)
                 /\ Returns(C!Signed(s, classify_signed_transaction(tx')), 0)
    /\ UNCHANGED <<signer, provider, polls, history>>

Answer ==
    \/ InitAnswered \/ AvailabilityAnswered \/ CreateAnswered \/ PollFails \/ PollPending
    \/ PollTerminal \/ MessageSigned \/ TransactionSigned \/ TransactionRewritten

\* The future is dropped at its await; a create on its way may still be accepted.
Cancel ==
    /\ pc \in {"wallet", "create", "poll"}
    /\ Fails("Cancelled", 0)
    /\ \/ UNCHANGED <<orders, left>>
       \/ pc = "create" /\ \E i \in OrderFor(Key(op, asked)) : Accept(i) /\ left' = i
    /\ UNCHANGED <<signer, vault, tx, polls, calls, asked, steady>>

\* A signature of bytes is final; a signed transaction may fail, be cancelled or be
\* published, against signOnly or by whoever holds it, and then fail on chain.
Moves(o) ==
    CASE o.state = "open" -> {"signed", "failed"}
      [] o.state = "signed" /\ o.mode \in {"program", "utila", "manual"} -> {"broadcast", "failed"}
      [] o.state = "broadcast" -> {"reverted"}
      [] OTHER -> {}

\* The provider works on an order, whoever still waits for it.
Progress ==
    /\ \E i \in DOMAIN orders : \E s \in Moves(orders[i]) : orders' = [orders EXCEPT ![i].state = s]
    /\ UNCHANGED <<signer, vault, pc, op, text, tx, id, polls, result, handle, history>>

Next ==
    \/ Construct \/ Misconfigured \/ OtherFee \/ CallInit \/ IsAvailable \/ SignMessage
    \/ SignTransaction \/ EditTransaction \/ Answer \/ Cancel \/ Progress \/ ChangeVault

\* Requests time out and the sleep between polls ends.
Fairness == WF_vars(Answer)

Spec == Init /\ [][Next]_vars /\ Fairness

-----------------------------------------------------------------------------
(* Properties *)

\* Refinement: signed late, after a timeout, a dropped future or a second order for the
\* same bytes, the caller's transaction changes only as the signer traits promise.
KeepsContract == C!Spec

\* A poll loop of Fireblocks or Fordefi gives up only after the configured number of
\* answers, at least one, and its error names the order the provider holds for the
\* bytes of this call.
TimeoutNamesOrder ==
    result.kind = "Timeout" /\ conf.mode # "utila" =>
        /\ polls = conf.attempts /\ polls > 0
        /\ handle = left /\ left # 0
        /\ orders[left].bytes = asked

\* The documentation of RemoteApiError (error.rs): provider_tx_id carries the id of a
\* request that was accepted but not finished, so that a caller who gives up waiting
\* can look it up.
TimeoutKeepsId == result.kind = "Timeout" => handle = left

\* BroadcastUnconfirmed is returned only for a PROGRAM_CALL that Fireblocks has
\* broadcast, and names it, whatever becomes of it on chain.
UnconfirmedWasBroadcast ==
    result.kind = "Unconfirmed" =>
        /\ conf.mode = "program" /\ handle # 0
        /\ orders[handle].state \in {"broadcast", "reverted"} /\ orders[handle].bytes = asked

\* No call returns a signature of an order that is unfinished or failed, or of other bytes
\* than its own; a PROGRAM_CALL or Utila transaction that its last answer shows to be
\* broadcast is not handed to the caller to send.  Fordefi's manual signer returns one
\* that is already completed.
OkMeansProviderSigned ==
    [][result'.signature # NONE /\ result'.signature # result.signature =>
        /\ orders[id].bytes = asked
        /\ orders[id].state \in (IF orders[id].mode \in {"program", "utila"} THEN {"signed"}
                                 ELSE {"signed", "broadcast"})]_vars

\* Replaying a native manual transaction under the same fee, after a timeout, a lost answer
\* or a dropped future, never makes a second order; and a signer that asks for another fee
\* for the same bytes never polls, and so never returns, the order made for the old one.
ReplayIsOneOrder ==
    /\ \A i, j \in DOMAIN orders :
        orders[i].mode = "manual" /\ orders[j].mode = "manual" /\ orders[i].bytes = orders[j].bytes
        /\ orders[i].fee = orders[j].fee => i = j
    /\ pc = "poll" /\ Operation = "manual" =>
        orders[id].mode = "manual" /\ orders[id].bytes = asked /\ orders[id].fee = conf.fee

\* init binds a Fireblocks signer only to a vault with a single address of the asset.
FetchedKeyIsUnambiguous ==
    [][op = "init" /\ result'.kind = "Ok" =>
        \A e \in vault : e.asset # "other" => e.address \in {key', NONE}]_vars

\* Every call returns.
CallsReturn == (pc \in {"wallet", "create", "poll"}) ~> (pc = "idle")
=============================================================================
