# Formal model of solana-keychain

TLA+ specifications of solana-keychain: the Ledger backend, the remote backends,
what they promise through the signer traits, sign-and-send, and the Go batch
helpers. TLC checks small instances (`*.cfg`), TLAPS checks the proofs
(`*_proofs.tla`). `PROJECT.json` maps every definition to the lines it models
and lists the runs, the mutants, the hazards and the findings.

## The system

solana-keychain is a signing library: one interface over local, remote and
hardware keys, in Rust (`rust/src`), with ports to TypeScript, Python and Go.
The models follow the Rust code; `BatchSigning` follows the Go code, which has
no Rust counterpart.

| Component | State | Operations | Interacts with |
|---|---|---|---|
| Ledger backend `ledger/mod.rs` | process-wide `DEVICE_BUSY`, an mpsc channel, one device thread with a cached `Session`, signers with a cached key | connect, sign_message, sign_transaction, is_available, is_attached | callers, USB hardware, the user |
| Ledger dashboard `ledger/dashboard.rs` | none of its own; the app the device runs | open, quit and launch the Solana app, vendor enumeration | the device thread |
| Crossmint `crossmint/mod.rs` | resolved wallet key, pending slot; per call: response, approval flag, poll count | sign_and_send_transaction, init | provider over HTTP |
| Fordefi `fordefi/mod.rs` | configuration, pending slot; per call: id, poll count | native auto: sign_and_send_transaction; native manual: modify_and_sign; black box: sign | provider over HTTP |
| `transaction_util.rs` | `PendingTransactionId`, a shared list of ids | set, clear, get; idempotency keys; classification of a failed create; placing signatures | sending backends, callers |
| `remote_util.rs`, `http_client_config.rs` | none | poll_until, error extraction, deadlines | every remote backend |
| `signature_util.rs` | none | verification, decoding of rewritten transactions | every backend |
| `send.rs`, `traits.rs`, `lib.rs` | none | sign_and_send, modify_and_send; dispatch | signers and a caller's RPC client |
| Fireblocks, Utila | configuration | create, poll, verify | provider |
| Vault, Privy, Turnkey, AWS KMS, GCP KMS, Dfns, Para, CDP, Openfort | configuration | one request, one verified answer | provider |
| Memory | a keypair | sign | none |
| Go `core/batch.go`, TypeScript `core/src/batch.ts` | results of a batch | concurrent or sequential signing of a list | any signer |

What makes it hard:

- **Concurrency.** Any number of tasks share one Ledger. The right to use it is
  an atomic flag whose owner moves from the caller into a queued command and on
  to the device thread. Two calls with the same bytes share one provider order
  and one id in the pending slot.
- **Failure.** A prompt may never be answered; a thread may panic; a device may
  be unplugged or replaced at its path. A create may be accepted and its
  response lost, and the provider may still execute what the client gave up on.
- **Ordering and cancellation.** A deadline races a late answer. A future may be
  dropped at any await, after which no code of the call runs.
- **Retries.** The same bytes are sent again while the first create is under way.

What each component owes:

- Ledger: one owner of the device; no call that needs it waits behind another's
  prompt; an abandoned prompt keeps the device claimed; a signature is by the signer's key
  over the bytes sent; every call returns; the device comes back.
- Sending backends: an ordinary error means that nothing was and will be
  accepted; the same bytes under the same terms execute once and never stand for
  other terms; an unconfirmed outcome can be looked up; a cancelled call's id
  stays in the slot; one approval a call; every call returns.
- Batch helpers: results in order; the error returned is the cause; a sequential
  failure reports the prefix; no call outlives the batch; every batch ends.
- Sign and send: only a complete transaction is broadcast; an application that
  retries after ordinary errors pays at most once.
- Direct and polling backends: the caller's transaction changes only by the
  signer's own valid signature, or into a rewritten one that carries it; a timeout
  names the order; a replay makes no second order, and another fee is another
  order; every call returns.

## Modules

| Module | What it is |
|---|---|
| `LedgerDevice` | callers, claim, channel, device thread, dashboard steps, hardware and user |
| `ExclusiveDevice` | what the claim promises: free, granted, serving, and questions to the user only while serving |
| `LedgerDevice_proofs` | the claim: theorems about `LedgerDevice`, and that it implements `ExclusiveDevice` |
| `LedgerCalls_proofs` | calls and sessions: further theorems about `LedgerDevice` |
| `ManagedBroadcast` | Crossmint and Fordefi native auto, their provider and the network |
| `ManagedBroadcast_proofs` | theorems about `ManagedBroadcast` |
| `Transactions` | messages, signatures and slots: `signature_util.rs` and the signing part of `transaction_util.rs` as operators |
| `SignerContract` | what the signer traits promise the caller of one signer |
| `DirectSigner` | the nine backends whose provider signs within the exchange; implements `SignerContract` |
| `PollSigner` | Fireblocks, Utila and Fordefi (black box, native manual, messages of native auto), which create an order and poll it; implements `SignerContract` |
| `SignAndSend` | the unified `Signer`, `send.rs`, the memory backend and an application; its backends behave as `SignerContract` and `ManagedBroadcast` show |
| `BatchSigning` | `core/batch.go` with errgroup |
| `DirectSigner_proofs`, `PollSigner_proofs` | theorems about these two, and that they implement `SignerContract` |
| `Transactions_proofs` | lemmas about the operators of `Transactions`, which the modules on either side cite |
| `BatchSigning_proofs`, `SignAndSend_proofs` | theorems about these two |
| `MC...` | values of the constants for TLC |

### LedgerDevice

`busy` is `DEVICE_BUSY`; `queue` the channel of `DeviceCommand`s, each with the
claim and the receiving end (`to`) it carries; `at`, `cmd`, `tries`, `conn`,
`out`, `session` are the locals of `device_thread`; `pc`, `call`, `signer`,
`reply`, `result` belong to the callers; `place`, `app`, `screen` to the devices.

One action stands for the code between two points where others can interfere:
a caller's entry up to its send (`Connect`, `SignMessage`, `SignTransaction`,
`IsAvailable`, `IsAttached`), the send, the three ends of `request_on`
(`Receive`, `Timeout`, `Cancel`), and one action for each blocking exchange of
the thread (`TakeCommand`, `ReuseSession`, `Establish`, `AskToConfirm`,
`OpenApp`, `ReopenApp`, `UseSession`, ...), its answer and the drop of the claim.
`ThreadPanics` unwinds the thread with all it holds. The hardware attaches,
detaches, switches apps and answers prompts at will. A panic while a prompt is up
is not modelled: the thread is then blocked in a HID read, and only its return,
which the model has as an answer or a failed read, gives it anything to run.

A device stands for the key it derives, a signature for the pair of key and
bytes; time is abstract, so a deadline may expire whenever no answer is there.
APDU framing, the choice of the HID interface and the layout of the off-chain
envelope are left out; refusing an envelope is `RejectInput`.

### ManagedBroadcast

`pc`, `msg`, `wire`, `view`, `polls`, `approved`, `result` are the state of a
running `execute_managed_transaction` or `sign_and_broadcast`; `pending` is the
`PendingTransactionId`; `orders` are the provider's transactions and `stray` the
creates whose sender has given up. `accepted`, `given`, `abandoned` are history.

The code between two awaits is one step: `Post` up to the POST; `CreateAccepted`,
`CreateFails` and `CreateLost` what follows its answer; `ReadOrder` a GET and what
the loop does with it (`Settle`, down to extraction, verification and clearing
the slot), `SubmitApproval` Crossmint's approval with the same continuation,
`PollFails` an exchange that fails, `Cancel` a dropped future.

External, modelled from how the code uses it: the provider deduplicates by key,
answers 4xx other than 408 only if it accepted nothing, moves an order to
success or failure once, and (Crossmint) may ask for an approval at any time.
Answers may be garbled, be errors after acceptance, come late or never.
SHA-256 is injective on the inputs that occur; HTTP statuses are four classes;
all Crossmint signers use one wallet and all Fordefi signers one organisation;
signatures already on a submitted transaction are not part of its identity.
Crossmint's `init` and `is_available` are left out.

### Transactions and SignerContract

A key is a model value, a message a record of a body, its account keys and the
number of required signatures, a signature the pair of key and bytes it was made
from; `NoSignature` is `Signature::default()`. Positions are 1-based, 0 is the
error. `verifies` is Ed25519 taken as unforgeable.

`SignerContract` has the state a caller can see: `pubkey()`, its transaction, the
call in flight and the last result. Its steps are those `traits.rs` allows: a
failed or dropped call changes nothing, `sign_transaction` only adds the signer's
valid signature in the signer's own slot and marks the result complete or
partial, `modify_and_sign_transaction` only puts in a transaction that carries it.

### DirectSigner

`conf`, `key`, `keyId` are the fields of the signer, `wallet` is what the provider
holds, `pc` the exchange a call awaits. Every backend has its operators under its
own name (`vault_sign_bytes`, `dfns_init`, `cdp_submits`, ...): what it checks
before a request and what it makes of an answer; the actions choose among them by
`conf.backend`. A call is a chain of exchanges (`describe`, then the key for AWS;
`whoami`, then the key for Turnkey; challenge, action, signature for Dfns), and a
future may be dropped at each. Anything may come back as a signature or as a signed
transaction; wallets are described as they are at that moment, and change at will.
Turnkey's `private_key_id` that is an address names its key for ever.

### PollSigner

`orders` are the provider's, `id` and `polls` the locals of the poll loop,
`handle` the `provider_tx_id` of the error returned; `asked`, `left`, `calls`,
`steady` are history. Statuses are open, signed, broadcast, reverted, failed, and an
order moves on whoever waits for it: an open one is signed or fails; a signed
transaction (PROGRAM_CALL, Utila, native manual) may still fail, or be broadcast,
against signOnly or by whoever holds it, and then fail on chain. A native manual call
accepts an order that is `completed`, as the code does; a PROGRAM_CALL or Utila call
does not return one it sees broadcast.

Only native manual transactions carry an idempotency key. `Key` is what the code
hashes (push mode, fee, bytes; chain and vault are fixed), `Known` and `OrderFor` are
the provider, which compares keys and nothing else. `OtherFee` lets the application
go on with another signer of the vault that asks for another fee, so that a key
that leaves the fee out would answer with the wrong order.

`select_vault_address`, `fetch_wallet_address` and `vault_matches_public_key` read
the same abstract vault, a set of addresses each with its asset. It is one page of
Fireblocks' `addresses_paginated`, and the code asks for no other: that a vault with
more pages has no further address of the asset is outside the model.

### SignAndSend

An application with two signers wants one payment. It opens signers, collects
signatures, calls `sign_and_send`, and after an ordinary error may rebuild the
transaction and call again; after `Ok`, `BroadcastUnconfirmed` or a dropped future
it stops. `handed` is what the caller's `send` was given, `flight` and `landed`
are the network's. `unnamed` records a sending provider that reported success
without a signature, for which `require_broadcast_signature` returns an ordinary
error: then `AtMostOnce` is not promised, by the code's own choice.
`SigningUnconfirmed` is Fireblocks shown to broadcast a PROGRAM_CALL against
signOnly: `sign_transaction` ends as `BroadcastUnconfirmed`, `send.rs` passes it on,
and the application stops. A broadcast against signOnly that no answer showed (the
future was dropped or the loop ran out) is outside `AtMostOnce`, and so is one by Utila,
whose loop takes a published order for a pending one and times out.

### BatchSigning

`task` is where each closure is (started, in its stagger, in the signer's call,
failed and not yet recorded, over), `next` the loop, `done` the context, `err`
errgroup's first error. `g.Go` waits for a slot; recording the error and
cancelling are one step, as in errgroup. `SignMessages` and the concurrent
`SignTransactions` are the same code. Time is a counter of ticks. Whether the provider
signed for a call that fails is settled when the call fails; a signature it makes
later belongs to no call and is not counted.

## Runs

| Run | Shows | Bounds |
|---|---|---|
| `contention` | TypeOK, ClaimExclusive, NoWaitBehindPrompt, PromptKeepsClaim, NoLostCall | 2 callers, 1 device, every option, 1 retry |
| `swap` | SignatureBinds, SessionMatches, SessionAfterAnswer, ExclusiveAccess (the specification of ExclusiveDevice) | 1 caller, 2 devices, 2 paths, a transaction and an envelope, 2 retries |
| `liveness` | CallsReturn, DeviceReleased | 1 caller, 1 device, every option, 1 retry |
| `approval` | OneOrder, RefusedMeansNothing, UnconfirmedLeadsToOrder, SlotAccounts, ApprovesOnce, SendsReturn | 2 callers of one Crossmint signer, 2 calls each, 3 polls |
| `terms` | TypeOK, LandedIsMine | 2 Fordefi signers with different fees, 2 calls each, 2 polls |
| `direct` | TypeOK, KeepsContract (`SignerContract!Spec`), AvailabilityChecked, RequestNamesOwnKey, OtherSignaturesSurvive | nine backends, 2 keys, 4 messages, 2 texts, 17 configurations |
| `poll` | TypeOK, KeepsContract, TimeoutNamesOrder, UnconfirmedWasBroadcast, OkMeansProviderSigned, ReplayIsOneOrder, FetchedKeyIsUnambiguous, CallsReturn | six modes, no fee and one fee, 2 signatures asked for, 1 or 2 polls (native manual 1) |
| `send` | AtMostOnce, OnlyCompleteIsSent, UnconfirmedNamesTransaction | 2 signers of 6 casts, 4 calls |
| `batch` | CauseReturned, ResultAccounts, NothingAfterReturn, RateRespected, BatchReturns | 0, 1 and 3 items, limits 0 to 2, delay 0 or 1 |
| `decline`, `verified`, `timeout` | violations, below | smallest that reach them |

Bounds. Two callers are enough for every race on the claim and on the slot: a
third would be refused like the second. Two devices and two paths give every
swap. One retry after a launch is the first at which an attempt is repeated; two
give one in the middle (20 in the code). `MaxQueue` bounds the probes that
start behind a slow thread. In `swap` and `liveness` one caller is enough: what
it leaves behind when it times out or is cancelled (a queued command, a prompt,
a claim held by the thread) still meets its own next call, and the races of two
callers are in `contention` and in the proofs. In `ManagedBroadcast` two callers
with two calls each let a retry meet a running, a finished and a late create of
the same bytes; three polls allow an approval, a poll that still shows
awaiting-approval and a last one. Only `contention` uses symmetry: its callers
are alike and it checks no liveness.
The runs of `ManagedBroadcast`, `send` and `batch` do not check deadlock: the
program ends after `MaxCalls` calls, when its payment is settled, or with the batch.
In `direct` one signer and one call at a time are every interleaving, as `init`
takes `&mut self` and the other calls change no field. Its messages have the signer
second, first with a duplicate, not required, and a header that asks for more keys
than there are. In `poll` two orders are what a replay needs, with the same fee or the other. In `send` four calls
are a signature, a send that fails, a rebuilt signature and a second send. In
`batch` three items and two slots make one wait for a slot while two are under way,
and `MaxTime` is the target time of the last.

Fairness. `LedgerDevice!FairSpec`: the thread is scheduled, and a call that has
begun is sent and ends by its answer or its deadline (`recv_timeout`); the user
need not answer. DeviceReleased has `PromptsEnd` as a hypothesis, that a prompt
is answered or its read fails: the claim cannot come back otherwise, and the code
does not say it would. The other HID exchanges, which have no deadline either, are
taken to end: that is part of the thread's fairness.
`ManagedBroadcast!FairSpec`: a future that is polled goes on, as every exchange
has the HTTP client's deadline (`http_client_config.rs`) and every sleep ends; the provider
owes nothing.
`PollSigner!Fairness`: an exchange over the crate's HTTP client ends by its request
timeout, and the sleep between polls ends; the provider may leave an order open for ever. `BatchSigning!FairSpec`: goroutines are
scheduled, timers fire, a signer's call returns; the caller need not cancel.

### Findings

- `decline`: with `auto_open_app`, a declined address confirmation is asked
  again, up to 20 times, and need not end as `UserRejected`; `ledger/README.md`
  and the option's comment say it always does.
- `verified`: Crossmint's `onChain.txId` is returned unverified when there are no
  usable bytes; `docs/SECURITY_MODEL.md` says that it is verified against the
  provider's own returned bytes.
- `timeout`: Utila's timeout carries no `provider_tx_id`, although Utila holds the
  order; `error.rs` says that the id is carried for a request that was accepted
  and not finished.

Also noticed, without a run: the comment on `request_on` promises that an abandoned
answer drops the cached session, and there is no such code; a launch prompt whose
read timed out stays on the screen of a device that was handed back; the claim is
free before the signing call returns, where its comment says "until this function
returns"; `is_attached` tests the busy flag and then queues without a claim, so it may
wait behind a prompt until `OPS_TIMEOUT`, where its comment says "this exists to be
quick"; Fordefi's failures after an accepted create carry no idempotency key,
which `docs/SECURITY_MODEL.md` says they always do; the documentation of
`Signer::sign_and_send` says that anything `send` returns propagates unchanged, but
it becomes `BroadcastUnconfirmed` (`send.rs` says so, and the mutant of `AtMostOnce`
shows why it must); `is_available` of Dfns and Para may be true before `init`, and
that of CDP and Fireblocks for any 2xx answer.

## Proofs

For every set of callers, devices, messages and configurations, from the
assumptions on the constants only (`LedgerConstants`, `BroadcastConstants`, `BatchConstants`,
`TransactionConstants`, `SendConstants`, `DirectConstants`, `PollConstants`). The only finiteness
asked for is of a vault, which is a list in a response.

`LedgerDevice_proofs`

- `TypeCorrect`.
- `ClaimCorrect`, `FailFast`. ClaimExclusive alone is not inductive: that a
  queued command or the thread has the claim depends on which commands carry
  one. FailFast speaks of every command in the channel: only an attach probe, which
  has no claim, can be there while a prompt is up. `ClaimInv` adds `ClaimCarried`: every command but the attach probe has a
  claim, a caller that won has it in hand, and the thread has one wherever it
  talks to a device.
- `PromptHoldsClaim`, from `PromptOwned` (a prompt on a screen belongs to the
  read the thread is blocked in) and `ClaimInv`.
- `SignaturesBind`, with `SignerConnected`: only a connected signer asks to sign.
- `BackendIsExclusive`: under `phase`, `asking` as functions of `cmd`, `busy` and
  `at`, every step is a step of `ExclusiveDevice` or a stutter; uses `ClaimInv`.

`LedgerCalls_proofs`

- `NoCallIsLost`. The answer goes to whoever the command names, so NoLostCall needs
  `PendingInv`: a command that names a caller is that caller's present call and is in
  one place only, since a caller that gives up takes its name off the command
  (dropping the receiver). `CallerShapes` reduces the ten steps of a caller to the
  five things they do to the channel.
- `SessionIsForCommand`, `SessionOutlivesDecline`, from `ServeInv`: which commands
  reach which exchange, that no session is open while one is being established, and
  that the device asked to confirm is attached where the command wants it.
  `ConfirmsConnect` says that only a connect shows the address.

`ManagedBroadcast_proofs`: `TypeCorrect`, `RefusalIsFinal`, `RetriesAreOne`,
`SignatureIsMine`, `UnconfirmedIsTraceable`, `OneApproval`, from one invariant `Inv`:

- `OrdersInv`: a key names one order, whose body is what the key was made from;
- `StrayInv`: a late create belongs to an earlier call, or to one that ended
  unconfirmed or cancelled, and carries that call's key;
- `CallInv`: the ids a call holds in its response, its poll and its result are
  of orders under its own key; a rejected create was not accepted.

Orders only grow (`Grows`), so a step of one caller or the provider keeps the
others' part (`CallFrame`). `RemoveFirstType` needs that a nonempty set of
positions has a least element, from the well-foundedness of `<` on Nat.

`SlotIsExact` counts. `SlotInv` is SlotAccounts for every id, also of orders not yet
accepted, so that a new order needs no argument; that the calls holding an entry are
finitely many is part of it, not an assumption on `Callers`. `AppendCounts` and
`RemoveFirstCounts` say what `set` and `clear` do to the count of an id, the second by
a bijection between the positions before and after; `EntryIsThere` that `clear` finds
an entry, without which one call could take another's.

`BatchSigning_proofs`: `TypeCorrect`, `CauseIsReturned`, `ResultIsExact`,
`CallsEndWithBatch`, `RateIsRespected`. What a batch returned says little about the
steps that led to it, so `Inv` describes the running batch: `TaskInv` (the loop has
started exactly the items before `next`, what was sent was due, a closure that is
over has its result or left an error), `CauseInv` (the context is done because of
the caller or of an error already recorded, so a later cancellation cannot become
the cause), `SequentialInv` (one item under way, no group) and `ReturnInv` (what is
left of the tasks after the return: none that is calling). The rate follows from
the target times of the items sent, by counting an interval.

`SignAndSend_proofs`: `TypeCorrect`, `CompleteIsSent`, `UnconfirmedIsNamed`,
`PaysAtMostOnce`. AtMostOnce is not inductive: a
transaction that lands late was in flight before. `RetryInv` says that while the
application still retries nothing is in flight or handed over but by a send in
progress, and that everything in flight is one transaction; `ReturnsInv` shows it of
every way a call can end. The network and the provider owe nothing there.

`Transactions_proofs`: what the helpers of `transaction_util.rs` and
`signature_util.rs` return, for any message. `PositionIsOwnSlot` (a position is a
required slot of the key), `SlotIsFilled` (adding a signature changes that slot and
no other), `ReturnedIsVerified` and `RewriteIsVerified` (what is taken out of a
returned transaction verifies), `VerifiedIsMade`.

`DirectSigner_proofs`: `TypeCorrect`, `AvailabilityIsChecked`, `RequestIsForOwnKey`,
`OthersSurvive`, and `ImplementsContract`: every step is a step of `SignerContract`
or a stutter. The contract speaks of the call in flight and the code only of the
exchange it awaits, so `CallInv` says which exchange belongs to which call and that
a call that signs has a key. `KeyInv` adds where the key comes from and that Dfns
keeps the id together with the key; `ProbeInv` what the first exchange of an
`is_available` has established when the second is answered.

`PollSigner_proofs`: `TypeCorrect`, `TimeoutIsNamed`, `UnconfirmedIsBroadcast`,
`ReplayMakesOneOrder`, `OkIsSigned`, `FetchedKeyUnambiguous`, `ImplementsContract`.
`PollInv` says that the order being polled is one of the call's bytes, operation and
fee and that the loop has answers left, so that the last answer is the configured
number. `OrderInv` says that the key of an order is that of its bytes and fee, and
which orders can become broadcast; with `KeysDiffer`, that no two orders have a key in
common, what the provider finds under the key of a call is the call's own order.
`CallInv`
is as above, with the bytes a call asks for and that a built signer makes at least
one attempt.

Only model-checked: liveness (`LedgerDevice` and `PollSigner` CallsReturn,
DeviceReleased, SendsReturn, BatchReturns), which needs fairness. Every other property
of the passing runs is a theorem.

## Not modelled

`PROJECT.json` lists every component. Left out for good: the SDK adapter, the parsing of key files and strings, tokens,
stamps and request signatures (stateless encodings: they succeed or fail), URL and
error-message handling. The ports repeat the Rust control flow.

## Plan

1. `Dashboard`: APDU framing over 64-byte reports against a reference, choice of the
   interface among siblings, the app state machine; composition with `LedgerDevice`.
2. TypeScript batches (`batch.ts`), which start all delays at once and report the
   failed index, as a second instance of `BatchSigning`.
