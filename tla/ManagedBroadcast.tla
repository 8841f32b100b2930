-------------------------- MODULE ManagedBroadcast --------------------------
(***************************************************************************)
(* The sending backends: CrossmintSigner (src/rust/src/crossmint/mod.rs)   *)
(* and FordefiNativeAutoSigner (src/rust/src/fordefi/mod.rs).  A call      *)
(* creates a transaction at a provider that signs and broadcasts it by     *)
(* itself, then polls for the outcome.  Requests and responses are lost or *)
(* late, callers retry the same bytes, and a future may be dropped at any  *)
(* await.                                                                  *)
(*                                                                         *)
(* Abstractions.  SHA-256 is injective on the key inputs that occur.  HTTP *)
(* statuses are four classes.  A provider id is the position of the order. *)
(***************************************************************************)
EXTENDS Naturals, Sequences, FiniteSets, SequencesExt

CONSTANTS
    Callers,     \* tasks that call sign_and_send_transaction
    Messages,    \* serialized transaction messages
    Accounts,    \* signer locators, vaults on a chain
    Fees,        \* FordefiSolanaFee settings
    SignerOf,    \* the signer each caller uses
    MaxPolls,    \* max_poll_attempts
    MaxCalls,    \* bound: calls each caller makes
    NONE         \* Rust's Option::None

\* The fields of a signer that reach the provider, whether a PendingTransactionId is
\* registered, and whether Crossmint's approval can be given with a signer secret.
SignerConfig == [backend: {"crossmint", "fordefi"}, account: Accounts, fee: Fees,
                 slot: BOOLEAN, secret: BOOLEAN]

ASSUME BroadcastConstants ==
    /\ SignerOf \in [Callers -> SignerConfig]
    /\ NONE \notin Messages /\ NONE \notin Nat
    /\ MaxPolls \in Nat \ {0}
    /\ MaxCalls \in Nat \ {0}

VARIABLES
    \* the provider and the network
    orders,      \* the transactions the provider accepted; the index is the id
    stray,       \* create requests whose sender no longer waits
    \* the callers
    pc,          \* "idle", "creating" or "polling"
    msg,         \* message of the call
    calls,       \* calls started so far
    wire,        \* the create exchange
    view,        \* what the last response said of the order
    polls,       \* iterations of the poll loop
    approved,    \* approval_submitted
    result,      \* what the last call returned
    pending,     \* the shared PendingTransactionId
    \* history
    accepted,    \* the provider accepted the create of the current or last call
    given,       \* approvals this call has posted
    abandoned    \* ids held by calls when they were cancelled

providerVars == <<orders, stray>>
callVars == <<pc, msg, calls, wire, view, polls, approved, result>>
historyVars == <<accepted, given, abandoned>>
vars == <<providerVars, callVars, pending, historyVars>>

-----------------------------------------------------------------------------
(* Data *)

Ids == Nat \ {0}

\* idempotency_key_from_message over the namespaced message: for Fordefi push mode,
\* chain, vault and fee; for Crossmint the signer locator, where there is no fee.
Keys == [backend: {"crossmint", "fordefi"}, account: Accounts, fee: Fees, msg: Messages]

Namespaced(c, m) ==
    [backend |-> SignerOf[c].backend, account |-> SignerOf[c].account,
     fee |-> SignerOf[c].fee, msg |-> m]

\* Mutant: a key for every attempt.
KeyPerAttempt(c, m) == [Namespaced(c, m) EXCEPT !.account = calls[c]]

\* Mutant: the fee is left out of the namespace.
KeyWithoutFee(c, m) == [Namespaced(c, m) EXCEPT !.fee = NONE]

Key(c, m) == Namespaced(c, m)

\* The request body: what the provider is asked to execute.
Body(c, m) == <<SignerOf[c].backend, SignerOf[c].account, SignerOf[c].fee, m>>
Bodies == {"crossmint", "fordefi"} \X Accounts \X Fees \X Messages

Order == [key: Keys, body: Bodies, state: {"pending", "awaiting", "success", "failed"}]

\* A create on its way, with the call that sent it.
Request(c) == [by |-> c, call |-> calls[c], key |-> Key(c, msg[c]), body |-> Body(c, msg[c])]
Requests == [by: Callers, call: 0..MaxCalls, key: Keys, body: Bodies]

\* Status classes: "ok" below 400, "rejected" 4xx but 408, "timeout" 408, "server" 5xx.
\* `whole` is a body that parses; `id` is the id a body carries, parsed or not.
Answers == [at: {"none", "sent", "answered"}, status: {"ok", "rejected", "timeout", "server"},
            id: Ids \cup {NONE}, whole: BOOLEAN]
NoExchange == [at |-> "none", status |-> "ok", id |-> NONE, whole |-> FALSE]
Sent == [NoExchange EXCEPT !.at = "sent"]

\* The state a response shows; "unread" before the first, whose content Fordefi's
\* submit does not have.
Views == [id: Ids \cup {NONE}, state: {"unread", "pending", "awaiting", "success", "failed"}]
NoView == [id |-> NONE, state |-> "unread"]

\* Ok, any error that is not BroadcastUnconfirmed, BroadcastUnconfirmed with its id
\* and key, or nothing at all for a cancelled future.
Results == [kind: {"None", "Ok", "Refused", "Unconfirmed", "Cancelled"},
            id: Ids \cup {NONE}, key: Keys \cup {NONE}, verified: BOOLEAN]
Outcome(kind, id, key) == [kind |-> kind, id |-> id, key |-> key, verified |-> FALSE]
NoOutcome == Outcome("None", NONE, NONE)
Landed(id, verified) == [kind |-> "Ok", id |-> id, key |-> NONE, verified |-> verified]

TypeOK ==
    /\ orders \in Seq(Order)
    /\ stray \in SUBSET Requests
    /\ pc \in [Callers -> {"idle", "creating", "polling"}]
    /\ msg \in [Callers -> Messages \cup {NONE}]
    /\ calls \in [Callers -> 0..MaxCalls]
    /\ wire \in [Callers -> Answers]
    /\ view \in [Callers -> Views]
    /\ polls \in [Callers -> 0..MaxPolls]
    /\ approved \in [Callers -> BOOLEAN]
    /\ result \in [Callers -> Results]
    /\ pending \in Seq(Ids)
    /\ accepted \in [Callers -> BOOLEAN]
    /\ given \in [Callers -> Nat]
    /\ abandoned \in Seq(Ids)

Init ==
    /\ orders = <<>> /\ stray = {}
    /\ pc = [c \in Callers |-> "idle"]
    /\ msg = [c \in Callers |-> NONE]
    /\ calls = [c \in Callers |-> 0]
    /\ wire = [c \in Callers |-> NoExchange]
    /\ view = [c \in Callers |-> NoView]
    /\ polls = [c \in Callers |-> 0]
    /\ approved = [c \in Callers |-> FALSE]
    /\ result = [c \in Callers |-> NoOutcome]
    /\ pending = <<>>
    /\ accepted = [c \in Callers |-> FALSE]
    /\ given = [c \in Callers |-> 0]
    /\ abandoned = <<>>

Crossmint(c) == SignerOf[c].backend = "crossmint"
Polling(c) == pc[c] = "polling"

-----------------------------------------------------------------------------
(* The create *)

\* initialized_pubkey fails, validate_transaction refuses, sign_request fails: the call
\* returns before anything is posted.
RefuseInput(c) ==
    /\ pc[c] = "idle" /\ calls[c] < MaxCalls
    /\ \E m \in Messages : msg' = [msg EXCEPT ![c] = m]
    /\ calls' = [calls EXCEPT ![c] = @ + 1]
    /\ result' = [result EXCEPT ![c] = Outcome("Refused", NONE, NONE)]
    /\ accepted' = [accepted EXCEPT ![c] = FALSE]
    /\ UNCHANGED <<providerVars, pc, wire, view, polls, approved, pending, given, abandoned>>

\* Up to the await of the POST, which carries the idempotency key in a header.
Post(c) ==
    /\ pc[c] = "idle" /\ calls[c] < MaxCalls
    /\ \E m \in Messages : msg' = [msg EXCEPT ![c] = m]
    /\ pc' = [pc EXCEPT ![c] = "creating"]
    /\ calls' = [calls EXCEPT ![c] = @ + 1]
    /\ wire' = [wire EXCEPT ![c] = Sent]
    /\ result' = [result EXCEPT ![c] = NoOutcome]
    /\ accepted' = [accepted EXCEPT ![c] = FALSE]
    /\ given' = [given EXCEPT ![c] = 0]
    /\ UNCHANGED <<providerVars, view, polls, approved, pending, abandoned>>

\* CrossmintSigner::execute_managed_transaction
ExecuteManagedTransaction(c) == Crossmint(c) /\ Post(c)

\* FordefiNativeAutoSigner::sign_and_broadcast
SignAndBroadcast(c) == ~Crossmint(c) /\ Post(c)

\* Mutant: 408 is a client error like the others.
UnconfirmedUnless4xx(c, w) ==
    IF w.status \in {"rejected", "timeout"}
    THEN Outcome("Refused", NONE, NONE)
    ELSE Outcome("Unconfirmed", w.id, Key(c, msg[c]))

\* Mutant: the key is dropped where the status is known.
UnconfirmedWithoutKey(c, w) ==
    IF w.status = "rejected"
    THEN Outcome("Refused", NONE, NONE)
    ELSE Outcome("Unconfirmed", w.id, NONE)

\* unconfirmed_unless_rejected
UnconfirmedUnlessRejected(c, w) ==
    IF w.status = "rejected"
    THEN Outcome("Refused", NONE, NONE)
    ELSE Outcome("Unconfirmed", w.id, Key(c, msg[c]))

\* The call ends and forgets its exchange.
EndCall(c, r) ==
    /\ pc' = [pc EXCEPT ![c] = "idle"]
    /\ result' = [result EXCEPT ![c] = r]
    /\ wire' = [wire EXCEPT ![c] = NoExchange]
    /\ view' = [view EXCEPT ![c] = NoView]
    /\ polls' = [polls EXCEPT ![c] = 0]
    /\ approved' = [approved EXCEPT ![c] = FALSE]
    /\ UNCHANGED <<msg, calls>>

\* PendingTransactionId::set
SetPending(c, id) == IF SignerOf[c].slot THEN Append(pending, id) ELSE pending

\* Mutant: every entry with the id goes, not one.
ClearEveryPending(c, id, ids) == IF SignerOf[c].slot THEN Remove(ids, id) ELSE ids

\* PendingTransactionId::clear
ClearPending(c, id, ids) == IF SignerOf[c].slot THEN RemoveFirst(ids, id) ELSE ids

\* Every failure after the create; only Crossmint repeats the key.
AfterCreate(c, id) ==
    Outcome("Unconfirmed", id, IF Crossmint(c) THEN Key(c, msg[c]) ELSE NONE)

\* What a success response holds: the bytes that landed, signed by their fee payer or
\* not, or not usable; and Crossmint's onChain.txId.
Evidence == [tx: {"absent", "unusable", "forged", "signed"},
             txId: {"absent", "unusable", "signature"}]

\* extract_signature_from_response, finish_broadcast.  Crossmint falls back to the txId
\* when there are no usable bytes.
Extract(c, id, e) ==
    IF e.tx = "signed" THEN Landed(id, TRUE)
    ELSE IF Crossmint(c) /\ e.tx # "forged" /\ e.txId = "signature" THEN Landed(id, FALSE)
    ELSE AfterCreate(c, id)

\* From a response that shows state s to the next await, n iterations into the loop.
\* An approval that is not this signer's to give, or without a readable message, ends
\* the call.
Settle(c, id, s, n, approval, ids) ==
    \/ /\ s = "success"
       /\ \E e \in Evidence : EndCall(c, Extract(c, id, e))
       /\ pending' = ClearPending(c, id, ids)
    \/ /\ s = "failed" \/ (s # "success" /\ n = MaxPolls) \/ (s = "awaiting" /\ ~approval)
       /\ EndCall(c, AfterCreate(c, id))
       /\ pending' = ClearPending(c, id, ids)
    \/ /\ s \notin {"success", "failed"} /\ n < MaxPolls
       /\ s = "awaiting" /\ ~approval => SignerOf[c].secret
       /\ pc' = [pc EXCEPT ![c] = "polling"]
       /\ wire' = [wire EXCEPT ![c] = NoExchange]
       /\ view' = [view EXCEPT ![c] = [id |-> id, state |-> s]]
       /\ polls' = [polls EXCEPT ![c] = n]
       /\ approved' = [approved EXCEPT ![c] = approval]
       /\ pending' = ids
       /\ UNCHANGED <<msg, calls, result>>

\* A response with a usable body: the id is put into the slot before the next await.
\* Crossmint's body shows a state, Fordefi's does not.
CreateAccepted(c) ==
    /\ pc[c] = "creating" /\ wire[c].at = "answered"
    /\ wire[c].status = "ok" /\ wire[c].whole
    /\ Settle(c, wire[c].id, IF Crossmint(c) THEN orders[wire[c].id].state ELSE "unread",
              0, FALSE, SetPending(c, wire[c].id))
    /\ UNCHANGED <<providerVars, historyVars>>

\* Mutant: the slot is set before the id is checked.
CreateFailsRemembering(c) ==
    /\ pc[c] = "creating" /\ wire[c].at = "answered"
    /\ ~(wire[c].status = "ok" /\ wire[c].whole)
    /\ EndCall(c, UnconfirmedUnlessRejected(c, wire[c]))
    /\ pending' = SetPending(c, wire[c].id)
    /\ UNCHANGED <<providerVars, historyVars>>

\* An error status, or a body that cannot be read or parsed.
CreateFails(c) ==
    /\ pc[c] = "creating" /\ wire[c].at = "answered"
    /\ ~(wire[c].status = "ok" /\ wire[c].whole)
    /\ EndCall(c, UnconfirmedUnlessRejected(c, wire[c]))
    /\ UNCHANGED <<providerVars, pending, historyVars>>

\* A request that was sent but not yet answered may still reach the provider.
LeaveBehind(c) ==
    stray' = IF wire[c].at = "sent" THEN stray \cup {Request(c)} ELSE stray

\* Mutant: a transport error is an ordinary error.
CreateLostAsRefusal(c) ==
    /\ pc[c] = "creating"
    /\ EndCall(c, Outcome("Refused", NONE, NONE))
    /\ LeaveBehind(c)
    /\ UNCHANGED <<orders, pending, historyVars>>

\* send().await fails: the deadline of the client, a connection that breaks.
CreateLost(c) ==
    /\ pc[c] = "creating"
    /\ EndCall(c, Outcome("Unconfirmed", NONE, Key(c, msg[c])))
    /\ LeaveBehind(c)
    /\ UNCHANGED <<orders, pending, historyVars>>

-----------------------------------------------------------------------------
(* The poll *)

\* The next await is the POST of the approval, not a GET.
Approving(c) == Crossmint(c) /\ view[c].state = "awaiting" /\ ~approved[c]

\* Mutant: the loop does not count.
ReadOrderForever(c) ==
    /\ Polling(c) /\ ~Approving(c)
    /\ Settle(c, view[c].id, orders[view[c].id].state, polls[c], approved[c], pending)
    /\ UNCHANGED <<providerVars, historyVars>>

\* A GET whose response is read: the _ arm of poll_transaction, an attempt of poll_until.
ReadOrder(c) ==
    /\ Polling(c) /\ ~Approving(c)
    /\ Settle(c, view[c].id, orders[view[c].id].state, polls[c] + 1, approved[c], pending)
    /\ UNCHANGED <<providerVars, historyVars>>

\* poll_transaction
PollTransaction(c) == Crossmint(c) /\ ReadOrder(c)

\* poll_for_result
PollForResult(c) == ~Crossmint(c) /\ ReadOrder(c)

\* A GET or an approval fails: transport, error status, a body without an id.
ExchangeFails(c) ==
    /\ EndCall(c, AfterCreate(c, view[c].id))
    /\ pending' = ClearPending(c, view[c].id, pending)

PollFails(c) ==
    /\ Polling(c)
    /\ ExchangeFails(c)
    /\ UNCHANGED <<providerVars, historyVars>>

\* Mutant: approval_submitted is not set.
ApprovalForgotten(c) == FALSE

\* approval_submitted = true
ApprovalSubmitted(c) == TRUE

\* handle_awaiting_approval and submit_approval.  The provider may register the approval
\* at once or later, and its response may be lost.
SubmitApproval(c) ==
    /\ Polling(c) /\ Approving(c)
    /\ given' = [given EXCEPT ![c] = @ + 1]
    /\ orders' \in {orders, IF orders[view[c].id].state = "awaiting"
                            THEN [orders EXCEPT ![view[c].id].state = "pending"] ELSE orders}
    /\ \/ Settle(c, view[c].id, orders'[view[c].id].state, polls[c] + 1,
                 ApprovalSubmitted(c), pending)
       \/ ExchangeFails(c)
    /\ UNCHANGED <<stray, accepted, abandoned>>

\* The future is dropped at an await: no code of the call runs any more.
Cancel(c) ==
    /\ pc[c] # "idle"
    /\ EndCall(c, Outcome("Cancelled", NONE, NONE))
    /\ LeaveBehind(c)
    /\ abandoned' = IF Polling(c) /\ SignerOf[c].slot
                    THEN Append(abandoned, view[c].id) ELSE abandoned
    /\ UNCHANGED <<orders, pending, accepted, given>>

-----------------------------------------------------------------------------
(* The provider and the network (external) *)

\* The provider deduplicates creates by key.
Known(r) == {i \in DOMAIN orders : orders[i].key = r.key}
NewOrder(r) == [key |-> r.key, body |-> r.body, state |-> "pending"]
Accepting(r) == IF Known(r) = {} THEN Append(orders, NewOrder(r)) ELSE orders
IdOf(r) == IF Known(r) = {} THEN Len(orders) + 1 ELSE CHOOSE i \in Known(r) : TRUE

Answer(c, status, id, whole) ==
    wire' = [wire EXCEPT ![c] = [at |-> "answered", status |-> status, id |-> id, whole |-> whole]]

\* The provider accepts, and answers in full, garbled, or with an error after the fact.
Accept(c) ==
    /\ wire[c].at = "sent"
    /\ orders' = Accepting(Request(c))
    /\ accepted' = [accepted EXCEPT ![c] = TRUE]
    /\ \/ Answer(c, "ok", IdOf(Request(c)), TRUE)
       \/ \E status \in {"ok", "timeout", "server"}, id \in {IdOf(Request(c)), NONE} :
             Answer(c, status, id, FALSE)
    /\ UNCHANGED <<stray, pc, msg, calls, view, polls, approved, result, pending, given, abandoned>>

\* A 4xx other than 408 says that nothing was accepted; 408 and 5xx say nothing.
Reject(c) ==
    /\ wire[c].at = "sent"
    /\ \E status \in {"rejected", "timeout", "server"} : Answer(c, status, NONE, FALSE)
    /\ UNCHANGED <<providerVars, pc, msg, calls, view, polls, approved, result, pending, historyVars>>

\* A create arrives after its sender gave up.
AcceptStray(r) ==
    /\ orders' = Accepting(r)
    /\ stray' = stray \ {r}
    /\ accepted' = [accepted EXCEPT ![r.by] = @ \/ calls[r.by] = r.call]
    /\ UNCHANGED <<callVars, pending, given, abandoned>>

LoseStray(r) ==
    /\ stray' = stray \ {r}
    /\ UNCHANGED <<orders, callVars, pending, historyVars>>

\* Only Crossmint asks for approvals.
Moves(backend) ==
    {<<"pending", "success">>, <<"pending", "failed">>}
    \cup IF backend = "crossmint"
         THEN {<<"pending", "awaiting">>, <<"awaiting", "pending">>, <<"awaiting", "failed">>}
         ELSE {}
Progress(i) ==
    /\ \E s \in {"pending", "awaiting", "success", "failed"} :
         /\ <<orders[i].state, s>> \in Moves(orders[i].body[1])
         /\ orders' = [orders EXCEPT ![i].state = s]
    /\ UNCHANGED <<stray, callVars, pending, historyVars>>

-----------------------------------------------------------------------------
(* Specification *)

ClientStep(c) ==
    \/ CreateAccepted(c) \/ CreateFails(c) \/ CreateLost(c)
    \/ PollTransaction(c) \/ PollForResult(c) \/ PollFails(c) \/ SubmitApproval(c)

Next ==
    \/ \E c \in Callers :
         \/ RefuseInput(c) \/ ExecuteManagedTransaction(c) \/ SignAndBroadcast(c)
         \/ ClientStep(c) \/ Cancel(c) \/ Accept(c) \/ Reject(c)
    \/ \E r \in stray : AcceptStray(r) \/ LoseStray(r)
    \/ \E i \in DOMAIN orders : Progress(i)

Spec == Init /\ [][Next]_vars

\* A future that is polled goes on: the HTTP client has a deadline for every exchange, and
\* a sleep ends.  An exchange of the poll that fails ends the call at once (PollFails).
FairSpec ==
    Spec /\ \A c \in Callers :
        /\ WF_vars(CreateAccepted(c) \/ CreateFails(c) \/ CreateLost(c))
        /\ WF_vars(ReadOrder(c) \/ SubmitApproval(c))

-----------------------------------------------------------------------------
(* Properties *)

\* An error that is not BroadcastUnconfirmed promises that the provider never accepted
\* this call's create and never will, whatever was lost on the way
\* (unconfirmed_unless_rejected, the error mapping of create_transaction).
RefusedMeansNothing ==
    \A c \in Callers : result[c].kind = "Refused" =>
        ~accepted[c] /\ \A r \in stray : ~(r.by = c /\ r.call = calls[c])

\* However often the same bytes are sent under the same terms, retried, late or
\* concurrent, the provider executes one transaction (idempotency_key_from_message).
OneOrder ==
    \A i, j \in DOMAIN orders : orders[i].body = orders[j].body => i = j

\* A signature is returned only for an order that succeeded and was created for exactly
\* these bytes under these terms: the key never joins calls with different terms
\* (namespaced_key_input, submit_solana_transaction).
LandedIsMine ==
    \A c \in Callers : result[c].kind = "Ok" =>
        /\ result[c].id \in DOMAIN orders
        /\ orders[result[c].id].state = "success"
        /\ orders[result[c].id].body = Body(c, msg[c])

\* BroadcastUnconfirmed leads to whatever the provider accepted: the id it carries is of
\* an order for these bytes, and without an id the key finds the order
\* (unconfirmed_unless_rejected, sign_and_broadcast, execute_managed_transaction).
UnconfirmedLeadsToOrder ==
    \A c \in Callers : result[c].kind = "Unconfirmed" =>
        /\ result[c].id # NONE => /\ result[c].id \in DOMAIN orders
                                 /\ orders[result[c].id].body = Body(c, msg[c])
        /\ result[c].id = NONE /\ accepted[c] =>
             \E i \in DOMAIN orders : orders[i].key = result[c].key
                                   /\ orders[i].body = Body(c, msg[c])

Occurrences(s, e) == Cardinality({i \in DOMAIN s : s[i] = e})

\* The slot holds one entry for each call in flight and each cancelled call: a call that
\* ends takes its own entry away and never the last trace of a cancelled call for the
\* same order (PendingTransactionId::set, clear).
SlotAccounts ==
    \A i \in DOMAIN orders :
        Occurrences(pending, i) =
            Occurrences(abandoned, i)
            + Cardinality({c \in Callers : Polling(c) /\ SignerOf[c].slot /\ view[c].id = i})

\* A call gives its approval at most once, although the provider may keep showing
\* awaiting-approval (approval_submitted in poll_transaction).
ApprovesOnce == \A c \in Callers : given[c] <= 1

\* Every call returns, although an order may stay undecided for ever (poll_until,
\* max_poll_attempts, request_timeout).
SendsReturn == \A c \in Callers : (pc[c] # "idle") ~> (pc[c] = "idle")

-----------------------------------------------------------------------------
(* What the documentation says *)

\* docs/SECURITY_MODEL.md:9: the returned signature "is verified against the provider's
\* own returned bytes".
SignatureVerified ==
    \A c \in Callers : result[c].kind = "Ok" => result[c].verified
=============================================================================
