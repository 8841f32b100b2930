------------------------ MODULE DirectSigner_proofs ------------------------
(* Theorems about DirectSigner, for any keys, messages, configurations and answers. *)
EXTENDS DirectSigner, Transactions_proofs, TLAPS

-----------------------------------------------------------------------------
(* The inductive invariant *)

\* Which exchange belongs to which call, and what a call has seen before it.
CallInv ==
    /\ pc = "new" => key = NONE /\ result = C!Outcome("None")
    /\ pc \in {"new", "idle"} <=> op = "none"
    /\ op = "none" => text = NONE
    /\ pc = "describe" => op = "available" /\ conf.backend = "aws_kms"
    /\ pc = "whoami" => op = "available" /\ conf.backend = "turnkey"
    /\ pc \in {"challenge", "action", "sign"} <=> op \in {"message", "transaction"}
    /\ op \in {"message", "transaction"} => key # NONE
    /\ op = "message" => text \in Texts
    /\ op = "init" => conf.backend \in KeyFetched

\* Where the key comes from, and that Dfns keeps the id of the key it keeps.
KeyInv ==
    /\ Addressed(conf, wallet)
    /\ pc # "new" /\ conf.backend \in KeyInConfig => key = conf.key /\ key # NONE
    /\ conf.backend = "dfns" => keyId = key

\* What the earlier exchange of an is_available has established.
ProbeInv ==
    /\ op = "available" /\ conf.backend \in {"privy", "openfort"} => key # NONE
    /\ op = "available" /\ pc = "wallet" /\ conf.backend = "aws_kms" /\ steady
        => wallet.active /\ wallet.usable

Inv == TypeOK /\ CallInv /\ KeyInv /\ ProbeInv /\ AvailabilityChecked
-----------------------------------------------------------------------------
(* What is taken from an answer *)

LEMMA ConfigType ==
    ASSUME TypeOK
    PROVE  /\ conf.backend \in Backends /\ conf.key \in Keys \cup {NONE}
           /\ conf.byAddress \in BOOLEAN
  BY DirectConstants DEF TypeOK, Config

LEMMA SignReply ==
    ASSUME NEW r \in Replies("sign")
    PROVE  r.signature \in Signatures \cup {NONE} /\ r.transaction \in Returned \cup {NONE}
<1> DEFINE A == [ok: {TRUE}, done: BOOLEAN, signature: Signatures, transaction: {NONE}, wallet: {NONE}]
           B == [ok: {TRUE}, done: BOOLEAN, signature: {NONE}, transaction: Returned, wallet: {NONE}]
<1>1. Replies("sign") = {Failed, Garbled} \cup (A \cup B)
  BY DEF Replies
<1>2. CASE r \in {Failed, Garbled}
  BY <1>2 DEF Failed, Garbled
<1>3. CASE r \in A
  BY <1>3
<1>4. CASE r \in B
  BY <1>4
<1> HIDE DEF A, B
<1> QED
  BY <1>1, <1>2, <1>3, <1>4

LEMMA WalletReply ==
    ASSUME NEW x \in {"wallet", "describe"}, NEW r \in Replies(x)
    PROVE  r.wallet \in {NONE, wallet}
<1>1. Replies(x) = {Failed, Garbled} \cup {[Garbled EXCEPT !.wallet = wallet]}
  BY DEF Replies
<1>2. Failed.wallet = NONE /\ Garbled.wallet = NONE
  BY DEF Failed, Garbled
<1>3. [Garbled EXCEPT !.wallet = wallet].wallet = wallet
  BY DEF Failed, Garbled
<1> QED
  BY <1>1, <1>2, <1>3

\* Whatever comes back, what verify_or_reject lets through was made by the signer's key.
LEMMA AcceptedIsValid ==
    ASSUME NEW r \in Replies("sign"), NEW bytes, key \in Keys, Accepted(r, bytes) # NONE
    PROVE  Accepted(r, bytes) \in Signature /\ verifies(Accepted(r, bytes), key, bytes)
  BY SignReply, VerifiedIsMade DEF Accepted

LEMMA AcceptedReturnedIsValid ==
    ASSUME NEW r \in Replies("sign"), key \in Keys, AcceptedReturned(r) # NONE
    PROVE  AcceptedReturned(r) \in Signature /\ verifies(AcceptedReturned(r), key, tx.message)
<1>1. r.transaction \in Transaction
  BY SignReply, DirectConstants DEF AcceptedReturned
<1>2. AcceptedReturned(r) = extract_and_verify_returned_signature(r.transaction, key, tx.message)
  BY DEF AcceptedReturned
<1> QED
  BY <1>1, <1>2, ReturnedIsVerified, VerifiedIsMade

LEMMA MessageSignatureIsValid ==
    ASSUME TypeOK, key # NONE, NEW r \in Replies("sign"), sign_bytes(r) # NONE
    PROVE  sign_bytes(r) \in Signature /\ verifies(sign_bytes(r), key, text)
<1>1. sign_bytes(r) \in {NONE, Accepted(r, text)}
  BY ConfigType
     DEF sign_bytes, Is, Backends, KeyInConfig, KeyFetched, vault_sign_bytes, aws_sign_bytes,
         gcp_sign_bytes, privy_sign_bytes, turnkey_sign_bytes, dfns_sign_bytes,
         send_signature_request, para_sign_bytes, cdp_sign_bytes, openfort_sign_bytes
<1>2. key \in Keys
  BY DEF TypeOK
<1> QED
  BY <1>1, <1>2, AcceptedIsValid

LEMMA TransactionSignatureIsValid ==
    ASSUME TypeOK, key # NONE, NEW r \in Replies("sign"), sign_and_serialize(r) # NONE
    PROVE  sign_and_serialize(r) \in Signature /\ verifies(sign_and_serialize(r), key, tx.message)
<1>1. sign_and_serialize(r) \in {NONE, Accepted(r, tx.message), AcceptedReturned(r)}
  BY ConfigType
     DEF sign_and_serialize, Is, Backends, KeyInConfig, KeyFetched, vault_sign_and_serialize,
         vault_sign_bytes, aws_sign_and_serialize, aws_sign_bytes, gcp_sign_and_serialize,
         gcp_sign_bytes, privy_sign_and_serialize, turnkey_sign_and_serialize,
         dfns_sign_transaction_bytes, send_signature_request, para_sign_and_serialize,
         para_sign_bytes, cdp_sign_and_serialize, openfort_sign_and_serialize, openfort_sign_bytes
<1>2. key \in Keys
  BY DEF TypeOK
<1> QED
  BY <1>1, <1>2, AcceptedIsValid, AcceptedReturnedIsValid

\* init takes a key of the provider's wallet, and Dfns its id with it.
LEMMA FetchedKey ==
    ASSUME TypeOK, conf.backend \in KeyFetched, NEW r \in Replies("wallet"), init(r).key # NONE
    PROVE  /\ init(r).key \in Keys
           /\ init(r).keyId \in {keyId, init(r).key}
           /\ conf.backend = "dfns" => init(r).keyId = init(r).key
<1>1. Address(r) \in Keys \cup {NONE}
  BY WalletReply DEF Address, TypeOK, Wallets
<1>2. CASE conf.backend = "dfns"
  BY <1>1, <1>2 DEF init, Is, dfns_init
<1>3. CASE conf.backend # "dfns"
  BY <1>1, <1>3
     DEF init, Is, KeyFetched, privy_init, privy_fetch_public_key, para_init, openfort_init,
         openfort_fetch_public_key
<1> QED
  BY <1>2, <1>3

\* The last answer of an is_available that reports true.
LEMMA AvailableWallet ==
    ASSUME TypeOK, NEW r \in Replies("wallet"), is_available(r),
           conf.backend \in {"privy", "openfort"} => key # NONE
    PROVE  /\ conf.backend \in {"vault", "aws_kms", "gcp_kms", "privy", "turnkey", "openfort"}
                 => wallet.key = key
           /\ conf.backend \in {"vault", "dfns", "para"} => wallet.active /\ wallet.usable
<1>1. r.wallet \in {NONE, wallet}
  BY WalletReply
<1>2. CASE conf.backend \in {"vault", "dfns", "para"}
  BY <1>1, <1>2
     DEF is_available, Is, vault_is_available, latest_key_matches_public_key, Address,
         dfns_is_available, para_is_available
<1>3. CASE conf.backend \in {"aws_kms", "gcp_kms", "turnkey"}
  BY <1>1, <1>3
     DEF is_available, Is, key_matches_configured_public_key, gcp_is_available,
         sign_with_matches_public_key
<1>4. CASE conf.backend \in {"privy", "openfort"}
  BY <1>1, <1>4
     DEF is_available, Is, privy_is_available, privy_fetch_public_key, openfort_is_available,
         openfort_fetch_public_key, Address
<1> QED
  BY <1>2, <1>3, <1>4
-----------------------------------------------------------------------------
(* Every step keeps the invariant, and is a step of the contract or a stutter. *)

Contract == C!Next \/ UNCHANGED C!vars

\* The contract speaks of the same transactions and of the same helpers.
LEMMA SameSets == C!Signature = Signature /\ C!Signatures = Signatures /\ C!Transaction = Transaction
<1>1. C!Signature = Signature
  BY DEF C!Signature, Signature
<1>2. C!NoSignature = NoSignature
  BY DEF C!NoSignature, NoSignature
<1>3. C!Signatures = Signatures
  BY <1>1, <1>2 DEF C!Signatures, Signatures
<1> QED
  BY <1>1, <1>3 DEF C!Transaction, Transaction

LEMMA SameHelpers ==
    ASSUME NEW t, NEW k, NEW s, NEW bytes
    PROVE  /\ C!verifies(s, k, bytes) = verifies(s, k, bytes)
           /\ C!get_signing_keypair_position(t, k) = get_signing_keypair_position(t, k)
           /\ C!add_signature_to_transaction(t, k, s) = add_signature_to_transaction(t, k, s)
           /\ C!classify_signed_transaction(t) = classify_signed_transaction(t)
<1>1. C!verifies(s, k, bytes) = verifies(s, k, bytes)
  BY DEF C!verifies, verifies
<1>2. C!get_signing_keypair_position(t, k) = get_signing_keypair_position(t, k)
  BY DEF C!get_signing_keypair_position, get_signing_keypair_position, C!Min, Min
<1>3. C!NoSignature = NoSignature
  BY DEF C!NoSignature, NoSignature
<1>4. C!ResizedSlots(t, t.message.need) = ResizedSlots(t, t.message.need)
  BY <1>3 DEF C!ResizedSlots, ResizedSlots
<1>5. C!add_signature_to_transaction(t, k, s) = add_signature_to_transaction(t, k, s)
  BY <1>2, <1>4 DEF C!add_signature_to_transaction, add_signature_to_transaction
<1>6. C!classify_signed_transaction(t) = classify_signed_transaction(t)
  BY <1>3 DEF C!classify_signed_transaction, classify_signed_transaction,
              C!has_all_required_signatures, has_all_required_signatures
<1> QED
  BY <1>1, <1>2, <1>5, <1>6

LEMMA OutcomeType ==
    ASSUME NEW kind \in {"None", "Ok", "Available"} \cup C!Failures
    PROVE  C!Outcome(kind) \in C!Results /\ C!Outcome(kind).kind = kind
  BY DEF C!Outcome, C!Results

LEMMA SignedType ==
    ASSUME NEW s \in Signature, NEW class \in {"Complete", "Partial", NONE}
    PROVE  C!Signed(s, class) \in C!Results /\ C!Signed(s, class).kind = "Ok"
<1> DEFINE K == {"None", "Ok", "Available"} \cup C!Failures
           S == Signature \cup {NONE}
           D == {"Complete", "Partial", NONE}
<1>1. "Ok" \in K /\ s \in S /\ class \in D
  OBVIOUS
<1>2. C!Results = [kind: K, signature: S, class: D]
  BY SameSets DEF C!Results
<1>3. C!Signed(s, class) = [kind |-> "Ok", signature |-> s, class |-> class]
  BY DEF C!Signed
<1> HIDE DEF K, S, D
<1> QED
  BY <1>1, <1>2, <1>3

LEMMA InitInv == Init => Inv /\ C!Init
<1> SUFFICES ASSUME Init PROVE Inv /\ C!Init
  OBVIOUS
<1>1. TypeOK
  <2>1. tx \in Transaction
    BY DirectConstants DEF Init
  <2>2. result \in C!Results
    BY OutcomeType DEF Init
  <2> QED
    BY <2>1, <2>2 DEF Init, TypeOK
<1>2. CallInv /\ KeyInv /\ ProbeInv
  BY DEF Init, CallInv, KeyInv, ProbeInv
<1>3. AvailabilityChecked
  BY OutcomeType DEF Init, AvailabilityChecked
<1>4. C!Init
  <2>1. tx \in Transaction
    BY <1>1 DEF TypeOK
  <2> QED
    BY <2>1, SameSets DEF Init, C!Init
<1> QED
  BY <1>1, <1>2, <1>3, <1>4 DEF Inv

LEMMA ConstructStep ==
    ASSUME Inv, Construct
    PROVE  Inv' /\ Contract
<1>0. conf.backend \in Backends /\ conf.key \in Keys \cup {NONE}
  BY ConfigType DEF Inv
<1>1. conf.backend \in KeyInConfig => conf.key # NONE
  BY DEF Construct, from_config, KeyInConfig, vault_from_config, aws_from_config,
         gcp_from_config, turnkey_from_config, cdp_from_config
<1>2. TypeOK'
  BY <1>0, OutcomeType DEF Construct, Inv, TypeOK
<1>3. CallInv' /\ KeyInv' /\ ProbeInv'
  BY <1>1 DEF Construct, Inv, CallInv, KeyInv, ProbeInv, Addressed, KeyInConfig
<1>4. AvailabilityChecked'
  BY OutcomeType DEF Construct, AvailabilityChecked
<1>5. result' = result /\ key = NONE /\ op = "none"
  BY DEF Construct, Inv, CallInv
<1>6. Contract
  BY <1>0, <1>1, <1>5 DEF Construct, Contract, C!Next, C!Configure, C!vars
<1> QED
  BY <1>2, <1>3, <1>4, <1>6 DEF Inv

LEMMA MisconfiguredStep ==
    ASSUME Inv, Misconfigured
    PROVE  Inv' /\ Contract
<1>1. TypeOK'
  BY DEF Misconfigured, Inv, TypeOK
<1>2. CallInv' /\ KeyInv' /\ ProbeInv' /\ AvailabilityChecked'
  BY OutcomeType DEF Misconfigured, Inv, CallInv, KeyInv, ProbeInv, AvailabilityChecked
<1>3. Contract
  BY DEF Misconfigured, Contract, C!vars
<1> QED
  BY <1>1, <1>2, <1>3 DEF Inv

\* A call begins with its first exchange.
LEMMA CallStep ==
    ASSUME Inv, NEW o \in C!Operations, NEW t \in Texts \cup {NONE}, NEW x \in Exchanges,
           Call(o, t, x),
           x = "describe" => o = "available" /\ conf.backend = "aws_kms",
           x = "whoami" => o = "available" /\ conf.backend = "turnkey",
           x \in {"challenge", "action", "sign"} <=> o \in {"message", "transaction"},
           o \in {"message", "transaction"} => key # NONE,
           o = "message" => t \in Texts,
           o = "init" => conf.backend \in KeyFetched,
           o = "available" /\ conf.backend = "aws_kms" => x = "describe",
           o = "available" /\ conf.backend \in {"privy", "openfort"} => key # NONE
    PROVE  Inv' /\ Contract
<1> USE DEF Call, signer
<1>1. TypeOK'
  BY OutcomeType DEF Inv, TypeOK
<1>2. CallInv'
  BY DEF Inv, CallInv, Exchanges, C!Operations
<1>3. KeyInv'
  BY DEF Inv, KeyInv, Addressed
<1>4. ProbeInv'
  BY DEF ProbeInv
<1>5. AvailabilityChecked'
  BY OutcomeType DEF AvailabilityChecked
<1>6. Contract
  BY DEF Inv, CallInv, Contract, C!Next, C!Begin
<1> QED
  BY <1>1, <1>2, <1>3, <1>4, <1>5, <1>6 DEF Inv

LEMMA RefuseStep ==
    ASSUME Inv, NEW kind \in {"Err", "Unavailable"}, Refuse(kind)
    PROVE  Inv' /\ Contract
<1> USE DEF Refuse, signer
<1>0. kind \in C!Failures
  BY DEF C!Failures
<1>1. TypeOK'
  BY <1>0, OutcomeType DEF Inv, TypeOK
<1>2. CallInv' /\ KeyInv' /\ ProbeInv'
  BY DEF Inv, CallInv, KeyInv, ProbeInv, Addressed
<1>3. AvailabilityChecked'
  BY <1>0, OutcomeType DEF AvailabilityChecked
<1>4. Contract
  BY <1>0 DEF Inv, CallInv, Contract, C!Next, C!Fail
<1> QED
  BY <1>1, <1>2, <1>3, <1>4 DEF Inv

LEMMA CallInitStep ==
    ASSUME Inv, CallInit
    PROVE  Inv' /\ Contract
  BY CallStep DEF CallInit, C!Operations, Exchanges

LEMMA SignMessageStep ==
    ASSUME Inv, SignMessage
    PROVE  Inv' /\ Contract
<1>1. PICK t \in Texts : IF Submits("message", t) THEN Call("message", t, FirstSignExchange)
                         ELSE Refuse("Err")
  BY DEF SignMessage
<1>2. CASE Submits("message", t)
  <2>1. key # NONE /\ FirstSignExchange \in {"challenge", "sign"}
    BY <1>2 DEF Submits, FirstSignExchange
  <2> QED
    BY <1>1, <1>2, <2>1, CallStep DEF C!Operations, Exchanges
<1>3. CASE ~Submits("message", t)
  BY <1>1, <1>3, RefuseStep
<1> QED
  BY <1>2, <1>3

LEMMA SignTransactionStep ==
    ASSUME Inv, SignTransaction
    PROVE  Inv' /\ Contract
<1>1. CASE Submits("transaction", NONE)
  <2>1. key # NONE /\ FirstSignExchange \in {"challenge", "sign"}
    BY <1>1 DEF Submits, FirstSignExchange
  <2> QED
    BY <1>1, <2>1, CallStep DEF SignTransaction, C!Operations, Exchanges
<1>2. CASE ~Submits("transaction", NONE)
  BY <1>2, RefuseStep DEF SignTransaction
<1> QED
  BY <1>1, <1>2

LEMMA IsAvailableStep ==
    ASSUME Inv, IsAvailable
    PROVE  Inv' /\ Contract
<1>1. CASE Probes
  <2>1. conf.backend \in {"privy", "openfort"} => key # NONE
    BY <1>1 DEF Probes, Is
  <2>2. /\ FirstProbe \in {"describe", "whoami", "wallet"}
        /\ FirstProbe = "describe" <=> conf.backend = "aws_kms"
        /\ FirstProbe = "whoami" => conf.backend = "turnkey"
    BY DEF FirstProbe, Is
  <2> QED
    BY <1>1, <2>1, <2>2, CallStep DEF IsAvailable, C!Operations, Exchanges
<1>2. CASE ~Probes
  BY <1>2, RefuseStep DEF IsAvailable
<1> QED
  BY <1>1, <1>2

LEMMA EditTransactionStep ==
    ASSUME Inv, EditTransaction
    PROVE  Inv' /\ Contract
<1> USE DEF EditTransaction, signer
<1>0. tx' \in Transaction
  BY DirectConstants
<1>1. TypeOK'
  BY <1>0 DEF Inv, TypeOK
<1>2. CallInv' /\ KeyInv' /\ ProbeInv' /\ AvailabilityChecked'
  BY DEF Inv, CallInv, KeyInv, ProbeInv, Addressed, AvailabilityChecked
<1>3. Contract
  BY <1>0, SameSets DEF Contract, C!Next, C!Edit
<1> QED
  BY <1>1, <1>2, <1>3 DEF Inv

LEMMA ChangeWalletStep ==
    ASSUME Inv, ChangeWallet
    PROVE  Inv' /\ Contract
<1> USE DEF ChangeWallet, signer
<1>1. TypeOK'
  BY DEF Inv, TypeOK
<1>2. CallInv' /\ KeyInv' /\ ProbeInv' /\ AvailabilityChecked'
  BY DEF Inv, CallInv, KeyInv, ProbeInv, Addressed, AvailabilityChecked
<1>3. Contract
  BY DEF Contract, C!vars
<1> QED
  BY <1>1, <1>2, <1>3 DEF Inv
\* The three ways an answer is taken: a failure, a report, another exchange.
LEMMA FailsStep ==
    ASSUME Inv, pc # "new", NEW kind \in {"Err", "Cancelled"}, Fails(kind)
    PROVE  Inv' /\ Contract
<1> USE DEF Fails, Returns, signer
<1>0. kind \in C!Failures
  BY DEF C!Failures
<1>1. TypeOK'
  BY <1>0, OutcomeType DEF Inv, TypeOK
<1>2. CallInv' /\ ProbeInv'
  BY DEF Inv, CallInv, ProbeInv
<1>3. KeyInv'
  BY DEF Inv, KeyInv, Addressed
<1>4. AvailabilityChecked'
  BY <1>0, OutcomeType DEF AvailabilityChecked
<1>5. Contract
  BY <1>0 DEF Contract, C!Next, C!Fail
<1> QED
  BY <1>1, <1>2, <1>3, <1>4, <1>5 DEF Inv

LEMMA ReportsStep ==
    ASSUME Inv, op = "available", NEW available \in BOOLEAN, Reports(available),
           available /\ steady =>
               /\ conf.backend \in {"vault", "aws_kms", "gcp_kms", "privy", "turnkey", "openfort"}
                     => wallet.key = key
               /\ conf.backend \in {"vault", "aws_kms", "dfns", "para"}
                     => wallet.active /\ wallet.usable
    PROVE  Inv' /\ Contract
<1> USE DEF Reports, Returns, signer
<1> DEFINE kind == IF available THEN "Available" ELSE "Unavailable"
<1>0. "Unavailable" \in C!Failures
  BY DEF C!Failures
<1>01. result' = C!Outcome(kind) /\ C!Outcome(kind) \in C!Results /\ C!Outcome(kind).kind = kind
  BY <1>0, OutcomeType
<1>1. TypeOK'
  BY <1>01 DEF Inv, TypeOK
<1>2. CallInv' /\ ProbeInv'
  BY DEF Inv, CallInv, ProbeInv
<1>3. KeyInv'
  BY DEF Inv, CallInv, KeyInv, Addressed
<1>4. AvailabilityChecked'
  BY <1>01 DEF AvailabilityChecked
<1>5. Contract
  BY <1>0, <1>01 DEF Contract, C!Next, C!Fail, C!Report
<1> QED
  BY <1>1, <1>2, <1>3, <1>4, <1>5 DEF Inv

LEMMA ContinueStep ==
    ASSUME Inv, NEW x, Continue(x),
           \/ /\ x = "wallet" /\ op = "available"
              /\ conf.backend = "aws_kms" => wallet.active /\ wallet.usable
           \/ x \in {"action", "sign"} /\ op \in {"message", "transaction"}
    PROVE  Inv' /\ Contract
<1> USE DEF Continue, signer
<1>1. TypeOK'
  BY DEF Inv, TypeOK, Exchanges
<1>2. CallInv'
  BY DEF Inv, CallInv
<1>3. KeyInv'
  BY DEF Inv, CallInv, KeyInv, Addressed
<1>4. ProbeInv' /\ AvailabilityChecked'
  BY DEF Inv, ProbeInv, AvailabilityChecked
<1>5. Contract
  BY DEF Contract, C!vars
<1> QED
  BY <1>1, <1>2, <1>3, <1>4, <1>5 DEF Inv

LEMMA DescribeAnsweredStep ==
    ASSUME Inv, DescribeAnswered
    PROVE  Inv' /\ Contract
<1>0. op = "available" /\ conf.backend = "aws_kms" /\ pc = "describe"
  BY DEF DescribeAnswered, Inv, CallInv
<1>1. PICK r \in Replies("describe") : IF aws_is_available(r) THEN Continue("wallet") ELSE Reports(FALSE)
  BY <1>0 DEF DescribeAnswered
<1>2. CASE aws_is_available(r)
  <2>1. wallet.active /\ wallet.usable
    BY <1>2, WalletReply DEF aws_is_available
  <2> QED
    BY <1>0, <1>1, <1>2, <2>1, ContinueStep
<1>3. CASE ~aws_is_available(r)
  BY <1>0, <1>1, <1>3, ReportsStep
<1> QED
  BY <1>2, <1>3

LEMMA WhoamiAnsweredStep ==
    ASSUME Inv, WhoamiAnswered
    PROVE  Inv' /\ Contract
<1>0. op = "available" /\ conf.backend = "turnkey" /\ pc = "whoami"
  BY DEF WhoamiAnswered, Inv, CallInv
<1>1. Reports(FALSE) \/ (conf.byAddress /\ Reports(TRUE)) \/ Continue("wallet")
  BY DEF WhoamiAnswered
<1>2. conf.byAddress => wallet.key = key
  BY <1>0 DEF Inv, KeyInv, Addressed, KeyInConfig
<1> QED
  BY <1>0, <1>1, <1>2, ReportsStep, ContinueStep

LEMMA AvailabilityAnsweredStep ==
    ASSUME Inv, AvailabilityAnswered
    PROVE  Inv' /\ Contract
<1>0. op = "available" /\ pc = "wallet"
  BY DEF AvailabilityAnswered
<1>1. PICK r \in Replies("wallet") : Reports(is_available(r))
  BY <1>0 DEF AvailabilityAnswered
<1>2. CASE ~is_available(r)
  <2>1. Reports(FALSE)
    BY <1>1, <1>2 DEF Reports
  <2> QED
    BY <1>0, <2>1, ReportsStep
<1>3. CASE is_available(r)
  <2>1. Reports(TRUE)
    BY <1>1, <1>3 DEF Reports
  <2>2. conf.backend = "aws_kms" /\ steady => wallet.active /\ wallet.usable
    BY <1>0 DEF Inv, ProbeInv
  <2>3. conf.backend \in {"privy", "openfort"} => key # NONE
    BY <1>0 DEF Inv, ProbeInv
  <2>4. /\ conf.backend \in {"vault", "aws_kms", "gcp_kms", "privy", "turnkey", "openfort"}
              => wallet.key = key
        /\ conf.backend \in {"vault", "dfns", "para"} => wallet.active /\ wallet.usable
    BY <1>3, <2>3, AvailableWallet DEF Inv
  <2> QED
    BY <1>0, <2>1, <2>2, <2>4, ReportsStep
<1> QED
  BY <1>2, <1>3

LEMMA InitAnsweredStep ==
    ASSUME Inv, InitAnswered
    PROVE  Inv' /\ Contract
<1>0. op = "init" /\ pc = "wallet" /\ conf.backend \in KeyFetched
  BY DEF InitAnswered, Inv, CallInv
<1>1. PICK r \in Replies("wallet") :
        IF init(r).key = NONE THEN Fails("Err")
        ELSE /\ key' = init(r).key /\ keyId' = init(r).keyId
             /\ Returns(C!Outcome("Ok"))
             /\ UNCHANGED <<conf, wallet, tx, steady>>
  BY <1>0 DEF InitAnswered
<1>2. CASE init(r).key = NONE
  BY <1>0, <1>1, <1>2, FailsStep
<1>3. CASE init(r).key # NONE
  <2> USE DEF Returns
  <2>1. /\ key' = init(r).key /\ keyId' = init(r).keyId /\ result' = C!Outcome("Ok")
        /\ pc' = "idle" /\ op' = "none" /\ text' = NONE
        /\ UNCHANGED <<conf, wallet, tx, steady>>
    BY <1>1, <1>3
  <2>2. /\ key' \in Keys /\ keyId' \in {keyId, key'}
        /\ conf.backend = "dfns" => keyId' = key'
    BY <1>0, <1>3, <2>1, FetchedKey DEF Inv
  <2>3. C!Outcome("Ok") \in C!Results /\ C!Outcome("Ok").kind = "Ok"
    BY OutcomeType
  <2>4. TypeOK'
    BY <2>1, <2>2, <2>3 DEF Inv, TypeOK
  <2>5. CallInv' /\ ProbeInv'
    BY <2>1 DEF Inv, CallInv, ProbeInv
  <2>6. KeyInv'
    BY <1>0, <2>1, <2>2 DEF Inv, KeyInv, Addressed, KeyFetched, KeyInConfig
  <2>7. AvailabilityChecked'
    BY <2>1, <2>3 DEF AvailabilityChecked
  <2>8. Contract
    BY <1>0, <2>1, <2>2 DEF Contract, C!Next, C!Learn
  <2> QED
    BY <2>4, <2>5, <2>6, <2>7, <2>8 DEF Inv
<1> QED
  BY <1>2, <1>3

\* sign_user_action of Dfns.
LEMMA UserActionStep ==
    ASSUME Inv, ChallengeAnswered \/ ActionAnswered
    PROVE  Inv' /\ Contract
<1>1. op \in {"message", "transaction"} /\ pc # "new"
  BY DEF ChallengeAnswered, ActionAnswered, Inv, CallInv
<1>2. Fails("Err") \/ Continue("action") \/ Continue("sign")
  BY DEF ChallengeAnswered, ActionAnswered
<1> QED
  BY <1>1, <1>2, FailsStep, ContinueStep

\* A signature is returned: the invariant, whatever becomes of the transaction.
LEMMA SignedInv ==
    ASSUME Inv, pc # "new", NEW s \in Signature, NEW class \in {"Complete", "Partial", NONE},
           Returns(C!Signed(s, class)), tx' \in Transaction, UNCHANGED <<signer, wallet, steady>>
    PROVE  Inv'
<1> USE DEF Returns, signer
<1>0. C!Signed(s, class) \in C!Results /\ C!Signed(s, class).kind = "Ok"
  BY SignedType
<1>1. TypeOK'
  BY <1>0 DEF Inv, TypeOK
<1>2. CallInv' /\ ProbeInv'
  BY DEF Inv, CallInv, ProbeInv
<1>3. KeyInv'
  BY DEF Inv, KeyInv, Addressed
<1>4. AvailabilityChecked'
  BY <1>0 DEF AvailabilityChecked
<1> QED
  BY <1>1, <1>2, <1>3, <1>4 DEF Inv

LEMMA MessageAnsweredStep ==
    ASSUME Inv, MessageAnswered
    PROVE  Inv' /\ Contract
<1>0. pc = "sign" /\ op = "message" /\ key # NONE /\ text \in Texts
  BY DEF MessageAnswered, Inv, CallInv
<1>1. PICK r \in Replies("sign") :
        IF sign_bytes(r) = NONE THEN Fails("Err")
        ELSE Returns(C!Signed(sign_bytes(r), NONE)) /\ UNCHANGED <<signer, wallet, tx, steady>>
  BY <1>0 DEF MessageAnswered
<1>2. CASE sign_bytes(r) = NONE
  BY <1>0, <1>1, <1>2, FailsStep
<1>3. CASE sign_bytes(r) # NONE
  <2> DEFINE s == sign_bytes(r)
  <2>1. Returns(C!Signed(s, NONE)) /\ UNCHANGED <<signer, wallet, tx, steady>>
    BY <1>1, <1>3
  <2>2. s \in Signature /\ verifies(s, key, text)
    BY <1>0, <1>3, MessageSignatureIsValid DEF Inv
  <2> HIDE DEF s
  <2>3. Inv'
    BY <1>0, <2>1, <2>2, SignedInv DEF Inv, TypeOK
  <2>4. C!SignText
    BY <1>0, <2>1, <2>2, SameSets, SameHelpers DEF C!SignText, Returns, signer
  <2> QED
    BY <2>3, <2>4 DEF Contract, C!Next
<1> QED
  BY <1>2, <1>3

LEMMA TransactionAnsweredStep ==
    ASSUME Inv, TransactionAnswered
    PROVE  Inv' /\ Contract
<1>0. pc = "sign" /\ op = "transaction" /\ key # NONE /\ tx \in Transaction
  BY DEF TransactionAnswered, Inv, CallInv, TypeOK
<1>1. PICK r \in Replies("sign") :
        LET s == sign_and_serialize(r)
        IN  IF s = NONE \/ get_signing_keypair_position(tx, key) = 0 THEN Fails("Err")
            ELSE /\ tx' = add_signature_to_transaction(tx, key, s)
                 /\ Returns(C!Signed(s, classify_signed_transaction(tx')))
                 /\ UNCHANGED <<signer, wallet, steady>>
  BY <1>0 DEF TransactionAnswered
<1> DEFINE s == sign_and_serialize(r)
<1>2. CASE s = NONE \/ get_signing_keypair_position(tx, key) = 0
  BY <1>0, <1>1, <1>2, FailsStep
<1>3. CASE s # NONE /\ get_signing_keypair_position(tx, key) # 0
  <2> DEFINE class == classify_signed_transaction(tx')
  <2>1. /\ tx' = add_signature_to_transaction(tx, key, s)
        /\ Returns(C!Signed(s, class))
        /\ UNCHANGED <<signer, wallet, steady>>
    BY <1>1, <1>3
  <2>2. s \in Signature /\ verifies(s, key, tx.message)
    BY <1>0, <1>3, TransactionSignatureIsValid DEF Inv
  <2>3. class \in {"Complete", "Partial"}
    BY DEF classify_signed_transaction
  <2> HIDE DEF s
  <2>4. tx' \in Transaction
    BY <1>0, <1>3, <2>1, <2>2, SlotIsFilled DEF Signatures
  <2>5. C!SignTransaction
    <3>1. class = C!classify_signed_transaction(tx')
      BY SameHelpers
    <3> HIDE DEF class
    <3>2. result' = C!Signed(s, C!classify_signed_transaction(tx'))
      BY <2>1, <3>1 DEF Returns
    <3> QED
      BY <1>0, <1>3, <2>1, <2>2, <3>2, SameSets, SameHelpers DEF C!SignTransaction, Returns, signer
  <2> HIDE DEF class
  <2>6. Inv'
    BY <1>0, <2>1, <2>2, <2>3, <2>4, SignedInv
  <2> QED
    BY <2>5, <2>6 DEF Contract, C!Next
<1> QED
  BY <1>2, <1>3

LEMMA NextStep ==
    ASSUME Inv, [Next]_vars
    PROVE  Inv' /\ Contract
<1>1. CASE UNCHANGED vars
  BY <1>1 DEF vars, signer, Inv, TypeOK, CallInv, KeyInv, ProbeInv, Addressed, AvailabilityChecked,
              Contract, C!vars
<1>2. CASE Construct \/ Misconfigured \/ CallInit \/ SignMessage \/ SignTransaction \/ IsAvailable
           \/ EditTransaction \/ ChangeWallet
  BY <1>2, ConstructStep, MisconfiguredStep, CallInitStep, SignMessageStep, SignTransactionStep,
     IsAvailableStep, EditTransactionStep, ChangeWalletStep
<1>3. CASE Answer
  BY <1>3, DescribeAnsweredStep, WhoamiAnsweredStep, AvailabilityAnsweredStep, InitAnsweredStep,
     UserActionStep, MessageAnsweredStep, TransactionAnsweredStep DEF Answer
<1>4. CASE Cancel
  BY <1>4, FailsStep DEF Cancel, Exchanges
<1> QED
  BY <1>1, <1>2, <1>3, <1>4 DEF Next

LEMMA AlwaysInv == Spec => []Inv
<1>1. Init => Inv
  BY InitInv
<1>2. Inv /\ [Next]_vars => Inv'
  BY NextStep
<1> QED
  BY <1>1, <1>2, PTL DEF Spec

-----------------------------------------------------------------------------
(* The theorems *)

\* Every variable of the nine backends stays within its type; in particular a result
\* carries a real signature or none.
THEOREM TypeCorrect == Spec => []TypeOK
<1>1. Inv => TypeOK
  BY DEF Inv
<1> QED
  BY <1>1, AlwaysInv, PTL

\* is_available is true only if it has seen the signer's key, enabled where the
\* backend checks that.
THEOREM AvailabilityIsChecked == Spec => []AvailabilityChecked
<1>1. Inv => AvailabilityChecked
  BY DEF Inv
<1> QED
  BY <1>1, AlwaysInv, PTL

\* No request for a signature without a key, and Dfns requests name the key that
\* verifies the answer.
THEOREM RequestIsForOwnKey == Spec => []RequestNamesOwnKey
<1>1. Inv => RequestNamesOwnKey
  BY DEF Inv, CallInv, KeyInv, RequestNamesOwnKey
<1> QED
  BY <1>1, AlwaysInv, PTL

\* Each of the nine backends implements the signer traits: every step is a step of
\* SignerContract or invisible to the caller.
THEOREM ImplementsContract == Spec => KeepsContract
<1>1. Init => C!Init
  BY InitInv
<1>2. Inv /\ [Next]_vars => [C!Next]_(C!vars)
  BY NextStep DEF Contract
<1> QED
  BY <1>1, <1>2, AlwaysInv, PTL DEF Spec, KeepsContract, C!Spec

\* A step that changes the transaction during a call adds the signer's signature.
LEMMA CallChangesOwnSlot ==
    ASSUME Inv, [Next]_vars, op # "none", tx' # tx
    PROVE  /\ get_signing_keypair_position(tx, key) # 0
           /\ \E s \in Signature : tx' = add_signature_to_transaction(tx, key, s)
<1>1. C!Next
  BY NextStep DEF Contract, C!vars
<1> QED
  BY <1>1, SameSets, SameHelpers
     DEF C!Next, C!Configure, C!Edit, C!Begin, C!Fail, C!Report, C!Learn, C!SignText,
         C!SignTransaction, C!Rewrite

\* sign_transaction never removes or replaces the valid signature of another signer.
THEOREM OthersSurvive == Spec => OtherSignaturesSurvive
<1> DEFINE Survives ==
        op # "none" =>
            \A i \in DOMAIN tx.signatures \cap DOMAIN tx.message.keys :
                LET other == tx.message.keys[i]
                IN  other # key /\ verifies(tx.signatures[i], other, tx.message)
                        => i \in DOMAIN tx'.signatures /\ tx'.signatures[i] = tx.signatures[i]
<1>1. ASSUME Inv, [Next]_vars, op # "none",
             NEW i \in DOMAIN tx.signatures \cap DOMAIN tx.message.keys,
             tx.message.keys[i] # key
      PROVE  i \in DOMAIN tx'.signatures /\ tx'.signatures[i] = tx.signatures[i]
  <2>1. CASE tx' = tx
    BY <2>1
  <2>2. CASE tx' # tx
    <3>1. get_signing_keypair_position(tx, key) # 0
      BY <1>1, <2>2, CallChangesOwnSlot
    <3>2. PICK s \in Signature : tx' = add_signature_to_transaction(tx, key, s)
      BY <1>1, <2>2, CallChangesOwnSlot
    <3>3. tx \in Transaction /\ s \in Signatures
      BY <1>1 DEF Inv, TypeOK, Signatures
    <3>4. i \in 1..Len(tx.signatures)
      BY <1>1, <3>3 DEF Transaction
    <3>5. i # get_signing_keypair_position(tx, key)
      BY <1>1, <3>1, <3>3, PositionIsOwnSlot
    <3>6. /\ tx' \in Transaction
          /\ i <= Len(tx'.signatures) /\ tx'.signatures[i] = tx.signatures[i]
      BY <3>1, <3>2, <3>3, <3>4, <3>5, SlotIsFilled
    <3> QED
      BY <3>3, <3>4, <3>6 DEF Transaction
  <2> QED
    BY <2>1, <2>2
<1>2. Inv /\ [Next]_vars => [Survives]_vars
  BY <1>1
<1> QED
  BY <1>2, AlwaysInv, PTL DEF Spec, OtherSignaturesSurvive
=============================================================================
