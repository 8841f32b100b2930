------------------------- MODULE PollSigner_proofs -------------------------
(* Theorems about PollSigner, for any keys, messages, configurations, numbers of    *)
(* calls and attempts, and answers.                                                 *)
EXTENDS PollSigner, Transactions_proofs, FiniteSetTheorems, TLAPS

-----------------------------------------------------------------------------
(* The inductive invariant *)

\* Which exchange belongs to which call, and the bytes it is about.
CallInv ==
    /\ pc = "new" => key = NONE
    /\ pc # "new" => from_config(conf)
    /\ pc \in {"new", "idle"} <=> op = "none"
    /\ pc = "wallet" <=> op \in {"init", "available"}
    /\ op = "none" => text = NONE
    /\ op # "none" => result = C!Outcome("None")
    /\ pc = "new" => result = C!Outcome("None")
    /\ op = "init" => conf.mode \notin Fordefi
    /\ op \in {"message", "transaction"} => key # NONE
    /\ op = "message" => text \in Texts /\ asked = text /\ conf.mode # "utila"
    /\ op = "transaction" => asked = tx.message /\ conf.mode # "native_auto"

\* A create is on its way for a call that has no order yet; a poll loop that has not
\* run out reads the order the provider holds for the bytes of the call.
PollInv ==
    /\ pc = "create" => Len(orders) < calls /\ left = 0
    /\ pc = "poll" =>
        /\ id # 0 /\ id = left /\ polls < Limit
        /\ orders[id].bytes = asked /\ orders[id].mode = Operation
        /\ Operation = "manual" => orders[id].fee = conf.fee

\* Only a transaction can be broadcast, and only a native manual one has a key, which
\* determines its bytes and its fee.
OrderInv ==
    \A i \in DOMAIN orders :
        /\ orders[i].state \in {"broadcast", "reverted"} => orders[i].mode \in {"program", "utila", "manual"}
        /\ orders[i].key = IF orders[i].mode = "manual"
                           THEN [push |-> "manual", fee |-> orders[i].fee, bytes |-> orders[i].bytes]
                           ELSE NONE
        /\ orders[i].mode = "manual" => orders[i].key # NONE

\* No two orders have a key in common.
KeysDiffer ==
    \A i, j \in DOMAIN orders : orders[i].key # NONE /\ orders[i].key = orders[j].key => i = j

Inv ==
    /\ TypeOK /\ CallInv /\ PollInv /\ OrderInv
    /\ KeysDiffer /\ TimeoutNamesOrder /\ UnconfirmedWasBroadcast
-----------------------------------------------------------------------------
(* What is taken from an answer *)

LEMMA ConfigType ==
    ASSUME TypeOK
    PROVE  conf.mode \in Modes /\ conf.key \in Keys \cup {NONE} /\ conf.attempts \in Nat
           /\ conf.fee \in Fees \cup {NONE}
  BY PollConstants DEF TypeOK, Config

\* A signer that was built makes at least one attempt; one of Fordefi has a key.
LEMMA BuiltConfig ==
    ASSUME TypeOK, from_config(conf)
    PROVE  /\ conf.attempts # 0
           /\ conf.mode \in Fordefi => conf.key # NONE
           /\ conf.mode = "manual" => conf.push = "manual"
  BY ConfigType
     DEF from_config, Modes, Fireblocks, Fordefi, fireblocks_from_config, utila_new,
         black_box_from_config, native_auto_from_config, manual_from_config, fordefi_build

LEMMA CarriedType ==
    ASSUME NEW r \in Carried
    PROVE  /\ r.signature \in Signatures \cup {NONE} /\ r.hash \in Signatures \cup {NONE}
           /\ r.transaction \in Returned \cup {NONE}
<1> DEFINE A == [signature: {NONE} \cup Signatures, hash: {NONE}, transaction: {NONE}]
           B == [signature: {NONE}, hash: Signatures, transaction: {NONE}]
           D == [signature: {NONE}, hash: {NONE}, transaction: Returned]
<1>1. r \in A \/ r \in B \/ r \in D
  BY DEF Carried
<1>2. CASE r \in A
  BY <1>2
<1>3. CASE r \in B
  BY <1>3
<1>4. CASE r \in D
  BY <1>4
<1> QED
  BY <1>1, <1>2, <1>3, <1>4

LEMMA AcceptedIsValid ==
    ASSUME NEW s \in Signatures \cup {NONE}, NEW bytes, key \in Keys, Accepted(s, bytes) # NONE
    PROVE  Accepted(s, bytes) \in Signature /\ verifies(Accepted(s, bytes), key, bytes)
  BY VerifiedIsMade DEF Accepted

LEMMA ReturnedIsValid ==
    ASSUME NEW r \in Carried, NEW bytes, key \in Keys,
           extract_signature_from_raw_transaction(r, bytes) # NONE
    PROVE  /\ extract_signature_from_raw_transaction(r, bytes) \in Signature
           /\ verifies(extract_signature_from_raw_transaction(r, bytes), key, bytes)
<1>1. r.transaction \in Transaction
  BY CarriedType, PollConstants DEF extract_signature_from_raw_transaction
<1>2. extract_signature_from_raw_transaction(r, bytes)
        = extract_and_verify_returned_signature(r.transaction, key, bytes)
  BY DEF extract_signature_from_raw_transaction
<1> QED
  BY <1>1, <1>2, ReturnedIsVerified, VerifiedIsMade

\* Whatever an order carries, what a signer takes from it was made by its key over the
\* bytes of the call.
LEMMA SignatureIsValid ==
    ASSUME NEW r \in Carried, key \in Keys, Operation \in Modes \ {"manual"}, SignatureIn(r) # NONE
    PROVE  SignatureIn(r) \in Signature /\ verifies(SignatureIn(r), key, asked)
<1>0. r.signature \in Signatures \cup {NONE} /\ r.hash \in Signatures \cup {NONE}
  BY CarriedType
<1>1. SignatureIn(r) \in {Accepted(r.signature, asked), Accepted(r.hash, asked),
                          extract_signature_from_raw_transaction(r, asked)}
  BY DEF SignatureIn, Modes, Fireblocks, Fordefi, sign_raw_bytes, sign_program_call,
         signature_from_signed_messages, sign_black_box, sign_solana_message,
         extract_signature_from_result
<1> QED
  BY <1>0, <1>1, AcceptedIsValid, ReturnedIsValid

LEMMA OperationType ==
    ASSUME conf.mode \in Modes
    PROVE  /\ Operation \in Modes
           /\ Operation = "manual" <=> conf.mode = "manual" /\ op # "message"
           /\ Operation = "program" => conf.mode = "program"
           /\ Operation = "utila" => conf.mode = "utila"
  BY DEF Operation, Modes, Fireblocks, Fordefi

\* The key of the create, and the kind of order it asks for.
LEMMA CreateKey ==
    ASSUME Inv, pc = "create"
    PROVE  /\ Key(op, asked) = IF Operation = "manual"
                               THEN [push |-> "manual", fee |-> conf.fee, bytes |-> asked] ELSE NONE
           /\ Key(op, asked) \in IdempotencyKey \cup {NONE}
           /\ Operation = "manual" => Key(op, asked) # NONE
           /\ Requested \in Order
<1>1. /\ conf.mode \in Modes /\ conf.fee \in Fees \cup {NONE}
      /\ conf.mode = "manual" => conf.push = "manual"
  BY ConfigType, BuiltConfig DEF Inv, CallInv
<1>2. op \in {"message", "transaction"}
  BY DEF Inv, TypeOK, CallInv, C!Operations
<1>3. Operation \in Modes /\ (Operation = "manual" <=> conf.mode = "manual" /\ op = "transaction")
  BY <1>1, <1>2, OperationType
<1>4. asked \in Messages \cup Texts /\ (op = "transaction" => asked \in Messages)
  <2>1. CASE op = "message"
    BY <2>1 DEF Inv, CallInv
  <2>2. CASE op = "transaction"
    BY <2>2 DEF Inv, TypeOK, CallInv, Transaction
  <2> QED
    BY <1>2, <2>1, <2>2
<1> DEFINE k == [push |-> "manual", fee |-> conf.fee, bytes |-> asked]
<1>5. Key(op, asked) = IF Operation = "manual" THEN k ELSE NONE
  BY <1>1, <1>3 DEF Key
<1>6. Operation = "manual" => k \in IdempotencyKey
  BY <1>1, <1>3, <1>4 DEF IdempotencyKey
<1> HIDE DEF k
<1>7. Key(op, asked) \in IdempotencyKey \cup {NONE} /\ (Operation = "manual" => Key(op, asked) # NONE)
  BY <1>5, <1>6, PollConstants
<1>8. Requested \in Order
  BY <1>1, <1>3, <1>4, <1>7 DEF Requested, Order
<1> QED
  BY <1>5, <1>7, <1>8 DEF k

\* The provider's orders after a create: the one the call gets is for its bytes and its
\* fee, although the provider compares keys only.
LEMMA AcceptedOrder ==
    ASSUME Inv, pc = "create", NEW i \in OrderFor(Key(op, asked)), Accept(i)
    PROVE  /\ orders' \in Seq(Order) /\ Len(orders') \in Len(orders)..calls
           /\ i \in 1..Len(orders')
           /\ orders'[i].bytes = asked /\ orders'[i].mode = Operation
           /\ Operation = "manual" => orders'[i].fee = conf.fee
           /\ OrderInv' /\ KeysDiffer'
<1> DEFINE k == Key(op, asked)
           o == Requested
<1>0. /\ orders \in Seq(Order) /\ Len(orders) < calls /\ calls \in Nat
      /\ OrderInv /\ KeysDiffer
  BY PollConstants DEF Inv, TypeOK, PollInv
<1>00. DOMAIN orders = 1..Len(orders) /\ Len(orders) \in Nat
  BY <1>0
<1>000. /\ k = IF Operation = "manual" THEN [push |-> "manual", fee |-> conf.fee, bytes |-> asked] ELSE NONE
        /\ Operation = "manual" => k # NONE
        /\ o \in Order
  BY CreateKey
<1>1. CASE i \in 1..Len(orders)
  <2>1. k # NONE /\ orders[i].key = k
    BY <1>1, <1>00 DEF OrderFor, Known
  <2>2. orders' = orders
    BY <1>1, <1>00 DEF Accept
  <2>3. Operation = "manual" /\ k = [push |-> "manual", fee |-> conf.fee, bytes |-> asked]
    BY <1>000, <2>1
  <2>4. orders[i].mode = "manual"
    BY <1>0, <1>00, <1>1, <2>1 DEF OrderInv
  <2>5. orders[i].key = [push |-> "manual", fee |-> orders[i].fee, bytes |-> orders[i].bytes]
    BY <1>0, <1>00, <1>1, <2>4 DEF OrderInv
  <2>6. orders[i].fee = conf.fee /\ orders[i].bytes = asked
    <3> HIDE DEF k
    <3>1. k.fee = conf.fee /\ k.bytes = asked
      BY <2>3
    <3>2. orders[i].key.fee = orders[i].fee /\ orders[i].key.bytes = orders[i].bytes
      BY <2>5
    <3> QED
      BY <2>1, <3>1, <3>2
  <2>7. OrderInv' /\ KeysDiffer'
    BY <1>0, <2>2 DEF OrderInv, KeysDiffer
  <2> QED
    BY <1>0, <1>1, <2>2, <2>3, <2>4, <2>6, <2>7
<1>2. CASE i \notin 1..Len(orders)
  <2>1. i = Len(orders) + 1 /\ Known(k) = {}
    BY <1>2, <1>00 DEF OrderFor, Known
  <2>2. orders' = Append(orders, o)
    BY <1>2, <1>00 DEF Accept
  <2>3. /\ o.mode = Operation /\ o.bytes = asked /\ o.state = "open" /\ o.key = k
        /\ Operation = "manual" => o.fee = conf.fee
    BY DEF Requested
  <2> HIDE DEF o, k
  <2>4. /\ orders' \in Seq(Order) /\ Len(orders') = Len(orders) + 1 /\ orders'[i] = o
        /\ DOMAIN orders' = 1..Len(orders) + 1
        /\ \A j \in 1..Len(orders) : orders'[j] = orders[j]
    BY <1>0, <1>000, <2>1, <2>2
  <2>5. OrderInv'
    <3> SUFFICES ASSUME NEW j \in 1..Len(orders) + 1
                 PROVE  /\ orders'[j].state \in {"broadcast", "reverted"}
                            => orders'[j].mode \in {"program", "utila", "manual"}
                        /\ orders'[j].key = IF orders'[j].mode = "manual"
                              THEN [push |-> "manual", fee |-> orders'[j].fee, bytes |-> orders'[j].bytes]
                              ELSE NONE
                        /\ orders'[j].mode = "manual" => orders'[j].key # NONE
      BY <2>4 DEF OrderInv
    <3>1. CASE j = i
      BY <1>000, <2>3, <2>4, <3>1
    <3>2. CASE j # i
      BY <1>0, <1>00, <2>1, <2>4, <3>2 DEF OrderInv
    <3> QED
      BY <3>1, <3>2
  <2>6. KeysDiffer'
    <3> SUFFICES ASSUME NEW a \in 1..Len(orders) + 1, NEW b \in 1..Len(orders) + 1,
                        orders'[a].key # NONE, orders'[a].key = orders'[b].key
                 PROVE  a = b
      BY <2>4 DEF KeysDiffer
    <3>1. CASE a \in 1..Len(orders) /\ b \in 1..Len(orders)
      BY <1>0, <1>00, <2>4, <3>1 DEF KeysDiffer
    <3>2. CASE a = i /\ b # i
      BY <1>00, <2>1, <2>3, <2>4, <3>2 DEF Known
    <3>3. CASE b = i /\ a # i
      BY <1>00, <2>1, <2>3, <2>4, <3>3 DEF Known
    <3> QED
      BY <1>00, <2>1, <3>1, <3>2, <3>3
  <2> QED
    BY <1>0, <1>00, <2>1, <2>3, <2>4, <2>5, <2>6
<1> QED
  BY <1>1, <1>2

-----------------------------------------------------------------------------
(* Every step keeps the invariant, and is a step of the contract or a stutter. *)

Contract == C!Next \/ UNCHANGED C!vars

\* The contract speaks of the same transactions and of the same helpers.
LEMMA SameSets == C!Signature = Signature /\ C!Signatures = Signatures /\ C!Transaction = Transaction
<1>1. C!Signature = Signature
  BY DEF C!Signature, Signature
<1>2. C!NoSignature = NoSignature
  BY DEF C!NoSignature, NoSignature
<1>3. C!Signatures = Signatures
  BY <1>1, <1>2 DEF C!Signatures, Signatures
<1> QED
  BY <1>1, <1>3 DEF C!Transaction, Transaction

LEMMA SameHelpers ==
    ASSUME NEW t, NEW k, NEW s, NEW bytes
    PROVE  /\ C!verifies(s, k, bytes) = verifies(s, k, bytes)
           /\ C!get_signing_keypair_position(t, k) = get_signing_keypair_position(t, k)
           /\ C!add_signature_to_transaction(t, k, s) = add_signature_to_transaction(t, k, s)
           /\ C!classify_signed_transaction(t) = classify_signed_transaction(t)
           /\ C!signature_at_signer_position(t, k) = signature_at_signer_position(t, k)
<1>1. C!verifies(s, k, bytes) = verifies(s, k, bytes)
  BY DEF C!verifies, verifies
<1>2. C!get_signing_keypair_position(t, k) = get_signing_keypair_position(t, k)
  BY DEF C!get_signing_keypair_position, get_signing_keypair_position, C!Min, Min
<1>3. C!NoSignature = NoSignature
  BY DEF C!NoSignature, NoSignature
<1>4. C!ResizedSlots(t, t.message.need) = ResizedSlots(t, t.message.need)
  BY <1>3 DEF C!ResizedSlots, ResizedSlots
<1>5. C!add_signature_to_transaction(t, k, s) = add_signature_to_transaction(t, k, s)
  BY <1>2, <1>4 DEF C!add_signature_to_transaction, add_signature_to_transaction
<1>6. C!classify_signed_transaction(t) = classify_signed_transaction(t)
  BY <1>3 DEF C!classify_signed_transaction, classify_signed_transaction,
              C!has_all_required_signatures, has_all_required_signatures
<1>7. C!signature_at_signer_position(t, k) = signature_at_signer_position(t, k)
  BY <1>2, <1>3 DEF C!signature_at_signer_position, signature_at_signer_position
<1> QED
  BY <1>1, <1>2, <1>5, <1>6, <1>7

LEMMA OutcomeType ==
    ASSUME NEW kind \in {"None", "Ok", "Available"} \cup C!Failures
    PROVE  C!Outcome(kind) \in C!Results /\ C!Outcome(kind).kind = kind
  BY DEF C!Outcome, C!Results

LEMMA SignedType ==
    ASSUME NEW s \in Signature, NEW class \in {"Complete", "Partial", NONE}
    PROVE  C!Signed(s, class) \in C!Results /\ C!Signed(s, class).kind = "Ok"
<1> DEFINE K == {"None", "Ok", "Available"} \cup C!Failures
           S == Signature \cup {NONE}
           D == {"Complete", "Partial", NONE}
<1>1. "Ok" \in K /\ s \in S /\ class \in D
  OBVIOUS
<1>2. C!Results = [kind: K, signature: S, class: D]
  BY SameSets DEF C!Results
<1>3. C!Signed(s, class) = [kind |-> "Ok", signature |-> s, class |-> class]
  BY DEF C!Signed
<1> HIDE DEF K, S, D
<1> QED
  BY <1>1, <1>2, <1>3

LEMMA InitInv == Init => Inv /\ C!Init
<1> SUFFICES ASSUME Init PROVE Inv /\ C!Init
  OBVIOUS
<1>0. tx \in Transaction /\ result \in C!Results /\ result.kind = "None"
  BY PollConstants, OutcomeType DEF Init
<1>1. TypeOK
  <2>1. orders \in Seq(Order) /\ Len(orders) = 0
    BY DEF Init
  <2> QED
    BY <1>0, <2>1, PollConstants DEF Init, TypeOK
<1>2. CallInv /\ PollInv
  BY DEF Init, CallInv, PollInv
<1>3. OrderInv /\ KeysDiffer
  BY DEF Init, OrderInv, KeysDiffer
<1>4. TimeoutNamesOrder /\ UnconfirmedWasBroadcast
  BY <1>0 DEF TimeoutNamesOrder, UnconfirmedWasBroadcast
<1>5. C!Init
  BY <1>0, SameSets DEF Init, C!Init
<1> QED
  BY <1>1, <1>2, <1>3, <1>4, <1>5 DEF Inv

LEMMA ConstructStep ==
    ASSUME Inv, Construct
    PROVE  Inv' /\ Contract
<1> USE DEF Construct, provider, history
<1>0. /\ key' \in Keys \cup {NONE} /\ key = NONE /\ op = "none"
      /\ result' = result /\ result = C!Outcome("None")
  BY ConfigType DEF Inv, CallInv
<1>1. TypeOK'
  BY <1>0 DEF Inv, TypeOK
<1>2. CallInv'
  BY <1>0 DEF Inv, CallInv, from_config, fireblocks_from_config, utila_new, black_box_from_config,
              native_auto_from_config, manual_from_config, fordefi_build
<1>3. PollInv' /\ OrderInv' /\ KeysDiffer'
  BY DEF Inv, PollInv, OrderInv, KeysDiffer
<1>4. TimeoutNamesOrder' /\ UnconfirmedWasBroadcast'
  BY <1>0, OutcomeType DEF TimeoutNamesOrder, UnconfirmedWasBroadcast
<1>5. Contract
  BY <1>0 DEF Contract, C!Next, C!Configure, C!vars
<1> QED
  BY <1>1, <1>2, <1>3, <1>4, <1>5 DEF Inv

LEMMA MisconfiguredStep ==
    ASSUME Inv, Misconfigured
    PROVE  Inv' /\ Contract
<1> USE DEF Misconfigured, provider, history
<1>0. result' = result /\ result = C!Outcome("None") /\ op = "none"
  BY DEF Inv, CallInv
<1>1. TypeOK'
  BY DEF Inv, TypeOK
<1>2. CallInv' /\ PollInv' /\ OrderInv' /\ KeysDiffer'
  BY <1>0 DEF Inv, CallInv, PollInv, OrderInv, KeysDiffer
<1>3. TimeoutNamesOrder' /\ UnconfirmedWasBroadcast'
  BY <1>0, OutcomeType DEF TimeoutNamesOrder, UnconfirmedWasBroadcast
<1>4. Contract
  BY DEF Contract, C!vars
<1> QED
  BY <1>1, <1>2, <1>3, <1>4 DEF Inv

\* Another signer of the same vault: nothing but the fee of the creates to come changes.
LEMMA OtherFeeStep ==
    ASSUME Inv, OtherFee
    PROVE  Inv' /\ Contract
<1> USE DEF OtherFee, provider, history
<1>0. PICK f \in Fees \cup {NONE} : conf' = [conf EXCEPT !.fee = f]
  OBVIOUS
<1>1. conf \in Config
  BY PollConstants DEF Inv, TypeOK
<1>2. /\ conf'.mode = conf.mode /\ conf'.key = conf.key /\ conf'.wellFormed = conf.wellFormed
      /\ conf'.attempts = conf.attempts /\ conf'.chain = conf.chain /\ conf'.push = conf.push
  BY <1>0, <1>1 DEF Config
<1>3. TypeOK'
  BY DEF Inv, TypeOK
<1>4. from_config(conf)'
  BY <1>2 DEF Inv, CallInv, from_config, fireblocks_from_config, utila_new, black_box_from_config,
              native_auto_from_config, manual_from_config, fordefi_build
<1>5. CallInv'
  BY <1>2, <1>4 DEF Inv, CallInv
<1>6. PollInv' /\ OrderInv' /\ KeysDiffer'
  BY DEF Inv, PollInv, OrderInv, KeysDiffer
<1>7. TimeoutNamesOrder' /\ UnconfirmedWasBroadcast'
  BY <1>2 DEF Inv, TimeoutNamesOrder, UnconfirmedWasBroadcast
<1>8. Contract
  BY DEF Contract, C!vars
<1> QED
  BY <1>3, <1>5, <1>6, <1>7, <1>8 DEF Inv

\* A call asks for the wallet.
LEMMA AskStep ==
    ASSUME Inv, NEW o \in {"init", "available"}, Ask(o), o = "init" => conf.mode \notin Fordefi
    PROVE  Inv' /\ Contract
<1> USE DEF Ask, signer, provider
<1>1. TypeOK'
  BY OutcomeType DEF Inv, TypeOK, C!Operations
<1>2. CallInv'
  BY DEF Inv, CallInv, from_config, fireblocks_from_config, utila_new, black_box_from_config,
         native_auto_from_config, manual_from_config, fordefi_build
<1>3. PollInv' /\ OrderInv' /\ KeysDiffer'
  BY DEF Inv, PollInv, OrderInv, KeysDiffer
<1>4. TimeoutNamesOrder' /\ UnconfirmedWasBroadcast'
  BY OutcomeType DEF TimeoutNamesOrder, UnconfirmedWasBroadcast
<1>5. Contract
  BY DEF Inv, CallInv, Contract, C!Next, C!Begin, C!Operations
<1> QED
  BY <1>1, <1>2, <1>3, <1>4, <1>5 DEF Inv

\* A call creates an order.
LEMMA SubmitStep ==
    ASSUME Inv, calls < MaxCalls, key # NONE,
           NEW o \in {"message", "transaction"}, NEW t \in Texts \cup {NONE}, NEW bytes,
           Submit(o, t, bytes),
           o = "message" => t \in Texts /\ bytes = t /\ conf.mode # "utila",
           o = "transaction" => bytes = tx.message /\ conf.mode # "native_auto"
    PROVE  Inv' /\ Contract
<1> USE DEF Submit, signer, provider
<1>0. bytes \in Messages \cup Texts \cup {NONE} /\ calls' \in 0..MaxCalls /\ Len(orders) < calls'
  BY PollConstants DEF Inv, TypeOK, Transaction
<1>1. TypeOK'
  BY <1>0, OutcomeType DEF Inv, TypeOK, C!Operations
<1>2. CallInv'
  BY DEF Inv, CallInv, from_config, fireblocks_from_config, utila_new, black_box_from_config,
         native_auto_from_config, manual_from_config, fordefi_build
<1>3. PollInv' /\ OrderInv' /\ KeysDiffer'
  BY <1>0 DEF Inv, PollInv, OrderInv, KeysDiffer
<1>4. TimeoutNamesOrder' /\ UnconfirmedWasBroadcast'
  BY OutcomeType DEF TimeoutNamesOrder, UnconfirmedWasBroadcast
<1>5. Contract
  BY DEF Inv, CallInv, Contract, C!Next, C!Begin, C!Operations
<1> QED
  BY <1>1, <1>2, <1>3, <1>4, <1>5 DEF Inv

\* A call returns: the invariant, whatever became of the orders and the transaction.
LEMMA ReturnInv ==
    ASSUME Inv, pc # "new", NEW outcome \in C!Results, NEW h \in 0..Len(orders'),
           Returns(outcome, h),
           tx' \in Transaction, key' \in Keys \cup {NONE}, polls' \in Nat,
           UNCHANGED <<conf, vault, calls, asked, steady>>,
           orders' \in Seq(Order), Len(orders') <= calls, left' \in 0..Len(orders'),
           OrderInv', KeysDiffer',
           outcome.kind = "Timeout" => TimeoutNamesOrder',
           outcome.kind = "Unconfirmed" => UnconfirmedWasBroadcast'
    PROVE  Inv'
<1> USE DEF Returns
<1>1. TypeOK'
  BY DEF Inv, TypeOK
<1>2. CallInv'
  BY DEF Inv, CallInv, from_config, fireblocks_from_config, utila_new, black_box_from_config,
         native_auto_from_config, manual_from_config, fordefi_build
<1>3. PollInv'
  BY DEF PollInv
<1>4. TimeoutNamesOrder' /\ UnconfirmedWasBroadcast'
  BY DEF TimeoutNamesOrder, UnconfirmedWasBroadcast
<1> QED
  BY <1>1, <1>2, <1>3, <1>4 DEF Inv

\* ... and leaves the orders alone.
LEMMA PlainReturnInv ==
    ASSUME Inv, pc # "new", NEW outcome \in C!Results,
           outcome.kind \notin {"Timeout", "Unconfirmed"}, Returns(outcome, 0),
           tx' \in Transaction, key' \in Keys \cup {NONE},
           UNCHANGED <<conf, provider, polls, history>>
    PROVE  Inv'
<1>1. /\ orders' \in Seq(Order) /\ Len(orders') <= calls /\ left' \in 0..Len(orders')
      /\ polls' \in Nat /\ 0 \in 0..Len(orders')
  BY DEF Inv, TypeOK, provider, history
<1>2. OrderInv' /\ KeysDiffer'
  BY DEF Inv, OrderInv, KeysDiffer, provider
<1> QED
  BY <1>1, <1>2, ReturnInv DEF provider, history

\* An error, false or a dropped future.
LEMMA FailsStep ==
    ASSUME Inv, pc # "new", NEW kind \in {"Err", "Unavailable", "Cancelled"}, Fails(kind, 0),
           UNCHANGED <<signer, provider, tx, polls, history>>
    PROVE  Inv' /\ Contract
<1>0. /\ kind \in C!Failures
      /\ C!Outcome(kind) \in C!Results /\ C!Outcome(kind).kind = kind
  BY OutcomeType DEF C!Failures
<1>1. tx' \in Transaction /\ key' \in Keys \cup {NONE}
  BY DEF Inv, TypeOK, signer
<1>2. Inv'
  BY <1>0, <1>1, PlainReturnInv DEF Fails, signer
<1>3. Contract
  BY <1>0 DEF Contract, C!Next, C!Fail, Fails, Returns, signer
<1> QED
  BY <1>2, <1>3

LEMMA RefuseStep ==
    ASSUME Inv, NEW kind \in {"Err", "Unavailable"}, Refuse(kind)
    PROVE  Inv' /\ Contract
  BY FailsStep DEF Refuse

LEMMA CallInitStep ==
    ASSUME Inv, CallInit
    PROVE  Inv' /\ Contract
  BY AskStep DEF CallInit

LEMMA IsAvailableStep ==
    ASSUME Inv, IsAvailable
    PROVE  Inv' /\ Contract
  BY AskStep, RefuseStep DEF IsAvailable

LEMMA SignMessageStep ==
    ASSUME Inv, SignMessage
    PROVE  Inv' /\ Contract
<1>1. PICK t \in Texts :
        IF key = NONE \/ conf.mode = "utila" THEN Refuse("Err") ELSE Submit("message", t, t)
  BY DEF SignMessage
<1>2. calls < MaxCalls
  BY DEF SignMessage
<1>3. CASE key = NONE \/ conf.mode = "utila"
  BY <1>1, <1>3, RefuseStep
<1>4. CASE ~(key = NONE \/ conf.mode = "utila")
  BY <1>1, <1>2, <1>4, SubmitStep
<1> QED
  BY <1>3, <1>4

LEMMA SignTransactionStep ==
    ASSUME Inv, SignTransaction
    PROVE  Inv' /\ Contract
<1>1. calls < MaxCalls /\ conf.mode # "native_auto"
  BY DEF SignTransaction
<1>2. Refuse("Err") \/ (key # NONE /\ Submit("transaction", NONE, tx.message))
  BY DEF SignTransaction
<1> QED
  BY <1>1, <1>2, RefuseStep, SubmitStep

LEMMA EditTransactionStep ==
    ASSUME Inv, EditTransaction
    PROVE  Inv' /\ Contract
<1> USE DEF EditTransaction, signer, provider, history
<1>0. tx' \in Transaction
  BY PollConstants
<1>1. TypeOK'
  BY <1>0 DEF Inv, TypeOK
<1>2. CallInv'
  BY DEF Inv, CallInv, from_config, fireblocks_from_config, utila_new, black_box_from_config,
         native_auto_from_config, manual_from_config, fordefi_build
<1>3. PollInv' /\ OrderInv' /\ KeysDiffer'
  BY DEF Inv, CallInv, PollInv, OrderInv, KeysDiffer
<1>4. TimeoutNamesOrder' /\ UnconfirmedWasBroadcast'
  BY DEF Inv, TimeoutNamesOrder, UnconfirmedWasBroadcast
<1>5. Contract
  BY <1>0, SameSets DEF Contract, C!Next, C!Edit
<1> QED
  BY <1>1, <1>2, <1>3, <1>4, <1>5 DEF Inv

\* The provider changes the vault, or nothing happens.
LEMMA ChangeVaultStep ==
    ASSUME Inv, ChangeVault \/ UNCHANGED vars
    PROVE  Inv' /\ Contract
<1>0. /\ vault' \in Vaults /\ steady' \in BOOLEAN
      /\ UNCHANGED <<conf, key, orders, pc, op, text, tx, id, polls, result, handle, calls, asked, left>>
  BY DEF ChangeVault, vars, signer, provider, history, Inv, TypeOK
<1>1. TypeOK'
  BY <1>0 DEF Inv, TypeOK
<1>2. CallInv'
  BY <1>0 DEF Inv, CallInv, from_config, fireblocks_from_config, utila_new, black_box_from_config,
              native_auto_from_config, manual_from_config, fordefi_build
<1>3. PollInv' /\ OrderInv' /\ KeysDiffer'
  BY <1>0 DEF Inv, PollInv, OrderInv, KeysDiffer, Limit, Operation
<1>4. TimeoutNamesOrder' /\ UnconfirmedWasBroadcast'
  BY <1>0 DEF Inv, TimeoutNamesOrder, UnconfirmedWasBroadcast
<1>5. Contract
  BY <1>0 DEF Contract, C!vars
<1> QED
  BY <1>1, <1>2, <1>3, <1>4, <1>5 DEF Inv

\* The vault's answer names a key or none.
LEMMA FetchedKey ==
    ASSUME TypeOK, NEW r \in {NONE, vault}
    PROVE  fireblocks_init(r) \in Keys \cup {NONE} /\ utila_init(r) \in Keys \cup {NONE}
<1>1. CASE r = NONE
  BY <1>1 DEF fireblocks_init, utila_init
<1>2. CASE r # NONE
  <2>1. r \in SUBSET Entry
    BY <1>2, PollConstants DEF TypeOK
  <2> DEFINE found == {e.address : e \in {x \in r : x.asset # "other"}} \ {NONE}
  <2>2. found \subseteq Keys
    BY <2>1 DEF Entry
  <2>3. select_vault_address(r) \in Keys \cup {NONE}
    <3>1. CASE Cardinality(found) = 1
      <4>1. found # {}
        BY <3>1, FS_EmptySet
      <4>2. (CHOOSE a \in found : TRUE) \in found
        BY <4>1
      <4> QED
        BY <2>2, <3>1, <4>2 DEF select_vault_address
    <3>2. CASE Cardinality(found) # 1
      BY <3>2 DEF select_vault_address
    <3> QED
      BY <3>1, <3>2
  <2>4. fetch_wallet_address(r) \in Keys \cup {NONE}
    <3>1. ASSUME NEW a \in Keys, r = {[address |-> a, asset |-> "same"]}
          PROVE  (CHOOSE e \in r : TRUE).address \in Keys
      <4> DEFINE e0 == [address |-> a, asset |-> "same"]
                 e1 == CHOOSE e \in r : TRUE
      <4>1. e1 = e0
        BY <3>1
      <4>2. e0.address = a
        OBVIOUS
      <4> HIDE DEF e0, e1
      <4>3. e1.address = a
        BY <4>1, <4>2
      <4> QED
        BY <4>3 DEF e1
    <3> QED
      BY <3>1 DEF fetch_wallet_address
  <2> QED
    BY <1>2, <2>3, <2>4 DEF fireblocks_init, utila_init
<1> QED
  BY <1>1, <1>2

LEMMA InitAnsweredStep ==
    ASSUME Inv, InitAnswered
    PROVE  Inv' /\ Contract
<1>0. pc # "new" /\ op = "init" /\ UNCHANGED <<conf, provider, tx, polls, history>>
  BY DEF InitAnswered
<1>1. PICK r \in {NONE, vault} :
        LET k == IF conf.mode = "utila" THEN utila_init(r) ELSE fireblocks_init(r)
        IN  IF k = NONE THEN Fails("Err", 0) /\ UNCHANGED key
            ELSE Returns(C!Outcome("Ok"), 0) /\ key' = k
  BY DEF InitAnswered
<1> DEFINE k == IF conf.mode = "utila" THEN utila_init(r) ELSE fireblocks_init(r)
<1>2. k \in Keys \cup {NONE}
  BY FetchedKey DEF Inv
<1>3. CASE k = NONE
  BY <1>0, <1>1, <1>3, FailsStep DEF signer
<1>4. CASE k # NONE
  <2>1. Returns(C!Outcome("Ok"), 0) /\ key' \in Keys
    BY <1>1, <1>2, <1>4
  <2>2. tx' \in Transaction
    BY <1>0 DEF Inv, TypeOK
  <2>3. Inv'
    BY <1>0, <2>1, <2>2, OutcomeType, PlainReturnInv
  <2>4. C!Learn
    BY <1>0, <2>1 DEF C!Learn, Returns
  <2> QED
    BY <2>3, <2>4 DEF Contract, C!Next
<1> QED
  BY <1>3, <1>4

LEMMA AvailabilityAnsweredStep ==
    ASSUME Inv, AvailabilityAnswered
    PROVE  Inv' /\ Contract
<1>0. pc # "new" /\ op = "available" /\ UNCHANGED <<signer, provider, tx, polls, history>>
  BY DEF AvailabilityAnswered
<1>1. PICK r \in {NONE, vault} :
        Returns(C!Outcome(IF Available(r) THEN "Available" ELSE "Unavailable"), 0)
  BY DEF AvailabilityAnswered
<1>2. CASE ~Available(r)
  BY <1>0, <1>1, <1>2, FailsStep DEF Fails
<1>3. CASE Available(r)
  <2>1. Returns(C!Outcome("Available"), 0)
    BY <1>1, <1>3
  <2>2. tx' \in Transaction /\ key' \in Keys \cup {NONE}
    BY <1>0 DEF Inv, TypeOK, signer
  <2>3. Inv'
    BY <1>0, <2>1, <2>2, OutcomeType, PlainReturnInv DEF signer
  <2>4. C!Report
    BY <1>0, <2>1 DEF C!Report, Returns, signer
  <2> QED
    BY <2>3, <2>4 DEF Contract, C!Next
<1> QED
  BY <1>2, <1>3

\* n answers were read: the loop goes on, or gives up and names the order.
LEMMA WaitsStep ==
    ASSUME Inv, pc \in {"create", "poll"}, NEW i \in 1..Len(orders'), NEW n \in Nat, n <= Limit,
           Waits(i, n), left' = i,
           orders'[i].bytes = asked, orders'[i].mode = Operation,
           Operation = "manual" => orders'[i].fee = conf.fee,
           orders' \in Seq(Order), Len(orders') \in Len(orders)..calls, OrderInv', KeysDiffer',
           UNCHANGED <<signer, vault, tx, calls, asked, steady>>
    PROVE  Inv' /\ Contract
<1> USE DEF signer
<1>0. /\ op \in {"message", "transaction"} /\ from_config(conf) /\ TypeOK
      /\ conf.attempts \in Nat /\ conf.attempts # 0
  BY ConfigType, BuiltConfig DEF Inv, TypeOK, CallInv, C!Operations
<1>00. /\ Len(orders') \in Nat /\ polls' = n
       /\ conf' = conf /\ key' = key /\ vault' = vault /\ tx' = tx
       /\ calls' = calls /\ asked' = asked /\ steady' = steady
  BY DEF Waits
<1>1. CASE n = Limit
  <2>1. Returns(C!Outcome("Timeout"), TimeoutId(i))
    BY <1>1 DEF Waits, Fails
  <2>2. TimeoutId(i) \in 0..Len(orders') /\ left' \in 0..Len(orders')
    BY <1>00 DEF TimeoutId
  <2>3. "Timeout" \in C!Failures
    BY DEF C!Failures
  <2>4. C!Outcome("Timeout") \in C!Results /\ C!Outcome("Timeout").kind = "Timeout"
    BY <2>3, OutcomeType
  <2>5. TimeoutNamesOrder'
    BY <1>0, <1>00, <1>1, <2>1 DEF TimeoutNamesOrder, Limit, TimeoutId, Returns
  <2>6. tx' \in Transaction /\ key' \in Keys \cup {NONE}
    BY <1>00 DEF Inv, TypeOK
  <2>7. Inv'
    BY <1>00, <2>1, <2>2, <2>4, <2>5, <2>6, ReturnInv
  <2>8. C!Fail
    BY <1>00, <2>1, <2>3 DEF C!Fail, Returns
  <2> QED
    BY <2>7, <2>8 DEF Contract, C!Next
<1>2. CASE n # Limit
  <2>1. /\ pc' = "poll" /\ id' = i
        /\ op' = op /\ text' = text /\ result' = result /\ handle' = handle
    BY <1>2 DEF Waits
  <2>2. result = C!Outcome("None") /\ result.kind = "None"
    BY <1>0, OutcomeType DEF Inv, CallInv
  <2>3. handle \in 0..Len(orders')
    BY <1>00 DEF Inv, TypeOK
  <2>4. TypeOK'
    BY <1>00, <2>1, <2>3 DEF Inv, TypeOK
  <2>5. CallInv'
    BY <1>0, <1>00, <2>1
       DEF Inv, CallInv, from_config, fireblocks_from_config, utila_new, black_box_from_config,
           native_auto_from_config, manual_from_config, fordefi_build
  <2>6. PollInv'
    BY <1>0, <1>00, <1>2, <2>1 DEF PollInv, Limit, Operation
  <2>7. TimeoutNamesOrder' /\ UnconfirmedWasBroadcast'
    BY <2>1, <2>2 DEF TimeoutNamesOrder, UnconfirmedWasBroadcast
  <2>8. Contract
    BY <1>00, <2>1 DEF Contract, C!vars
  <2> QED
    BY <2>4, <2>5, <2>6, <2>7, <2>8 DEF Inv
<1> QED
  BY <1>1, <1>2

\* The provider accepts the order and the call fails all the same.
LEMMA AcceptedFails ==
    ASSUME Inv, pc = "create", NEW kind \in {"Err", "Cancelled"}, Fails(kind, 0),
           NEW i \in OrderFor(Key(op, asked)), Accept(i), left' = i,
           UNCHANGED <<signer, vault, tx, polls, calls, asked, steady>>
    PROVE  Inv' /\ Contract
<1>0. /\ kind \in C!Failures
      /\ C!Outcome(kind) \in C!Results /\ C!Outcome(kind).kind = kind
  BY OutcomeType DEF C!Failures
<1>1. /\ orders' \in Seq(Order) /\ Len(orders') \in Len(orders)..calls /\ i \in 1..Len(orders')
      /\ OrderInv' /\ KeysDiffer'
  BY AcceptedOrder
<1>2. /\ tx' \in Transaction /\ key' \in Keys \cup {NONE} /\ polls' \in Nat
      /\ Len(orders') <= calls /\ left' \in 0..Len(orders') /\ 0 \in 0..Len(orders')
  BY <1>1 DEF Inv, TypeOK, signer
<1>3. Inv'
  BY <1>0, <1>1, <1>2, ReturnInv DEF Fails, signer
<1>4. Contract
  BY <1>0 DEF Contract, C!Next, C!Fail, Fails, Returns, signer
<1> QED
  BY <1>3, <1>4

LEMMA CreateAnsweredStep ==
    ASSUME Inv, CreateAnswered
    PROVE  Inv' /\ Contract
<1>0. pc = "create" /\ UNCHANGED <<signer, vault, tx, calls, asked, steady>>
  BY DEF CreateAnswered
<1>1. ASSUME NEW i \in OrderFor(Key(op, asked)), Accept(i), left' = i, Waits(i, 0)
      PROVE  Inv' /\ Contract
  <2>1. 0 <= Limit
    BY ConfigType DEF Inv, Limit
  <2> QED
    BY <1>0, <1>1, <2>1, AcceptedOrder, WaitsStep
<1>2. ASSUME NEW i \in OrderFor(Key(op, asked)), Accept(i), left' = i, Fails("Err", 0), UNCHANGED polls
      PROVE  Inv' /\ Contract
  BY <1>0, <1>2, AcceptedFails
<1>3. ASSUME Fails("Err", 0), UNCHANGED <<orders, left, polls>>
      PROVE  Inv' /\ Contract
  BY <1>0, <1>3, FailsStep DEF provider, history
<1> QED
  BY <1>1, <1>2, <1>3 DEF CreateAnswered

\* Seen by the loop, an order is for the bytes of the call.
LEMMA PolledOrder ==
    ASSUME Inv, pc = "poll"
    PROVE  /\ id \in 1..Len(orders) /\ id = left /\ polls < Limit /\ polls \in Nat /\ Limit \in Nat
           /\ orders[id] \in Order /\ orders[id].bytes = asked /\ orders[id].mode = Operation
           /\ Operation = "manual" => orders[id].fee = conf.fee
           /\ op \in {"message", "transaction"} /\ key \in Keys /\ conf.mode \in Modes
<1>1. conf.mode \in Modes /\ conf.attempts \in Nat
  BY ConfigType DEF Inv
<1>2. op \in {"message", "transaction"}
  BY DEF Inv, TypeOK, CallInv, C!Operations
<1>3. key \in Keys
  BY <1>2 DEF Inv, TypeOK, CallInv
<1> QED
  BY <1>1, <1>2, <1>3 DEF Inv, TypeOK, PollInv, Limit

LEMMA PollPendingStep ==
    ASSUME Inv, PollPending
    PROVE  Inv' /\ Contract
<1>0. /\ pc = "poll" /\ Waits(id, polls + 1) /\ orders' = orders /\ left' = left
      /\ UNCHANGED <<signer, vault, tx, calls, asked, steady>>
  BY DEF PollPending, provider, history
<1>1. /\ id \in 1..Len(orders') /\ left' = id /\ polls + 1 \in Nat /\ polls + 1 <= Limit
      /\ orders'[id].bytes = asked /\ orders'[id].mode = Operation
      /\ Operation = "manual" => orders'[id].fee = conf.fee
  BY <1>0, PolledOrder
<1>2. /\ orders' \in Seq(Order) /\ Len(orders') \in Len(orders)..calls
      /\ OrderInv' /\ KeysDiffer'
  BY <1>0, PollConstants DEF Inv, TypeOK, OrderInv, KeysDiffer
<1> QED
  BY <1>0, <1>1, <1>2, WaitsStep

\* Only a PROGRAM_CALL is reported as broadcast.
LEMMA UnconfirmedOrder ==
    ASSUME Inv, pc = "poll", Seen = "unconfirmed"
    PROVE  conf.mode = "program" /\ orders[id].state = "broadcast"
<1>1. /\ orders[id].state \in {"open", "signed", "broadcast", "reverted", "failed"}
      /\ id \in DOMAIN orders /\ orders[id].mode = Operation /\ conf.mode \in Modes
  BY PolledOrder DEF Order, Inv, TypeOK
<1>2. conf.mode \in Fireblocks /\ orders[id].state = "broadcast"
  BY <1>1 DEF Seen, Modes, Fireblocks, Fordefi, poll_for_completion, poll_signed_transaction,
              poll_for_result
<1>3. Operation \in {"program", "utila", "manual"}
  BY <1>1, <1>2 DEF Inv, OrderInv
<1> QED
  BY <1>1, <1>2, <1>3, OperationType DEF Fireblocks

\* What a loop takes for done was signed; only those of Fordefi take what was broadcast.
LEMMA DoneOrder ==
    ASSUME Inv, pc = "poll", Seen = "done"
    PROVE  orders[id].state \in (IF orders[id].mode \in {"program", "utila"} THEN {"signed"}
                                 ELSE {"signed", "broadcast"})
<1>1. /\ orders[id].state \in {"open", "signed", "broadcast", "reverted", "failed"}
      /\ orders[id].mode = Operation /\ conf.mode \in Modes
  BY PolledOrder DEF Order
<1>2. orders[id].state = "signed" \/ (orders[id].state = "broadcast" /\ conf.mode \in Fordefi)
  BY <1>1 DEF Seen, Modes, Fireblocks, Fordefi, poll_for_completion, poll_signed_transaction,
              poll_for_result
<1>3. conf.mode \in Fordefi => Operation \notin {"program", "utila"}
  BY <1>1, OperationType DEF Fordefi
<1> QED
  BY <1>1, <1>2, <1>3

LEMMA PollTerminalStep ==
    ASSUME Inv, PollTerminal
    PROVE  Inv' /\ Contract
<1>0. pc = "poll" /\ UNCHANGED <<signer, provider, tx, polls, history>>
  BY DEF PollTerminal
<1>1. CASE Fails("Err", 0)
  BY <1>0, <1>1, FailsStep
<1>2. CASE Seen = "unconfirmed" /\ Fails("Unconfirmed", id)
  <2>1. Returns(C!Outcome("Unconfirmed"), id)
    BY <1>2 DEF Fails
  <2>2. "Unconfirmed" \in C!Failures
    BY DEF C!Failures
  <2>3. C!Outcome("Unconfirmed") \in C!Results /\ C!Outcome("Unconfirmed").kind = "Unconfirmed"
    BY <2>2, OutcomeType
  <2>4. /\ conf' = conf /\ key' = key /\ tx' = tx /\ vault' = vault /\ orders' = orders
        /\ polls' = polls /\ calls' = calls /\ asked' = asked /\ left' = left /\ steady' = steady
    BY <1>0 DEF signer, provider, history
  <2>5. id \in 1..Len(orders) /\ orders[id].bytes = asked /\ Len(orders) \in Nat
    BY <1>0, PolledOrder DEF Inv, TypeOK
  <2>6. UnconfirmedWasBroadcast'
    BY <1>0, <1>2, <2>1, <2>4, <2>5, UnconfirmedOrder DEF UnconfirmedWasBroadcast, Returns
  <2>7. /\ tx' \in Transaction /\ key' \in Keys \cup {NONE} /\ polls' \in Nat
        /\ orders' \in Seq(Order) /\ Len(orders') <= calls /\ left' \in 0..Len(orders')
        /\ OrderInv' /\ KeysDiffer' /\ id \in 0..Len(orders')
    BY <2>4, <2>5 DEF Inv, TypeOK, OrderInv, KeysDiffer
  <2>8. Inv'
    BY <1>0, <2>1, <2>3, <2>4, <2>6, <2>7, ReturnInv
  <2>9. C!Fail
    BY <2>1, <2>2, <2>4 DEF C!Fail, Returns
  <2> QED
    BY <2>8, <2>9 DEF Contract, C!Next
<1> QED
  BY <1>1, <1>2 DEF PollTerminal

LEMMA MessageSignedStep ==
    ASSUME Inv, MessageSigned
    PROVE  Inv' /\ Contract
<1>0. /\ pc = "poll" /\ op = "message" /\ text \in Texts /\ asked = text
      /\ UNCHANGED <<signer, provider, tx, polls, history>>
  BY DEF MessageSigned, Inv, CallInv
<1>1. PICK r \in Carried :
        LET s == SignatureIn(r)
        IN  IF s = NONE THEN Fails("Err", 0) ELSE Returns(C!Signed(s, NONE), 0)
  BY DEF MessageSigned
<1> DEFINE s == SignatureIn(r)
<1>2. CASE s = NONE
  BY <1>0, <1>1, <1>2, FailsStep
<1>3. CASE s # NONE
  <2>1. Returns(C!Signed(s, NONE), 0)
    BY <1>1, <1>3
  <2>2. key \in Keys /\ Operation \in Modes \ {"manual"}
    BY <1>0, PolledOrder, OperationType
  <2>3. s \in Signature /\ verifies(s, key, text)
    BY <1>0, <1>3, <2>2, SignatureIsValid
  <2> HIDE DEF s
  <2>4. C!Signed(s, NONE) \in C!Results /\ C!Signed(s, NONE).kind = "Ok"
    BY <2>3, SignedType
  <2>5. tx' \in Transaction /\ key' \in Keys \cup {NONE}
    BY <1>0 DEF Inv, TypeOK, signer
  <2>6. Inv'
    BY <1>0, <2>1, <2>4, <2>5, PlainReturnInv DEF signer
  <2>7. C!SignText
    BY <1>0, <2>1, <2>3, SameSets, SameHelpers DEF C!SignText, Returns, signer
  <2> QED
    BY <2>6, <2>7 DEF Contract, C!Next
<1> QED
  BY <1>2, <1>3

LEMMA TransactionSignedStep ==
    ASSUME Inv, TransactionSigned
    PROVE  Inv' /\ Contract
<1>0. /\ pc = "poll" /\ op = "transaction" /\ conf.mode # "manual" /\ asked = tx.message
      /\ tx \in Transaction
      /\ UNCHANGED <<signer, provider, polls, history>>
  BY DEF TransactionSigned, Inv, CallInv, TypeOK
<1>1. PICK r \in Carried :
        LET s == SignatureIn(r)
        IN  IF s = NONE \/ get_signing_keypair_position(tx, key) = 0
            THEN Fails("Err", 0) /\ UNCHANGED tx
            ELSE /\ tx' = add_signature_to_transaction(tx, key, s)
                 /\ Returns(C!Signed(s, classify_signed_transaction(tx')), 0)
  BY DEF TransactionSigned
<1> DEFINE s == SignatureIn(r)
<1>2. CASE s = NONE \/ get_signing_keypair_position(tx, key) = 0
  BY <1>0, <1>1, <1>2, FailsStep
<1>3. CASE s # NONE /\ get_signing_keypair_position(tx, key) # 0
  <2> DEFINE class == classify_signed_transaction(tx')
  <2>1. tx' = add_signature_to_transaction(tx, key, s) /\ Returns(C!Signed(s, class), 0)
    BY <1>1, <1>3
  <2>2. key \in Keys /\ Operation \in Modes \ {"manual"}
    BY <1>0, PolledOrder, OperationType
  <2>3. s \in Signature /\ verifies(s, key, tx.message)
    BY <1>0, <1>3, <2>2, SignatureIsValid
  <2>4. class \in {"Complete", "Partial"}
    BY DEF classify_signed_transaction
  <2> HIDE DEF s
  <2>5. tx' \in Transaction
    BY <1>0, <1>3, <2>1, <2>3, SlotIsFilled DEF Signatures
  <2>6. C!SignTransaction
    <3>1. class = C!classify_signed_transaction(tx')
      BY SameHelpers
    <3> HIDE DEF class
    <3>2. result' = C!Signed(s, C!classify_signed_transaction(tx'))
      BY <2>1, <3>1 DEF Returns
    <3> QED
      BY <1>0, <1>3, <2>1, <2>3, <3>2, SameSets, SameHelpers DEF C!SignTransaction, Returns, signer
  <2> HIDE DEF class
  <2>7. C!Signed(s, class) \in C!Results /\ C!Signed(s, class).kind = "Ok"
    BY <2>3, <2>4, SignedType
  <2>8. Inv'
    BY <1>0, <2>1, <2>2, <2>5, <2>7, PlainReturnInv DEF signer
  <2> QED
    BY <2>6, <2>8 DEF Contract, C!Next
<1> QED
  BY <1>2, <1>3

LEMMA TransactionRewrittenStep ==
    ASSUME Inv, TransactionRewritten
    PROVE  Inv' /\ Contract
<1>0. /\ pc = "poll" /\ op = "transaction" /\ conf.mode = "manual"
      /\ UNCHANGED <<signer, provider, polls, history>>
  BY DEF TransactionRewritten
<1>1. PICK r \in Carried :
        LET s == modify_and_serialize(r)
        IN  IF s = NONE THEN Fails("Err", 0) /\ UNCHANGED tx
            ELSE /\ tx' = decode_raw_transaction(r)
                 /\ Returns(C!Signed(s, classify_signed_transaction(tx')), 0)
  BY DEF TransactionRewritten
<1> DEFINE s == modify_and_serialize(r)
<1>2. CASE s = NONE
  BY <1>0, <1>1, <1>2, FailsStep
<1>3. CASE s # NONE
  <2> DEFINE class == classify_signed_transaction(tx')
  <2>1. tx' = r.transaction /\ Returns(C!Signed(s, class), 0)
    BY <1>1, <1>3 DEF decode_raw_transaction
  <2>2. key \in Keys
    BY <1>0, PolledOrder
  <2>3. tx' \in Transaction /\ s = extract_and_verify_rewritten_transaction(tx', key)
    BY <1>3, <2>1, CarriedType, PollConstants DEF modify_and_serialize, decode_raw_transaction
  <2>4. class \in {"Complete", "Partial"}
    BY DEF classify_signed_transaction
  <2> HIDE DEF s
  <2>5. /\ s = signature_at_signer_position(tx', key)
        /\ s \in Signature /\ verifies(s, key, tx'.message)
    BY <1>3, <2>2, <2>3, RewriteIsVerified, VerifiedIsMade
  <2>6. C!Rewrite
    <3>1. class = C!classify_signed_transaction(tx')
      BY SameHelpers
    <3>2. s = C!signature_at_signer_position(tx', key)
      BY <2>5, SameHelpers
    <3>3. C!verifies(s, key, tx'.message)
      BY <2>5, SameHelpers
    <3> HIDE DEF class
    <3>4. result' = C!Signed(s, C!classify_signed_transaction(tx'))
      BY <2>1, <3>1 DEF Returns
    <3> QED
      BY <1>0, <2>1, <2>3, <2>5, <3>2, <3>3, <3>4, SameSets DEF C!Rewrite, Returns, signer
  <2> HIDE DEF class
  <2>7. C!Signed(s, class) \in C!Results /\ C!Signed(s, class).kind = "Ok"
    BY <2>4, <2>5, SignedType
  <2>8. Inv'
    BY <1>0, <2>1, <2>2, <2>3, <2>7, PlainReturnInv DEF signer
  <2> QED
    BY <2>6, <2>8 DEF Contract, C!Next
<1> QED
  BY <1>2, <1>3

LEMMA PollFailsStep ==
    ASSUME Inv, PollFails
    PROVE  Inv' /\ Contract
  BY FailsStep DEF PollFails

LEMMA CancelStep ==
    ASSUME Inv, Cancel
    PROVE  Inv' /\ Contract
<1>0. /\ pc # "new" /\ Fails("Cancelled", 0)
      /\ UNCHANGED <<signer, vault, tx, polls, calls, asked, steady>>
  BY DEF Cancel
<1>1. CASE UNCHANGED <<orders, left>>
  BY <1>0, <1>1, FailsStep DEF provider, history
<1>2. CASE pc = "create" /\ \E i \in OrderFor(Key(op, asked)) : Accept(i) /\ left' = i
  BY <1>0, <1>2, AcceptedFails
<1> QED
  BY <1>1, <1>2 DEF Cancel

\* An order keeps its bytes, its terms and its kind, and what was broadcast stays so.
LEMMA ProgressStep ==
    ASSUME Inv, Progress
    PROVE  Inv' /\ Contract
<1>0. /\ UNCHANGED <<conf, key, vault, pc, op, text, tx, id, polls, result, handle>>
      /\ UNCHANGED <<calls, asked, left, steady>>
  BY DEF Progress, signer, history
<1>1. PICK i \in DOMAIN orders, s \in {"signed", "failed", "broadcast", "reverted"} :
        /\ orders' = [orders EXCEPT ![i].state = s]
        /\ orders[i].state = "broadcast" => s = "reverted"
        /\ orders[i].state # "reverted"
        /\ s \in {"broadcast", "reverted"} =>
            orders[i].state = "broadcast" \/ orders[i].mode \in {"program", "utila", "manual"}
  BY DEF Progress, Moves
<1>2. orders \in Seq(Order) /\ Len(orders) \in Nat /\ DOMAIN orders = 1..Len(orders)
  BY DEF Inv, TypeOK
<1> DEFINE o == [orders[i] EXCEPT !.state = s]
<1>3. o \in Order /\ o.mode = orders[i].mode /\ o.bytes = orders[i].bytes /\ o.state = s
      /\ o.key = orders[i].key /\ o.fee = orders[i].fee
  <2>1. orders[i] \in Order
    BY <1>2
  <2> QED
    BY <2>1 DEF Order
<1>4. orders' = [orders EXCEPT ![i] = o]
  BY <1>1
<1> HIDE DEF o
<1>5. /\ orders' \in Seq(Order) /\ Len(orders') = Len(orders) /\ DOMAIN orders' = DOMAIN orders
      /\ orders'[i] = o /\ \A j \in DOMAIN orders : j # i => orders'[j] = orders[j]
  BY <1>1, <1>2, <1>3, <1>4
<1>6. \A j \in DOMAIN orders :
        /\ orders'[j].mode = orders[j].mode /\ orders'[j].bytes = orders[j].bytes
        /\ orders'[j].key = orders[j].key /\ orders'[j].fee = orders[j].fee
        /\ orders[j].state \in {"broadcast", "reverted"} => orders'[j].state \in {"broadcast", "reverted"}
        /\ orders'[j].state \in {"broadcast", "reverted"} =>
            orders[j].state = "broadcast" \/ orders[j].state = "reverted"
            \/ orders[j].mode \in {"program", "utila", "manual"}
  BY <1>1, <1>3, <1>5
<1>7. TypeOK'
  BY <1>0, <1>5 DEF Inv, TypeOK
<1>8. CallInv'
  BY <1>0 DEF Inv, CallInv, from_config, fireblocks_from_config, utila_new, black_box_from_config,
              native_auto_from_config, manual_from_config, fordefi_build
<1>9. PollInv'
  <2>1. id \in 0..Len(orders)
    BY DEF Inv, TypeOK
  <2> QED
    BY <1>0, <1>2, <1>5, <1>6, <2>1 DEF Inv, PollInv, Limit, Operation
<1>10. OrderInv'
  BY <1>5, <1>6 DEF Inv, OrderInv
<1>11. KeysDiffer'
  BY <1>5, <1>6 DEF Inv, KeysDiffer
<1>12. TimeoutNamesOrder' /\ UnconfirmedWasBroadcast'
  <2>1. left \in 0..Len(orders) /\ handle \in 0..Len(orders)
    BY DEF Inv, TypeOK
  <2> QED
    BY <1>0, <1>2, <1>5, <1>6, <2>1 DEF Inv, TimeoutNamesOrder, UnconfirmedWasBroadcast
<1>13. Contract
  BY <1>0 DEF Contract, C!vars
<1> QED
  BY <1>7, <1>8, <1>9, <1>10, <1>11, <1>12, <1>13 DEF Inv

LEMMA NextStep ==
    ASSUME Inv, [Next]_vars
    PROVE  Inv' /\ Contract
<1>1. CASE Construct \/ Misconfigured \/ OtherFee \/ CallInit \/ IsAvailable \/ SignMessage \/ SignTransaction
           \/ EditTransaction \/ Cancel \/ Progress \/ ChangeVault \/ UNCHANGED vars
  BY <1>1, ConstructStep, MisconfiguredStep, OtherFeeStep, CallInitStep, IsAvailableStep, SignMessageStep,
     SignTransactionStep, EditTransactionStep, CancelStep, ProgressStep, ChangeVaultStep
<1>2. CASE Answer
  BY <1>2, InitAnsweredStep, AvailabilityAnsweredStep, CreateAnsweredStep, PollFailsStep,
     PollPendingStep, PollTerminalStep, MessageSignedStep, TransactionSignedStep,
     TransactionRewrittenStep DEF Answer
<1> QED
  BY <1>1, <1>2 DEF Next

LEMMA AlwaysInv == Spec => []Inv
<1>1. Init => Inv
  BY InitInv
<1>2. Inv /\ [Next]_vars => Inv'
  BY NextStep
<1> QED
  BY <1>1, <1>2, PTL DEF Spec

-----------------------------------------------------------------------------
(* The theorems *)

\* Every variable of the polling backends stays within its type; in particular an id
\* always names an order the provider holds, and a result a real signature or none.
THEOREM TypeCorrect == Spec => []TypeOK
<1>1. Inv => TypeOK
  BY DEF Inv
<1> QED
  BY <1>1, AlwaysInv, PTL

\* A poll loop of Fireblocks or Fordefi that gives up has read as many answers as
\* configured, at least one, and names the order of this call's bytes.
THEOREM TimeoutIsNamed == Spec => []TimeoutNamesOrder
<1>1. Inv => TimeoutNamesOrder
  BY DEF Inv
<1> QED
  BY <1>1, AlwaysInv, PTL

\* BroadcastUnconfirmed names a PROGRAM_CALL that Fireblocks has broadcast.
THEOREM UnconfirmedIsBroadcast == Spec => []UnconfirmedWasBroadcast
<1>1. Inv => UnconfirmedWasBroadcast
  BY DEF Inv
<1> QED
  BY <1>1, AlwaysInv, PTL

\* However often it is replayed, a native manual transaction is one order for each fee, and
\* the order a call polls was made for its own fee: the provider compares keys only, and
\* the key determines the bytes and the fee.
THEOREM ReplayMakesOneOrder == Spec => []ReplayIsOneOrder
<1>1. ASSUME Inv, NEW i \in DOMAIN orders, NEW j \in DOMAIN orders,
             orders[i].mode = "manual", orders[j].mode = "manual",
             orders[i].bytes = orders[j].bytes, orders[i].fee = orders[j].fee
      PROVE  i = j
  <2>1. orders[i].key = orders[j].key /\ orders[i].key # NONE
    BY <1>1 DEF Inv, OrderInv
  <2> QED
    BY <1>1, <2>1 DEF Inv, KeysDiffer
<1>2. Inv /\ pc = "poll" /\ Operation = "manual" =>
        orders[id].mode = "manual" /\ orders[id].bytes = asked /\ orders[id].fee = conf.fee
  BY DEF Inv, PollInv
<1>3. Inv => ReplayIsOneOrder
  BY <1>1, <1>2 DEF ReplayIsOneOrder
<1> QED
  BY <1>3, AlwaysInv, PTL

\* Each polling backend implements the signer traits: every step is a step of
\* SignerContract or invisible to the caller.
THEOREM ImplementsContract == Spec => KeepsContract
<1>1. Init => C!Init
  BY InitInv
<1>2. Inv /\ [Next]_vars => [C!Next]_(C!vars)
  BY NextStep DEF Contract
<1> QED
  BY <1>1, <1>2, AlwaysInv, PTL DEF Spec, KeepsContract, C!Spec

\* Only the end of a poll loop that saw the order done returns a signature.
LEMMA SignatureStep ==
    ASSUME Inv, [Next]_vars, result'.signature # NONE, result'.signature # result.signature
    PROVE  pc = "poll" /\ Seen = "done"
<1>0. result' # result /\ \A kind : result' # C!Outcome(kind)
  BY DEF C!Outcome
<1>1. ~UNCHANGED vars
  BY <1>0 DEF vars
<1>2. ~(Construct \/ Misconfigured \/ OtherFee \/ EditTransaction \/ Progress \/ ChangeVault)
  BY <1>0 DEF Construct, Misconfigured, OtherFee, EditTransaction, Progress, ChangeVault
<1>3. ~(CallInit \/ IsAvailable \/ SignMessage \/ SignTransaction)
  BY <1>0 DEF CallInit, IsAvailable, SignMessage, SignTransaction, Ask, Refuse, Submit, Fails, Returns
<1>4. ~(InitAnswered \/ AvailabilityAnswered \/ PollFails \/ PollTerminal \/ Cancel)
  BY <1>0 DEF InitAnswered, AvailabilityAnswered, PollFails, PollTerminal, Cancel, Fails, Returns
<1>5. ~(CreateAnswered \/ PollPending)
  BY <1>0 DEF CreateAnswered, PollPending, Waits, Fails, Returns
<1>6. MessageSigned \/ TransactionSigned \/ TransactionRewritten
  BY <1>1, <1>2, <1>3, <1>4, <1>5 DEF Next, Answer
<1> QED
  BY <1>6 DEF MessageSigned, TransactionSigned, TransactionRewritten

\* No call returns a signature of an order that is unfinished or failed, or of other bytes
\* than its own, and none of a PROGRAM_CALL or Utila transaction seen as broadcast.
THEOREM OkIsSigned == Spec => OkMeansProviderSigned
<1> DEFINE Taken == result'.signature # NONE /\ result'.signature # result.signature
                     =>
                    /\ orders[id].bytes = asked
                    /\ orders[id].state \in (IF orders[id].mode \in {"program", "utila"} THEN {"signed"}
                                             ELSE {"signed", "broadcast"})
<1>1. Inv /\ [Next]_vars => [Taken]_vars
  BY SignatureStep, PolledOrder, DoneOrder
<1> QED
  BY <1>1, AlwaysInv, PTL DEF Spec, OkMeansProviderSigned

\* The addresses found in the vault are finitely many, so that "exactly one" is a singleton.
LEMMA VaultAddress ==
    ASSUME TypeOK, select_vault_address(vault) # NONE
    PROVE  \A e \in vault : e.asset # "other" => e.address \in {select_vault_address(vault), NONE}
<1> DEFINE listed == {x \in vault : x.asset # "other"}
           addresses == {e.address : e \in listed}
           found == addresses \ {NONE}
<1>1. Cardinality(found) = 1 /\ select_vault_address(vault) = CHOOSE a \in found : TRUE
  BY DEF select_vault_address
<1>2. IsFiniteSet(listed)
  BY PollConstants, FS_Subset DEF TypeOK
<1>3. IsFiniteSet(addresses)
  <2> DEFINE f == [e \in listed |-> e.address]
  <2>1. f \in Surjection(listed, addresses)
    BY DEF Surjection
  <2> HIDE DEF f, listed, addresses
  <2> QED
    BY <1>2, <2>1, FS_Surjection
<1>4. IsFiniteSet(found)
  BY <1>3, FS_Subset
<1>5. PICK a : found = {a}
  BY <1>1, <1>4, FS_Singleton
<1>6. select_vault_address(vault) = a
  BY <1>1, <1>5
<1> QED
  BY <1>5, <1>6

\* init binds a Fireblocks or Utila signer only to a vault with a single address.
THEOREM FetchedKeyUnambiguous == Spec => FetchedKeyIsUnambiguous
<1> DEFINE Single == op = "init" /\ result'.kind = "Ok" =>
                        \A e \in vault : e.asset # "other" => e.address \in {key', NONE}
<1>1. ASSUME Inv, [Next]_vars, op = "init", result'.kind = "Ok"
      PROVE  InitAnswered
  <2>0. /\ pc = "wallet" /\ result.kind = "None" /\ result' # result
        /\ \A kind \in C!Failures \cup {"None"} : result' # C!Outcome(kind)
    BY <1>1, OutcomeType DEF Inv, CallInv, C!Failures
  <2>1. ~(UNCHANGED vars \/ EditTransaction \/ Progress \/ ChangeVault)
    BY <2>0 DEF vars, EditTransaction, Progress, ChangeVault
  <2>2. ~(Construct \/ Misconfigured \/ OtherFee \/ CallInit \/ IsAvailable \/ SignMessage \/ SignTransaction)
    BY <2>0 DEF Construct, Misconfigured, OtherFee, CallInit, IsAvailable, SignMessage, SignTransaction,
                Ask, Refuse, Submit
  <2>3. ~Cancel
    BY <2>0 DEF Cancel, Fails, Returns, C!Failures
  <2>4. ~(AvailabilityAnswered \/ CreateAnswered \/ PollFails \/ PollPending \/ PollTerminal
          \/ MessageSigned \/ TransactionSigned \/ TransactionRewritten)
    BY <1>1, <2>0 DEF AvailabilityAnswered, CreateAnswered, PollFails, PollPending, PollTerminal,
                      MessageSigned, TransactionSigned, TransactionRewritten
  <2> QED
    BY <1>1, <2>1, <2>2, <2>3, <2>4 DEF Next, Answer
<1>2. ASSUME Inv, InitAnswered, result'.kind = "Ok", NEW e \in vault, e.asset # "other"
      PROVE  e.address \in {key', NONE}
  <2>1. PICK r \in {NONE, vault} :
          LET k == IF conf.mode = "utila" THEN utila_init(r) ELSE fireblocks_init(r)
          IN  IF k = NONE THEN Fails("Err", 0) /\ UNCHANGED key
              ELSE Returns(C!Outcome("Ok"), 0) /\ key' = k
    BY <1>2 DEF InitAnswered
  <2> DEFINE k == IF conf.mode = "utila" THEN utila_init(r) ELSE fireblocks_init(r)
  <2>2. ~Fails("Err", 0)
    BY <1>2, OutcomeType DEF Fails, Returns, C!Failures
  <2>3. k # NONE /\ key' = k
    BY <2>1, <2>2
  <2>4. r = vault
    BY <2>3 DEF utila_init, fireblocks_init
  <2>5. CASE conf.mode = "utila"
    <3>1. fetch_wallet_address(vault) # NONE /\ key' = fetch_wallet_address(vault)
      BY <2>3, <2>4, <2>5 DEF utila_init
    <3>2. PICK a \in Keys : vault = {[address |-> a, asset |-> "same"]}
      BY <3>1 DEF fetch_wallet_address
    <3>3. key' = (CHOOSE x \in vault : TRUE).address
      BY <3>1 DEF fetch_wallet_address
    <3>4. (CHOOSE x \in vault : TRUE) = e
      BY <3>2
    <3> QED
      BY <3>3, <3>4
  <2>6. CASE conf.mode # "utila"
    <3>1. select_vault_address(vault) # NONE /\ key' = select_vault_address(vault)
      BY <2>3, <2>4, <2>6 DEF fireblocks_init
    <3> QED
      BY <1>2, <3>1, VaultAddress DEF Inv
  <2> QED
    BY <2>5, <2>6
<1>3. Inv /\ [Next]_vars => [Single]_vars
  BY <1>1, <1>2
<1> QED
  BY <1>3, AlwaysInv, PTL DEF Spec, FetchedKeyIsUnambiguous
=============================================================================
