------------------------ MODULE SignAndSend_proofs ------------------------
(* Theorems about SignAndSend, for any signers, transactions and number of calls. *)
EXTENDS SignAndSend, Transactions_proofs, FiniteSetTheorems, SequenceTheorems, TLAPS

-----------------------------------------------------------------------------
(* The inductive invariant *)

\* A call belongs to an open signer and has returned nothing yet.
CallInv ==
    pc # "idle" =>
        /\ who \in Signers /\ key[who] \in Keys
        /\ op \in {"sign", "send"}
        /\ pc = "sending" => op = "send"
        /\ pc = "providing" => op = "send"
        /\ result.kind = "None"

\* While the application still retries, nothing is out except what a send in progress
\* has just handed over.
RetryInv ==
    /\ pc # "idle" => ~settled
    /\ ~settled /\ pc # "sending" => handed = {}
    /\ ~settled /\ pc # "sending" /\ ~unnamed => flight = {}
    /\ ~unnamed => \A a, b \in flight : a = b

\* The caller's send holds the caller's transaction, which a signature identifies.
SendInv ==
    pc = "sending" =>
        /\ handed = {[tx |-> tx, key |-> key[who]]}
        /\ FirstSignature(tx) \in Signature

Inv == TypeOK /\ CallInv /\ RetryInv /\ SendInv /\ OnlyCompleteIsSent /\ UnconfirmedNamesTransaction

LEMMA FirstSignatureType ==
    ASSUME NEW t \in Transaction
    PROVE  FirstSignature(t) \in Signatures \cup {NONE}
  BY DEF FirstSignature, Transaction

LEMMA InitInv == Init => Inv
<1> SUFFICES ASSUME Init PROVE Inv
  OBVIOUS
<1>1. TypeOK
  <2>1. tx \in Transaction /\ calls \in 0..MaxCalls
    BY SendConstants DEF Init
  <2>2. result \in Results
    BY DEF Init, Results, Outcome
  <2> QED
    BY <2>1, <2>2 DEF Init, TypeOK
<1>2. CallInv /\ RetryInv /\ SendInv
  BY DEF Init, CallInv, RetryInv, SendInv
<1>3. OnlyCompleteIsSent /\ UnconfirmedNamesTransaction
  BY DEF Init, OnlyCompleteIsSent, UnconfirmedNamesTransaction, Outcome
<1> QED
  BY <1>1, <1>2, <1>3 DEF Inv

\* The invariant outside a call, for the actions of the application.
LEMMA OpenInv ==
    ASSUME Inv, NEW s \in Signers, Open(s) \/ OpenFails(s)
    PROVE  Inv'
<1> USE DEF Open, OpenFails, appVars
<1>1. TypeOK'
  <2>1. key' \in [Signers -> Keys \cup {NONE}]
    BY SendConstants DEF Inv, TypeOK
  <2>2. result' \in Results
    BY DEF Results, Outcome
  <2> QED
    BY <2>1, <2>2 DEF Inv, TypeOK
<1>2. CallInv' /\ RetryInv' /\ SendInv'
  BY DEF Inv, CallInv, RetryInv, SendInv
<1>3. OnlyCompleteIsSent' /\ UnconfirmedNamesTransaction'
  BY DEF Inv, OnlyCompleteIsSent, UnconfirmedNamesTransaction, Outcome
<1> QED
  BY <1>1, <1>2, <1>3 DEF Inv

LEMMA BeginInv ==
    ASSUME Inv, NEW s \in Signers, Sign(s) \/ sign_and_send(s)
    PROVE  Inv'
<1> USE DEF Sign, sign_and_send, Begin, IsOpen
<1>1. TypeOK'
  <2>1. calls' \in 0..MaxCalls
    BY SendConstants DEF Inv, TypeOK
  <2>2. result' \in Results
    BY DEF Results, Outcome
  <2> QED
    BY <2>1, <2>2 DEF Inv, TypeOK
<1>2. CallInv'
  BY DEF Inv, TypeOK, CallInv, Outcome
<1>3. RetryInv' /\ SendInv'
  BY DEF Inv, RetryInv, SendInv
<1>4. OnlyCompleteIsSent' /\ UnconfirmedNamesTransaction'
  BY DEF Inv, OnlyCompleteIsSent, UnconfirmedNamesTransaction, Outcome
<1> QED
  BY <1>1, <1>2, <1>3, <1>4 DEF Inv

LEMMA RebuildInv ==
    ASSUME Inv, Rebuild
    PROVE  Inv'
<1> USE DEF Rebuild, appVars
<1>1. TypeOK'
  BY SendConstants DEF Inv, TypeOK
<1>2. CallInv' /\ RetryInv' /\ SendInv'
  BY DEF Inv, CallInv, RetryInv, SendInv
<1>3. OnlyCompleteIsSent' /\ UnconfirmedNamesTransaction'
  BY DEF Inv, OnlyCompleteIsSent, UnconfirmedNamesTransaction
<1> QED
  BY <1>1, <1>2, <1>3 DEF Inv

LEMMA LandInv ==
    ASSUME Inv, Land
    PROVE  Inv'
<1> USE DEF Land, appVars
<1>1. TypeOK'
  BY DEF Inv, TypeOK
<1>2. CallInv' /\ RetryInv' /\ SendInv'
  BY DEF Inv, CallInv, RetryInv, SendInv
<1>3. OnlyCompleteIsSent' /\ UnconfirmedNamesTransaction'
  BY DEF Inv, OnlyCompleteIsSent, UnconfirmedNamesTransaction
<1> QED
  BY <1>1, <1>2, <1>3 DEF Inv

\* A call that returns without a new hand-over: what it leaves in flight is nothing
\* new, or one transaction with a call that settles or leaves it unnamed.
LEMMA ReturnsInv ==
    ASSUME Inv, pc # "idle", NEW outcome \in Results, Returns(outcome),
           UNCHANGED <<cast, key, calls, handed, landed>>,
           tx' \in Transaction, unnamed' \in BOOLEAN, unnamed => unnamed',
           flight' = flight \/ \E t \in Transaction : flight' = flight \cup {t},
           flight' # flight => \/ pc = "providing" /\ (unnamed' \/ outcome.kind # "Err")
                               \/ pc = "signing" /\ outcome.kind = "Unconfirmed",
           outcome.kind # "None",
           pc = "sending" => outcome.kind # "Err",
           outcome.kind = "Unconfirmed" /\ outcome.signature # NONE =>
               pc = "sending" /\ outcome.signature = tx.signatures[1]
    PROVE  Inv'
<1> USE DEF Returns
<1>1. TypeOK'
  <2>1. flight' \in SUBSET Transaction /\ landed' \subseteq flight'
    BY SendConstants DEF Inv, TypeOK
  <2> QED
    BY <2>1 DEF Inv, TypeOK
<1>2. CallInv' /\ SendInv'
  BY DEF Inv, CallInv, SendInv
<1>3. RetryInv'
  <2>0. outcome.kind \in {"Ok", "Err", "Unconfirmed", "Cancelled"}
    BY DEF Results
  <2>1. settled' \in BOOLEAN /\ (settled => settled')
    BY DEF Inv, TypeOK
  <2>2. CASE op # "send" /\ outcome.kind # "Unconfirmed"
    BY <2>1, <2>2 DEF Inv, TypeOK, CallInv, RetryInv
  <2>5. CASE op # "send" /\ outcome.kind = "Unconfirmed"
    BY <2>1, <2>5 DEF Inv, TypeOK, CallInv, RetryInv
  <2>3. CASE op = "send" /\ outcome.kind # "Err"
    BY <2>0, <2>1, <2>3 DEF Inv, CallInv, RetryInv
  <2>4. CASE op = "send" /\ outcome.kind = "Err"
    BY <2>0, <2>1, <2>4 DEF Inv, CallInv, RetryInv
  <2> QED
    BY <2>2, <2>3, <2>4, <2>5
<1>4. OnlyCompleteIsSent'
  BY DEF Inv, OnlyCompleteIsSent
<1>5. UnconfirmedNamesTransaction'
  BY DEF Inv, SendInv, UnconfirmedNamesTransaction
<1> QED
  BY <1>1, <1>2, <1>3, <1>4, <1>5 DEF Inv

\* What a signing call does with the transaction that carries the signer's valid
\* signature in one of its slots: broadcast_complete, or the answer of a sign alone.
LEMMA ProceedInv ==
    ASSUME Inv, pc = "signing", NEW t \in Transaction, NEW s \in Signature, tx' = t,
           NEW i \in 1..t.message.need, t.message.keys[i] = key[who],
           t.signatures[i] = s, verifies(s, key[who], t.message),
           Proceed(t, s), UNCHANGED <<cast, key, calls, unnamed, landed>>
    PROVE  Inv'
<1>0. Outcome("Ok", s) \in Results /\ Outcome("Err", NONE) \in Results
  BY DEF Results, Outcome, Signatures
<1>1. CASE op # "send"
  <2>1. Returns(Outcome("Ok", s)) /\ UNCHANGED <<handed, flight>>
    BY <1>1 DEF Proceed
  <2> QED
    BY <1>0, <2>1, ReturnsInv DEF Inv, TypeOK, Outcome
<1>2. CASE op = "send" /\ (~has_all_required_signatures(t) \/ FirstSignature(t) \in {NONE, NoSignature})
  <2>1. Returns(Outcome("Err", NONE)) /\ UNCHANGED <<handed, flight>>
    BY <1>2 DEF Proceed, broadcast_complete
  <2> QED
    BY <1>0, <2>1, ReturnsInv DEF Inv, TypeOK, Outcome
<1>3. CASE op = "send" /\ has_all_required_signatures(t) /\ FirstSignature(t) \notin {NONE, NoSignature}
  <2> DEFINE h == [tx |-> t, key |-> key[who]]
  <2>1. /\ handed' = handed \cup {h} /\ flight' = flight \cup {t}
        /\ pc' = "sending" /\ UNCHANGED <<who, op, result, settled>>
    BY <1>3 DEF Proceed, broadcast_complete
  <2>2. who \in Signers /\ key[who] \in Keys /\ ~settled /\ handed = {} /\ result.kind = "None"
    BY <1>3 DEF Inv, CallInv, RetryInv
  <2>3. h \in [tx: Transaction, key: Keys]
    BY <2>2
  <2>4. TypeOK'
    <3> HIDE DEF h
    <3> QED
      BY <2>1, <2>3 DEF Inv, TypeOK
  <2>5. CallInv'
    BY <1>3, <2>1, <2>2 DEF CallInv
  <2>6. RetryInv'
    BY <1>3, <2>1, <2>2 DEF Inv, RetryInv
  <2>7. SendInv'
    <3>1. FirstSignature(t) \in Signature
      BY <1>3, FirstSignatureType DEF Signatures
    <3>2. FirstSignature(tx)' = FirstSignature(t)
      BY DEF FirstSignature
    <3> QED
      BY <2>1, <2>2, <3>1, <3>2 DEF SendInv
  <2>8. OnlyCompleteIsSent'
    <3>1. handed' = {h}
      BY <2>1, <2>2
    <3>2. h.tx = t /\ h.key = key[who]
      OBVIOUS
    <3> HIDE DEF h
    <3> QED
      BY <1>3, <3>1, <3>2 DEF OnlyCompleteIsSent, has_all_required_signatures
  <2>9. UnconfirmedNamesTransaction'
    BY <2>1, <2>2 DEF UnconfirmedNamesTransaction
  <2> QED
    BY <2>4, <2>5, <2>6, <2>7, <2>8, <2>9 DEF Inv
<1> QED
  BY <1>1, <1>2, <1>3

LEMMA TransactionSignedInv ==
    ASSUME Inv, TransactionSigned
    PROVE  Inv'
<1> DEFINE s == [by |-> key[who], over |-> tx.message]
           i == get_signing_keypair_position(tx, key[who])
           t == add_signature_to_transaction(tx, key[who], s)
<1>1. /\ pc = "signing" /\ i # 0 /\ tx' = t /\ Proceed(t, s)
      /\ UNCHANGED <<cast, key, calls, unnamed, landed>>
  BY DEF TransactionSigned
<1>2. tx \in Transaction /\ key[who] \in Keys
  BY <1>1 DEF Inv, TypeOK, CallInv
<1>3. s \in Signature /\ s \in Signatures
  BY <1>2 DEF Signature, Signatures, Transaction
<1>4. verifies(s, key[who], tx.message)
  BY DEF verifies
<1>5. i \in 1..tx.message.need /\ tx.message.keys[i] = key[who]
  BY <1>1, <1>2, PositionIsOwnSlot
<1> HIDE DEF s
<1>6. t \in Transaction /\ t.message = tx.message /\ t.signatures[i] = s
  BY <1>1, <1>2, <1>3, SlotIsFilled
<1> HIDE DEF i, t
<1> QED
  BY <1>1, <1>3, <1>4, <1>5, <1>6, ProceedInv

LEMMA TransactionRewrittenInv ==
    ASSUME Inv, TransactionRewritten
    PROVE  Inv'
<1>1. PICK t \in Rewritten :
        LET s == extract_and_verify_rewritten_transaction(t, key[who])
        IN  s # NONE /\ tx' = t /\ Proceed(t, s)
  BY DEF TransactionRewritten
<1> DEFINE s == extract_and_verify_rewritten_transaction(t, key[who])
           i == get_signing_keypair_position(t, key[who])
<1>2. /\ pc = "signing" /\ tx' = t /\ Proceed(t, s) /\ t \in Transaction
      /\ UNCHANGED <<cast, key, calls, unnamed, landed>>
  BY <1>1, SendConstants DEF TransactionRewritten
<1>3. i # 0 /\ s = t.signatures[i] /\ s # NoSignature /\ s \in Signatures
      /\ verifies(s, key[who], t.message)
  BY <1>1, <1>2, RewriteIsVerified
<1>4. i \in 1..t.message.need /\ t.message.keys[i] = key[who]
  BY <1>2, <1>3, PositionIsOwnSlot
<1>5. s \in Signature
  BY <1>3 DEF Signatures
<1> HIDE DEF s, i
<1> QED
  BY <1>2, <1>3, <1>4, <1>5, ProceedInv

LEMMA SigningFailsInv ==
    ASSUME Inv, SigningFails
    PROVE  Inv'
<1>1. Outcome("Err", NONE) \in Results
  BY DEF Results, Outcome
<1> QED
  BY <1>1, ReturnsInv DEF SigningFails, Inv, TypeOK, Outcome

LEMMA SigningUnconfirmedInv ==
    ASSUME Inv, SigningUnconfirmed
    PROVE  Inv'
<1> DEFINE s == [by |-> key[who], over |-> tx.message]
           t == add_signature_to_transaction(tx, key[who], s)
           o == Outcome("Unconfirmed", NONE)
<1>1. /\ pc = "signing" /\ get_signing_keypair_position(tx, key[who]) # 0
      /\ flight' = flight \cup {t} /\ Returns(o)
      /\ UNCHANGED <<cast, key, calls, unnamed, tx, handed, landed>>
  BY DEF SigningUnconfirmed
<1>2. tx \in Transaction /\ key[who] \in Keys /\ unnamed \in BOOLEAN
  BY <1>1 DEF Inv, TypeOK, CallInv
<1>3. s \in Signatures
  BY <1>2 DEF Signature, Signatures, Transaction
<1>4. o \in Results /\ o.kind = "Unconfirmed" /\ o.signature = NONE
  BY DEF Results, Outcome
<1> HIDE DEF s
<1>5. t \in Transaction
  BY <1>1, <1>2, <1>3, SlotIsFilled
<1> HIDE DEF t, o
<1> QED
  BY <1>1, <1>2, <1>4, <1>5, ReturnsInv

LEMMA SendReturnsInv ==
    ASSUME Inv, SendReturns
    PROVE  Inv'
<1>1. pc = "sending" /\ FirstSignature(tx) \in Signature
  BY DEF SendReturns, Inv, SendInv
<1>2. FirstSignature(tx) = tx.signatures[1]
  BY <1>1, TransactionConstants DEF FirstSignature, Signatures
<1>3. PICK kind \in {"Ok", "Unconfirmed"}, signature \in Signatures :
        /\ Returns(Outcome(kind, signature))
        /\ kind = "Unconfirmed" => signature = FirstSignature(tx)
  BY <1>1 DEF SendReturns, SendError, Signatures
<1>4. Outcome(kind, signature) \in Results
  BY <1>3 DEF Results, Outcome
<1>5. Outcome(kind, signature).kind = kind /\ Outcome(kind, signature).signature = signature
  BY DEF Outcome
<1>6. UNCHANGED <<cast, key, calls, unnamed, tx, handed, flight, landed>>
  BY DEF SendReturns
<1>7. tx' \in Transaction /\ unnamed' \in BOOLEAN
  BY <1>6 DEF Inv, TypeOK
<1> QED
  BY <1>1, <1>2, <1>3, <1>4, <1>5, <1>6, <1>7, ReturnsInv

LEMMA ProviderReturnsInv ==
    ASSUME Inv, ProviderReturns
    PROVE  Inv'
<1>0. /\ pc = "providing" /\ UNCHANGED <<cast, key, calls, tx, handed, landed>>
      /\ tx' \in Transaction /\ unnamed \in BOOLEAN
      /\ Rewritten \subseteq Transaction
  BY SendConstants DEF ProviderReturns, Inv, TypeOK
<1>1. ASSUME NEW t \in Rewritten, NEW signature \in Signatures,
             flight' = flight \cup {t}, unnamed' = (unnamed \/ signature = NoSignature),
             Returns(require_broadcast_signature(signature))
      PROVE  Inv'
  <2> DEFINE o == require_broadcast_signature(signature)
  <2>1. CASE signature = NoSignature
    <3>1. o = Outcome("Err", NONE) /\ o \in Results /\ o.kind = "Err" /\ unnamed' = TRUE
      BY <1>1, <2>1 DEF require_broadcast_signature, Outcome, Results
    <3> HIDE DEF o
    <3> QED
      BY <1>0, <1>1, <3>1, ReturnsInv DEF o
  <2>2. CASE signature # NoSignature
    <3>1. o \in Results /\ o.kind = "Ok" /\ unnamed' = unnamed
      BY <1>0, <1>1, <2>2 DEF require_broadcast_signature, Outcome, Results, Signatures
    <3> HIDE DEF o
    <3> QED
      BY <1>0, <1>1, <3>1, ReturnsInv DEF o
  <2> QED
    BY <2>1, <2>2
<1>2. ASSUME NEW kept \in {{}} \cup {{t} : t \in Rewritten}, flight' = flight \cup kept,
             Returns(Outcome("Unconfirmed", NONE)), UNCHANGED unnamed
      PROVE  Inv'
  <2> DEFINE o == Outcome("Unconfirmed", NONE)
  <2>1. o \in Results /\ o.kind = "Unconfirmed" /\ o.signature = NONE
    BY DEF Outcome, Results
  <2>2. flight' = flight \/ \E t \in Transaction : flight' = flight \cup {t}
    BY <1>0, <1>2
  <2> HIDE DEF o
  <2> QED
    BY <1>0, <1>2, <2>1, <2>2, ReturnsInv DEF o
<1>3. ASSUME Returns(Outcome("Err", NONE)), UNCHANGED <<flight, unnamed>>
      PROVE  Inv'
  <2> DEFINE o == Outcome("Err", NONE)
  <2>1. o \in Results /\ o.kind = "Err"
    BY DEF Outcome, Results
  <2> HIDE DEF o
  <2> QED
    BY <1>0, <1>3, <2>1, ReturnsInv DEF o
<1> QED
  BY <1>1, <1>2, <1>3 DEF ProviderReturns

LEMMA CancelInv ==
    ASSUME Inv, Cancel
    PROVE  Inv'
<1> DEFINE o == Outcome("Cancelled", NONE)
<1>1. o \in Results /\ o.kind = "Cancelled"
  BY DEF Outcome, Results
<1>2. /\ pc # "idle" /\ Returns(o) /\ UNCHANGED <<cast, key, calls, unnamed, tx, handed, landed>>
      /\ tx' \in Transaction /\ unnamed' \in BOOLEAN
  BY DEF Cancel, Inv, TypeOK
<1>3. \/ flight' = flight
      \/ pc = "providing" /\ \E t \in Rewritten : flight' = flight \cup {t}
  BY DEF Cancel
<1> HIDE DEF o
<1> QED
  BY <1>1, <1>2, <1>3, SendConstants, ReturnsInv

LEMMA NextInv == Inv /\ [Next]_vars => Inv'
<1> SUFFICES ASSUME Inv, [Next]_vars PROVE Inv'
  OBVIOUS
<1>1. CASE UNCHANGED vars
  BY <1>1 DEF vars, appVars, Inv, TypeOK, CallInv, RetryInv, SendInv, OnlyCompleteIsSent,
              UnconfirmedNamesTransaction
<1>2. ASSUME NEW s \in Signers, Open(s) \/ OpenFails(s) \/ Sign(s) \/ sign_and_send(s)
      PROVE  Inv'
  BY <1>2, OpenInv, BeginInv
<1>3. CASE Rebuild \/ TransactionSigned \/ TransactionRewritten \/ SigningFails
           \/ SigningUnconfirmed \/ SendReturns \/ ProviderReturns \/ Cancel \/ Land
  BY <1>3, RebuildInv, TransactionSignedInv, TransactionRewrittenInv, SigningFailsInv,
     SigningUnconfirmedInv, SendReturnsInv, ProviderReturnsInv, CancelInv, LandInv
<1> QED
  BY <1>1, <1>2, <1>3 DEF Next

LEMMA AlwaysInv == Spec => []Inv
  BY InitInv, NextInv, PTL DEF Spec

-----------------------------------------------------------------------------
(* The theorems *)

\* Every variable of the application and of the unified signer stays within its type.
THEOREM TypeCorrect == Spec => []TypeOK
<1>1. Inv => TypeOK
  BY DEF Inv
<1> QED
  BY <1>1, AlwaysInv, PTL

\* sign_and_send hands the caller's `send` nothing that lacks a required signature or
\* the signer's valid one.
THEOREM CompleteIsSent == Spec => []OnlyCompleteIsSent
<1>1. Inv => OnlyCompleteIsSent
  BY DEF Inv
<1> QED
  BY <1>1, AlwaysInv, PTL

\* The signature of BroadcastUnconfirmed identifies what was handed to `send`.
THEOREM UnconfirmedIsNamed == Spec => []UnconfirmedNamesTransaction
<1>1. Inv => UnconfirmedNamesTransaction
  BY DEF Inv
<1> QED
  BY <1>1, AlwaysInv, PTL

\* An application that retries only after the ordinary errors of sign_and_send pays at
\* most once.
THEOREM PaysAtMostOnce == Spec => []AtMostOnce
<1>1. ASSUME Inv PROVE AtMostOnce
  <2> SUFFICES ASSUME ~unnamed PROVE Cardinality(landed) <= 1
    BY DEF AtMostOnce
  <2>1. \A a, b \in landed : a = b
    BY <1>1 DEF Inv, TypeOK, RetryInv
  <2>2. CASE landed = {}
    BY <2>2, FS_EmptySet
  <2>3. ASSUME NEW a \in landed PROVE Cardinality(landed) = 1
    <3>1. landed = {a}
      BY <2>1
    <3> QED
      BY <3>1, FS_Singleton
  <2> QED
    BY <2>2, <2>3
<1> QED
  BY <1>1, AlwaysInv, PTL
=============================================================================
