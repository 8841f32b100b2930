------------------------ MODULE Transactions_proofs ------------------------
(* What the helpers of transaction_util.rs return, for every transaction.  The      *)
(* proofs about the modules that use them cite these lemmas.                        *)
EXTENDS Transactions, SequenceTheorems, WellFoundedInduction, TLAPS

\* The least of a nonempty set of slots is one of them.
LEMMA LeastSlot ==
    ASSUME NEW S \in SUBSET Nat, S # {}
    PROVE  Min(S) \in S
<1> DEFINE Below == {p \in Nat \X Nat : p[1] < p[2]}
<1>1. IsWellFoundedOn(Below, Nat)
  BY NatLessThanWellFounded, Zenon DEF OpToRel
<1>2. PICK m \in S : \A n \in S : ~(<<n, m>> \in Below)
  <2> HIDE DEF Below
  <2> QED
    BY <1>1, WFMin
<1>3. \A n \in S : m <= n
  <2> SUFFICES ASSUME NEW n \in S PROVE m <= n
    OBVIOUS
  <2>1. n < m => <<n, m>> \in Below
    OBVIOUS
  <2> QED
    BY <1>2, <2>1
<1> QED
  BY <1>3 DEF Min

\* A position other than 0 is a required slot of the key.
LEMMA PositionIsOwnSlot ==
    ASSUME NEW t \in Transaction, NEW k, get_signing_keypair_position(t, k) # 0
    PROVE  LET i == get_signing_keypair_position(t, k)
           IN  i \in 1..t.message.need /\ t.message.keys[i] = k
<1> DEFINE at == {i \in 1..t.message.need : t.message.keys[i] = k}
<1>1. t.message.need \in Nat
  BY TransactionConstants DEF Transaction
<1>2. at # {} /\ get_signing_keypair_position(t, k) = Min(at)
  BY DEF get_signing_keypair_position
<1>3. at \in SUBSET Nat
  BY <1>1
<1>4. Min(at) \in at
  <2> HIDE DEF at
  <2> QED
    BY <1>2, <1>3, LeastSlot
<1> QED
  BY <1>2, <1>4

\* add_signature_to_transaction fills that slot of the same message, and no other.
LEMMA SlotIsFilled ==
    ASSUME NEW t \in Transaction, NEW k, NEW s \in Signatures,
           get_signing_keypair_position(t, k) # 0
    PROVE  LET r == add_signature_to_transaction(t, k, s)
               i == get_signing_keypair_position(t, k)
           IN  /\ r \in Transaction
               /\ r.message = t.message
               /\ r.signatures[i] = s
               /\ \A j \in 1..Len(t.signatures) :
                    j # i => j <= Len(r.signatures) /\ r.signatures[j] = t.signatures[j]
<1> DEFINE i == get_signing_keypair_position(t, k)
           n == IF Len(t.signatures) < t.message.need THEN t.message.need ELSE Len(t.signatures)
           slots == ResizedSlots(t, t.message.need)
           r == add_signature_to_transaction(t, k, s)
<1>1. t.message \in Messages /\ t.message.need \in Nat /\ t.signatures \in Seq(Signatures)
  BY TransactionConstants DEF Transaction
<1>2. i \in 1..t.message.need
  BY PositionIsOwnSlot
<1>3. n \in Nat /\ t.message.need <= n
  BY <1>1
<1>4. slots \in [1..n -> Signatures]
  <2>1. NoSignature \in Signatures
    BY DEF Signatures
  <2>2. \A j \in 1..n : j <= Len(t.signatures) => t.signatures[j] \in Signatures
    BY <1>1
  <2>3. slots = [j \in 1..n |-> IF j <= Len(t.signatures) THEN t.signatures[j] ELSE NoSignature]
    BY DEF ResizedSlots
  <2> HIDE DEF n, slots
  <2> QED
    BY <2>1, <2>2, <2>3
<1>5. r = [t EXCEPT !.signatures = [slots EXCEPT ![i] = s]]
  BY DEF add_signature_to_transaction
<1>50. \A j \in 1..Len(t.signatures) : j \in 1..n /\ slots[j] = t.signatures[j]
  BY <1>1 DEF ResizedSlots
<1> HIDE DEF i, n, slots, r
<1>51. i \in 1..n
  BY <1>1, <1>2, <1>3
<1>6. [slots EXCEPT ![i] = s] \in [1..n -> Signatures] /\ [slots EXCEPT ![i] = s][i] = s
  BY <1>4, <1>51
<1>7. [slots EXCEPT ![i] = s] \in Seq(Signatures)
  BY <1>3, <1>6, SeqDef
<1>8. r.message = t.message /\ r.signatures = [slots EXCEPT ![i] = s]
  BY <1>5 DEF Transaction
<1>9. r \in Transaction
  BY <1>5, <1>7 DEF Transaction
<1>10. \A j \in 1..Len(t.signatures) :
         j # i => j <= Len(r.signatures) /\ r.signatures[j] = t.signatures[j]
  <2>1. Len(r.signatures) = n
    BY <1>3, <1>6, <1>7, <1>8
  <2> QED
    BY <1>1, <1>3, <1>4, <1>50, <1>8, <2>1
<1> QED
  BY <1>6, <1>8, <1>9, <1>10 DEF i, r

\* What extract_and_verify_returned_signature returns is the signature in the signer's
\* slot of the returned transaction, and it verifies.
LEMMA ReturnedIsVerified ==
    ASSUME NEW t \in Transaction, NEW k, NEW bytes,
           extract_and_verify_returned_signature(t, k, bytes) # NONE
    PROVE  LET i == get_signing_keypair_position(t, k)
               s == extract_and_verify_returned_signature(t, k, bytes)
           IN  /\ i # 0 /\ s = t.signatures[i] /\ s = signature_at_signer_position(t, k)
               /\ s # NoSignature /\ s \in Signatures
               /\ verifies(s, k, bytes)
<1> DEFINE i == get_signing_keypair_position(t, k)
           s == signature_at_signer_position(t, k)
<1>1. s # NONE /\ verifies(s, k, bytes) /\ extract_and_verify_returned_signature(t, k, bytes) = s
  BY DEF extract_and_verify_returned_signature
<1>2. i \in DOMAIN t.signatures /\ s = t.signatures[i] /\ s # NoSignature
  BY <1>1 DEF signature_at_signer_position
<1>3. i \in 1..Len(t.signatures) /\ t.signatures \in Seq(Signatures)
  BY <1>2 DEF Transaction
<1> HIDE DEF i, s
<1>4. i # 0 /\ t.signatures[i] \in Signatures
  BY <1>3
<1> QED
  BY <1>1, <1>2, <1>4 DEF i, s

\* The same for a rewritten transaction, whose own message the signature covers.
LEMMA RewriteIsVerified ==
    ASSUME NEW t \in Transaction, NEW k,
           extract_and_verify_rewritten_transaction(t, k) # NONE
    PROVE  LET i == get_signing_keypair_position(t, k)
               s == extract_and_verify_rewritten_transaction(t, k)
           IN  /\ i # 0 /\ s = t.signatures[i] /\ s = signature_at_signer_position(t, k)
               /\ s # NoSignature /\ s \in Signatures
               /\ verifies(s, k, t.message)
  BY ReturnedIsVerified DEF extract_and_verify_rewritten_transaction

\* A signature that verifies under a key was made by somebody: it is not the empty one.
LEMMA VerifiedIsMade ==
    ASSUME NEW s \in Signatures, NEW k \in Keys, NEW bytes, verifies(s, k, bytes)
    PROVE  s \in Signature
  BY TransactionConstants DEF verifies, Signatures, NoSignature
=============================================================================
