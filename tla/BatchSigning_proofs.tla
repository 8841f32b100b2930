------------------------ MODULE BatchSigning_proofs ------------------------
(* Theorems about BatchSigning, for batches, limits and delays of any size. *)
EXTENDS BatchSigning, FiniteSetTheorems, SequenceTheorems, TLAPS

-----------------------------------------------------------------------------
(* The inductive invariant *)

\* The loop has started the items before `next`, and what it calls is due; a closure
\* that is over has written its result or left an error with the group.
TaskInv ==
    \A i \in Items :
        /\ task[i] = "idle" <=> i >= next
        /\ i \in sent => Due(i) /\ task[i] \in {"calling", "failed", "over"}
        /\ task[i] = "calling" => i \in sent
        /\ out[i] \in {NONE, i}
        /\ task[i] = "failed" => failure[i] \in Causes
        /\ task[i] = "over" => (out[i] = i /\ i \in signed) \/ (err # NONE /\ ~batch.effects)

\* The context is done because of the caller or of an error that is already recorded.
CauseInv ==
    /\ done => caller \/ err # NONE
    /\ err = "context" => caller
    /\ \A i \in Items : failure[i] = "context" => done

\* A sequential batch has at most one item under way, and no group.
SequentialInv ==
    batch.effects => err = NONE /\ \A i \in Items : i < next - 1 => task[i] = "over"

\* What is left of the tasks when the helper has returned.
ReturnInv ==
    /\ result.kind = "None" => result.err = NONE
    /\ result.kind = "Ok" =>
        result.out = out /\ result.err = NONE /\ err = NONE /\ \A i \in Items : task[i] = "over"
    /\ result.kind = "Err" /\ ~batch.effects =>
        result.out = <<>> /\ result.err = err /\ \A i \in Items : task[i] = "over"
    /\ result.kind = "Err" /\ batch.effects =>
        \E k \in Items :
            /\ k = next - 1 /\ task[k] = "failed"
            /\ result.out = SubSeq(out, 1, k - 1) /\ result.err = failure[k]

Inv == TypeOK /\ TaskInv /\ CauseInv /\ SequentialInv /\ ReturnInv

LEMMA InitInv == Init => Inv
<1> SUFFICES ASSUME Init PROVE Inv
  OBVIOUS
<1> USE BatchConstants DEF Init, Items, Causes
<1>0. batch.size \in Nat
  BY DEF Init
<1>1. TypeOK
  BY <1>0 DEF TypeOK
<1>2. TaskInv /\ CauseInv
  BY <1>0 DEF TaskInv, CauseInv
<1>3. SequentialInv /\ ReturnInv
  BY <1>0 DEF SequentialInv, ReturnInv
<1> QED
  BY <1>1, <1>2, <1>3 DEF Inv

LEMMA FunctionIsSequence ==
    ASSUME NEW n \in Nat, NEW S, NEW f \in [1..n -> S]
    PROVE  f \in Seq(S) /\ Len(f) = n
  BY SeqDef

LEMMA ResultType ==
    ASSUME NEW K, NEW S, NEW E, NEW k \in K, NEW s \in S, NEW e \in E
    PROVE  [kind |-> k, out |-> s, err |-> e] \in [kind: K, out: S, err: E]
  OBVIOUS

LEMMA OutIsSequence ==
    ASSUME TypeOK
    PROVE  out \in Seq(Items \cup {NONE}) /\ Len(out) = batch.size
<1>1. batch.size \in Nat
  BY BatchConstants DEF TypeOK
<1>2. out \in [1..batch.size -> Items \cup {NONE}]
  BY DEF TypeOK, Items
<1> QED
  BY <1>1, <1>2, FunctionIsSequence

\* The loop has ended and no closure is left.
LEMMA AllOver ==
    ASSUME Inv, next > batch.size, Active = {}
    PROVE  \A i \in Items : task[i] = "over"
<1>1. batch.size \in Nat
  BY BatchConstants DEF Inv, TypeOK
<1>2. \A i \in Items : task[i] # "idle"
  BY <1>1 DEF Inv, TypeOK, TaskInv, Items
<1> QED
  BY <1>2 DEF Active

LEMMA StartInv ==
    ASSUME Inv, Start
    PROVE  Inv'
<1> USE BatchConstants DEF Items, Causes
<1> USE DEF Start, At, Running, HasSlot
<1>0. batch.size \in Nat /\ batch.delay \in Nat
  BY DEF Inv, TypeOK
<1>1. TypeOK'
  BY <1>0 DEF Inv, TypeOK, TaskInv
<1>2. TaskInv'
  BY <1>0 DEF Inv, TypeOK, TaskInv, SequentialInv, CauseInv, Due
<1>3. CauseInv'
  BY <1>0 DEF Inv, TypeOK, TaskInv, CauseInv, SequentialInv
<1>4. SequentialInv'
  BY <1>0 DEF Inv, TypeOK, TaskInv, SequentialInv
<1>5. ReturnInv'
  BY <1>0 DEF Inv, TypeOK, TaskInv, SequentialInv, ReturnInv
<1> QED
  BY <1>1, <1>2, <1>3, <1>4, <1>5 DEF Inv

LEMMA WaitInv ==
    ASSUME Inv, Wait
    PROVE  Inv'
<1> USE BatchConstants DEF Items, Causes
<1> USE DEF Wait, Returned, Running, Active
<1>0. batch.size \in Nat /\ batch.delay \in Nat
  BY DEF Inv, TypeOK
<1>01. out \in Seq(Items \cup {NONE}) /\ Len(out) = batch.size
  BY OutIsSequence DEF Inv
<1>1. TypeOK'
  <2>1. result' \in [kind: {"None", "Ok", "Err"}, out: Seq(Items \cup {NONE}), err: Causes \cup {NONE}]
    <3>1. err \in Causes \cup {NONE}
      BY DEF Inv, TypeOK
    <3> HIDE DEF Items, Active, Causes
    <3>2. <<>> \in Seq(Items \cup {NONE})
      OBVIOUS
    <3>3. CASE err = NONE
      BY <1>01, <3>3
    <3>4. CASE err # NONE
      <4>1. result' = [kind |-> "Err", out |-> <<>>, err |-> err]
        BY <3>4
      <4> HIDE DEF Wait
      <4> QED
        BY <3>1, <3>2, <4>1, ResultType
    <3> QED
      BY <3>3, <3>4
  <2> QED
    BY <2>1 DEF Inv, TypeOK
<1>2. TaskInv'
  BY <1>0 DEF Inv, TypeOK, TaskInv, SequentialInv, CauseInv, Due
<1>3. CauseInv'
  BY <1>0 DEF Inv, TypeOK, TaskInv, CauseInv, SequentialInv
<1>4. SequentialInv'
  BY <1>0 DEF Inv, TypeOK, TaskInv, SequentialInv
<1>5. ReturnInv'
  <2>1. \A i \in Items : task[i] = "over"
    BY AllOver
  <2>2. CASE err = NONE
    BY <2>1, <2>2 DEF ReturnInv
  <2>3. CASE err # NONE
    BY <2>1, <2>3 DEF ReturnInv
  <2> QED
    BY <2>2, <2>3
<1> QED
  BY <1>1, <1>2, <1>3, <1>4, <1>5 DEF Inv

LEMMA SequentialReturnsInv ==
    ASSUME Inv, SequentialReturns
    PROVE  Inv'
<1> USE BatchConstants DEF Items, Causes
<1> USE DEF SequentialReturns, Returned, Running, Active
<1>0. batch.size \in Nat /\ batch.delay \in Nat
  BY DEF Inv, TypeOK
<1>01. out \in Seq(Items \cup {NONE}) /\ Len(out) = batch.size
  BY OutIsSequence DEF Inv
<1>02. ASSUME NEW i \in Items PROVE SubSeq(out, 1, i - 1) \in Seq(Items \cup {NONE})
  <2>1. i \in 1..batch.size
    OBVIOUS
  <2> HIDE DEF Items
  <2> QED
    BY <1>0, <1>01, <2>1
<1>1. TypeOK'
  <2>1. result' \in [kind: {"None", "Ok", "Err"}, out: Seq(Items \cup {NONE}), err: Causes \cup {NONE}]
    <3>1. \A i \in Items : failure[i] \in Causes \cup {NONE}
      BY DEF Inv, TypeOK
    <3> HIDE DEF Items, Active, Causes
    <3>2. CASE Returned("Ok", out, NONE)
      BY <1>01, <3>2
    <3>3. ASSUME NEW i \in Items, Returned("Err", SubSeq(out, 1, i - 1), failure[i])
          PROVE  result' \in [kind: {"None", "Ok", "Err"}, out: Seq(Items \cup {NONE}),
                              err: Causes \cup {NONE}]
      <4>1. SubSeq(out, 1, i - 1) \in Seq(Items \cup {NONE}) /\ failure[i] \in Causes \cup {NONE}
        BY <1>02, <3>1
      <4>2. result' = [kind |-> "Err", out |-> SubSeq(out, 1, i - 1), err |-> failure[i]]
        BY <3>3
      <4> QED
        BY <4>1, <4>2
    <3> QED
      BY <3>2, <3>3
  <2> QED
    BY <2>1 DEF Inv, TypeOK
<1>2. TaskInv'
  BY <1>0 DEF Inv, TypeOK, TaskInv, SequentialInv, CauseInv, Due
<1>3. CauseInv'
  BY <1>0 DEF Inv, TypeOK, TaskInv, CauseInv, SequentialInv
<1>4. SequentialInv'
  BY <1>0 DEF Inv, TypeOK, TaskInv, SequentialInv
<1>5. ReturnInv'
  <2>1. CASE next > batch.size /\ Active = {} /\ Returned("Ok", out, NONE)
    <3>1. \A i \in Items : task[i] = "over"
      BY <2>1, AllOver
    <3> QED
      BY <2>1, <3>1 DEF ReturnInv, Inv, SequentialInv
  <2>2. ASSUME NEW i \in Items, task[i] = "failed",
               Returned("Err", SubSeq(out, 1, i - 1), failure[i])
        PROVE  ReturnInv'
    <3>1. i = next - 1
      BY <1>0, <2>2 DEF Inv, TypeOK, TaskInv, SequentialInv
    <3> QED
      BY <2>2, <3>1 DEF ReturnInv
  <2> QED
    BY <2>1, <2>2
<1> QED
  BY <1>1, <1>2, <1>3, <1>4, <1>5 DEF Inv

LEMMA CallerCancelsInv ==
    ASSUME Inv, CallerCancels
    PROVE  Inv'
<1> USE BatchConstants DEF Items, Causes
<1> USE DEF CallerCancels, Running
<1>0. batch.size \in Nat /\ batch.delay \in Nat
  BY DEF Inv, TypeOK
<1>1. TypeOK'
  BY <1>0 DEF Inv, TypeOK, TaskInv
<1>2. TaskInv'
  BY <1>0 DEF Inv, TypeOK, TaskInv, SequentialInv, CauseInv, Due
<1>3. CauseInv'
  BY <1>0 DEF Inv, TypeOK, TaskInv, CauseInv, SequentialInv
<1>4. SequentialInv'
  BY <1>0 DEF Inv, TypeOK, TaskInv, SequentialInv
<1>5. ReturnInv'
  BY <1>0 DEF Inv, TypeOK, TaskInv, SequentialInv, ReturnInv
<1> QED
  BY <1>1, <1>2, <1>3, <1>4, <1>5 DEF Inv

LEMMA TickInv ==
    ASSUME Inv, Tick
    PROVE  Inv'
<1> USE BatchConstants DEF Items, Causes
<1> USE DEF Tick, Running
<1>0. batch.size \in Nat /\ batch.delay \in Nat
  BY DEF Inv, TypeOK
<1>1. TypeOK'
  BY <1>0 DEF Inv, TypeOK, TaskInv
<1>2. TaskInv'
  BY <1>0 DEF Inv, TypeOK, TaskInv, SequentialInv, CauseInv, Due
<1>3. CauseInv'
  BY <1>0 DEF Inv, TypeOK, TaskInv, CauseInv, SequentialInv
<1>4. SequentialInv'
  BY <1>0 DEF Inv, TypeOK, TaskInv, SequentialInv
<1>5. ReturnInv'
  BY <1>0 DEF Inv, TypeOK, TaskInv, SequentialInv, ReturnInv
<1> QED
  BY <1>1, <1>2, <1>3, <1>4, <1>5 DEF Inv

LEMMA StaggerInv ==
    ASSUME Inv, NEW i \in Items, Stagger(i)
    PROVE  Inv'
<1> USE BatchConstants DEF Items, Causes
<1> USE DEF Stagger, Call, At, Due
<1>0. batch.size \in Nat /\ batch.delay \in Nat
  BY DEF Inv, TypeOK
<1>1. TypeOK'
  <2>1. task' \in [Items -> {"idle", "started", "sleeping", "calling", "failed", "over"}]
    <3>1. task \in [Items -> {"idle", "started", "sleeping", "calling", "failed", "over"}]
      BY DEF Inv, TypeOK
    <3>2. \E place \in {"sleeping", "calling"} : task' = [task EXCEPT ![i] = place]
      OBVIOUS
    <3> HIDE DEF Items
    <3> QED
      BY <3>1, <3>2
  <2>2. sent' \subseteq Items /\ signed' \subseteq sent'
    <3>1. sent \subseteq Items /\ signed \subseteq sent
      BY DEF Inv, TypeOK
    <3>2. (sent' = sent \/ sent' = sent \cup {i}) /\ signed' = signed
      OBVIOUS
    <3> HIDE DEF Items, Stagger
    <3> QED
      BY <3>1, <3>2
  <2>3. UNCHANGED <<batch, next, failure, now, caller, done, err, out, result>>
    OBVIOUS
  <2> QED
    BY <2>1, <2>2, <2>3 DEF Inv, TypeOK
<1>2. TaskInv'
  BY <1>0 DEF Inv, TypeOK, TaskInv, SequentialInv, CauseInv, Due
<1>3. CauseInv'
  BY <1>0 DEF Inv, TypeOK, TaskInv, CauseInv, SequentialInv
<1>4. SequentialInv'
  BY <1>0 DEF Inv, TypeOK, TaskInv, SequentialInv
<1>5. ReturnInv'
  <2>1. result.kind = "None"
    BY <1>0 DEF Inv, TypeOK, TaskInv, SequentialInv, ReturnInv
  <2> QED
    BY <2>1 DEF Inv, ReturnInv
<1> QED
  BY <1>1, <1>2, <1>3, <1>4, <1>5 DEF Inv

LEMMA TimerFiresInv ==
    ASSUME Inv, NEW i \in Items, TimerFires(i)
    PROVE  Inv'
<1> USE BatchConstants DEF Items, Causes
<1> USE DEF TimerFires, Call, At, Due
<1>0. batch.size \in Nat /\ batch.delay \in Nat
  BY DEF Inv, TypeOK
<1>1. TypeOK'
  BY <1>0 DEF Inv, TypeOK, TaskInv
<1>2. TaskInv'
  BY <1>0 DEF Inv, TypeOK, TaskInv, SequentialInv, CauseInv, Due
<1>3. CauseInv'
  BY <1>0 DEF Inv, TypeOK, TaskInv, CauseInv, SequentialInv
<1>4. SequentialInv'
  BY <1>0 DEF Inv, TypeOK, TaskInv, SequentialInv
<1>5. ReturnInv'
  <2>1. result.kind = "None"
    BY <1>0 DEF Inv, TypeOK, TaskInv, SequentialInv, ReturnInv
  <2> QED
    BY <2>1 DEF Inv, ReturnInv
<1> QED
  BY <1>1, <1>2, <1>3, <1>4, <1>5 DEF Inv

LEMMA StaggerCancelledInv ==
    ASSUME Inv, NEW i \in Items, StaggerCancelled(i)
    PROVE  Inv'
<1> USE BatchConstants DEF Items, Causes
<1> USE DEF StaggerCancelled, Fails, At
<1>0. batch.size \in Nat /\ batch.delay \in Nat
  BY DEF Inv, TypeOK
<1>1. TypeOK'
  BY <1>0 DEF Inv, TypeOK, TaskInv
<1>2. TaskInv'
  BY <1>0 DEF Inv, TypeOK, TaskInv, SequentialInv, CauseInv, Due
<1>3. CauseInv'
  BY <1>0 DEF Inv, TypeOK, TaskInv, CauseInv, SequentialInv
<1>4. SequentialInv'
  BY <1>0 DEF Inv, TypeOK, TaskInv, SequentialInv
<1>5. ReturnInv'
  <2>1. result.kind = "None"
    BY <1>0 DEF Inv, TypeOK, TaskInv, SequentialInv, ReturnInv
  <2> QED
    BY <2>1 DEF Inv, ReturnInv
<1> QED
  BY <1>1, <1>2, <1>3, <1>4, <1>5 DEF Inv

LEMMA CallSignsInv ==
    ASSUME Inv, NEW i \in Items, CallSigns(i)
    PROVE  Inv'
<1> USE BatchConstants DEF Items, Causes
<1> USE DEF CallSigns, At
<1>0. batch.size \in Nat /\ batch.delay \in Nat
  BY DEF Inv, TypeOK
<1>1. TypeOK'
  BY <1>0 DEF Inv, TypeOK, TaskInv
<1>2. TaskInv'
  BY <1>0 DEF Inv, TypeOK, TaskInv, SequentialInv, CauseInv, Due
<1>3. CauseInv'
  BY <1>0 DEF Inv, TypeOK, TaskInv, CauseInv, SequentialInv
<1>4. SequentialInv'
  BY <1>0 DEF Inv, TypeOK, TaskInv, SequentialInv
<1>5. ReturnInv'
  <2>1. result.kind = "None"
    BY <1>0 DEF Inv, TypeOK, TaskInv, SequentialInv, ReturnInv
  <2> QED
    BY <2>1 DEF Inv, ReturnInv
<1> QED
  BY <1>1, <1>2, <1>3, <1>4, <1>5 DEF Inv

LEMMA CallFailsInv ==
    ASSUME Inv, NEW i \in Items, CallFails(i)
    PROVE  Inv'
<1> USE BatchConstants DEF Items, Causes
<1> USE DEF CallFails, Fails, At
<1>0. batch.size \in Nat /\ batch.delay \in Nat
  BY DEF Inv, TypeOK
<1>1. TypeOK'
  BY <1>0 DEF Inv, TypeOK, TaskInv
<1>2. TaskInv'
  BY <1>0 DEF Inv, TypeOK, TaskInv, SequentialInv, CauseInv, Due
<1>3. CauseInv'
  BY <1>0 DEF Inv, TypeOK, TaskInv, CauseInv, SequentialInv
<1>4. SequentialInv'
  BY <1>0 DEF Inv, TypeOK, TaskInv, SequentialInv
<1>5. ReturnInv'
  <2>1. result.kind = "None"
    BY <1>0 DEF Inv, TypeOK, TaskInv, SequentialInv, ReturnInv
  <2> QED
    BY <2>1 DEF Inv, ReturnInv
<1> QED
  BY <1>1, <1>2, <1>3, <1>4, <1>5 DEF Inv

LEMMA RecordInv ==
    ASSUME Inv, NEW i \in Items, Record(i)
    PROVE  Inv'
<1> USE BatchConstants DEF Items, Causes
<1> USE DEF Record, At
<1>0. batch.size \in Nat /\ batch.delay \in Nat
  BY DEF Inv, TypeOK
<1>1. TypeOK'
  BY <1>0 DEF Inv, TypeOK, TaskInv
<1>2. TaskInv'
  BY <1>0 DEF Inv, TypeOK, TaskInv, SequentialInv, CauseInv, Due
<1>3. CauseInv'
  BY <1>0 DEF Inv, TypeOK, TaskInv, CauseInv, SequentialInv
<1>4. SequentialInv'
  BY <1>0 DEF Inv, TypeOK, TaskInv, SequentialInv
<1>5. ReturnInv'
  BY <1>0 DEF Inv, TypeOK, TaskInv, SequentialInv, ReturnInv
<1> QED
  BY <1>1, <1>2, <1>3, <1>4, <1>5 DEF Inv

LEMMA NextInv == Inv /\ [Next]_vars => Inv'
<1> SUFFICES ASSUME Inv, [Next]_vars PROVE Inv'
  OBVIOUS
<1>1. CASE UNCHANGED vars
  BY <1>1 DEF vars, Inv, TypeOK, TaskInv, CauseInv, SequentialInv, ReturnInv, Items, Due
<1>2. CASE Start \/ Wait \/ SequentialReturns \/ CallerCancels \/ Tick
  BY <1>2, StartInv, WaitInv, SequentialReturnsInv, CallerCancelsInv, TickInv
<1>3. ASSUME NEW i \in Items, Step(i) PROVE Inv'
  BY <1>3, StaggerInv, TimerFiresInv, StaggerCancelledInv, CallSignsInv, CallFailsInv, RecordInv
     DEF Step
<1> QED
  BY <1>1, <1>2, <1>3 DEF Next

LEMMA AlwaysInv == Spec => []Inv
  BY InitInv, NextInv, PTL DEF Spec

-----------------------------------------------------------------------------
(* The theorems *)

\* Every variable of the helpers stays within its type.
THEOREM TypeCorrect == Spec => []TypeOK
<1>1. Inv => TypeOK
  BY DEF Inv
<1> QED
  BY <1>1, AlwaysInv, PTL

\* The errgroup of SignMessages and SignTransactions returns the cause, never what it
\* cancelled because of it.
THEOREM CauseIsReturned == Spec => []CauseReturned
<1>1. Inv => CauseReturned
  BY BatchConstants DEF Inv, TypeOK, CauseInv, SequentialInv, ReturnInv, CauseReturned, Causes
<1> QED
  BY <1>1, AlwaysInv, PTL

\* A batch returns everything in order, and a sequential one the exact prefix before
\* the item that failed.
THEOREM ResultIsExact == Spec => []ResultAccounts
<1>1. ASSUME Inv PROVE ResultAccounts
  <2>0. batch.size \in Nat /\ out \in [1..batch.size -> Items \cup {NONE}]
    BY <1>1, BatchConstants DEF Inv, TypeOK, Items
  <2>1. CASE result.kind = "Ok"
    <3>1. \A i \in Items : out[i] = i /\ i \in signed
      BY <1>1, <2>1 DEF Inv, TaskInv, ReturnInv
    <3>2. signed = Items
      BY <1>1, <3>1 DEF Inv, TypeOK
    <3>3. result.out = [i \in Items |-> i]
      BY <1>1, <2>0, <2>1, <3>1 DEF Inv, ReturnInv, Items
    <3> QED
      BY <2>1, <3>2, <3>3 DEF ResultAccounts
  <2>2. CASE result.kind = "Err" /\ batch.effects
    <3>1. PICK k \in Items :
            /\ k = next - 1 /\ task[k] = "failed"
            /\ result.out = SubSeq(out, 1, k - 1) /\ result.err = failure[k]
      BY <1>1, <2>2 DEF Inv, ReturnInv
    <3>2. k \in 1..batch.size
      BY <3>1 DEF Items
    <3>3. \A i \in 1..k - 1 : out[i] = i
      BY <1>1, <2>0, <2>2, <3>1, <3>2 DEF Inv, TypeOK, TaskInv, SequentialInv, Items
    <3>4. out \in Seq(Items \cup {NONE}) /\ Len(out) = batch.size
      BY <1>1, OutIsSequence DEF Inv
    <3>5. Len(result.out) = k - 1 /\ result.out = [i \in 1..k - 1 |-> i]
      <4>1. SubSeq(out, 1, k - 1) = [i \in 1..k - 1 |-> out[i]]
        BY <2>0, <3>2, <3>4
      <4> QED
        BY <2>0, <3>1, <3>2, <3>3, <3>4, <4>1
    <3>6. sent \subseteq 1..k
      BY <1>1, <2>0, <3>1, <3>2 DEF Inv, TypeOK, TaskInv, Items
    <3>7. failure[k] \in Causes
      BY <1>1, <3>1 DEF Inv, TaskInv
    <3> QED
      BY <2>2, <3>1, <3>2, <3>5, <3>6, <3>7, BatchConstants DEF ResultAccounts
  <2> QED
    BY <1>1, <2>1, <2>2 DEF ResultAccounts, Inv, ReturnInv
<1> QED
  BY <1>1, AlwaysInv, PTL

\* g.Wait: no call of the signer is under way when the helper has returned.
THEOREM CallsEndWithBatch == Spec => NothingAfterReturn
<1>1. ASSUME Inv, [Next]_vars, ~Running PROVE UNCHANGED <<sent, signed>>
  <2>1. \A i \in Items : task[i] \in {"idle", "failed", "over"}
    BY <1>1, BatchConstants
       DEF Inv, TypeOK, TaskInv, SequentialInv, ReturnInv, Running, Items
  <2>2. CASE UNCHANGED vars
    BY <2>2 DEF vars
  <2>3. CASE Start \/ Wait \/ SequentialReturns \/ CallerCancels \/ Tick
    BY <1>1, <2>3 DEF Start, Wait, SequentialReturns, CallerCancels, Tick
  <2>4. ASSUME NEW i \in Items, Step(i) PROVE UNCHANGED <<sent, signed>>
    BY <2>1, <2>4 DEF Step, Stagger, TimerFires, StaggerCancelled, CallSigns, CallFails, Record
  <2> QED
    BY <1>1, <2>2, <2>3, <2>4 DEF Next
<1>2. Inv /\ [Next]_vars => [~Running => UNCHANGED <<sent, signed>>]_vars
  BY <1>1
<1> QED
  BY <1>2, AlwaysInv, PTL DEF Spec, NothingAfterReturn

LEMMA Quotient ==
    ASSUME NEW d \in Nat \ {0}, NEW k \in Nat, NEW n \in Nat, d * k <= n
    PROVE  k <= n \div d /\ n \div d \in Nat
<1>1. n \div d \in Nat /\ n < d * (n \div d) + d
  OBVIOUS
<1>2. ASSUME k > n \div d PROVE FALSE
  <2>1. k >= n \div d + 1
    BY <1>1, <1>2
  <2>2. d * k >= d * (n \div d + 1)
    BY <1>1, <2>1
  <2>3. d * (n \div d + 1) = d * (n \div d) + d
    BY <1>1
  <2> QED
    BY <1>1, <2>2, <2>3
<1> QED
  BY <1>1, <1>2

\* stagger keeps the requests of a batch below one a RequestDelay, whatever the limit.
THEOREM RateIsRespected == Spec => []RateRespected
<1>1. ASSUME Inv PROVE RateRespected
  <2> SUFFICES ASSUME batch.delay > 0
               PROVE  Cardinality(sent) <= now \div batch.delay + 1
    BY DEF RateRespected
  <2>1. batch.delay \in Nat \ {0} /\ now \in Nat /\ batch.size \in Nat /\ sent \subseteq 1..batch.size
    <3>0. batch.delay \in Delays /\ batch.size \in Sizes
      BY <1>1 DEF Inv, TypeOK
    <3>1. batch.delay \in Nat /\ batch.size \in Nat
      BY <3>0, BatchConstants
    <3>3. now \in Nat
      BY <1>1, BatchConstants DEF Inv, TypeOK
    <3>2. sent \subseteq 1..batch.size
      BY <1>1 DEF Inv, TypeOK, Items
    <3> QED
      BY <3>1, <3>2, <3>3
  <2> DEFINE q == now \div batch.delay
  <2>2. q \in Nat
    BY <2>1, Quotient
  <2>3. ASSUME NEW i \in sent PROVE i \in 1..q + 1
    <3>1. i \in Nat \ {0} /\ (i = 1 \/ batch.delay * (i - 1) <= now)
      BY <1>1, <2>1 DEF Inv, TaskInv, Due, Items
    <3>2. CASE i = 1
      BY <2>2, <3>2
    <3>3. CASE i # 1 /\ batch.delay * (i - 1) <= now
      <4>1. i - 1 <= q
        BY <2>1, <3>1, <3>3, Quotient
      <4> HIDE DEF q
      <4> QED
        BY <2>2, <3>1, <4>1
    <3> QED
      BY <3>1, <3>2, <3>3
  <2> HIDE DEF q
  <2>4. IsFiniteSet(1..q + 1) /\ Cardinality(1..q + 1) = q + 1
    BY <2>2, FS_Interval
  <2>5. Cardinality(sent) <= Cardinality(1..q + 1)
    BY <2>3, <2>4, FS_Subset
  <2> QED
    BY <2>2, <2>4, <2>5 DEF q
<1> QED
  BY <1>1, AlwaysInv, PTL
=============================================================================
