---------------------------- MODULE BatchSigning ----------------------------
(***************************************************************************)
(* The batch helpers of the Go port (src/go/core/batch.go): SignMessages   *)
(* and SignTransactions, which sign the items of a batch in an errgroup,   *)
(* and signTransactionsSequential, which SignTransactions chooses for a    *)
(* signer whose calls have provider-side effects.                          *)
(*                                                                         *)
(* The two concurrent helpers are the same code over messages and over     *)
(* transactions.  An item stands for its signature.  Item i has index      *)
(* i - 1 in the code.                                                      *)
(***************************************************************************)
EXTENDS Naturals, Sequences, FiniteSets

CONSTANTS
    Sizes,     \* lengths of a batch
    Limits,    \* values of MaxConcurrency, 0 for unbounded
    Delays,    \* values of RequestDelay, in ticks
    MaxTime,   \* bound: ticks of the clock
    NONE       \* no error

\* An error of the signer, or the context's because it is done.
Causes == {"signer", "context"}

ASSUME BatchConstants ==
    /\ NONE \notin Nat \cup Causes
    /\ Sizes \subseteq Nat /\ Limits \subseteq Nat /\ Delays \subseteq Nat
    /\ MaxTime \in Nat

VARIABLES
    batch,     \* the call: its number of items, the shape and the options
    next,      \* the item the loop starts next
    task,      \* where the call of the closure for each item is
    failure,   \* the error each failed item returned
    now,       \* time since `start`
    caller,    \* the caller has cancelled its context
    done,      \* the context the closures see is done
    err,       \* the first error of the group
    out,       \* the results written so far
    result,    \* what the helper returned
    sent,      \* items whose call of the signer has begun
    signed     \* history: items the signer signed, whether or not it said so

vars == <<batch, next, task, failure, now, caller, done, err, out, result, sent, signed>>

Items == 1..batch.size

TypeOK ==
    /\ batch \in [size: Sizes, effects: BOOLEAN, limit: Limits, delay: Delays]
    /\ next \in 1..batch.size + 1
    /\ task \in [Items -> {"idle", "started", "sleeping", "calling", "failed", "over"}]
    /\ failure \in [Items -> Causes \cup {NONE}]
    /\ now \in 0..MaxTime
    /\ caller \in BOOLEAN /\ done \in BOOLEAN
    /\ err \in Causes \cup {NONE}
    /\ out \in [Items -> Items \cup {NONE}]
    /\ result \in [kind: {"None", "Ok", "Err"}, out: Seq(Items \cup {NONE}), err: Causes \cup {NONE}]
    /\ sent \subseteq Items /\ signed \subseteq sent

\* SignMessages takes any signer; SignTransactions asks for HasServerSideEffects.
Init ==
    /\ batch \in [size: Sizes, effects: BOOLEAN, limit: Limits, delay: Delays]
    /\ next = 1
    /\ task = [i \in Items |-> "idle"] /\ failure = [i \in Items |-> NONE]
    /\ now = 0 /\ caller \in BOOLEAN /\ done = caller
    /\ err = NONE /\ out = [i \in Items |-> NONE]
    /\ result = [kind |-> "None", out |-> <<>>, err |-> NONE]
    /\ sent = {} /\ signed = {}

-----------------------------------------------------------------------------
Running == result.kind = "None"
Active == {i \in Items : task[i] \notin {"idle", "over"}}
At(i, place) == task' = [task EXCEPT ![i] = place]

\* Mutant: the slot is only given back by a call that succeeds.
SlotsOfSuccesses ==
    batch.limit = 0 \/ Cardinality({i \in Items : task[i] # "idle" /\ out[i] = NONE}) < batch.limit

\* g.Go waits for one of MaxConcurrency slots.
HasSlot == batch.limit = 0 \/ Cardinality(Active) < batch.limit

\* The body of the loop: g.Go, or the next round of the sequential loop.
Start ==
    /\ Running /\ next <= batch.size
    /\ IF batch.effects THEN \A i \in Items : i < next => task[i] = "over" ELSE HasSlot
    /\ At(next, "started") /\ next' = next + 1
    /\ UNCHANGED <<batch, failure, now, caller, done, err, out, result, sent, signed>>

\* Mutant: the index of the item that starts after the first delay is off by one.
DueEarly(i) == i <= 2 \/ now >= batch.delay * (i - 2)

\* The target time, anchored to the start of the batch.
Due(i) == batch.delay = 0 \/ i = 1 \/ now >= batch.delay * (i - 1)

Call(i) ==
    /\ At(i, "calling") /\ sent' = sent \cup {i}
    /\ UNCHANGED <<batch, next, failure, now, caller, done, err, out, result, signed>>

\* stagger: no wait if the time has come, whatever the context says; else the timer or
\* the context ends it, either one when both are ready.
Stagger(i) ==
    /\ task[i] = "started"
    /\ IF Due(i) THEN Call(i)
       ELSE /\ At(i, "sleeping")
            /\ UNCHANGED <<batch, next, failure, now, caller, done, err, out, result, sent, signed>>

TimerFires(i) == task[i] = "sleeping" /\ Due(i) /\ Call(i)

Fails(i, cause) == At(i, "failed") /\ failure' = [failure EXCEPT ![i] = cause]

StaggerCancelled(i) ==
    /\ task[i] = "sleeping" /\ done
    /\ Fails(i, "context")
    /\ UNCHANGED <<batch, next, now, caller, done, err, out, result, sent, signed>>

\* The signer returns a signature, also when the context is done by now.
CallSigns(i) ==
    /\ task[i] = "calling"
    /\ At(i, "over") /\ out' = [out EXCEPT ![i] = i] /\ signed' = signed \cup {i}
    /\ UNCHANGED <<batch, next, failure, now, caller, done, err, result, sent>>

\* Mutant: the context is cancelled before the error is recorded.
FailsAndCancels(i) ==
    /\ task[i] = "calling"
    /\ \E cause \in Causes : (cause = "context" => done) /\ Fails(i, cause)
    /\ signed' \in {signed, signed \cup {i}} /\ done' = TRUE
    /\ UNCHANGED <<batch, next, now, caller, err, out, result, sent>>

\* The signer returns an error; its provider may have signed all the same.
CallFails(i) ==
    /\ task[i] = "calling"
    /\ \E cause \in Causes : (cause = "context" => done) /\ Fails(i, cause)
    /\ signed' \in {signed, signed \cup {i}}
    /\ UNCHANGED <<batch, next, now, caller, done, err, out, result, sent>>

\* errgroup: the first closure to return an error records it and cancels the others.
Record(i) ==
    /\ ~batch.effects /\ task[i] = "failed"
    /\ At(i, "over")
    /\ err' = IF err = NONE THEN failure[i] ELSE err
    /\ done' = TRUE
    /\ UNCHANGED <<batch, next, failure, now, caller, out, result, sent, signed>>

-----------------------------------------------------------------------------
Returned(kind, sigs, cause) ==
    /\ result' = [kind |-> kind, out |-> sigs, err |-> cause]
    /\ UNCHANGED <<batch, next, task, failure, now, caller, done, err, out, sent, signed>>

\* Mutant: the helper returns at the first error, without waiting for the others.
ReturnAtFirstError ==
    /\ Running /\ ~batch.effects
    /\ err # NONE \/ (next > batch.size /\ Active = {})
    /\ IF err = NONE THEN Returned("Ok", out, NONE) ELSE Returned("Err", <<>>, err)

\* g.Wait and the end of SignMessages and SignTransactions.
Wait ==
    /\ Running /\ ~batch.effects /\ next > batch.size /\ Active = {}
    /\ IF err = NONE THEN Returned("Ok", out, NONE) ELSE Returned("Err", <<>>, err)

\* Mutant: an error costs the results before it.
SequentialReturnsNothing ==
    /\ Running /\ batch.effects
    /\ \/ next > batch.size /\ Active = {} /\ Returned("Ok", out, NONE)
       \/ \E i \in Items : task[i] = "failed" /\ Returned("Err", <<>>, failure[i])

\* signTransactionsSequential ends: with everything, or with what was signed so far.
SequentialReturns ==
    /\ Running /\ batch.effects
    /\ \/ next > batch.size /\ Active = {} /\ Returned("Ok", out, NONE)
       \/ \E i \in Items :
            task[i] = "failed" /\ Returned("Err", SubSeq(out, 1, i - 1), failure[i])

CallerCancels ==
    /\ Running /\ ~caller
    /\ caller' = TRUE /\ done' = TRUE
    /\ UNCHANGED <<batch, next, task, failure, now, err, out, result, sent, signed>>

Tick ==
    /\ Running /\ now < MaxTime
    /\ now' = now + 1
    /\ UNCHANGED <<batch, next, task, failure, caller, done, err, out, result, sent, signed>>

Step(i) ==
    \/ Stagger(i) \/ TimerFires(i) \/ StaggerCancelled(i)
    \/ CallSigns(i) \/ CallFails(i) \/ Record(i)

Next ==
    \/ Start \/ Wait \/ SequentialReturns \/ CallerCancels \/ Tick
    \/ \E i \in Items : Step(i)

Spec == Init /\ [][Next]_vars

\* Goroutines are scheduled, timers fire, and every call of a signer returns.
FairSpec ==
    /\ Spec
    /\ WF_vars(Start) /\ WF_vars(Wait) /\ WF_vars(SequentialReturns) /\ WF_vars(Tick)
    /\ \A i \in UNION {1..n : n \in Sizes} : WF_vars(i \in Items /\ Step(i))
-----------------------------------------------------------------------------
(* Properties *)

\* The error SignMessages and SignTransactions return is the cause: what they cancel
\* because of it never takes its place, so a cancellation is reported only to a
\* caller that cancelled.
CauseReturned == result.err = "context" => caller

\* What a batch returns accounts for what the signer did: all in order, or, from a
\* signer with provider-side effects, the exact prefix before the one item that
\* failed, beyond which nothing was asked of the provider.  A concurrent batch that
\* fails returns none of the signatures its other items have got.
ResultAccounts ==
    /\ result.kind = "Ok" => result.out = [i \in Items |-> i] /\ signed = Items
    /\ result.kind = "Err" /\ ~batch.effects => result.out = <<>>
    /\ result.kind = "Err" /\ batch.effects =>
        LET k == Len(result.out) + 1
        IN  /\ result.out = [i \in 1..Len(result.out) |-> i]
            /\ failure[k] = result.err /\ result.err # NONE
            /\ sent \subseteq 1..k

\* No call of the signer outlives the batch: once the helper has returned, nothing
\* more is sent or signed.
NothingAfterReturn == [][~Running => UNCHANGED <<sent, signed>>]_vars

\* However the tasks get their slots, by any time no more calls have begun than one
\* a RequestDelay.
RateRespected == batch.delay > 0 => Cardinality(sent) <= now \div batch.delay + 1

\* The batch ends, although errors and cancellation meet tasks that wait for a slot
\* or for their time.
BatchReturns == <>~Running
=============================================================================
