------------------------- MODULE LedgerCalls_proofs -------------------------
(* Theorems about LedgerDevice, continued: no call is lost, and the session *)
(* is the one the command asked for.                                        *)
EXTENDS LedgerDevice_proofs

USE LedgerConstants DEF Option, Err, NoResult, Key, Sig

-----------------------------------------------------------------------------
(* The inductive invariants *)

\* A command that names a caller is that caller's call, pending in one place; a caller
\* that has not returned has a command that names it.  The answer is there before it
\* is sent.
PendingInv ==
    /\ at = "recv" => cmd = NoCommand
    /\ at \in {"open", "reopen", "reply"} => out.kind # "None"
    /\ \A c \in Callers :
        /\ pc[c] # "idle" => call[c].to = c
        /\ \A i \in DOMAIN queue : queue[i].to = c =>
              /\ pc[c] = "waiting" /\ queue[i] = call[c]
              /\ \A j \in DOMAIN queue : queue[j].to = c => j = i
        /\ at \notin {"recv", "release"} /\ cmd.to = c =>
              /\ pc[c] = "waiting" /\ cmd = call[c]
              /\ \A i \in DOMAIN queue : queue[i].to # c

\* Only a connect shows the address.
ConfirmsConnect ==
    /\ \A c \in Callers : call[c].confirm => call[c].op = "connect"
    /\ \A i \in DOMAIN queue : queue[i].confirm => queue[i].op = "connect"
    /\ cmd.confirm => cmd.op = "connect"

AttachedAt(d, host) == place[d] # NONE /\ (host # NONE => place[d] = host)

\* Which commands reach which exchange, without a session until one is established,
\* and that the device that is asked to confirm is the one the command selects.
ServeInv ==
    /\ at \in {"reuse", "confirm", "open", "reopen", "launch"} => cmd.op = "connect"
    /\ at = "enumerate" => cmd.op = "isAttached"
    /\ at \in {"establish", "confirm", "open", "reopen", "launch"} => ~session.open
    /\ at = "confirm" /\ conn # NONE => AttachedAt(conn, cmd.host)
    /\ at = "recv" => ~declined
    /\ cmd.op = "sign" /\ at \notin {"reply", "release"} => ~declined

-----------------------------------------------------------------------------
(* What a step of a caller is, seen from the thread *)

Forgets(c) == \A b \in Callers : call'[b] = call[b] \/ (call'[b] = NoCommand /\ b = c)

Refused(c) ==
    /\ pc[c] = "idle" /\ pc' = pc /\ Forgets(c)
    /\ UNCHANGED <<queue, cmd, reply>>

Begun(c) ==
    /\ pc[c] = "idle"
    /\ \E k \in Command : /\ k.to = c /\ (k.confirm => k.op = "connect")
                          /\ call' = [call EXCEPT ![c] = k]
    /\ \E p \in {"claimed", "checked"} : pc' = [pc EXCEPT ![c] = p]
    /\ UNCHANGED <<queue, cmd, reply>>

Sent(c) ==
    /\ pc[c] \in {"claimed", "checked"}
    /\ queue' = Append(queue, call[c])
    /\ pc' = [pc EXCEPT ![c] = "waiting"]
    /\ UNCHANGED <<call, cmd, reply>>

\* The send fails, or the answer is received.
Ended(c) ==
    /\ \/ pc[c] \in {"claimed", "checked"} /\ reply' = reply
       \/ pc[c] = "waiting" /\ reply[c].kind # "None" /\ reply' = [reply EXCEPT ![c] = NoResult]
    /\ pc' = [pc EXCEPT ![c] = "idle"] /\ Forgets(c)
    /\ UNCHANGED <<queue, cmd>>

LEMMA CallerShapes ==
    ASSUME TypeOK, NEW c \in Callers, CallerStep(c)
    PROVE  /\ Refused(c) \/ Begun(c) \/ Sent(c) \/ Ended(c) \/ (DropReceiver(c) /\ Forgets(c))
           /\ UNCHANGED <<at, tries, conn, out, session, declined, deviceVars>>
<1> USE DEF TypeOK
<1>0. \A r : Return(c, r) => Forgets(c)
  BY ReturnForgets DEF Forgets
<1>u. UNCHANGED <<at, tries, conn, out, session, declined, deviceVars>>
  BY DEF CallerStep, RejectInput, Connect, SignMessage, SignTransaction, IsAvailable, Acquire,
         IsAttached, Send, Receive, Timeout, Cancel, DropReceiver, threadVars
<1>a. ASSUME NEW k \in Command, NEW e \in Errors, k.to = c, k.confirm => k.op = "connect",
             Acquire(c, k, e)
      PROVE  Refused(c) \/ Begun(c)
  <2>1. CASE busy
    BY <1>0, <1>a, <2>1 DEF Acquire, Refused, threadVars
  <2>2. CASE ~busy
    BY <1>a, <2>2 DEF Acquire, Begin, Begun, threadVars
  <2> QED
    BY <2>1, <2>2
<1>1. CASE RejectInput(c)
  BY <1>0, <1>1 DEF RejectInput, Refused, sharedVars, threadVars
<1>2. CASE Connect(c)
  <2>1. PICK config \in Configs :
          Acquire(c, [op |-> "connect", host |-> config.host, confirm |-> config.confirm,
                      autoOpen |-> config.autoOpen, msg |-> NONE, to |-> c, claim |-> TRUE], "Busy")
    BY <1>2 DEF Connect
  <2> DEFINE k == [op |-> "connect", host |-> config.host, confirm |-> config.confirm,
                   autoOpen |-> config.autoOpen, msg |-> NONE, to |-> c, claim |-> TRUE]
  <2>2. k \in Command /\ k.to = c /\ k.op = "connect"
    BY DEF Command, Ops
  <2> HIDE DEF k
  <2> QED
    BY <2>1, <2>2, <1>a, <1>u DEF k, Errors
<1>s. ASSUME NEW op \in {"sign", "isAvailable"}, NEW m \in Option(Messages)
      PROVE  LET k == SignerCommand(c, op, m) IN k \in Command /\ k.to = c /\ ~k.confirm
  BY DEF SignerCommand, Command, Ops, ProbeOps, Signer
<1>3. CASE SignMessage(c)
  BY <1>3, <1>s, <1>a, <1>u DEF SignMessage, Errors
<1>4. CASE SignTransaction(c)
  BY <1>4, <1>s, <1>a, <1>u DEF SignTransaction, Errors
<1>5. CASE IsAvailable(c)
  BY <1>5, <1>s, <1>a, <1>u DEF IsAvailable, Errors
<1>6. CASE IsAttached(c)
  <2> DEFINE k == [NoCommand EXCEPT !.to = c]
  <2>1. k \in Command /\ k.to = c /\ ~k.confirm
    BY DEF NoCommand, Command, Ops, ProbeOps
  <2> HIDE DEF k
  <2>2. CASE busy
    BY <1>0, <1>6, <1>u, <2>2 DEF IsAttached, Refused, sharedVars, threadVars
  <2>3. CASE ~busy
    <3>1. /\ pc[c] = "idle" /\ call' = [call EXCEPT ![c] = k]
          /\ pc' = [pc EXCEPT ![c] = "checked"] /\ UNCHANGED <<queue, cmd, reply>>
      BY <1>6, <2>3 DEF IsAttached, Begin, sharedVars, threadVars, k
    <3> QED
      BY <1>u, <2>1, <3>1 DEF Begun
  <2> QED
    BY <2>2, <2>3
<1>7. CASE Send(c)
  <2>1. CASE alive
    BY <1>7, <1>u, <2>1 DEF Send, Sent, threadVars
  <2>2. CASE ~alive
    BY <1>0, <1>7, <1>u, <2>2 DEF Send, Ended, threadVars
  <2> QED
    BY <2>1, <2>2
<1>8. CASE Receive(c)
  BY <1>0, <1>8, <1>u DEF Receive, Ended, sharedVars, threadVars
<1>9. CASE Timeout(c) \/ Cancel(c)
  BY <1>0, <1>9, <1>u DEF Timeout, Cancel
<1> QED
  BY <1>1, <1>2, <1>3, <1>4, <1>5, <1>6, <1>7, <1>8, <1>9 DEF CallerStep

\* Dropping a receiver touches the commands of that caller only, and only their `to`.
LEMMA OrphanFields ==
    ASSUME NEW k \in Command, NEW c \in Callers
    PROVE  /\ Orphan(k, c).to = IF k.to = c THEN NONE ELSE k.to
           /\ k.to # c => Orphan(k, c) = k
           /\ Orphan(k, c).op = k.op /\ Orphan(k, c).host = k.host
           /\ Orphan(k, c).confirm = k.confirm
BY DEF Orphan, Command

-----------------------------------------------------------------------------
(* No call is lost *)

LostInv == PendingInv /\ NoLostCall

LEMMA InitLost == Init => LostInv
BY NoCommandFields DEF Init, LostInv, PendingInv, NoLostCall

\* A step between two places where the thread serves a command, that moves nothing.
LEMMA LostFrame ==
    ASSUME LostInv, UNCHANGED <<queue, cmd, pc, call, reply>>,
           at' = at \/ (at \notin {"recv", "release"} /\ at' \notin {"recv", "release"}),
           at' \in {"open", "reopen", "reply"} => out'.kind # "None"
    PROVE  LostInv'
<1>1. PendingInv'
  BY DEF LostInv, PendingInv
<1>2. NoLostCall'
  BY DEF LostInv, NoLostCall
<1> QED
  BY <1>1, <1>2 DEF LostInv

LEMMA LostCaller ==
    ASSUME TypeOK, LostInv, NEW c \in Callers, CallerStep(c)
    PROVE  LostInv'
<1> USE DEF TypeOK, LostInv
<1>0. at' = at /\ out' = out
  BY CallerShapes
<1>1. CASE Refused(c)
  <2>1. PendingInv'
    BY <1>0, <1>1 DEF Refused, Forgets, PendingInv
  <2>2. NoLostCall'
    BY <1>0, <1>1 DEF Refused, Forgets, NoLostCall
  <2> QED
    BY <2>1, <2>2
<1>2. CASE Begun(c)
  <2>1. PICK k \in Command : k.to = c /\ call' = [call EXCEPT ![c] = k]
    BY <1>2 DEF Begun
  <2>2. PICK p \in {"claimed", "checked"} : pc' = [pc EXCEPT ![c] = p]
    BY <1>2 DEF Begun
  <2>3. pc[c] = "idle" /\ UNCHANGED <<queue, cmd, reply>>
    BY <1>2 DEF Begun
  <2>4. PendingInv'
    BY <1>0, <2>1, <2>2, <2>3 DEF PendingInv
  <2>5. NoLostCall'
    BY <1>0, <2>1, <2>2, <2>3 DEF NoLostCall
  <2> QED
    BY <2>4, <2>5
<1>3. CASE Sent(c)
  <2> DEFINE n == Len(queue)
  <2>1. /\ pc[c] \in {"claimed", "checked"} /\ pc' = [pc EXCEPT ![c] = "waiting"]
        /\ UNCHANGED <<call, cmd, reply>> /\ queue' = Append(queue, call[c])
    BY <1>3 DEF Sent
  <2>2. /\ n \in Nat /\ DOMAIN queue = 1..n /\ DOMAIN queue' = 1..(n + 1)
        /\ queue'[n + 1] = call[c]
        /\ \A i \in 1..n : queue'[i] = queue[i]
    BY <2>1
  <2>3. call[c].to = c /\ reply[c].kind = "None" /\ \A i \in DOMAIN queue : queue[i].to # c
    BY <2>1 DEF PendingInv, NoLostCall
  <2>4. at \notin {"recv", "release"} => cmd.to # c
    BY <2>1 DEF PendingInv
  <2>5. PendingInv'
    BY <1>0, <2>1, <2>2, <2>3, <2>4 DEF PendingInv
  <2>6. NoLostCall'
    BY <1>0, <2>1, <2>2, <2>3 DEF NoLostCall
  <2> QED
    BY <2>5, <2>6
<1>4. CASE Ended(c)
  <2>1. /\ pc' = [pc EXCEPT ![c] = "idle"] /\ Forgets(c) /\ UNCHANGED <<queue, cmd>>
        /\ \A b \in Callers : b # c => reply'[b] = reply[b]
    BY <1>4 DEF Ended
  <2>2. reply'[c].kind = "None"
    BY <1>4 DEF Ended, NoLostCall
  <2>3. /\ \A i \in DOMAIN queue : queue[i].to # c
        /\ at \notin {"recv", "release"} => cmd.to # c
    BY <1>4 DEF Ended, PendingInv, NoLostCall
  <2>4. PendingInv'
    BY <1>0, <2>1, <2>3 DEF Forgets, PendingInv
  <2>5. NoLostCall'
    BY <1>0, <2>1, <2>2 DEF Forgets, NoLostCall
  <2> QED
    BY <2>4, <2>5
<1>5. CASE DropReceiver(c) /\ Forgets(c)
  <2>1. /\ pc[c] = "waiting" /\ reply[c].kind = "None" /\ reply' = reply
        /\ pc' = [pc EXCEPT ![c] = "idle"]
        /\ cmd' = Orphan(cmd, c) /\ queue' = [i \in DOMAIN queue |-> Orphan(queue[i], c)]
    BY <1>5 DEF DropReceiver
  <2>2. /\ cmd'.to = IF cmd.to = c THEN NONE ELSE cmd.to
        /\ cmd.to # c => cmd' = cmd
    BY <2>1, OrphanFields
  <2>3. /\ DOMAIN queue' = DOMAIN queue
        /\ \A i \in DOMAIN queue :
              /\ queue'[i].to = IF queue[i].to = c THEN NONE ELSE queue[i].to
              /\ queue[i].to # c => queue'[i] = queue[i]
    BY <2>1, OrphanFields
  <2>4. NoCommand.to = NONE
    BY NoCommandFields
  <2>5. PendingInv'
    BY <1>0, <1>5, <2>1, <2>2, <2>3, <2>4 DEF Forgets, PendingInv
  <2>6. NoLostCall'
    BY <1>0, <1>5, <2>1, <2>2, <2>3 DEF Forgets, PendingInv, NoLostCall
  <2> QED
    BY <2>5, <2>6
<1> QED
  BY <1>1, <1>2, <1>3, <1>4, <1>5, CallerShapes

\* Taking a command moves it from the head of the channel to the thread.
LEMMA LostTake ==
    ASSUME TypeOK, LostInv, TakeCommand
    PROVE  LostInv'
<1> DEFINE n == Len(queue)
<1>1. /\ n \in Nat /\ n > 0 /\ DOMAIN queue = 1..n
      /\ cmd' = queue[1]
      /\ DOMAIN queue' = 1..(n - 1)
      /\ \A i \in 1..(n - 1) : queue'[i] = queue[i + 1]
  BY DEF TypeOK, TakeCommand
<1>2. UNCHANGED <<pc, call, reply>> /\ at = "recv" /\ at' \in {"reuse", "enumerate", "ready"}
  BY DEF TakeCommand, Goto, callerVars
<1>3. cmd.to = NONE
  BY <1>2, NoCommandFields DEF LostInv, PendingInv
<1>4. PendingInv'
  <2>1. ASSUME NEW c \in Callers, NEW i \in 1..(n - 1), queue'[i].to = c
        PROVE  /\ pc[c] = "waiting" /\ queue'[i] = call[c] /\ cmd'.to # c
               /\ \A j \in 1..(n - 1) : queue'[j].to = c => j = i
    <3>1. i + 1 \in DOMAIN queue /\ queue'[i] = queue[i + 1] /\ 1 \in DOMAIN queue
      BY <1>1
    <3>2. /\ pc[c] = "waiting" /\ queue[i + 1] = call[c]
          /\ \A j \in DOMAIN queue : queue[j].to = c => j = i + 1
      BY <2>1, <3>1 DEF LostInv, PendingInv
    <3>3. cmd'.to # c
      BY <1>1, <3>1, <3>2
    <3>4. ASSUME NEW j \in 1..(n - 1), queue'[j].to = c PROVE j = i
      BY <1>1, <3>2, <3>4
    <3> QED
      BY <3>1, <3>2, <3>3, <3>4
  <2>2. ASSUME NEW c \in Callers, cmd'.to = c
        PROVE  pc[c] = "waiting" /\ cmd' = call[c]
    BY <1>1, <2>2 DEF LostInv, PendingInv
  <2> QED
    BY <1>1, <1>2, <2>1, <2>2 DEF LostInv, PendingInv
<1>5. NoLostCall'
  <2> SUFFICES ASSUME NEW c \in Callers
               PROVE  /\ pc[c] = "waiting" /\ reply[c].kind = "None" =>
                           cmd' = call[c] \/ \E i \in DOMAIN queue' : queue'[i] = call[c]
                      /\ reply[c].kind # "None" =>
                           /\ pc[c] = "waiting" /\ cmd'.to # c
                           /\ \A i \in DOMAIN queue' : queue'[i].to # c
    BY <1>2 DEF NoLostCall
  <2>1. ASSUME pc[c] = "waiting", reply[c].kind = "None"
        PROVE  cmd' = call[c] \/ \E i \in DOMAIN queue' : queue'[i] = call[c]
    <3>1. cmd # call[c]
      BY <1>3, <2>1 DEF LostInv, PendingInv
    <3>2. PICK i \in DOMAIN queue : queue[i] = call[c]
      BY <2>1, <3>1 DEF LostInv, NoLostCall
    <3>3. CASE i = 1
      BY <1>1, <3>2, <3>3
    <3>4. CASE i # 1
      <4>1. i - 1 \in DOMAIN queue' /\ queue'[i - 1] = queue[i]
        BY <1>1, <3>4
      <4> QED
        BY <3>2, <4>1
    <3> QED
      BY <3>3, <3>4
  <2>2. ASSUME reply[c].kind # "None"
        PROVE  /\ pc[c] = "waiting" /\ cmd'.to # c
               /\ \A i \in DOMAIN queue' : queue'[i].to # c
    BY <1>1, <2>2 DEF LostInv, NoLostCall
  <2> QED
    BY <2>1, <2>2
<1> QED
  BY <1>4, <1>5 DEF LostInv

\* The answer reaches the caller of the command, or nobody.
LEMMA LostReply ==
    ASSUME TypeOK, LostInv, SendReply
    PROVE  LostInv'
<1>1. /\ at = "reply" /\ at' = "release" /\ UNCHANGED <<queue, cmd, pc, call>>
      /\ reply' = [c \in Callers |-> IF c = cmd.to THEN Answered ELSE reply[c]]
  BY DEF SendReply, Goto, sharedVars
<1>2. Answered.kind # "None"
  BY <1>1 DEF Answered, LostInv, PendingInv
<1>3. PendingInv'
  BY <1>1 DEF LostInv, PendingInv
<1>4. NoLostCall'
  <2>1. ASSUME NEW c \in Callers, c = cmd.to
        PROVE  /\ pc[c] = "waiting" /\ reply'[c].kind # "None"
               /\ \A i \in DOMAIN queue : queue[i].to # c
    BY <1>1, <1>2, <2>1 DEF LostInv, PendingInv
  <2>2. ASSUME NEW c \in Callers, c # cmd.to, pc[c] = "waiting", reply[c].kind = "None"
        PROVE  \E i \in DOMAIN queue : queue[i] = call[c]
    BY <2>2 DEF LostInv, PendingInv, NoLostCall
  <2>3. ASSUME NEW c \in Callers, c # cmd.to
        PROVE  reply'[c] = reply[c]
    BY <1>1, <2>3
  <2> QED
    BY <1>1, <2>1, <2>2, <2>3 DEF LostInv, NoLostCall
<1> QED
  BY <1>3, <1>4 DEF LostInv

LEMMA LostRelease ==
    ASSUME LostInv, ReleaseClaim
    PROVE  LostInv'
<1>1. /\ at = "release" /\ at' = "recv" /\ cmd' = NoCommand
      /\ UNCHANGED <<queue, pc, call, reply>>
  BY DEF ReleaseClaim, Goto, callerVars
<1>2. PendingInv'
  BY <1>1 DEF LostInv, PendingInv
<1>3. NoLostCall'
  BY <1>1 DEF LostInv, NoLostCall
<1> QED
  BY <1>2, <1>3 DEF LostInv

\* A panic answers every command that is pending.
LEMMA LostPanic ==
    ASSUME TypeOK, LostInv, ThreadPanics
    PROVE  LostInv'
<1>1. /\ at \notin {"recv", "release"} /\ at' = "recv" /\ cmd' = NoCommand /\ queue' = <<>>
      /\ UNCHANGED <<pc, call>>
      /\ reply' = [c \in Callers |-> IF \E p \in Pending : p.to = c
                                     THEN Failure(call[c], "Stopped") ELSE reply[c]]
  BY DEF ThreadPanics
<1>2. \A c \in Callers : Failure(call[c], "Stopped").kind # "None"
  BY DEF Failure
<1>3. ASSUME NEW c \in Callers, NEW p \in Pending, p.to = c
      PROVE  pc[c] = "waiting"
  BY <1>1, <1>3 DEF Pending, LostInv, PendingInv
<1>4. ASSUME NEW c \in Callers, pc[c] = "waiting", reply[c].kind = "None"
      PROVE  \E p \in Pending : p.to = c
  BY <1>4 DEF Pending, LostInv, PendingInv, NoLostCall
<1>5. PendingInv'
  BY <1>1 DEF LostInv, PendingInv
<1>6. \A c \in Callers : \/ reply'[c].kind # "None" /\ pc[c] = "waiting"
                         \/ reply'[c] = reply[c] /\ ~\E p \in Pending : p.to = c
  BY <1>1, <1>2, <1>3
<1>7. NoLostCall'
  BY <1>1, <1>4, <1>6 DEF LostInv, NoLostCall
<1> QED
  BY <1>5, <1>7 DEF LostInv

LEMMA LostThread ==
    ASSUME TypeOK, LostInv, ThreadStep, ~TakeCommand, ~SendReply, ~ReleaseClaim
    PROVE  LostInv'
<1>1. UNCHANGED <<queue, cmd, pc, call, reply>>
  BY DEF ThreadStep, ReuseSession, AbandonSession, WithSession, Establish, AskToConfirm,
         EstablishFails, OpenApp, ReopenApp, LaunchReadFails, UseSession, EnumerateVendor,
         ThreadOnly, sharedVars, callerVars
<1>2. at \notin {"recv", "release"} /\ at' \notin {"recv", "release"}
  BY DEF ThreadStep, ReuseSession, AbandonSession, WithSession, Establish, AskToConfirm,
         EstablishFails, AttemptFails, OpenApp, ReopenApp, AskToLaunch, LaunchGivenUp,
         LaunchReadFails, UseSession, UseFails, EnumerateVendor, Goto, Answer
<1>3. at' \in {"open", "reopen", "reply"} => out'.kind # "None"
  BY DEF LostInv, PendingInv, ThreadStep, ReuseSession, AbandonSession, WithSession, Establish,
         AskToConfirm, EstablishFails, AttemptFails, FaultKinds, OpenApp, ReopenApp, AskToLaunch,
         LaunchGivenUp, LaunchReadFails, UseSession, UseFails, EnumerateVendor, Goto, Answer
<1> QED
  BY <1>1, <1>2, <1>3, LostFrame

LEMMA LostHardware ==
    ASSUME TypeOK, LostInv, Hardware, ~ThreadPanics
    PROVE  LostInv'
<1>1. UNCHANGED <<queue, cmd, pc, call, reply>>
  BY DEF Hardware, Respond, PromptFails, ApprovePubkey, ApproveSignature, ApproveLaunch,
         Decline, Attach, Detach, SwitchApp, ThreadOnly, sharedVars, callerVars
<1>2. /\ at' = at \/ (at \notin {"recv", "release"} /\ at' \notin {"recv", "release"})
      /\ at' \in {"open", "reopen", "reply"} => out'.kind # "None"
  BY DEF LostInv, PendingInv, Hardware, Respond, PromptFails, ApprovePubkey, ApproveSignature,
         ApproveLaunch, Decline, Attach, Detach, SwitchApp, AttemptFails, UseFails, FaultKinds,
         Goto, Answer, threadVars
<1> QED
  BY <1>1, <1>2, LostFrame

\* No call is lost: a caller that waits has its own command pending, or its answer in
\* its channel, through deadlines, cancellations and panics; and an answer in a channel
\* belongs to the call that waits.
THEOREM NoCallIsLost == Spec => []NoLostCall
<1>1. TypeOK /\ LostInv /\ [Next]_vars => LostInv'
  <2>1. ASSUME TypeOK, LostInv, Next PROVE LostInv'
    BY <2>1, LostCaller, LostThread, LostTake, LostReply, LostRelease, LostPanic, LostHardware
       DEF Next
  <2>2. ASSUME LostInv, UNCHANGED vars PROVE LostInv'
    BY <2>2, LostFrame DEF vars, sharedVars, threadVars, callerVars, LostInv, PendingInv
  <2> QED
    BY <2>1, <2>2
<1>2. LostInv => NoLostCall
  BY DEF LostInv
<1> QED
  BY <1>1, <1>2, InitLost, TypeCorrect, PTL DEF Spec

-----------------------------------------------------------------------------
(* The session *)

SessionInv == ServeInv /\ SessionMatches /\ SessionAfterAnswer

LEMMA InitSession == Init => ConfirmsConnect /\ SessionInv
BY DEF Init, ConfirmsConnect, SessionInv, ServeInv, SessionMatches, SessionAfterAnswer, NoCommand,
       NoSession

LEMMA ConfirmsStep == TypeOK /\ ConfirmsConnect /\ [Next]_vars => ConfirmsConnect'
<1> SUFFICES ASSUME TypeOK, ConfirmsConnect, [Next]_vars PROVE ConfirmsConnect'
  OBVIOUS
<1>0. ~NoCommand.confirm
  BY DEF NoCommand
<1>f. ASSUME UNCHANGED <<queue, cmd, call>> PROVE ConfirmsConnect'
  BY <1>f DEF ConfirmsConnect
<1>1. ASSUME NEW c \in Callers, CallerStep(c) PROVE ConfirmsConnect'
  <2> USE DEF TypeOK, ConfirmsConnect
  <2>1. CASE Refused(c) \/ Ended(c)
    BY <1>0, <2>1 DEF Refused, Ended, Forgets
  <2>2. CASE Begun(c)
    BY <2>2 DEF Begun
  <2>3. CASE Sent(c)
    <3> DEFINE n == Len(queue)
    <3>1. UNCHANGED <<call, cmd>> /\ queue' = Append(queue, call[c])
      BY <2>3 DEF Sent
    <3>2. /\ n \in Nat /\ DOMAIN queue = 1..n /\ DOMAIN queue' = 1..(n + 1)
          /\ queue'[n + 1] = call[c]
          /\ \A i \in 1..n : queue'[i] = queue[i]
      BY <3>1
    <3> QED
      BY <3>1, <3>2
  <2>4. CASE DropReceiver(c) /\ Forgets(c)
    <3>1. cmd' = Orphan(cmd, c) /\ queue' = [i \in DOMAIN queue |-> Orphan(queue[i], c)]
      BY <2>4 DEF DropReceiver
    <3>2. cmd'.op = cmd.op /\ cmd'.confirm = cmd.confirm
      BY <3>1, OrphanFields
    <3>3. /\ DOMAIN queue' = DOMAIN queue
          /\ \A i \in DOMAIN queue : queue'[i].op = queue[i].op /\ queue'[i].confirm = queue[i].confirm
      BY <3>1, OrphanFields
    <3> QED
      BY <1>0, <2>4, <3>2, <3>3 DEF Forgets
  <2> QED
    BY <1>1, <2>1, <2>2, <2>3, <2>4, CallerShapes
<1>2. CASE TakeCommand
  <2> DEFINE n == Len(queue)
  <2>1. /\ n \in Nat /\ n > 0 /\ DOMAIN queue = 1..n /\ cmd' = queue[1] /\ call' = call
        /\ DOMAIN queue' = 1..(n - 1)
        /\ \A i \in 1..(n - 1) : queue'[i] = queue[i + 1]
    BY <1>2 DEF TypeOK, TakeCommand, callerVars
  <2> QED
    BY <2>1 DEF ConfirmsConnect
<1>3. CASE ReleaseClaim \/ ThreadPanics
  BY <1>0, <1>3 DEF ReleaseClaim, ThreadPanics, callerVars, ConfirmsConnect
<1>4. CASE ThreadStep /\ ~TakeCommand /\ ~ReleaseClaim
  BY <1>4, <1>f DEF ThreadStep, ReuseSession, AbandonSession, WithSession, Establish, AskToConfirm,
     EstablishFails, OpenApp, ReopenApp, LaunchReadFails, UseSession, EnumerateVendor, SendReply,
     ThreadOnly, sharedVars, callerVars
<1>5. CASE Hardware /\ ~ThreadPanics
  BY <1>5, <1>f DEF Hardware, Respond, PromptFails, ApprovePubkey, ApproveSignature,
     ApproveLaunch, Decline, Attach, Detach, SwitchApp, ThreadOnly, sharedVars, callerVars
<1>6. CASE UNCHANGED vars
  BY <1>6, <1>f DEF vars, sharedVars, threadVars, callerVars
<1> QED
  BY <1>1, <1>2, <1>3, <1>4, <1>5, <1>6 DEF Next

\* Callers change nothing the session depends on, nor does a step of nobody.
LEMMA SessionFrame ==
    ASSUME SessionInv, UNCHANGED <<at, conn, out, session, declined, place>>,
           cmd'.op = cmd.op, cmd'.host = cmd.host
    PROVE  SessionInv'
<1>1. ServeInv'
  BY DEF SessionInv, ServeInv, AttachedAt
<1>2. SessionMatches'
  BY DEF SessionInv, SessionMatches
<1>3. SessionAfterAnswer'
  BY DEF SessionInv, SessionAfterAnswer
<1> QED
  BY <1>1, <1>2, <1>3 DEF SessionInv

LEMMA SessionCaller ==
    ASSUME TypeOK, SessionInv, NEW c \in Callers, CallerStep(c)
    PROVE  SessionInv'
<1>1. UNCHANGED <<at, conn, out, session, declined, place>>
  BY CallerShapes DEF deviceVars
<1>2. cmd' = cmd \/ cmd' = Orphan(cmd, c)
  BY CallerShapes DEF Refused, Begun, Sent, Ended, DropReceiver
<1>3. cmd'.op = cmd.op /\ cmd'.host = cmd.host
  BY <1>2, OrphanFields DEF TypeOK
<1> QED
  BY <1>1, <1>3, SessionFrame

\* A step of the thread that leaves the bus alone.
LEMMA SessionThread ==
    ASSUME TypeOK, ConfirmsConnect, SessionInv, ThreadStep
    PROVE  SessionInv'
<1> USE DEF Goto, Answer, ThreadOnly, deviceVars
<1>1. CASE TakeCommand
  <2>1. /\ at' \in {"reuse", "enumerate", "ready"}
        /\ at' = "reuse" => cmd'.op = "connect"
        /\ at' = "enumerate" => cmd'.op = "isAttached"
        /\ ~declined /\ UNCHANGED <<session, place, declined>>
    BY <1>1 DEF TakeCommand, SessionInv, ServeInv
  <2> QED
    BY <2>1 DEF SessionInv, ServeInv, SessionMatches, SessionAfterAnswer
<1>2. CASE ReuseSession
  BY <1>2 DEF ReuseSession, SessionInv, ServeInv, SessionMatches, SessionAfterAnswer
<1>3. CASE AbandonSession
  BY <1>3 DEF AbandonSession, SessionInv, ServeInv, SessionMatches, SessionAfterAnswer, NoSession
<1>4. CASE WithSession
  BY <1>4 DEF WithSession, SessionInv, ServeInv, SessionMatches, SessionAfterAnswer, NoSession
<1>5. CASE Establish
  <2>1. PICK d \in Devices :
          /\ Selects(Enumerated, d) /\ session' = OpenSession(d)
          /\ \/ cmd.op = "connect" /\ at' = "reply"
             \/ cmd.op # "connect" /\ at' = "use"
    BY <1>5 DEF Establish
  <2>2. AttachedAt(d, cmd.host) /\ d # NONE
    BY <2>1 DEF Selects, Enumerated, AttachedAt
  <2>3. session'.open /\ session'.dev = d /\ session'.host = cmd.host
    BY <2>1 DEF OpenSession
  <2>4. UNCHANGED <<cmd, place, declined>> /\ at = "establish"
    BY <1>5 DEF Establish
  <2> QED
    BY <2>1, <2>2, <2>3, <2>4 DEF SessionInv, ServeInv, SessionMatches, SessionAfterAnswer, AttachedAt
<1>6. CASE AskToConfirm
  <2>1. PICK d \in Devices : Selects(Enumerated, d) /\ at' = "confirm" /\ conn' = d
    BY <1>6 DEF AskToConfirm
  <2>2. AttachedAt(d, cmd.host)
    BY <2>1 DEF Selects, Enumerated, AttachedAt
  <2>3. /\ UNCHANGED <<cmd, place, session, declined>> /\ at = "establish"
        /\ cmd.op = "connect"
    BY <1>6 DEF AskToConfirm, ConfirmsConnect
  <2> QED
    BY <2>1, <2>2, <2>3 DEF SessionInv, ServeInv, SessionMatches, SessionAfterAnswer, AttachedAt
<1>7. CASE EstablishFails
  <2>1. /\ UNCHANGED <<cmd, place, session, declined>> /\ at = "establish"
        /\ at' \in {"open", "establish", "reply"} /\ (at' = "open" => cmd.op = "connect")
        /\ out'.kind \in FaultKinds
    BY <1>7 DEF EstablishFails, AttemptFails
  <2> QED
    BY <2>1 DEF SessionInv, ServeInv, SessionMatches, SessionAfterAnswer, FaultKinds
<1>8. CASE OpenApp \/ ReopenApp \/ LaunchReadFails
  <2>1. /\ UNCHANGED <<cmd, place, session, declined>> /\ at \in {"open", "reopen", "launch"}
        /\ at' \in {"reply", "establish", "launch", "reopen"}
    BY <1>8 DEF OpenApp, ReopenApp, LaunchReadFails, AskToLaunch, LaunchGivenUp
  <2> QED
    BY <2>1 DEF SessionInv, ServeInv, SessionMatches, SessionAfterAnswer
<1>9. CASE UseSession
  <2>1. at = "use" /\ UNCHANGED <<cmd, place, declined>>
    BY <1>9 DEF UseSession
  <2>2. \/ cmd.op # "sign" /\ at' = "reply" /\ session' = session
        \/ at' = "sign" /\ session' = session
        \/ at' = "reply" /\ out'.kind \in FaultKinds /\ session' = NoSession
    BY <1>9 DEF UseSession, UseFails, AfterError, SessionAction
  <2> QED
    BY <2>1, <2>2
       DEF SessionInv, ServeInv, SessionMatches, SessionAfterAnswer, NoSession, FaultKinds
<1>10. CASE EnumerateVendor \/ SendReply \/ ReleaseClaim
  BY <1>10 DEF EnumerateVendor, SendReply, ReleaseClaim, SessionInv, ServeInv, SessionMatches,
               SessionAfterAnswer, NoCommand
<1> QED
  BY <1>1, <1>2, <1>3, <1>4, <1>5, <1>6, <1>7, <1>8, <1>9, <1>10 DEF ThreadStep

\* A dead handle stays open, and leads nowhere.
LEMMA SeveredFields ==
    ASSUME TypeOK, NEW d \in Devices
    PROVE  LET s == Severed(d)
           IN  /\ s.open = session.open /\ s.host = session.host
               /\ s.dev = IF session.dev = d THEN NONE ELSE session.dev
BY DEF Severed, TypeOK, Session

LEMMA SessionHardware ==
    ASSUME TypeOK, SessionInv, Hardware
    PROVE  SessionInv'
<1> USE DEF Goto, Answer, ThreadOnly, deviceVars
<1>1. CASE PromptFails
  <2>1. \/ /\ at = "confirm" /\ session' = session /\ at' \in {"open", "establish", "reply"}
        \/ /\ at = "sign" /\ session' = NoSession /\ at' = "reply" /\ out'.kind \in FaultKinds
    BY <1>1 DEF PromptFails, AttemptFails, UseFails, AfterError, SessionAction
  <2>2. UNCHANGED <<cmd, place, declined>>
    BY <1>1 DEF PromptFails
  <2> QED
    BY <2>1, <2>2
       DEF SessionInv, ServeInv, SessionMatches, SessionAfterAnswer, NoSession, FaultKinds
<1>2. CASE ThreadPanics
  BY <1>2 DEF ThreadPanics, SessionInv, ServeInv, SessionMatches, SessionAfterAnswer, NoSession,
              NoCommand
<1>3. ASSUME NEW d \in Devices, ApprovePubkey(d) PROVE SessionInv'
  <2>1. /\ at = "confirm" /\ conn = d /\ at' = "reply" /\ session' = OpenSession(d)
        /\ UNCHANGED <<cmd, place, declined>> /\ d # NONE
    BY <1>3 DEF ApprovePubkey
  <2>2. AttachedAt(d, cmd.host) /\ cmd.op = "connect"
    BY <2>1 DEF SessionInv, ServeInv
  <2>3. session'.open /\ session'.dev = d /\ session'.host = cmd.host
    BY <2>1 DEF OpenSession
  <2> QED
    BY <2>1, <2>2, <2>3 DEF SessionInv, ServeInv, SessionMatches, SessionAfterAnswer, AttachedAt
<1>4. ASSUME NEW d \in Devices, ApproveSignature(d) PROVE SessionInv'
  <2>1. /\ at = "sign" /\ at' = "reply" /\ out'.kind = "Ok"
        /\ UNCHANGED <<cmd, place, session, declined>>
    BY <1>4 DEF ApproveSignature
  <2> QED
    BY <2>1 DEF SessionInv, ServeInv, SessionMatches, SessionAfterAnswer, FaultKinds
<1>s. ASSUME NEW d \in Devices, session' \in {session, Severed(d)},
             UNCHANGED <<cmd, out, declined>>,
             place' = place \/ (place' = [place EXCEPT ![d] = NONE] /\ session' = Severed(d)),
             \/ at' = at /\ conn' = conn /\ (place' # place => conn # d)
             \/ at' = at /\ conn' = NONE
             \/ at = "launch" /\ at' = "establish"
      PROVE  SessionInv'
  <2>1. /\ session'.open = session.open /\ session'.host = session.host
        /\ session'.dev = session.dev \/ (session'.dev = NONE /\ session.dev = d)
        /\ session' = Severed(d) => session'.dev # d
    BY <1>s, SeveredFields
  <2>2. \A e \in Devices : e # d => place'[e] = place[e]
    BY <1>s DEF TypeOK
  <2>3. session.dev \in Devices \cup {NONE} /\ conn \in Devices \cup {NONE}
    BY DEF TypeOK, Session
  <2>4. ServeInv'
    BY <1>s, <2>1, <2>2, <2>3 DEF SessionInv, ServeInv, AttachedAt
  <2>5. SessionMatches'
    BY <1>s, <2>1, <2>2, <2>3 DEF SessionInv, SessionMatches
  <2>6. SessionAfterAnswer'
    BY <1>s, <2>1 DEF SessionInv, SessionAfterAnswer
  <2> QED
    BY <2>4, <2>5, <2>6 DEF SessionInv
<1>5. ASSUME NEW d \in Devices, ApproveLaunch(d) PROVE SessionInv'
  BY <1>5, <1>s DEF ApproveLaunch
<1>6. ASSUME NEW d \in Devices, Decline(d) PROVE SessionInv'
  <2>1. CASE at = "confirm" /\ AttemptFails("UserRejected") /\ UNCHANGED session
    <3>1. at' \in {"open", "establish", "reply"} /\ UNCHANGED <<cmd, place>>
      BY <1>6, <2>1 DEF Decline, AttemptFails
    <3> QED
      BY <2>1, <3>1 DEF SessionInv, ServeInv, SessionMatches, SessionAfterAnswer
  <2>2. CASE at = "sign" /\ UseFails("UserRejected") /\ declined'
    <3>1. /\ at' = "reply" /\ out'.kind = "UserRejected" /\ session' = session
          /\ UNCHANGED <<cmd, place>>
      BY <1>6, <2>2 DEF Decline, UseFails, AfterError, SessionAction, FaultKinds
    <3> QED
      BY <2>2, <3>1 DEF SessionInv, ServeInv, SessionMatches, SessionAfterAnswer, FaultKinds
  <2>3. CASE at = "launch" /\ at' = "reply" /\ UNCHANGED session
    <3>1. UNCHANGED <<cmd, place>>
      BY <1>6 DEF Decline
    <3> QED
      BY <2>3, <3>1 DEF SessionInv, ServeInv, SessionMatches, SessionAfterAnswer
  <2>4. CASE UNCHANGED <<at, out, session, declined>> /\ conn # d
    BY <1>6, <1>s, <2>4 DEF Decline
  <2> QED
    BY <1>6, <2>1, <2>2, <2>3, <2>4 DEF Decline
<1>7. ASSUME NEW d \in Devices, Detach(d) PROVE SessionInv'
  BY <1>7, <1>s DEF Detach
<1>8. ASSUME NEW d \in Devices, NEW p \in Paths, Attach(d, p) PROVE SessionInv'
  <2>1. /\ place[d] = NONE /\ place' = [place EXCEPT ![d] = p]
        /\ UNCHANGED <<at, conn, out, session, declined, cmd>>
    BY <1>8 DEF Attach, threadVars
  <2>2. session.dev \in Devices \cup {NONE} /\ conn \in Devices \cup {NONE}
    BY DEF TypeOK, Session
  <2>3. \A e \in Devices : e # d => place'[e] = place[e]
    BY <2>1 DEF TypeOK
  <2> QED
    BY <2>1, <2>2, <2>3 DEF SessionInv, ServeInv, SessionMatches, SessionAfterAnswer, AttachedAt
<1>9. ASSUME NEW d \in Devices, NEW a \in Apps, SwitchApp(d, a) PROVE SessionInv'
  BY <1>9, <1>s DEF SwitchApp
<1> QED
  BY <1>1, <1>2, <1>3, <1>4, <1>5, <1>6, <1>7, <1>8, <1>9 DEF Hardware, Respond

LEMMA SessionInvariant == Spec => []SessionInv
<1>1. TypeOK /\ ConfirmsConnect /\ SessionInv /\ [Next]_vars => SessionInv'
  <2>1. ASSUME TypeOK, ConfirmsConnect, SessionInv, Next PROVE SessionInv'
    BY <2>1, SessionCaller, SessionThread, SessionHardware DEF Next
  <2>2. ASSUME SessionInv, UNCHANGED vars PROVE SessionInv'
    BY <2>2, SessionFrame DEF vars, threadVars, deviceVars
  <2> QED
    BY <2>1, <2>2
<1> QED
  BY <1>1, InitSession, ConfirmsStep, TypeCorrect, PTL DEF Spec

\* The thread signs only through a session opened for the host path of the command, and
\* a live handle is to a device attached there, however devices are swapped.
THEOREM SessionIsForCommand == Spec => []SessionMatches
<1>1. SessionInv => SessionMatches
  BY DEF SessionInv
<1> QED
  BY <1>1, SessionInvariant, PTL

\* A declined signature keeps the session, a fault drops it, and the answer says which.
THEOREM SessionOutlivesDecline == Spec => []SessionAfterAnswer
<1>1. SessionInv => SessionAfterAnswer
  BY DEF SessionInv
<1> QED
  BY <1>1, SessionInvariant, PTL
=============================================================================
