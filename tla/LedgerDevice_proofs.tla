------------------------ MODULE LedgerDevice_proofs -------------------------
(* Theorems about LedgerDevice, for every set of callers, devices, paths,   *)
(* messages and configurations.                                             *)
EXTENDS LedgerDevice, SequenceTheorems, TLAPS

USE LedgerConstants DEF Option, Err, NoResult, Key, Sig

LEMMA Literals ==
    /\ NoCommand \in Command
    /\ NoSession \in Session
    /\ NoSigner \in Signer
    /\ \A k \in {"None"} \cup Errors : Err(k) \in Result
BY DEF NoCommand, Command, Ops, ProbeOps, NoSession, Session, NoSigner, Signer, Result

LEMMA InitTypeOK == Init => TypeOK
<1>1. <<>> \in Seq(Command) /\ 0 \in 0..MaxRetries
  OBVIOUS
<1>2. NoResult \in Result
  BY Literals DEF Errors
<1>3. SUFFICES ASSUME Init PROVE TypeOK
  OBVIOUS
<1>4. busy \in BOOLEAN /\ queue \in Seq(Command) /\ alive \in BOOLEAN /\ declined \in BOOLEAN
  BY <1>1, <1>3 DEF Init
<1>5. /\ at \in Places /\ cmd \in Command /\ tries \in 0..MaxRetries
      /\ conn \in Option(Devices) /\ out \in Result /\ session \in Session
  BY <1>1, <1>2, <1>3, Literals DEF Init, Places
<1>6. /\ place \in [Devices -> Option(Paths)]
      /\ app \in [Devices -> Apps]
      /\ screen \in [Devices -> {"idle", "launch", "confirm", "sign"}]
  BY <1>3 DEF Init, Apps
<1>7. /\ pc \in [Callers -> {"idle", "claimed", "checked", "waiting"}]
      /\ call \in [Callers -> Command]
      /\ signer \in [Callers -> Signer]
      /\ reply \in [Callers -> Result]
      /\ result \in [Callers -> Result]
  BY <1>2, <1>3, Literals DEF Init
<1>8. QED
  BY <1>4, <1>5, <1>6, <1>7 DEF TypeOK

\* What a caller does keeps the types.
LEMMA CallerTypes ==
    ASSUME TypeOK, NEW c \in Callers, CallerStep(c)
    PROVE  TypeOK'
<1> USE Literals DEF TypeOK, sharedVars, threadVars, deviceVars, callerVars
<1> DEFINE Untouched == UNCHANGED <<threadVars, deviceVars>>
<1>r. ASSUME NEW r \in Result, Return(c, r)
      PROVE  result' \in [Callers -> Result] /\ call' \in [Callers -> Command]
  BY <1>r DEF Return
<1>b. ASSUME NEW k \in Command, Begin(c, k)
      PROVE  result' \in [Callers -> Result] /\ call' \in [Callers -> Command]
  BY <1>b DEF Begin
<1>e. \A k \in Errors \cup {"None"} : Err(k) \in Result
  OBVIOUS
<1>a. ASSUME NEW k \in Command, NEW e \in Errors, Acquire(c, k, e)
      PROVE  TypeOK'
  BY <1>a, <1>r, <1>b, <1>e DEF Acquire
<1>1. CASE RejectInput(c)
  BY <1>1, <1>r, <1>e DEF RejectInput, Errors
<1>2. CASE Connect(c)
  BY <1>2, <1>a DEF Connect, Command, Ops, Errors
<1>3. CASE SignMessage(c)
  BY <1>3, <1>a DEF SignMessage, SignerCommand, Signer, Command, Ops, Errors
<1>4. CASE SignTransaction(c)
  BY <1>4, <1>a DEF SignTransaction, SignerCommand, Signer, Command, Ops, Errors
<1>5. CASE IsAvailable(c)
  BY <1>5, <1>a DEF IsAvailable, SignerCommand, Signer, Command, Ops, ProbeOps, Errors
<1>6. CASE IsAttached(c)
  <2>1. [NoCommand EXCEPT !.to = c] \in Command
    BY DEF NoCommand, Command, Ops, ProbeOps
  <2>2. QED
    BY <1>6, <2>1, <1>r, <1>b, <1>e DEF IsAttached, Errors
<1>7. CASE Send(c)
  <2>1. \A k \in Errors : Failure(call[c], k) \in Result
    BY <1>e DEF Failure, Errors
  <2>2. CASE alive
    <3>0. queue' = Append(queue, call[c]) /\ UNCHANGED <<busy, call, result>>
      BY <1>7, <2>2 DEF Send
    <3>1. queue' \in Seq(Command)
      BY <3>0
    <3>2. pc' \in [Callers -> {"idle", "claimed", "checked", "waiting"}]
      BY <1>7, <2>2 DEF Send
    <3>3. QED
      BY <1>7, <3>0, <3>1, <3>2 DEF Send
  <2>3. CASE ~alive
    <3>1. Return(c, Failure(call[c], "Stopped")) /\ Failure(call[c], "Stopped") \in Result
      BY <1>7, <2>1, <2>3 DEF Send, Errors
    <3>2. busy' \in BOOLEAN
      BY <1>7, <2>3 DEF Send
    <3>3. QED
      BY <1>7, <2>3, <3>1, <3>2, <1>r DEF Send
  <2>4. QED
    BY <2>2, <2>3
<1>8. CASE Receive(c)
  <2>1. Returned(c, reply[c]) \in Result
    BY <1>e DEF Returned, Errors
  <2>2. signer' \in [Callers -> Signer]
    BY <1>8 DEF Receive, Signer, Result, Command
  <2>3. QED
    BY <1>8, <2>1, <2>2, <1>r DEF Receive
<1>d. ASSUME DropReceiver(c)
      PROVE  /\ queue' \in Seq(Command) /\ cmd' \in Command
             /\ pc' \in [Callers -> {"idle", "claimed", "checked", "waiting"}]
             /\ UNCHANGED <<busy, alive, at, tries, conn, out, session, declined,
                            deviceVars, signer, reply>>
  <2>1. \A k \in Command : Orphan(k, c) \in Command
    BY DEF Orphan, Command
  <2>2. queue' \in Seq(Command)
    BY <1>d, <2>1 DEF DropReceiver
  <2>3. QED
    BY <1>d, <2>1, <2>2 DEF DropReceiver
<1>9. CASE Timeout(c)
  <2>1. Failure(call[c], "Busy") \in Result
    BY <1>e DEF Failure, Errors
  <2>2. QED
    BY <1>9, <2>1, <1>r, <1>d DEF Timeout
<1>10. CASE Cancel(c)
  BY <1>10, <1>r, <1>d DEF Cancel
<1>11. QED
  BY <1>1, <1>2, <1>3, <1>4, <1>5, <1>6, <1>7, <1>8, <1>9, <1>10 DEF CallerStep

\* What the device thread does keeps the types.
LEMMA ThreadTypes ==
    ASSUME TypeOK, ThreadStep
    PROVE  TypeOK'
<1> USE Literals DEF TypeOK, sharedVars, threadVars, deviceVars, callerVars,
        Goto, Answer, ThreadOnly
<1>e. \A k \in Errors \cup {"None"} : Err(k) \in Result
  OBVIOUS
<1>k. \A d \in Option(Devices), m \in Option(Messages) : Sig(d, m) \in Result
  BY DEF Result
<1>o. \A d \in Devices : OpenSession(d) \in Session
  BY DEF OpenSession, Session, Command
<1>1. CASE TakeCommand
  <2>1. Head(queue) \in Command /\ Tail(queue) \in Seq(Command)
    BY <1>1 DEF TakeCommand
  <2>2. at' \in Places
    BY <1>1 DEF TakeCommand, Places
  <2>3. QED
    BY <1>1, <2>1, <2>2 DEF TakeCommand
<1>2. CASE ReuseSession
  BY <1>2, <1>k DEF ReuseSession, Session, Places
<1>3. CASE AbandonSession
  BY <1>3 DEF AbandonSession, Places
<1>4. CASE WithSession
  BY <1>4 DEF WithSession, Places
<1>5. CASE Establish
  BY <1>5, <1>k, <1>o DEF Establish, Places
<1>6. CASE AskToConfirm
  BY <1>6 DEF AskToConfirm, Places
<1>7. CASE EstablishFails
  BY <1>7, <1>e DEF EstablishFails, AttemptFails, FaultKinds, Errors, Places
<1>8. CASE OpenApp \/ ReopenApp
  <2> USE DEF AskToLaunch, LaunchGivenUp
  <2>1. at' \in Places
    BY <1>8 DEF OpenApp, ReopenApp, Places
  <2>2. tries' \in 0..MaxRetries
    BY <1>8 DEF OpenApp, ReopenApp
  <2>3. out' \in Result
    BY <1>8, <1>e DEF OpenApp, ReopenApp, Errors
  <2>4. conn' \in Option(Devices)
    BY <1>8 DEF OpenApp, ReopenApp
  <2>5. screen' \in [Devices -> {"idle", "launch", "confirm", "sign"}]
    BY <1>8 DEF OpenApp, ReopenApp
  <2>6. app' \in [Devices -> Apps]
    BY <1>8 DEF OpenApp, ReopenApp, Apps
  <2>7. UNCHANGED <<sharedVars, callerVars, cmd, session, declined, place>>
    BY <1>8 DEF OpenApp, ReopenApp
  <2>8. QED
    BY <2>1, <2>2, <2>3, <2>4, <2>5, <2>6, <2>7
<1>9. CASE LaunchReadFails
  BY <1>9 DEF LaunchReadFails, Places
<1>10. CASE UseSession
  <2>1. \A k \in FaultKinds : Err(k) \in Result /\ AfterError(k) \in Session
    BY <1>e DEF AfterError, FaultKinds, Errors
  <2>2. session.dev \in Option(Devices)
    BY DEF Session
  <2>3. screen' \in [Devices -> {"idle", "launch", "confirm", "sign"}]
    BY <1>10 DEF UseSession
  <2>4. QED
    BY <1>10, <1>k, <2>1, <2>2, <2>3 DEF UseSession, UseFails, Places
<1>11. CASE EnumerateVendor
  BY <1>11, <1>e, <1>k DEF EnumerateVendor, Errors, Places
<1>12. CASE SendReply
  <2>1. Answered \in Result
    BY <1>e DEF Answered, Errors
  <2>2. QED
    BY <1>12, <2>1 DEF SendReply, Places
<1>13. CASE ReleaseClaim
  <2>1. busy' \in BOOLEAN
    BY <1>13 DEF ReleaseClaim
  <2>2. out' \in Result /\ at' \in Places /\ tries' \in 0..MaxRetries
    BY <1>13, <1>e DEF ReleaseClaim, Places
  <2>3. cmd' \in Command /\ declined' \in BOOLEAN
    BY <1>13 DEF ReleaseClaim
  <2>4. UNCHANGED <<queue, alive, conn, session, deviceVars, callerVars>>
    BY <1>13 DEF ReleaseClaim
  <2>5. QED
    BY <2>1, <2>2, <2>3, <2>4
<1>14. QED
  BY <1>1, <1>2, <1>3, <1>4, <1>5, <1>6, <1>7, <1>8, <1>9, <1>10, <1>11, <1>12, <1>13
  DEF ThreadStep

\* So do the user, the hardware and a panic.
LEMMA HardwareTypes ==
    ASSUME TypeOK, Hardware
    PROVE  TypeOK'
<1> USE Literals DEF TypeOK, sharedVars, threadVars, deviceVars, callerVars,
        Goto, Answer, ThreadOnly, Idle
<1>e. \A k \in Errors \cup {"None"} : Err(k) \in Result
  OBVIOUS
<1>k. \A d \in Option(Devices), m \in Option(Messages) : Sig(d, m) \in Result
  BY DEF Result
<1>o. \A d \in Devices : OpenSession(d) \in Session /\ Severed(d) \in Session
  BY DEF OpenSession, Severed, Session, Command
<1>a. \A k \in FaultKinds \cup {"UserRejected"} : Err(k) \in Result /\ AfterError(k) \in Session
  BY <1>e DEF AfterError, FaultKinds, Errors
<1>1. CASE PromptFails
  <2>1. PICK k \in FaultKinds : \/ at = "confirm" /\ AttemptFails(k) /\ UNCHANGED session
                                \/ at = "sign" /\ UseFails(k) /\ UNCHANGED tries
    BY <1>1 DEF PromptFails
  <2>2. at' \in Places /\ out' \in Result /\ tries' \in 0..MaxRetries /\ session' \in Session
    BY <1>a, <2>1 DEF AttemptFails, UseFails, Places
  <2>3. QED
    BY <1>1, <2>2 DEF PromptFails
<1>2. CASE ThreadPanics
  <2>1. \A c \in Callers : Failure(call[c], "Stopped") \in Result
    BY <1>e DEF Failure, Errors
  <2>2. reply' \in [Callers -> Result] /\ NoResult \in Result
    BY <1>2, <2>1, <1>e DEF ThreadPanics
  <2>3. busy' \in BOOLEAN /\ queue' \in Seq(Command)
    BY <1>2 DEF ThreadPanics
  <2>4. out' \in Result /\ at' \in Places /\ tries' \in 0..MaxRetries
    BY <1>2, <2>2 DEF ThreadPanics, Places
  <2>5. alive' \in BOOLEAN /\ declined' \in BOOLEAN /\ cmd' \in Command /\ session' \in Session
    BY <1>2 DEF ThreadPanics
  <2>6. UNCHANGED <<conn, deviceVars, pc, call, signer, result>>
    BY <1>2 DEF ThreadPanics
  <2>7. QED
    BY <2>2, <2>3, <2>4, <2>5, <2>6
<1>3. ASSUME NEW d \in Devices, ApprovePubkey(d)
      PROVE  TypeOK'
  BY <1>3, <1>k, <1>o DEF ApprovePubkey, Places
<1>4. ASSUME NEW d \in Devices, ApproveSignature(d)
      PROVE  TypeOK'
  <2>1. cmd.msg \in Option(Messages)
    BY DEF Command
  <2>2. out' \in Result
    BY <1>4, <1>k, <2>1 DEF ApproveSignature
  <2>3. QED
    BY <1>4, <2>2 DEF ApproveSignature, Places
<1>5. ASSUME NEW d \in Devices, ApproveLaunch(d)
      PROVE  TypeOK'
  BY <1>5, <1>o DEF ApproveLaunch, Places, Apps
<1>6. ASSUME NEW d \in Devices, Decline(d)
      PROVE  TypeOK'
  <2>0. /\ AttemptFails("UserRejected") =>
              at' \in Places /\ out' \in Result /\ tries' \in 0..MaxRetries
        /\ UseFails("UserRejected") =>
              at' \in Places /\ out' \in Result /\ session' \in Session
    BY <1>a DEF AttemptFails, UseFails, Places
  <2>1. /\ at' \in Places /\ out' \in Result /\ tries' \in 0..MaxRetries
        /\ session' \in Session /\ declined' \in BOOLEAN
    <3>1. CASE at = "confirm" /\ conn = d
      BY <1>6, <2>0, <3>1 DEF Decline
    <3>2. CASE at = "sign" /\ conn = d
      BY <1>6, <2>0, <3>2 DEF Decline
    <3>3. CASE at = "launch" /\ conn = d
      BY <1>6, <1>a, <3>3 DEF Decline, Places
    <3>4. CASE conn # d
      BY <1>6, <3>4 DEF Decline
    <3>5. QED
      BY <1>6, <3>1, <3>2, <3>3, <3>4 DEF Decline
  <2>2. QED
    BY <1>6, <2>1 DEF Decline
<1>7. ASSUME NEW d \in Devices, Detach(d)
      PROVE  TypeOK'
  BY <1>7, <1>o DEF Detach
<1>8. ASSUME NEW d \in Devices, NEW p \in Paths, Attach(d, p)
      PROVE  TypeOK'
  BY <1>8 DEF Attach, Apps
<1>9. ASSUME NEW d \in Devices, NEW a \in Apps, SwitchApp(d, a)
      PROVE  TypeOK'
  BY <1>9, <1>o DEF SwitchApp
<1>10. QED
  BY <1>1, <1>2, <1>3, <1>4, <1>5, <1>6, <1>7, <1>8, <1>9 DEF Hardware, Respond

\* Type correctness: whatever the callers, the thread, the user and the cable do.
THEOREM TypeCorrect == Spec => []TypeOK
<1>1. TypeOK /\ [Next]_vars => TypeOK'
  <2>1. ASSUME TypeOK, Next PROVE TypeOK'
    BY <2>1, CallerTypes, ThreadTypes, HardwareTypes DEF Next
  <2>2. ASSUME TypeOK, UNCHANGED vars PROVE TypeOK'
    BY <2>2 DEF TypeOK, vars, sharedVars, threadVars, deviceVars, callerVars
  <2>3. QED
    BY <2>1, <2>2
<1>2. QED
  BY InitTypeOK, <1>1, PTL DEF Spec

-----------------------------------------------------------------------------
(* The claim *)

claimVars == <<busy, queue, cmd, pc, call>>

LEMMA InitClaim == Init => ClaimInv
BY DEF Init, ClaimInv, ClaimExclusive, ClaimAccounted, ClaimUnique, ClaimCarried, NoCommand

\* A step that moves no command and no claim, and sends the thread nowhere it may
\* not be with the command it has.
LEMMA ClaimFrame ==
    ASSUME ClaimInv, UNCHANGED claimVars,
           at' = "recv" => at = "recv",
           at' \notin {"recv", "enumerate", "reply", "release"} => cmd.claim
    PROVE  ClaimInv'
BY DEF ClaimInv, ClaimExclusive, ClaimAccounted, ClaimUnique, ClaimCarried, claimVars

\* The thread's own steps, other than taking and dropping a command.
LEMMA ClaimThread ==
    ASSUME TypeOK, ClaimInv, ThreadStep, ~TakeCommand, ~ReleaseClaim
    PROVE  ClaimInv'
<1>1. UNCHANGED claimVars
  BY DEF ThreadStep, ReuseSession, AbandonSession, WithSession, Establish, AskToConfirm,
         EstablishFails, OpenApp, ReopenApp, LaunchReadFails, UseSession, EnumerateVendor, SendReply,
         ThreadOnly, sharedVars, callerVars, claimVars
<1>2. /\ at' # "recv"
      /\ at' \notin {"enumerate", "reply", "release"} => cmd.claim
  BY DEF ClaimInv, ClaimCarried, ThreadStep, ReuseSession, AbandonSession, WithSession,
         Establish, AskToConfirm, EstablishFails, AttemptFails, OpenApp, ReopenApp, AskToLaunch,
         LaunchGivenUp, LaunchReadFails,
         UseSession, UseFails, EnumerateVendor, SendReply, Goto, Answer
<1>3. QED
  BY <1>1, <1>2, ClaimFrame

\* Taking a command moves its claim from the head of the channel to the thread.
LEMMA ClaimTake ==
    ASSUME TypeOK, ClaimInv, TakeCommand
    PROVE  ClaimInv'
<1> DEFINE n == Len(queue)
<1>1. /\ n \in Nat /\ n > 0 /\ DOMAIN queue = 1..n
      /\ queue' = Tail(queue) /\ cmd' = queue[1]
      /\ DOMAIN queue' = 1..(n - 1)
      /\ \A i \in 1..(n - 1) : queue'[i] = queue[i + 1]
  BY DEF TypeOK, TakeCommand
<1>2. UNCHANGED <<busy, pc, call>> /\ ~cmd.claim
  BY DEF TakeCommand, callerVars, ClaimInv, ClaimCarried
<1>3. ClaimAccounted'
  <2>1. ASSUME NEW i \in DOMAIN queue, queue[i].claim
        PROVE  cmd'.claim \/ \E j \in DOMAIN queue' : queue'[j].claim
    <3>1. CASE i = 1
      BY <1>1, <2>1, <3>1
    <3>2. CASE i # 1
      <4>1. i - 1 \in DOMAIN queue' /\ queue'[i - 1] = queue[i]
        BY <1>1, <3>2
      <4>2. QED
        BY <2>1, <4>1
    <3>3. QED
      BY <3>1, <3>2
  <2>2. ASSUME NEW j \in DOMAIN queue', queue'[j].claim
        PROVE  \E i \in DOMAIN queue : queue[i].claim
    <3>1. j + 1 \in DOMAIN queue /\ queue[j + 1] = queue'[j]
      BY <1>1
    <3>2. QED
      BY <2>2, <3>1
  <2>3. cmd'.claim => \E i \in DOMAIN queue : queue[i].claim
    BY <1>1
  <2>4. (\E i \in DOMAIN queue : queue[i].claim)
           <=> (cmd'.claim \/ \E j \in DOMAIN queue' : queue'[j].claim)
    BY <2>1, <2>2, <2>3
  <2>5. QED
    BY <1>2, <2>4 DEF ClaimInv, ClaimExclusive, ClaimAccounted
<1>4. ClaimUnique'
  BY <1>1, <1>2 DEF ClaimInv, ClaimExclusive, ClaimUnique
<1>5. ClaimCarried'
  <2>1. cmd'.op # "isAttached" => cmd'.claim
    BY <1>1 DEF ClaimInv, ClaimCarried
  <2>2. at' \in {"reuse", "ready", "enumerate"} /\ (cmd'.op = "isAttached" => at' = "enumerate")
    BY DEF TakeCommand, Goto
  <2>3. QED
    BY <1>1, <1>2, <2>1, <2>2 DEF ClaimInv, ClaimCarried
<1>6. QED
  BY <1>3, <1>4, <1>5 DEF ClaimInv, ClaimExclusive

\* Dropping the command releases the claim, and it was the only one.
LEMMA ClaimRelease ==
    ASSUME TypeOK, ClaimInv, ReleaseClaim
    PROVE  ClaimInv'
<1>1. /\ busy' = (busy /\ ~cmd.claim) /\ cmd' = NoCommand /\ at' = "recv"
      /\ UNCHANGED <<queue, pc, call>>
  BY DEF ReleaseClaim, Goto, callerVars
<1>2. ClaimAccounted'
  <2>1. CASE cmd.claim
    BY <1>1, <2>1 DEF ClaimInv, ClaimExclusive, ClaimUnique, ClaimAccounted, NoCommand
  <2>2. CASE ~cmd.claim
    BY <1>1, <2>2 DEF ClaimInv, ClaimExclusive, ClaimAccounted, NoCommand
  <2>3. QED
    BY <2>1, <2>2
<1>3. ClaimUnique'
  BY <1>1 DEF ClaimInv, ClaimExclusive, ClaimUnique, NoCommand
<1>4. ClaimCarried'
  BY <1>1 DEF ClaimInv, ClaimCarried, NoCommand
<1>5. QED
  BY <1>2, <1>3, <1>4 DEF ClaimInv, ClaimExclusive

LEMMA NoCommandFields == ~NoCommand.claim /\ NoCommand.op = "isAttached" /\ NoCommand.to = NONE
BY DEF NoCommand

\* A return leaves the calls of the others alone.
LEMMA ReturnForgets ==
    ASSUME TypeOK, NEW c \in Callers, NEW r, Return(c, r)
    PROVE  \A b \in Callers : call'[b] = call[b] \/ (call'[b] = NoCommand /\ b = c)
<1>1. CASE r.kind = "Ok"
  <2>1. call' = [call EXCEPT ![c] = call[c]]
    BY <1>1 DEF Return
  <2>2. QED
    BY <2>1 DEF TypeOK
<1>2. CASE r.kind # "Ok"
  <2>1. call' = [call EXCEPT ![c] = NoCommand]
    BY <1>2 DEF Return
  <2>2. QED
    BY <2>1 DEF TypeOK
<1>3. QED
  BY <1>1, <1>2

\* One compare_exchange decides: the winner found no claim anywhere.
LEMMA ClaimAcquire ==
    ASSUME TypeOK, ClaimInv, NEW c \in Callers, NEW k \in Command, NEW e \in Errors,
           k.claim, Acquire(c, k, e)
    PROVE  ClaimInv'
<1> USE DEF TypeOK
<1>1. CASE busy
  <2>1. UNCHANGED <<busy, queue, cmd, at, pc>> /\ pc[c] = "idle"
    BY <1>1 DEF Acquire, threadVars
  <2>2. \A b \in Callers : call'[b] = call[b] \/ (call'[b] = NoCommand /\ b = c)
    BY <1>1, ReturnForgets DEF Acquire
  <2>3. ClaimCarried'
    BY <2>1, <2>2, NoCommandFields DEF ClaimInv, ClaimCarried
  <2>4. QED
    BY <2>1, <2>3 DEF ClaimInv, ClaimExclusive, ClaimAccounted, ClaimUnique
<1>2. CASE ~busy
  <2>1. /\ busy' = TRUE /\ UNCHANGED <<queue, cmd, at>>
        /\ pc' = [pc EXCEPT ![c] = "claimed"] /\ call' = [call EXCEPT ![c] = k]
    BY <1>2 DEF Acquire, Begin, threadVars
  <2>2. /\ \A b \in Callers : pc[b] # "claimed"
        /\ \A i \in DOMAIN queue : ~queue[i].claim
        /\ ~cmd.claim
    BY <1>2 DEF ClaimInv, ClaimExclusive, ClaimAccounted
  <2>3. ClaimAccounted' /\ ClaimUnique'
    BY <2>1, <2>2 DEF ClaimAccounted, ClaimUnique
  <2>4. ClaimCarried'
    BY <2>1 DEF ClaimInv, ClaimCarried
  <2>5. QED
    BY <2>3, <2>4 DEF ClaimInv, ClaimExclusive
<1>3. QED
  BY <1>1, <1>2

\* Sending moves the claim into the channel; a failed send drops it.
LEMMA ClaimSend ==
    ASSUME TypeOK, ClaimInv, NEW c \in Callers, Send(c)
    PROVE  ClaimInv'
<1> USE DEF TypeOK
<1>0. UNCHANGED <<cmd, at>> /\ pc[c] \in {"claimed", "checked"} /\ c \in DOMAIN pc
  BY DEF Send, threadVars
<1>1. CASE alive
  <2> DEFINE n == Len(queue)
  <2>1. /\ queue' = Append(queue, call[c]) /\ UNCHANGED <<busy, call>>
        /\ pc' = [pc EXCEPT ![c] = "waiting"]
    BY <1>1 DEF Send
  <2>2. /\ n \in Nat /\ DOMAIN queue = 1..n /\ DOMAIN queue' = 1..(n + 1)
        /\ queue'[n + 1] = call[c]
        /\ \A i \in 1..n : queue'[i] = queue[i]
    BY <2>1
  <2>3. pc[c] = "claimed" <=> call[c].claim
    BY <1>0 DEF ClaimInv, ClaimCarried
  <2>4. ClaimAccounted'
    <3>1. (\E i \in DOMAIN queue' : queue'[i].claim)
             <=> (call[c].claim \/ \E i \in DOMAIN queue : queue[i].claim)
      BY <2>2
    <3>2. (\E b \in Callers : pc[b] = "claimed")
             <=> (pc[c] = "claimed" \/ \E b \in Callers : pc'[b] = "claimed")
      BY <1>0, <2>1
    <3>3. QED
      BY <1>0, <2>1, <2>3, <3>1, <3>2 DEF ClaimInv, ClaimExclusive, ClaimAccounted
  <2>5. ClaimUnique'
    <3>1. CASE pc[c] = "claimed"
      <4>1. /\ \A b \in Callers : pc'[b] # "claimed"
            /\ \A i \in 1..n : ~queue[i].claim
            /\ ~cmd.claim
        BY <2>1, <2>2, <3>1 DEF ClaimInv, ClaimExclusive, ClaimUnique
      <4>2. QED
        BY <1>0, <2>2, <4>1 DEF ClaimUnique
    <3>2. CASE pc[c] = "checked"
      BY <1>0, <2>1, <2>2, <2>3, <3>2 DEF ClaimInv, ClaimExclusive, ClaimUnique
    <3>3. QED
      BY <1>0, <3>1, <3>2
  <2>6. ClaimCarried'
    BY <1>0, <2>1, <2>2 DEF ClaimInv, ClaimCarried
  <2>7. QED
    BY <2>4, <2>5, <2>6 DEF ClaimInv, ClaimExclusive
<1>2. CASE ~alive
  <2>1. /\ busy' = (busy /\ ~call[c].claim) /\ UNCHANGED queue
        /\ pc' = [pc EXCEPT ![c] = "idle"]
    BY <1>2 DEF Send
  <2>2. \A b \in Callers : call'[b] = call[b] \/ (call'[b] = NoCommand /\ b = c)
    BY <1>2, ReturnForgets DEF Send
  <2>3. pc[c] = "claimed" <=> call[c].claim
    BY <1>0 DEF ClaimInv, ClaimCarried
  <2>4. ClaimAccounted'
    <3>1. CASE pc[c] = "claimed"
      <4>1. /\ \A b \in Callers : pc'[b] # "claimed"
            /\ \A i \in DOMAIN queue : ~queue[i].claim
            /\ ~cmd.claim
        BY <2>1, <3>1 DEF ClaimInv, ClaimExclusive, ClaimUnique
      <4>2. QED
        BY <1>0, <2>1, <2>3, <3>1, <4>1 DEF ClaimAccounted
    <3>2. CASE pc[c] = "checked"
      <4>1. \A b \in Callers : pc'[b] = "claimed" <=> pc[b] = "claimed"
        BY <2>1, <3>2
      <4>2. busy' <=> busy
        BY <2>1, <2>3, <3>2
      <4>3. QED
        BY <1>0, <2>1, <4>1, <4>2 DEF ClaimInv, ClaimExclusive, ClaimAccounted
    <3>3. QED
      BY <1>0, <3>1, <3>2
  <2>5. ClaimUnique'
    BY <1>0, <2>1 DEF ClaimInv, ClaimExclusive, ClaimUnique
  <2>6. ClaimCarried'
    BY <1>0, <2>1, <2>2, NoCommandFields DEF ClaimInv, ClaimCarried
  <2>7. QED
    BY <2>4, <2>5, <2>6 DEF ClaimInv, ClaimExclusive
<1>3. QED
  BY <1>1, <1>2

\* A caller that returns, times out or is cancelled moves no claim.
LEMMA ClaimLeave ==
    ASSUME TypeOK, ClaimInv, NEW c \in Callers, pc[c] \in {"idle", "waiting"},
           UNCHANGED <<busy, at>>,
           DOMAIN queue' = DOMAIN queue,
           \A i \in DOMAIN queue : /\ queue'[i].claim = queue[i].claim
                                   /\ queue'[i].op = queue[i].op,
           cmd'.claim = cmd.claim, cmd'.op = cmd.op,
           NEW p \in {"idle", "waiting"}, pc' = [pc EXCEPT ![c] = p],
           \A b \in Callers : call'[b] = call[b] \/ (call'[b] = NoCommand /\ b = c)
    PROVE  ClaimInv'
<1> USE DEF TypeOK
<1>1. \A b \in Callers : /\ pc'[b] = "claimed" <=> pc[b] = "claimed"
                         /\ pc'[b] = "checked" <=> pc[b] = "checked"
  OBVIOUS
<1>2. ClaimAccounted'
  <2>1. (\E b \in Callers : pc'[b] = "claimed") <=> (\E b \in Callers : pc[b] = "claimed")
    BY <1>1
  <2>2. (\E i \in DOMAIN queue' : queue'[i].claim) <=> (\E i \in DOMAIN queue : queue[i].claim)
    OBVIOUS
  <2>3. QED
    BY <2>1, <2>2 DEF ClaimInv, ClaimExclusive, ClaimAccounted
<1>3. ClaimUnique'
  <2>1. ASSUME NEW b \in Callers, pc'[b] = "claimed"
        PROVE  /\ \A d \in Callers : pc'[d] = "claimed" => d = b
               /\ \A i \in DOMAIN queue' : ~queue'[i].claim
               /\ ~cmd'.claim
    BY <1>1, <2>1 DEF ClaimInv, ClaimExclusive, ClaimUnique
  <2>2. ASSUME NEW i \in DOMAIN queue', queue'[i].claim
        PROVE  /\ \A j \in DOMAIN queue' : queue'[j].claim => j = i
               /\ ~cmd'.claim
    BY <2>2 DEF ClaimInv, ClaimExclusive, ClaimUnique
  <2>3. QED
    BY <2>1, <2>2 DEF ClaimUnique
<1>4. ClaimCarried'
  BY <1>1, NoCommandFields DEF ClaimInv, ClaimCarried
<1>5. QED
  BY <1>2, <1>3, <1>4 DEF ClaimInv, ClaimExclusive

LEMMA ClaimCaller ==
    ASSUME TypeOK, ClaimInv, NEW c \in Callers, CallerStep(c)
    PROVE  ClaimInv'
<1> USE DEF sharedVars, threadVars
<1>0. \A k : Return(c, k) =>
         \A b \in Callers : call'[b] = call[b] \/ (call'[b] = NoCommand /\ b = c)
  BY ReturnForgets
<1>1. CASE RejectInput(c)
  <2>1. pc' = [pc EXCEPT ![c] = "idle"] /\ UNCHANGED <<busy, at, queue, cmd>> /\ pc[c] = "idle"
    BY <1>1 DEF RejectInput, TypeOK
  <2>2. QED
    BY <1>0, <1>1, <2>1, ClaimLeave DEF RejectInput
<1>2. CASE Connect(c)
  <2>1. PICK config \in Configs :
          Acquire(c, [op |-> "connect", host |-> config.host, confirm |-> config.confirm,
                      autoOpen |-> config.autoOpen, msg |-> NONE, to |-> c, claim |-> TRUE], "Busy")
    BY <1>2 DEF Connect
  <2> DEFINE k == [op |-> "connect", host |-> config.host, confirm |-> config.confirm,
                   autoOpen |-> config.autoOpen, msg |-> NONE, to |-> c, claim |-> TRUE]
  <2>2. k \in Command /\ k.claim
    BY DEF Command, Ops
  <2> HIDE DEF k
  <2>3. QED
    BY <2>1, <2>2, ClaimAcquire DEF k, Errors
<1>s. ASSUME NEW op \in {"sign", "isAvailable"}, NEW m \in Option(Messages)
      PROVE  SignerCommand(c, op, m) \in Command /\ SignerCommand(c, op, m).claim
  BY DEF SignerCommand, Command, Ops, ProbeOps, TypeOK, Signer
<1>3. CASE SignMessage(c)
  BY <1>3, <1>s, ClaimAcquire DEF SignMessage, Errors
<1>4. CASE SignTransaction(c)
  BY <1>4, <1>s, ClaimAcquire DEF SignTransaction, Errors
<1>5. CASE IsAvailable(c)
  BY <1>5, <1>s, ClaimAcquire DEF IsAvailable, Errors
<1>6. CASE IsAttached(c)
  <2>1. CASE busy
    <3>1. pc' = [pc EXCEPT ![c] = "idle"] /\ UNCHANGED <<busy, at, queue, cmd>> /\ pc[c] = "idle"
      BY <1>6, <2>1 DEF IsAttached, TypeOK
    <3>2. \A b \in Callers : call'[b] = call[b] \/ (call'[b] = NoCommand /\ b = c)
      BY <1>0, <1>6, <2>1 DEF IsAttached
    <3>3. QED
      BY <3>1, <3>2, ClaimLeave
  <2>2. CASE ~busy
    <3> DEFINE k == [NoCommand EXCEPT !.to = c]
    <3>1. k.claim = FALSE /\ k.op = "isAttached"
      BY DEF NoCommand
    <3>2. /\ pc[c] = "idle" /\ pc' = [pc EXCEPT ![c] = "checked"]
          /\ call' = [call EXCEPT ![c] = k] /\ UNCHANGED <<busy, at, queue, cmd>>
      BY <1>6, <2>2 DEF IsAttached, Begin
    <3> HIDE DEF k
    <3>3. ClaimExclusive'
      BY <3>2 DEF TypeOK, ClaimInv, ClaimExclusive, ClaimAccounted, ClaimUnique
    <3>4. ClaimCarried'
      BY <3>1, <3>2 DEF TypeOK, ClaimInv, ClaimCarried
    <3>5. QED
      BY <3>3, <3>4 DEF ClaimInv
  <2>3. QED
    BY <2>1, <2>2
<1>7. CASE Send(c)
  BY <1>7, ClaimSend
<1>8. CASE Receive(c)
  <2>1. pc' = [pc EXCEPT ![c] = "idle"] /\ UNCHANGED <<busy, at, queue, cmd>> /\ pc[c] = "waiting"
    BY <1>8 DEF Receive
  <2>2. QED
    BY <1>0, <1>8, <2>1, ClaimLeave DEF Receive
<1>d. ASSUME NEW r, DropReceiver(c), Return(c, r)
      PROVE  ClaimInv'
  <2>1. pc' = [pc EXCEPT ![c] = "idle"] /\ UNCHANGED <<busy, at>> /\ pc[c] = "waiting"
    BY <1>d DEF DropReceiver
  <2>2. \A k \in Command : Orphan(k, c).claim = k.claim /\ Orphan(k, c).op = k.op
    BY DEF Orphan, Command
  <2>3. /\ DOMAIN queue' = DOMAIN queue
        /\ \A i \in DOMAIN queue : queue'[i] = Orphan(queue[i], c) /\ queue[i] \in Command
        /\ cmd' = Orphan(cmd, c) /\ cmd \in Command
    BY <1>d DEF DropReceiver, TypeOK
  <2>4. QED
    BY <1>0, <1>d, <2>1, <2>2, <2>3, ClaimLeave
<1>9. CASE Timeout(c)
  BY <1>9, <1>d DEF Timeout
<1>10. CASE Cancel(c)
  BY <1>10, <1>d DEF Cancel
<1>11. QED
  BY <1>1, <1>2, <1>3, <1>4, <1>5, <1>6, <1>7, <1>8, <1>9, <1>10 DEF CallerStep

\* A panic drops every claim there is, or the one in the hands of a caller.
LEMMA ClaimPanic ==
    ASSUME TypeOK, ClaimInv, ThreadPanics
    PROVE  ClaimInv'
<1>1. /\ busy' = (busy /\ \A p \in Pending : ~p.claim) /\ queue' = <<>> /\ cmd' = NoCommand
      /\ at' = "recv" /\ UNCHANGED <<pc, call>>
  BY DEF ThreadPanics
<1>2. (\A p \in Pending : ~p.claim) <=> (~cmd.claim /\ \A i \in DOMAIN queue : ~queue[i].claim)
  BY DEF Pending
<1>3. ClaimAccounted'
  <2>1. busy' <=> \E c \in Callers : pc[c] = "claimed"
    BY <1>1, <1>2 DEF ClaimInv, ClaimExclusive, ClaimAccounted, ClaimUnique
  <2>2. DOMAIN queue' = {} /\ ~cmd'.claim
    BY <1>1, NoCommandFields
  <2>3. QED
    BY <1>1, <2>1, <2>2 DEF ClaimAccounted
<1>4. ClaimUnique'
  BY <1>1, NoCommandFields DEF ClaimInv, ClaimExclusive, ClaimUnique
<1>5. ClaimCarried'
  BY <1>1, NoCommandFields DEF ClaimInv, ClaimCarried
<1>6. QED
  BY <1>3, <1>4, <1>5 DEF ClaimInv, ClaimExclusive

\* The user and the cable move no claim.
LEMMA ClaimHardware ==
    ASSUME TypeOK, ClaimInv, Hardware, ~ThreadPanics
    PROVE  ClaimInv'
<1>1. UNCHANGED claimVars
  BY DEF Hardware, Respond, PromptFails, ApprovePubkey, ApproveSignature, ApproveLaunch,
         Decline, Attach, Detach, SwitchApp, ThreadOnly, sharedVars, callerVars, claimVars
<1>2. /\ at' = "recv" => at = "recv"
      /\ at' \notin {"recv", "enumerate", "reply", "release"} => cmd.claim
  BY DEF ClaimInv, ClaimCarried, Hardware, Respond, PromptFails, ApprovePubkey,
         ApproveSignature, ApproveLaunch, Decline, Attach, Detach, SwitchApp, AttemptFails,
         UseFails, Goto, Answer, threadVars
<1>3. QED
  BY <1>1, <1>2, ClaimFrame

LEMMA ClaimStep == TypeOK /\ ClaimInv /\ [Next]_vars => ClaimInv'
<1>1. ASSUME TypeOK, ClaimInv, Next PROVE ClaimInv'
  BY <1>1, ClaimCaller, ClaimThread, ClaimTake, ClaimRelease, ClaimPanic, ClaimHardware DEF Next
<1>2. ASSUME ClaimInv, UNCHANGED vars PROVE ClaimInv'
  BY <1>2, ClaimFrame DEF vars, sharedVars, threadVars, deviceVars, callerVars, claimVars,
                          ClaimInv, ClaimCarried
<1>3. QED
  BY <1>1, <1>2

\* The claim is exclusive: DEVICE_BUSY is set exactly while one live claim exists,
\* and it exists in one place, through timeouts, cancellations and panics.
THEOREM ClaimCorrect == Spec => []ClaimExclusive
<1>1. ClaimInv => ClaimExclusive
  BY DEF ClaimInv
<1>2. QED
  BY <1>1, InitClaim, ClaimStep, TypeCorrect, PTL DEF Spec

\* The inductive strengthening, for the theorems below.
LEMMA ClaimInvariant == Spec => []ClaimInv
BY InitClaim, ClaimStep, TypeCorrect, PTL DEF Spec

\* No command that needs the device queues behind an on-device prompt: the claim refuses it
\* first.  Attach probes alone can be in the channel.
THEOREM FailFast == Spec => []NoWaitBehindPrompt
<1>1. ClaimInv => NoWaitBehindPrompt
  BY DEF ClaimInv, ClaimCarried, ClaimExclusive, ClaimAccounted, ClaimUnique,
         NoWaitBehindPrompt, Prompting
<1>2. QED
  BY <1>1, ClaimInvariant, PTL

-----------------------------------------------------------------------------
(* Prompts *)

LEMMA PromptStep == TypeOK /\ PromptOwned /\ [Next]_vars => PromptOwned'
<1> USE DEF PromptOwned
<1> SUFFICES ASSUME TypeOK, PromptOwned, [Next]_vars PROVE PromptOwned'
  OBVIOUS
<1> USE DEF TypeOK
<1>f. ASSUME UNCHANGED <<at, conn, screen>> PROVE PromptOwned'
  BY <1>f
<1>1. ASSUME NEW c \in Callers, CallerStep(c) PROVE PromptOwned'
  BY <1>1, <1>f DEF CallerStep, RejectInput, Connect, SignMessage, SignTransaction, IsAvailable,
     Acquire, IsAttached, Send, Receive, Timeout, Cancel, DropReceiver, threadVars, deviceVars
<1>2. ASSUME ThreadStep PROVE PromptOwned'
  <2>1. CASE ~AskToConfirm /\ ~UseSession /\ ~OpenApp /\ ~ReopenApp
             /\ ~LaunchReadFails
    <3>1. at \notin {"confirm", "sign"} /\ UNCHANGED screen
      BY <1>2, <2>1 DEF ThreadStep, TakeCommand, ReuseSession, AbandonSession, WithSession,
         Establish, EstablishFails, EnumerateVendor, SendReply, ReleaseClaim, deviceVars
    <3>2. QED
      BY <3>1
  <2>2. CASE AskToConfirm
    BY <2>2 DEF AskToConfirm, Goto
  <2>3. CASE UseSession
    BY <2>3 DEF UseSession, UseFails, Goto, Answer
  <2>4. CASE OpenApp \/ ReopenApp
    BY <2>4 DEF OpenApp, ReopenApp, AskToLaunch, LaunchGivenUp, Goto, Answer
  <2>5. CASE LaunchReadFails
    BY <2>5 DEF LaunchReadFails, Goto, deviceVars
  <2>6. QED
    BY <2>1, <2>2, <2>3, <2>4, <2>5
<1>3. ASSUME Hardware PROVE PromptOwned'
  <2>1. CASE PromptFails
    BY <2>1 DEF PromptFails
  <2>2. CASE ThreadPanics
    BY <2>2 DEF ThreadPanics, deviceVars
  <2>3. ASSUME NEW d \in Devices, Respond(d) PROVE PromptOwned'
    BY <2>3 DEF Respond, ApprovePubkey, ApproveSignature, ApproveLaunch, Decline, Idle,
       Goto, Answer
  <2>4. ASSUME NEW d \in Devices, Detach(d) PROVE PromptOwned'
    BY <2>4 DEF Detach, Idle
  <2>5. ASSUME NEW d \in Devices, NEW p \in Paths, Attach(d, p) PROVE PromptOwned'
    BY <2>5, <1>f DEF Attach, threadVars
  <2>6. ASSUME NEW d \in Devices, NEW a \in Apps, SwitchApp(d, a)
        PROVE  PromptOwned'
    BY <2>6, <1>f DEF SwitchApp
  <2>7. QED
    BY <1>3, <2>1, <2>2, <2>3, <2>4, <2>5, <2>6 DEF Hardware
<1>4. ASSUME UNCHANGED vars PROVE PromptOwned'
  BY <1>4, <1>f DEF vars, threadVars, deviceVars
<1>5. QED
  BY <1>1, <1>2, <1>3, <1>4 DEF Next

\* A signature or address prompt keeps the device claimed until it is answered or
\* its read fails, whatever becomes of the caller that asked for it.
THEOREM PromptHoldsClaim == Spec => []PromptKeepsClaim
<1>1. Init => PromptOwned
  BY DEF Init, PromptOwned
<1>2. Spec => []PromptOwned
  BY <1>1, PromptStep, TypeCorrect, PTL DEF Spec
<1>3. TypeOK /\ ClaimInv /\ PromptOwned => PromptKeepsClaim
  BY DEF TypeOK, ClaimInv, ClaimCarried, ClaimExclusive, ClaimAccounted, PromptOwned,
         PromptKeepsClaim
<1>4. QED
  BY <1>2, <1>3, TypeCorrect, ClaimInvariant, PTL

-----------------------------------------------------------------------------
(* Signatures *)

BindInv == SignerConnected /\ SignatureBinds

LEMMA BindCaller ==
    ASSUME TypeOK, BindInv, NEW c \in Callers, CallerStep(c)
    PROVE  BindInv'
<1> USE DEF TypeOK
<1> DEFINE Fails(k) == k \in Errors \cup {"None"} /\ Return(c, Err(k))
<1>e. ASSUME NEW k \in Errors \cup {"None"}, Return(c, Err(k))
      PROVE  /\ result' = [result EXCEPT ![c] = NoResult]
             /\ call' = [call EXCEPT ![c] = NoCommand]
  <2>1. k # "Ok"
    BY DEF Errors
  <2>2. QED
    BY <1>e, <2>1 DEF Return
<1>f. ASSUME NEW k \in Errors \cup {"None"}, Return(c, Err(k)), UNCHANGED signer,
             pc' = [pc EXCEPT ![c] = "idle"]
      PROVE  BindInv'
  <2>1. SignerConnected'
    BY <1>e, <1>f, NoCommandFields DEF BindInv, SignerConnected
  <2>2. SignatureBinds'
    BY <1>e, <1>f, NoCommandFields DEF BindInv, SignatureBinds
  <2>3. QED
    BY <2>1, <2>2 DEF BindInv
<1>b. ASSUME NEW k \in Command, Begin(c, k), UNCHANGED signer, NEW p, p # "idle",
             pc' = [pc EXCEPT ![c] = p], k.op = "sign" => signer[c].open
      PROVE  BindInv'
  BY <1>b DEF Begin, BindInv, SignerConnected, SignatureBinds
<1>a. ASSUME NEW k \in Command, NEW e \in Errors, Acquire(c, k, e),
             k.op = "sign" => signer[c].open
      PROVE  BindInv'
  <2>1. CASE busy
    <3>1. pc' = [pc EXCEPT ![c] = "idle"] /\ UNCHANGED signer /\ Return(c, Err(e))
      BY <1>a, <2>1 DEF Acquire
    <3>2. QED
      BY <1>f, <3>1
  <2>2. CASE ~busy
    BY <1>a, <1>b, <2>2 DEF Acquire
  <2>3. QED
    BY <2>1, <2>2
<1>1. CASE RejectInput(c)
  <2>1. pc' = [pc EXCEPT ![c] = "idle"]
    BY <1>1 DEF RejectInput
  <2>2. QED
    BY <1>1, <1>f, <2>1 DEF RejectInput, Errors
<1>2. CASE Connect(c)
  <2>1. PICK config \in Configs :
          Acquire(c, [op |-> "connect", host |-> config.host, confirm |-> config.confirm,
                      autoOpen |-> config.autoOpen, msg |-> NONE, to |-> c, claim |-> TRUE], "Busy")
    BY <1>2 DEF Connect
  <2> DEFINE k == [op |-> "connect", host |-> config.host, confirm |-> config.confirm,
                   autoOpen |-> config.autoOpen, msg |-> NONE, to |-> c, claim |-> TRUE]
  <2>2. k \in Command /\ k.op # "sign"
    BY DEF Command, Ops
  <2> HIDE DEF k
  <2>3. QED
    BY <2>1, <2>2, <1>a DEF k, Errors
<1>s. ASSUME NEW op \in {"sign", "isAvailable"}, NEW m \in Option(Messages)
      PROVE  SignerCommand(c, op, m) \in Command
  BY DEF SignerCommand, Command, Ops, ProbeOps, Signer
<1>3. CASE SignMessage(c)
  BY <1>3, <1>s, <1>a DEF SignMessage, Errors
<1>4. CASE SignTransaction(c)
  BY <1>4, <1>s, <1>a DEF SignTransaction, Errors
<1>5. CASE IsAvailable(c)
  BY <1>5, <1>s, <1>a DEF IsAvailable, Errors
<1>6. CASE IsAttached(c)
  <2> DEFINE k == [NoCommand EXCEPT !.to = c]
  <2>1. k \in Command /\ k.op # "sign"
    BY DEF NoCommand, Command, Ops, ProbeOps
  <2> HIDE DEF k
  <2>2. CASE busy
    <3>1. pc' = [pc EXCEPT ![c] = "idle"] /\ UNCHANGED signer /\ Return(c, Err("False"))
      BY <1>6, <2>2 DEF IsAttached
    <3>2. QED
      BY <1>f, <3>1 DEF Errors
  <2>3. CASE ~busy
    BY <1>6, <1>b, <2>1, <2>3 DEF IsAttached, k
  <2>4. QED
    BY <2>2, <2>3
<1>g. ASSUME NEW k \in Errors, Return(c, Failure(call[c], k)), UNCHANGED signer,
             pc' = [pc EXCEPT ![c] = "idle"]
      PROVE  BindInv'
  BY <1>f, <1>g DEF Failure, Errors
<1>7. CASE Send(c)
  <2>1. CASE alive
    <3>1. UNCHANGED <<call, result, signer>> /\ pc' = [pc EXCEPT ![c] = "waiting"]
      BY <1>7, <2>1 DEF Send
    <3>2. QED
      BY <3>1 DEF BindInv, SignerConnected, SignatureBinds
  <2>2. CASE ~alive
    BY <1>7, <1>g, <2>2 DEF Send, Errors
  <2>3. QED
    BY <2>1, <2>2
<1>8. CASE Receive(c)
  <2> DEFINE r == Returned(c, reply[c])
  <2>1. /\ Return(c, r) /\ pc' = [pc EXCEPT ![c] = "idle"] /\ call[c] \in Command
        /\ \A b \in Callers : b # c => signer'[b] = signer[b]
        /\ call[c].op = "connect" \/ signer' = signer
    BY <1>8 DEF Receive
  <2>2. CASE r.kind = "Ok"
    <3>1. /\ result' = [result EXCEPT ![c] = r]
          /\ call' = call
      BY <2>1, <2>2 DEF Return
    <3>2. call[c].op = "sign" => r.key = signer[c].key /\ r.over = call[c].msg
      BY <2>2 DEF Returned, Verifies
    <3>3. QED
      BY <2>1, <2>2, <3>1, <3>2 DEF BindInv, SignerConnected, SignatureBinds
  <2>3. CASE r.kind # "Ok"
    <3>1. /\ result' = [result EXCEPT ![c] = NoResult]
          /\ call' = [call EXCEPT ![c] = NoCommand]
      BY <2>1, <2>3 DEF Return
    <3>2. QED
      BY <2>1, <3>1, NoCommandFields DEF BindInv, SignerConnected, SignatureBinds
  <2>4. QED
    BY <2>2, <2>3
<1>9. CASE Timeout(c)
  BY <1>9, <1>g DEF Timeout, DropReceiver, Errors
<1>10. CASE Cancel(c)
  BY <1>10, <1>f DEF Cancel, DropReceiver
<1>11. QED
  BY <1>1, <1>2, <1>3, <1>4, <1>5, <1>6, <1>7, <1>8, <1>9, <1>10 DEF CallerStep

\* A signature that is returned is by the signer's cached key over the bytes of the
\* call, whichever device answered.
THEOREM SignaturesBind == Spec => []SignatureBinds
<1>1. Init => BindInv
  BY NoCommandFields DEF Init, BindInv, SignerConnected, SignatureBinds
<1>2. TypeOK /\ BindInv /\ [Next]_vars => BindInv'
  <2>1. ASSUME BindInv, UNCHANGED <<pc, call, signer, result>> PROVE BindInv'
    BY <2>1 DEF BindInv, SignerConnected, SignatureBinds
  <2>2. ASSUME ThreadStep \/ Hardware \/ UNCHANGED vars
        PROVE  UNCHANGED <<pc, call, signer, result>>
    BY <2>2 DEF ThreadStep, TakeCommand, ReuseSession, AbandonSession, WithSession, Establish,
       AskToConfirm, EstablishFails, OpenApp, ReopenApp, LaunchReadFails, UseSession, EnumerateVendor,
       SendReply, ReleaseClaim, Hardware, Respond, PromptFails, ThreadPanics, ApprovePubkey,
       ApproveSignature, ApproveLaunch, Decline, Attach, Detach, SwitchApp, ThreadOnly,
       callerVars, vars
  <2>3. QED
    BY <2>1, <2>2, BindCaller DEF Next
<1>3. BindInv => SignatureBinds
  BY DEF BindInv
<1>4. QED
  BY <1>1, <1>2, <1>3, TypeCorrect, PTL DEF Spec

-----------------------------------------------------------------------------
(* The claim implements exclusive access *)

LEMMA ExclusiveInit == Init => Exclusive!Init
BY NoCommandFields DEF Init, Exclusive!Init, DevicePhase, Prompting

\* A prompt is shown for the command that carries the claim, and the claim is taken.
LEMMA Serving == ClaimInv => (Prompting => cmd.claim) /\ (cmd.claim => busy)
BY DEF ClaimInv, ClaimExclusive, ClaimAccounted, ClaimCarried, Prompting

\* A step that leaves the claim where it is asks the user, takes an answer, or stutters.
LEMMA ClaimStays ==
    ASSUME TypeOK, ClaimInv, ClaimInv', cmd'.claim = cmd.claim, busy' = busy
    PROVE  [Exclusive!Next]_Exclusive!vars
<1>1. DevicePhase' = DevicePhase
  BY DEF DevicePhase
<1>2. Prompting => cmd.claim
  BY Serving
<1>3. Prompting' => cmd.claim
  BY DEF ClaimInv, ClaimCarried, Prompting
<1>4. cmd.claim => DevicePhase = "serving"
  BY DEF DevicePhase
<1>5. QED
  BY <1>1, <1>2, <1>3, <1>4 DEF Exclusive!Next, Exclusive!Ask, Exclusive!Answer, Exclusive!vars, Prompting

\* A step that moves the claim on asks nobody, and follows the phases.
LEMMA ClaimMoves ==
    ASSUME ~Prompting, ~Prompting',
           \/ ~busy /\ ~cmd.claim /\ busy' /\ ~cmd'.claim
           \/ busy /\ ~cmd.claim /\ cmd'.claim
           \/ busy /\ ~busy' /\ ~cmd'.claim
           \/ UNCHANGED DevicePhase
    PROVE  [Exclusive!Next]_Exclusive!vars
BY DEF DevicePhase, Prompting, Exclusive!Next, Exclusive!Grant, Exclusive!Serve, Exclusive!Finish,
   Exclusive!Withdraw, Exclusive!vars

\* Each step of the backend is a step of the exclusive device, or leaves it alone.
LEMMA ExclusiveStep ==
    TypeOK /\ ClaimInv /\ [Next]_vars => [Exclusive!Next]_Exclusive!vars
<1> SUFFICES ASSUME TypeOK, ClaimInv, [Next]_vars PROVE [Exclusive!Next]_Exclusive!vars
  OBVIOUS
<1>i. ClaimInv'
  BY ClaimStep
<1>p. (Prompting => cmd.claim) /\ (cmd.claim => busy)
  BY Serving
<1>b. busy \in BOOLEAN /\ cmd.claim \in BOOLEAN
  BY DEF TypeOK, Command
<1>1. CASE TakeCommand
  <2>1. at = "recv" /\ at' \notin {"confirm", "sign", "launch"} /\ busy' = busy
    BY <1>1 DEF TakeCommand, Goto
  <2>2. ~cmd.claim
    BY <2>1 DEF ClaimInv, ClaimCarried
  <2>3. cmd'.claim => busy
    BY <1>i, <2>1 DEF ClaimInv, ClaimExclusive, ClaimAccounted
  <2>4. CASE cmd'.claim
    BY <2>1, <2>2, <2>3, <2>4, ClaimMoves DEF Prompting
  <2>5. CASE ~cmd'.claim
    BY <2>1, <2>2, <2>5, ClaimMoves DEF Prompting, DevicePhase
  <2>6. QED
    BY <2>4, <2>5
<1>2. CASE ReleaseClaim
  <2>1. /\ at = "release" /\ at' = "recv"
        /\ busy' = (busy /\ ~cmd.claim) /\ cmd' = NoCommand
    BY <1>2 DEF ReleaseClaim, Goto
  <2>2. ~cmd'.claim
    BY <2>1, NoCommandFields
  <2>3. CASE cmd.claim
    BY <1>p, <2>1, <2>2, <2>3, ClaimMoves DEF Prompting
  <2>4. CASE ~cmd.claim
    BY <1>b, <2>1, <2>2, <2>4, ClaimMoves DEF Prompting, DevicePhase
  <2>5. QED
    BY <2>3, <2>4
<1>3. CASE ThreadPanics
  <2>1. /\ at \in {"reuse", "establish", "open", "reopen", "use", "enumerate"}
        /\ at' = "recv" /\ cmd' = NoCommand
        /\ busy' = (busy /\ \A p \in Pending : ~p.claim)
    BY <1>3 DEF ThreadPanics
  <2>2. ~cmd'.claim
    BY <2>1, NoCommandFields
  <2>3. CASE cmd.claim
    <3>1. ~busy'
      BY <2>1, <2>3 DEF Pending
    <3>2. QED
      BY <1>p, <2>1, <2>2, <2>3, <3>1, ClaimMoves DEF Prompting
  <2>4. CASE ~cmd.claim
    BY <1>b, <1>p, <2>1, <2>2, <2>4, ClaimMoves DEF Prompting, DevicePhase
  <2>5. QED
    BY <2>3, <2>4
<1>4. ASSUME NEW c \in Callers, NEW command, NEW refusal, Acquire(c, command, refusal)
      PROVE  [Exclusive!Next]_Exclusive!vars
  <2>1. cmd' = cmd /\ at' = at
    BY <1>4 DEF Acquire, threadVars
  <2>2. CASE busy' = busy
    BY <1>i, <2>1, <2>2, ClaimStays
  <2>3. CASE ~busy /\ busy'
    BY <1>p, <2>1, <2>3, ClaimMoves DEF Prompting
  <2>4. QED
    BY <1>4, <1>b, <2>2, <2>3 DEF Acquire
<1>5. ASSUME NEW c \in Callers, Send(c)
      PROVE  [Exclusive!Next]_Exclusive!vars
  <2>1. cmd' = cmd /\ at' = at
    BY <1>5 DEF Send, threadVars
  <2>2. CASE busy' = busy
    BY <1>i, <2>1, <2>2, ClaimStays
  <2>3. CASE busy' # busy
    <3>1. pc[c] \in {"claimed", "checked"} /\ busy' = (busy /\ ~call[c].claim)
      BY <1>5, <2>3 DEF Send
    <3>2. busy /\ ~busy' /\ call[c].claim
      BY <1>b, <2>3, <3>1
    <3>3. pc[c] = "claimed"
      BY <3>1, <3>2 DEF ClaimInv, ClaimCarried
    <3>4. ~cmd.claim
      BY <3>3 DEF ClaimInv, ClaimExclusive, ClaimUnique
    <3>5. QED
      BY <1>p, <2>1, <3>2, <3>4, ClaimMoves DEF Prompting
  <2>4. QED
    BY <2>2, <2>3
<1>6. CASE cmd'.claim = cmd.claim /\ busy' = busy
  BY <1>6, <1>i, ClaimStays
<1>7. ASSUME NEW c \in Callers,
             Receive(c) \/ Timeout(c) \/ Cancel(c) \/ RejectInput(c) \/ IsAttached(c)
      PROVE  cmd'.claim = cmd.claim /\ busy' = busy
  <2>1. cmd' = cmd \/ cmd' = Orphan(cmd, c)
    BY <1>7 DEF Receive, Timeout, Cancel, RejectInput, IsAttached, DropReceiver, threadVars
  <2>2. Orphan(cmd, c).claim = cmd.claim
    BY DEF Orphan, TypeOK, Command
  <2>3. busy' = busy
    BY <1>7 DEF Receive, Timeout, Cancel, RejectInput, IsAttached, DropReceiver, sharedVars
  <2>4. QED
    BY <2>1, <2>2, <2>3
<1>8. ASSUME NEW c \in Callers, CallerStep(c)
      PROVE  [Exclusive!Next]_Exclusive!vars
  BY <1>4, <1>5, <1>6, <1>7, <1>8
     DEF CallerStep, Connect, SignMessage, SignTransaction, IsAvailable
<1>9. ASSUME ThreadStep, ~TakeCommand, ~ReleaseClaim
      PROVE  cmd' = cmd /\ busy' = busy
  BY <1>9 DEF ThreadStep, ReuseSession, AbandonSession, WithSession, Establish, AskToConfirm,
     EstablishFails, OpenApp, ReopenApp, LaunchReadFails, UseSession, EnumerateVendor, SendReply,
     ThreadOnly, sharedVars
<1>10. ASSUME Hardware, ~ThreadPanics
       PROVE  cmd' = cmd /\ busy' = busy
  BY <1>10 DEF Hardware, Respond, PromptFails, ApprovePubkey, ApproveSignature, ApproveLaunch,
     Decline, Attach, Detach, SwitchApp, ThreadOnly, sharedVars
<1>11. ASSUME UNCHANGED vars PROVE cmd' = cmd /\ busy' = busy
  BY <1>11 DEF vars, sharedVars, threadVars
<1>12. QED
  BY <1>1, <1>2, <1>3, <1>6, <1>8, <1>9, <1>10, <1>11 DEF Next

\* The backend implements exclusive access: the claim, the channel, the thread and
\* the prompts together behave as ExclusiveDevice.
THEOREM BackendIsExclusive == Spec => ExclusiveAccess
<1>1. TypeOK /\ ClaimInv /\ [Next]_vars => [Exclusive!Next]_Exclusive!vars
  BY ExclusiveStep
<1>2. Init => Exclusive!Init
  BY ExclusiveInit
<1>3. QED
  BY <1>1, <1>2, TypeCorrect, ClaimInvariant, PTL DEF Spec, ExclusiveAccess, Exclusive!Spec
=============================================================================
