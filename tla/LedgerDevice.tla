---------------------------- MODULE LedgerDevice ----------------------------
(***************************************************************************)
(* The Ledger backend, src/rust/src/ledger/mod.rs: any number of callers,  *)
(* one process-wide claim (DEVICE_BUSY), one mpsc command channel and one  *)
(* device thread that owns the only cached session and talks to hardware   *)
(* that is plugged, unplugged, swapped, locked and answered by a human.    *)
(*                                                                         *)
(* Abstractions.  A device stands for the key it derives at the signer's   *)
(* derivation path.  A signature is the pair of the key that made it and   *)
(* the bytes it covers.  Time is abstract: a deadline may expire at any    *)
(* moment at which no reply is there.  A transport fault may end any       *)
(* exchange.                                                               *)
(***************************************************************************)
EXTENDS Naturals, Sequences

CONSTANTS
    Callers,      \* threads and tasks that use the backend
    Devices,      \* physical Ledgers, each with its own key
    Paths,        \* OS HID paths
    Configs,      \* the LedgerConfigs callers connect with
    Messages,     \* byte strings sent to be signed
    Envelopes,    \* the off-chain envelopes among them; the others are transactions
    MaxRetries,   \* attempts after an app launch; 20 in the code
    MaxQueue,     \* bound: no probe starts behind this many commands
    NONE          \* Rust's Option::None

ASSUME LedgerConstants ==
    /\ NONE \notin Callers \cup Devices \cup Paths \cup Messages
    /\ Envelopes \subseteq Messages
    /\ Configs \subseteq [host: Paths \cup {NONE}, confirm: BOOLEAN, autoOpen: BOOLEAN]
    /\ MaxRetries \in Nat \ {0}
    /\ MaxQueue \in Nat \ {0}

VARIABLES
    \* shared between the callers and the device thread
    busy,         \* DEVICE_BUSY
    queue,        \* the mpsc channel of DeviceCommands
    alive,        \* FALSE once the device thread has unwound
    \* the device thread
    at,           \* where the thread is
    cmd,          \* the command it took from the channel
    tries,        \* 0: first attempt to connect; n: n-th retry after a launch
    conn,         \* device at the other end of the read it is blocked in
    out,          \* the result it is about to answer
    session,      \* Option<Session>
    declined,     \* history: a prompt of this command was declined
    \* the hardware and its user
    place,        \* HID path each device is attached at
    app,          \* what each device is running
    screen,       \* the prompt each device shows
    \* the callers
    pc,           \* where the caller is
    call,         \* the command it built
    signer,       \* its LedgerSigner: cached key and host_device_path
    reply,        \* its one-shot reply channel
    result        \* what its last call returned, NoResult after an error

sharedVars == <<busy, queue, alive>>
threadVars == <<at, cmd, tries, conn, out, session, declined>>
deviceVars == <<place, app, screen>>
callerVars == <<pc, call, signer, reply, result>>
vars == <<sharedVars, threadVars, deviceVars, callerVars>>

-----------------------------------------------------------------------------
(* Data *)

ProbeOps == {"isAvailable", "isAttached"}
Ops == {"connect", "sign"} \cup ProbeOps

Option(S) == S \cup {NONE}

\* DeviceCommand.  `to` is the caller that still holds the receiving end of the
\* reply channel; `claim` is the DeviceClaim that travels inside the command.
Command == [op: Ops, host: Option(Paths), confirm: BOOLEAN, autoOpen: BOOLEAN,
            msg: Option(Messages), to: Option(Callers), claim: BOOLEAN]

\* The SignerError variants of this backend.  Busy, Stopped and Locked are
\* NotAvailable with the detail string the code tells them apart by; False is
\* the answer of a probe.
Errors == {"NotAvailable", "Locked", "Busy", "Stopped", "UserRejected",
           "SigningFailed", "ConfigError", "False"}
Result == [kind: {"None", "Ok"} \cup Errors, key: Option(Devices), over: Option(Messages)]

Err(k) == [kind |-> k, key |-> NONE, over |-> NONE]
NoResult == Err("None")
Key(d) == [kind |-> "Ok", key |-> d, over |-> NONE]
Sig(d, m) == [kind |-> "Ok", key |-> d, over |-> m]

\* The cached session: an open handle (dev = NONE once the device behind the
\* handle is gone) and the host path it was opened against.
Session == [open: BOOLEAN, dev: Option(Devices), host: Option(Paths)]
NoSession == [open |-> FALSE, dev |-> NONE, host |-> NONE]

Signer == [open: BOOLEAN, key: Option(Devices), host: Option(Paths)]
NoSigner == [open |-> FALSE, key |-> NONE, host |-> NONE]

NoCommand == [op |-> "isAttached", host |-> NONE, confirm |-> FALSE,
              autoOpen |-> FALSE, msg |-> NONE, to |-> NONE, claim |-> FALSE]

Places == {"recv", "reuse", "establish", "confirm", "open", "reopen", "launch",
           "ready", "use", "sign", "enumerate", "reply", "release"}

\* What a device runs; "other" is any app but Solana.
Apps == {"locked", "dashboard", "solana", "other"}

TypeOK ==
    /\ busy \in BOOLEAN /\ queue \in Seq(Command) /\ alive \in BOOLEAN
    /\ at \in Places /\ cmd \in Command /\ tries \in 0..MaxRetries
    /\ conn \in Option(Devices) /\ out \in Result
    /\ session \in Session /\ declined \in BOOLEAN
    /\ place \in [Devices -> Option(Paths)]
    /\ app \in [Devices -> Apps]
    /\ screen \in [Devices -> {"idle", "launch", "confirm", "sign"}]
    /\ pc \in [Callers -> {"idle", "claimed", "checked", "waiting"}]
    /\ call \in [Callers -> Command]
    /\ signer \in [Callers -> Signer]
    /\ reply \in [Callers -> Result]
    /\ result \in [Callers -> Result]

Init ==
    /\ busy = FALSE /\ queue = <<>> /\ alive = TRUE
    /\ at = "recv" /\ cmd = NoCommand /\ tries = 0
    /\ conn = NONE /\ out = NoResult /\ session = NoSession /\ declined = FALSE
    /\ place = [d \in Devices |-> NONE]
    /\ app = [d \in Devices |-> "locked"]
    /\ screen = [d \in Devices |-> "idle"]
    /\ pc = [c \in Callers |-> "idle"]
    /\ call = [c \in Callers |-> NoCommand]
    /\ signer = [c \in Callers |-> NoSigner]
    /\ reply = [c \in Callers |-> NoResult]
    /\ result = [c \in Callers |-> NoResult]

-----------------------------------------------------------------------------
(* Callers *)

\* A call ends with r.  What it asked for is kept beside a success; which error it
\* ended with has no effect on any later step and is not remembered.
Return(c, r) ==
    /\ result' = [result EXCEPT ![c] = IF r.kind = "Ok" THEN r ELSE NoResult]
    /\ call' = [call EXCEPT ![c] = IF r.kind = "Ok" THEN @ ELSE NoCommand]

Begin(c, command) ==
    /\ call' = [call EXCEPT ![c] = command]
    /\ result' = [result EXCEPT ![c] = NoResult]

\* An early return that touches neither the claim nor the device: a derivation
\* path that does not parse, an off-chain payload a Ledger will not sign.
RejectInput(c) ==
    /\ pc[c] = "idle"
    /\ Return(c, Err("ConfigError"))
    /\ UNCHANGED <<sharedVars, threadVars, deviceVars, pc, signer, reply>>

\* DeviceClaim::acquire and try_acquire: one compare_exchange decides.  The loser
\* returns at once; the winner carries the claim inside the command it built.
Acquire(c, command, refusal) ==
    /\ pc[c] = "idle"
    /\ \/ /\ busy
          /\ Return(c, Err(refusal))
          /\ UNCHANGED <<busy, pc>>
       \/ /\ ~busy
          /\ busy' = TRUE
          /\ pc' = [pc EXCEPT ![c] = "claimed"]
          /\ Begin(c, command)
    /\ UNCHANGED <<queue, alive, threadVars, deviceVars, signer, reply>>

\* LedgerSigner::connect_with
Connect(c) ==
    \E config \in Configs :
        Acquire(c, [op |-> "connect", host |-> config.host, confirm |-> config.confirm,
                    autoOpen |-> config.autoOpen, msg |-> NONE, to |-> c, claim |-> TRUE], "Busy")

SignerCommand(c, op, m) ==
    [op |-> op, host |-> signer[c].host, confirm |-> FALSE, autoOpen |-> FALSE,
     msg |-> m, to |-> c, claim |-> TRUE]

\* LedgerSigner::sign_message, up to the await; m is the off-chain envelope.  The
\* two kinds of signature differ in the bytes only, so the command is one.
SignMessage(c) ==
    /\ signer[c].open
    /\ \E m \in Envelopes : Acquire(c, SignerCommand(c, "sign", m), "Busy")

\* LedgerSigner::sign_transaction, up to the await; m is the transaction message.
SignTransaction(c) ==
    /\ signer[c].open
    /\ \E m \in Messages \ Envelopes : Acquire(c, SignerCommand(c, "sign", m), "Busy")

\* LedgerSigner::is_available, up to the send
IsAvailable(c) ==
    /\ signer[c].open
    /\ Acquire(c, SignerCommand(c, "isAvailable", NONE), "False")

\* LedgerSigner::is_attached looks at DEVICE_BUSY but takes no claim.  The code
\* does not bound the channel; MaxQueue bounds the probes that start behind a
\* slow thread, never a call that has begun.
IsAttached(c) ==
    /\ pc[c] = "idle"
    /\ \/ /\ busy
          /\ Return(c, Err("False"))
          /\ UNCHANGED pc
       \/ /\ ~busy
          /\ Len(queue) < MaxQueue
          /\ pc' = [pc EXCEPT ![c] = "checked"]
          /\ Begin(c, [NoCommand EXCEPT !.to = c])
    /\ UNCHANGED <<sharedVars, threadVars, deviceVars, signer, reply>>

\* A probe turns every failure into `false`.
Failure(command, k) == Err(IF command.op \in ProbeOps THEN "False" ELSE k)

\* Mutant: the claim inside SendError is forgotten instead of dropped.
SendLeakingClaim(c) ==
    /\ pc[c] \in {"claimed", "checked"}
    /\ \/ /\ alive
          /\ queue' = Append(queue, call[c])
          /\ pc' = [pc EXCEPT ![c] = "waiting"]
          /\ UNCHANGED <<call, result>>
       \/ /\ ~alive
          /\ pc' = [pc EXCEPT ![c] = "idle"]
          /\ Return(c, Failure(call[c], "Stopped"))
          /\ UNCHANGED queue
    /\ UNCHANGED <<busy, alive, threadVars, deviceVars, signer, reply>>

\* cmd_tx.send.  When the device thread is gone the command, and the claim in
\* it, come back inside SendError and are dropped.
Send(c) ==
    /\ pc[c] \in {"claimed", "checked"}
    /\ \/ /\ alive
          /\ queue' = Append(queue, call[c])
          /\ pc' = [pc EXCEPT ![c] = "waiting"]
          /\ UNCHANGED <<busy, call, result>>
       \/ /\ ~alive
          /\ busy' = (busy /\ ~call[c].claim)
          /\ pc' = [pc EXCEPT ![c] = "idle"]
          /\ Return(c, Failure(call[c], "Stopped"))
          /\ UNCHANGED queue
    /\ UNCHANGED <<alive, threadVars, deviceVars, signer, reply>>

\* verify_or_reject: the signature must be this signer's over the bytes sent.
Verifies(c, r) == r.key = signer[c].key /\ r.over = call[c].msg

\* Mutant: the answer of the device is passed on unverified.
ReturnedUnverified(c, r) == r

\* What the call makes of the answer it received.
Returned(c, r) ==
    IF call[c].op = "sign" /\ r.kind = "Ok" /\ ~Verifies(c, r)
    THEN Err("SigningFailed")
    ELSE r

\* recv_timeout returns the answer.  A successful connect makes a signer.
Receive(c) ==
    /\ pc[c] = "waiting"
    /\ reply[c].kind # "None"
    /\ Return(c, Returned(c, reply[c]))
    /\ signer' = IF call[c].op = "connect" /\ reply[c].kind = "Ok"
                 THEN [signer EXCEPT ![c] = [open |-> TRUE, key |-> reply[c].key,
                                             host |-> call[c].host]]
                 ELSE signer
    /\ reply' = [reply EXCEPT ![c] = NoResult]
    /\ pc' = [pc EXCEPT ![c] = "idle"]
    /\ UNCHANGED <<sharedVars, threadVars, deviceVars>>

Orphan(command, c) == IF command.to = c THEN [command EXCEPT !.to = NONE] ELSE command

\* Mutant: the claim is the caller's and is released when the caller returns.
DropReceiverAndClaim(c) ==
    /\ pc[c] = "waiting"
    /\ reply[c].kind = "None"
    /\ busy' = (busy /\ ~call[c].claim)
    /\ queue' = [i \in DOMAIN queue |-> Orphan(queue[i], c)]
    /\ cmd' = Orphan(cmd, c)
    /\ pc' = [pc EXCEPT ![c] = "idle"]
    /\ UNCHANGED <<alive, at, tries, conn, out, session, declined, deviceVars,
                   signer, reply>>

\* Mutant: the calls of a caller share one reply channel.
KeepReceiver(c) ==
    /\ pc[c] = "waiting"
    /\ reply[c].kind = "None"
    /\ pc' = [pc EXCEPT ![c] = "idle"]
    /\ UNCHANGED <<sharedVars, threadVars, deviceVars, signer, reply>>

\* The receiving end is dropped; the command, and its claim, stay where they are.
DropReceiver(c) ==
    /\ pc[c] = "waiting"
    /\ reply[c].kind = "None"
    /\ queue' = [i \in DOMAIN queue |-> Orphan(queue[i], c)]
    /\ cmd' = Orphan(cmd, c)
    /\ pc' = [pc EXCEPT ![c] = "idle"]
    /\ UNCHANGED <<busy, alive, at, tries, conn, out, session, declined, deviceVars,
                   signer, reply>>

\* Mutant: a call that waits on the user waits without a deadline.
TimeoutUnlessSigning(c) ==
    /\ call[c].op \in ProbeOps
    /\ DropReceiver(c)
    /\ Return(c, Failure(call[c], "Busy"))

\* recv_timeout expires.
Timeout(c) ==
    /\ DropReceiver(c)
    /\ Return(c, Failure(call[c], "Busy"))

\* The caller drops the future at its await.  The blocking task is detached, so
\* the command is still sent and served; nobody looks at what it returns.
Cancel(c) ==
    /\ call[c].op # "isAttached"
    /\ DropReceiver(c)
    /\ Return(c, NoResult)

-----------------------------------------------------------------------------
(* The device thread *)

Goto(p) == alive /\ at' = p
Answer(r) == Goto("reply") /\ out' = r
ThreadOnly == UNCHANGED <<sharedVars, callerVars, cmd>>

\* Mutant: the claim is dropped when the command is taken apart.
TakeCommandDroppingClaim ==
    /\ at = "recv" /\ queue # <<>>
    /\ Goto(CASE Head(queue).op = "connect" -> "reuse"
              [] Head(queue).op = "isAttached" -> "enumerate"
              [] OTHER -> "ready")
    /\ cmd' = [Head(queue) EXCEPT !.claim = FALSE]
    /\ busy' = (busy /\ ~Head(queue).claim)
    /\ queue' = Tail(queue)
    /\ UNCHANGED <<alive, tries, conn, out, session, declined, deviceVars, callerVars>>

\* cmd_rx.recv
TakeCommand ==
    /\ at = "recv" /\ queue # <<>>
    /\ Goto(CASE Head(queue).op = "connect" -> "reuse"
              [] Head(queue).op = "isAttached" -> "enumerate"
              [] OTHER -> "ready")
    /\ cmd' = Head(queue)
    /\ queue' = Tail(queue)
    /\ UNCHANGED <<busy, alive, tries, conn, out, session, declined, deviceVars, callerVars>>

\* An unconfirmed get_pubkey through the cached handle is answered by a device
\* that is still there and runs the Solana app with no prompt in the way.
Responsive(d) == d # NONE /\ app[d] = "solana" /\ screen[d] = "idle"

\* A connect reuses a session on the same device unless the user must confirm.
CanReuse == session.open /\ session.host = cmd.host /\ ~cmd.confirm

ReuseSession ==
    /\ at = "reuse" /\ CanReuse /\ Responsive(session.dev)
    /\ Answer(Key(session.dev))
    /\ UNCHANGED <<tries, conn, session, declined, deviceVars>> /\ ThreadOnly

\* There is no session to reuse, or reading the key through it failed.
AbandonSession ==
    /\ at = "reuse"
    /\ Goto("establish")
    /\ session' = NoSession
    /\ UNCHANGED <<tries, conn, out, declined, deviceVars>> /\ ThreadOnly

\* Mutant: any open session will do.
WithAnySession ==
    /\ at = "ready"
    /\ Goto(IF session.open THEN "use" ELSE "establish")
    /\ UNCHANGED <<tries, conn, out, session, declined, deviceVars>> /\ ThreadOnly

\* with_session: keep the session only if it was opened for the same host path.
WithSession ==
    /\ at = "ready"
    /\ \/ /\ session.open /\ session.host = cmd.host
          /\ Goto("use")
          /\ UNCHANGED session
       \/ /\ ~session.open \/ session.host # cmd.host
          /\ Goto("establish")
          /\ session' = NoSession
    /\ UNCHANGED <<tries, conn, out, declined, deviceVars>> /\ ThreadOnly

\* update_devices lists the Ledgers that answer as the Solana app; the choice
\* among them is by host path, or the only one.
Enumerated == {d \in Devices : place[d] # NONE /\ Responsive(d)}
Selects(S, d) == d \in S /\ IF cmd.host = NONE THEN S = {d} ELSE place[d] = cmd.host

OpenSession(d) == [open |-> TRUE, dev |-> d, host |-> cmd.host]

\* establish_session without on-device confirmation.
Establish ==
    /\ at = "establish" /\ ~cmd.confirm
    /\ \E d \in Devices :
          /\ Selects(Enumerated, d)
          /\ session' = OpenSession(d)
          /\ \/ cmd.op = "connect" /\ Answer(Key(d))
             \/ cmd.op # "connect" /\ Goto("use") /\ UNCHANGED out
    /\ UNCHANGED <<tries, conn, declined, deviceVars>> /\ ThreadOnly

\* establish_session that shows the address: the read has no timeout.
AskToConfirm ==
    /\ at = "establish" /\ cmd.confirm
    /\ \E d \in Devices :
          /\ Selects(Enumerated, d)
          /\ Goto("confirm")
          /\ conn' = d
          /\ screen' = [screen EXCEPT ![d] = "confirm"]
    /\ UNCHANGED <<tries, out, session, declined, place, app>> /\ ThreadOnly

\* Mutant: one retry too many.
AttemptFailsOnceMore(k) ==
    /\ out' = Err(k)
    /\ \/ /\ cmd.op = "connect" /\ cmd.autoOpen /\ tries = 0
          /\ Goto("open")
          /\ UNCHANGED tries
       \/ /\ 0 < tries /\ tries <= MaxRetries
          /\ Goto("establish")
          /\ tries' = tries + 1
       \/ /\ tries > MaxRetries \/ (tries = 0 /\ ~(cmd.op = "connect" /\ cmd.autoOpen))
          /\ Goto("reply")
          /\ UNCHANGED tries

\* One attempt of establish_session failed with k.  A connect may launch the app
\* once, and then attempts up to MaxRetries times more; anything else gives up.
AttemptFails(k) ==
    /\ out' = Err(k)
    /\ \/ /\ cmd.op = "connect" /\ cmd.autoOpen /\ tries = 0
          /\ Goto("open")
          /\ UNCHANGED tries
       \/ /\ 0 < tries /\ tries < MaxRetries
          /\ Goto("establish")
          /\ tries' = tries + 1
       \/ /\ tries = MaxRetries \/ (tries = 0 /\ ~(cmd.op = "connect" /\ cmd.autoOpen))
          /\ Goto("reply")
          /\ UNCHANGED tries

\* map_rw_err: what a failing exchange is reported as.
FaultKinds == {"NotAvailable", "SigningFailed"}

EstablishFails ==
    /\ at = "establish"
    /\ \E k \in FaultKinds : AttemptFails(k)
    /\ UNCHANGED <<conn, session, declined, deviceVars>> /\ ThreadOnly

\* The device open_ledger picks: the dashboard answers in every app.
DashboardTarget(d) == Selects({e \in Devices : place[e] # NONE}, d)

\* open_app: the dashboard asks the user before it launches the Solana app.
AskToLaunch(d) ==
    /\ app[d] = "dashboard"
    /\ Goto("launch")
    /\ conn' = d
    /\ screen' = [screen EXCEPT ![d] = "launch"]
    /\ UNCHANGED <<tries, out, app>>

\* The dashboard is out of reach or has no such app: the error of the connect stands.
LaunchGivenUp == Goto("reply") /\ UNCHANGED <<tries, out, conn, screen, app>>

\* ensure_solana_app_open up to the point where the user has to be asked.  Another
\* app is quit without a prompt, and quit_app does not look at whether it was.
OpenApp ==
    /\ at = "open"
    /\ \/ \E d \in Devices :
             /\ DashboardTarget(d)
             /\ screen[d] = "idle"
             /\ \/ /\ app[d] = "locked"
                   /\ Answer(Err("Locked"))
                   /\ UNCHANGED <<tries, conn, screen, app>>
                \/ /\ app[d] = "solana"
                   /\ Goto("establish")
                   /\ tries' = 1
                   /\ UNCHANGED <<out, conn, screen, app>>
                \/ AskToLaunch(d)
                \/ /\ app[d] = "other"
                   /\ Goto("reopen")
                   /\ app' \in {app, [app EXCEPT ![d] = "dashboard"]}
                   /\ UNCHANGED <<tries, out, conn, screen>>
       \/ LaunchGivenUp
    /\ UNCHANGED <<session, declined, place>> /\ ThreadOnly

\* reopen_after_reenumerate picks a device again, and open_app is sent to it.
ReopenApp ==
    /\ at = "reopen"
    /\ \/ \E d \in Devices : DashboardTarget(d) /\ screen[d] = "idle" /\ AskToLaunch(d)
       \/ LaunchGivenUp
    /\ UNCHANGED <<session, declined, place>> /\ ThreadOnly

\* open_app: a read that fails, or that expires after 30 seconds, counts as a
\* launch.  The prompt may still be on the screen.
LaunchReadFails ==
    /\ at = "launch"
    /\ Goto("establish")
    /\ tries' = 1
    /\ conn' = NONE
    /\ UNCHANGED <<out, session, declined, deviceVars>> /\ ThreadOnly

\* Mutant: every error costs the session.
SessionActionAlwaysDrop(k) == "Drop"

\* session_action
SessionAction(k) == IF k \in FaultKinds THEN "Drop" ELSE "Keep"
AfterError(k) == IF SessionAction(k) = "Drop" THEN NoSession ELSE session

UseFails(k) == Answer(Err(k)) /\ session' = AfterError(k)

\* The closure with_session runs: a probe reads the key, a signature waits for
\* the user in a read without a timeout.
UseSession ==
    /\ at = "use"
    /\ \/ /\ cmd.op = "isAvailable" /\ Responsive(session.dev)
          /\ Answer(Key(session.dev))
          /\ UNCHANGED <<session, conn, screen>>
       \/ /\ cmd.op = "sign" /\ Responsive(session.dev)
          /\ Goto("sign")
          /\ conn' = session.dev
          /\ screen' = [screen EXCEPT ![session.dev] = "sign"]
          /\ UNCHANGED <<session, out>>
       \/ /\ \E k \in FaultKinds : UseFails(k)
          /\ UNCHANGED <<conn, screen>>
    /\ UNCHANGED <<tries, declined, place, app>> /\ ThreadOnly

\* The blocked read of a confirm or sign prompt ends in an error.
PromptFails ==
    /\ at \in {"confirm", "sign"}
    /\ \E k \in FaultKinds :
          \/ at = "confirm" /\ AttemptFails(k) /\ UNCHANGED session
          \/ at = "sign" /\ UseFails(k) /\ UNCHANGED tries
    /\ conn' = NONE
    /\ screen' = [d \in Devices |-> IF d = conn THEN "idle" ELSE screen[d]]
    /\ UNCHANGED <<declined, place, app>> /\ ThreadOnly

\* DeviceCommand::IsAttached asks hidapi for any device of the vendor; a hidapi that does
\* not start counts as none.
EnumerateVendor ==
    /\ at = "enumerate"
    /\ \/ (\E d \in Devices : place[d] # NONE) /\ Answer(Sig(NONE, NONE))
       \/ Answer(Err("False"))
    /\ UNCHANGED <<tries, conn, session, declined, deviceVars>> /\ ThreadOnly

\* is_available answers with a bool.
Answered == IF cmd.op = "isAvailable" /\ out.kind # "Ok" THEN Err("False") ELSE out

\* `let _ = reply.send(result)`: lost when nobody holds the receiving end.
SendReply ==
    /\ at = "reply"
    /\ Goto("release")
    /\ reply' = [c \in Callers |-> IF c = cmd.to THEN Answered ELSE reply[c]]
    /\ UNCHANGED <<sharedVars, cmd, tries, conn, out, session, declined, deviceVars,
                   pc, call, signer, result>>

\* Mutant: the claim of an abandoned call is not released.
ReleaseClaimIfHeard ==
    /\ at = "release"
    /\ Goto("recv")
    /\ busy' = (busy /\ ~(cmd.claim /\ cmd.to # NONE))
    /\ cmd' = NoCommand /\ tries' = 0 /\ out' = NoResult /\ declined' = FALSE
    /\ UNCHANGED <<queue, alive, conn, session, deviceVars, callerVars>>

\* The command goes out of scope at the end of the match arm, and with it the claim.
ReleaseClaim ==
    /\ at = "release"
    /\ Goto("recv")
    /\ busy' = (busy /\ ~cmd.claim)
    /\ cmd' = NoCommand /\ tries' = 0 /\ out' = NoResult /\ declined' = FALSE
    /\ UNCHANGED <<queue, alive, conn, session, deviceVars, callerVars>>

Pending == {cmd} \cup {queue[i] : i \in DOMAIN queue}

\* A panic inside the wallet library or hidapi unwinds the thread: the command, the channel
\* and every command in it are dropped, releasing the claims they carry and
\* disconnecting their reply channels.  Nothing restarts the thread.
ThreadPanics ==
    /\ alive /\ at \in {"reuse", "establish", "open", "reopen", "use", "enumerate"}
    /\ alive' = FALSE
    /\ at' = "recv" /\ cmd' = NoCommand /\ queue' = <<>> /\ session' = NoSession
    /\ tries' = 0 /\ out' = NoResult /\ declined' = FALSE
    /\ busy' = (busy /\ \A p \in Pending : ~p.claim)
    /\ reply' = [c \in Callers |->
                   IF \E p \in Pending : p.to = c
                   THEN Failure(call[c], "Stopped")
                   ELSE reply[c]]
    /\ UNCHANGED <<conn, deviceVars, pc, call, signer, result>>

ThreadStep ==
    \/ TakeCommand \/ ReuseSession \/ AbandonSession \/ WithSession
    \/ Establish \/ AskToConfirm \/ EstablishFails \/ OpenApp \/ ReopenApp
    \/ LaunchReadFails \/ UseSession \/ EnumerateVendor \/ SendReply \/ ReleaseClaim

-----------------------------------------------------------------------------
(* The user and the hardware *)

Idle(d) == screen' = [screen EXCEPT ![d] = "idle"]

\* The user approves what d shows.  A garbled signature (key NONE) stands for
\* bytes that do not verify.  A launched app re-enumerates the device.
ApprovePubkey(d) ==
    /\ screen[d] = "confirm" /\ at = "confirm" /\ conn = d
    /\ Answer(Key(d)) /\ session' = OpenSession(d) /\ conn' = NONE
    /\ Idle(d)
    /\ UNCHANGED <<tries, declined, place, app>> /\ ThreadOnly

ApproveSignature(d) ==
    /\ screen[d] = "sign" /\ at = "sign" /\ conn = d
    /\ \E by \in {d, NONE} : Answer(Sig(by, cmd.msg))
    /\ conn' = NONE
    /\ Idle(d)
    /\ UNCHANGED <<tries, session, declined, place, app>> /\ ThreadOnly

\* A handle to d is dead once d leaves the bus.
Severed(d) == IF session.dev = d THEN [session EXCEPT !.dev = NONE] ELSE session

ApproveLaunch(d) ==
    /\ screen[d] = "launch"
    /\ app' = [app EXCEPT ![d] = "solana"]
    /\ session' = Severed(d)
    /\ Idle(d)
    /\ \/ /\ at = "launch" /\ conn = d
          /\ Goto("establish") /\ tries' = 1 /\ conn' = NONE
       \/ /\ conn # d
          /\ UNCHANGED <<at, tries, conn>>
    /\ UNCHANGED <<out, declined, place>> /\ ThreadOnly

\* The user declines: status 0x6985.
Decline(d) ==
    /\ \/ /\ screen[d] = "confirm" /\ at = "confirm" /\ conn = d
          /\ AttemptFails("UserRejected")
          /\ declined' = TRUE /\ UNCHANGED session
       \/ /\ screen[d] = "sign" /\ at = "sign" /\ conn = d
          /\ UseFails("UserRejected")
          /\ declined' = TRUE /\ UNCHANGED tries
       \/ /\ screen[d] = "launch" /\ at = "launch" /\ conn = d
          /\ Answer(Err("UserRejected"))
          /\ declined' = TRUE /\ UNCHANGED <<session, tries>>
       \/ /\ screen[d] = "launch" /\ conn # d
          /\ UNCHANGED <<at, out, session, tries, declined>>
    /\ conn' = IF conn = d THEN NONE ELSE conn
    /\ Idle(d)
    /\ UNCHANGED <<place, app>> /\ ThreadOnly

Attach(d, p) ==
    /\ place[d] = NONE
    /\ \A e \in Devices : place[e] # p
    /\ place' = [place EXCEPT ![d] = p]
    /\ app' = [app EXCEPT ![d] = "locked"]
    /\ UNCHANGED <<screen, threadVars>> /\ ThreadOnly

Detach(d) ==
    /\ place[d] # NONE
    /\ place' = [place EXCEPT ![d] = NONE]
    /\ session' = Severed(d)
    /\ conn' = IF conn = d THEN NONE ELSE conn
    /\ Idle(d)
    /\ UNCHANGED <<app, at, tries, out, declined>> /\ ThreadOnly

\* The user unlocks, locks, opens the Solana app or leaves it.
SwitchApp(d, a) ==
    /\ place[d] # NONE /\ screen[d] = "idle" /\ app[d] # a
    /\ app' = [app EXCEPT ![d] = a]
    /\ session' = IF "locked" \in {a, app[d]} THEN session ELSE Severed(d)
    /\ UNCHANGED <<place, screen, at, tries, conn, out, declined>> /\ ThreadOnly

Respond(d) == ApprovePubkey(d) \/ ApproveSignature(d) \/ ApproveLaunch(d) \/ Decline(d)

Hardware ==
    \/ PromptFails \/ ThreadPanics
    \/ \E d \in Devices :
         \/ Respond(d) \/ Detach(d)
         \/ \E p \in Paths : Attach(d, p)
         \/ \E a \in Apps : SwitchApp(d, a)

CallerStep(c) ==
    \/ RejectInput(c) \/ Connect(c) \/ SignMessage(c) \/ SignTransaction(c)
    \/ IsAvailable(c) \/ IsAttached(c)
    \/ Send(c) \/ Receive(c) \/ Timeout(c) \/ Cancel(c)

Next == ThreadStep \/ Hardware \/ \E c \in Callers : CallerStep(c)

Spec == Init /\ [][Next]_vars

\* A started call keeps running, its deadline expires, the thread is scheduled.
Fairness ==
    /\ WF_vars(ThreadStep)
    /\ \A c \in Callers : WF_vars(Send(c)) /\ WF_vars(Receive(c) \/ Timeout(c))

FairSpec == Spec /\ Fairness

\* The user answers every prompt, or its read fails; the code assumes it nowhere.
PromptsEnd == WF_vars(PromptFails \/ \E d \in Devices : Respond(d))

-----------------------------------------------------------------------------
(* Properties *)

Prompting == at \in {"confirm", "sign", "launch"}

\* The claim is held exactly while one live DeviceClaim exists, in one place: in
\* the hands of one caller that has not sent its command yet, in one command of
\* the channel, or in the command the thread serves.
ClaimAccounted ==
    busy <=> \/ \E c \in Callers : pc[c] = "claimed"
             \/ \E i \in DOMAIN queue : queue[i].claim
             \/ cmd.claim

ClaimUnique ==
    /\ \A c \in Callers : pc[c] = "claimed" =>
          /\ \A d \in Callers : pc[d] = "claimed" => d = c
          /\ \A i \in DOMAIN queue : ~queue[i].claim
          /\ ~cmd.claim
    /\ \A i \in DOMAIN queue : queue[i].claim =>
          /\ \A j \in DOMAIN queue : queue[j].claim => j = i
          /\ ~cmd.claim

ClaimExclusive == ClaimAccounted /\ ClaimUnique

\* Why the claim is exclusive, as an inductive invariant: the only commands without
\* a claim are the IsAttached probes, a caller that won the compare_exchange has
\* one in hand, and the thread holds one whenever it talks to a device.
ClaimCarried ==
    /\ \A c \in Callers : /\ pc[c] = "claimed" => call[c].claim
                          /\ pc[c] = "checked" => ~call[c].claim
                          /\ call[c].op # "isAttached" => call[c].claim
    /\ \A i \in DOMAIN queue : queue[i].op # "isAttached" => queue[i].claim
    /\ cmd.op # "isAttached" => cmd.claim
    /\ at = "recv" => ~cmd.claim
    /\ at \notin {"recv", "enumerate", "reply", "release"} => cmd.claim

\* A signature or address prompt belongs to the read the thread is blocked in.
PromptOwned ==
    \A d \in Devices : screen[d] \in {"confirm", "sign"} => at = screen[d] /\ conn = d

ClaimInv == ClaimExclusive /\ ClaimCarried

\* No call that needs the device waits behind somebody else's on-device prompt: while the
\* thread is blocked on the user, it is refused at the compare_exchange, and none is in the
\* channel.  The one command that can be there is an IsAttached probe that found the device
\* free before the prompt came up; it takes no claim and waits, for OPS_TIMEOUT at most.
NoWaitBehindPrompt ==
    Prompting => /\ busy /\ cmd.claim
                 /\ \A i \in DOMAIN queue : queue[i].op = "isAttached" /\ ~queue[i].claim
                 /\ \A c \in Callers : pc[c] # "claimed"

\* A caller that gives up, by deadline or by dropping its future, does not free a
\* device that still shows its prompt: a signature or address prompt on any screen
\* belongs to the read the thread is blocked in, and the device is claimed.
PromptKeepsClaim ==
    \A d \in Devices : screen[d] \in {"confirm", "sign"} =>
        busy /\ conn = d /\ at = screen[d] /\ cmd.claim

\* A call that returns a signature returns one by the key the signer cached when
\* it connected, over the bytes of that call, however devices were swapped or
\* sessions rebuilt meanwhile.
SignatureBinds ==
    \A c \in Callers :
        (pc[c] = "idle" /\ call[c].op = "sign" /\ result[c].kind = "Ok") =>
            signer[c].open /\ result[c].key = signer[c].key /\ result[c].over = call[c].msg

\* Only a connected signer asks for signatures; with this, SignatureBinds is inductive.
SignerConnected == \A c \in Callers : call[c].op = "sign" => signer[c].open

\* The thread signs only through a session opened for the host path of the
\* command, and a live handle is to a device attached at that path.
SessionMatches ==
    /\ at \in {"use", "sign"} => session.open /\ session.host = cmd.host
    /\ session.dev # NONE =>
          /\ session.open
          /\ place[session.dev] # NONE
          /\ session.host # NONE => place[session.dev] = session.host

\* A waiting caller's own command is pending, or its answer is in its channel:
\* nobody waits for an answer that cannot come, and no answer of an abandoned
\* call reaches a later one.
NoLostCall ==
    \A c \in Callers :
        /\ pc[c] = "waiting" /\ reply[c].kind = "None" =>
              \/ at # "release" /\ cmd = call[c]
              \/ \E i \in DOMAIN queue : queue[i] = call[c]
        /\ reply[c].kind # "None" =>
              /\ pc[c] = "waiting"
              /\ at \in {"recv", "release"} \/ cmd.to # c
              /\ \A i \in DOMAIN queue : queue[i].to # c

\* A declined signature is an answer over a healthy transport and keeps the
\* session; a transport or device fault drops it, so the next call reopens.
SessionAfterAnswer ==
    at = "reply" /\ cmd.op = "sign" =>
        /\ declined <=> out.kind = "UserRejected"
        /\ out.kind \in {"Ok", "UserRejected"} => session.open /\ session.host = cmd.host
        /\ out.kind \in FaultKinds => ~session.open

\* The device as a whole, callers, channel, thread and user, keeps the promise of
\* the claim: see ExclusiveDevice.
DevicePhase == IF cmd.claim THEN "serving" ELSE IF busy THEN "granted" ELSE "free"

Exclusive == INSTANCE ExclusiveDevice WITH phase <- DevicePhase, asking <- Prompting

ExclusiveAccess == Exclusive!Spec

\* Every call returns, also when the user never answers a prompt.
CallsReturn == \A c \in Callers : pc[c] # "idle" ~> pc[c] = "idle"

\* If every prompt is answered or fails, the device is handed back, also when the
\* caller that claimed it has given up.
DeviceReleased == PromptsEnd => (busy ~> ~busy)

-----------------------------------------------------------------------------
(* What the comments and the backend's README say and the code does not do *)

\* ledger/README.md: "A decline on the device is reported as UserRejected either
\* way."  A declined address confirmation is retried after the app check when
\* auto_open_app is set, and the connect ends with whatever the last attempt did.
DeclineSurfaced == at = "reply" /\ declined => out.kind = "UserRejected"

=============================================================================
