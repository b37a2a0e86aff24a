--------------------------- MODULE ProvisionJobs ---------------------------
(***************************************************************************)
(* The managed-provisioning worker of internal/provisionworker: one        *)
(* ProvisionJob row, the Lambda invocations that advance it, the accounts  *)
(* Organizations creates, the CodeBuild runners and the operator who       *)
(* retries a failed job or makes it adopt an account.                      *)
(*                                                                         *)
(* An invocation (processProvisionJob) loads the row, takes a lease of ten *)
(* seconds with a conditional write of the lease alone, and runs up to     *)
(* MaxTransitions step handlers on the copy it loaded BEFORE the lease.    *)
(* Every handler ends in an unconditional write of the whole copy.  The    *)
(* lease is shorter than the function's two minutes, is neither renewed    *)
(* nor released, and is checked by no write: an invocation that finds it   *)
(* held leaves without effect, and one that finds it expired goes on       *)
(* beside the other.  It therefore needs no state here, any invocation may *)
(* load an active row at any time.  The sweep fails a job whose consent    *)
(* has expired with no lease at all.                                       *)
(*                                                                         *)
(* Every age is measured from the job's creation at the instant the        *)
(* invocation read after loading, so the clock only keeps the order of the *)
(* ages at which something changes.  The job's thirty-day expiry, when     *)
(* DynamoDB may delete the row as well, lies beyond the horizon.           *)
(*                                                                         *)
(* Accounts are "own" (created for the slug, or adopted and carrying its   *)
(* e-mail and name) or "foreign" (an operator named it, and it is neither).*)
(***************************************************************************)
EXTENDS Integers, Sequences, FiniteSets, SequencesExt

CONSTANTS
    Workers,        \* concurrent invocations
    None,           \* no account, no change of the instance
    MaxTransitions, \* provisionMaxTransitionsPerRun
    MaxAttempts,    \* ProvisionJob.MaxAttempts
    ConsentAge,     \* ConsentExpiresAt
    CreateAge,      \* provisionMaxAccountCreateAge
    AssumeAge,      \* provisionMaxAssumeRoleAge + provisionMaxAccountCreateAge
    DeployAge,      \* provisionMaxDeployAge
    MaxClock,       \* bound: the clock stops here
    MaxRetries,     \* bound: how often the operator retries or adopts
    MaxFaults       \* bound: invocations that die or overlap another writer, and
                    \* calls that take effect and fail all the same

ASSUME ProvisionConstants ==
    /\ None \notin {"own", "foreign", "queued", "running", "ok", "error"}
    /\ IsFiniteSet(Workers)
    /\ {MaxTransitions, MaxAttempts, MaxClock, MaxRetries, MaxFaults} \subseteq Nat
    /\ {ConsentAge, CreateAge, AssumeAge, DeployAge} \subseteq Nat
    /\ CreateAge <= AssumeAge /\ AssumeAge <= DeployAge

VARIABLES
    bodyEnabled,    \* BodyEnabled, fixed at creation
    clock,
    row,            \* the stored job
    inst,           \* Instance.ProvisionStatus, written with the row
    inv,            \* the invocations
    requests,       \* Organizations' CreateAccount requests of this job
    builds,         \* CodeBuild's builds for this job
    entered,        \* history: foreign accounts moved, assumed or deployed into
    unheard,        \* history: requests and runners made by a call that failed
    retries,        \* history: operator retries and adoptions
    mishaps,        \* history: invocations that died, and overlaps
    overlapped      \* history: two writers have been under way at once

shared   == <<row, inst>>
external == <<requests, builds, entered, unheard>>
history  == <<retries, mishaps, overlapped>>
vars     == <<bodyEnabled, clock, shared, inv, external, history>>

-----------------------------------------------------------------------------
Active == {"queued", "running"}
Modes == {"lesser", "body", "mcp"}
Kinds == {"request"} \cup Modes
BeforeRunner == {"queued", "account.create", "account.create.poll",
                 "account.move", "account.assumeRole", "dns.childZone",
                 "dns.parentDelegation", "instance.config", "deploy.start"}
Steps == BeforeRunner \cup
         {"deploy.wait", "receipt.ingest", "body.deploy.start", "body.deploy.wait",
          "deploy.mcp.start", "deploy.mcp.wait", "done", "failed"}

\* The job as createManagedProvisionJobTx stores it, its consent sealed.
NewJob == [status |-> "queued", step |-> "queued", attempts |-> 0,
           run |-> 0, req |-> 0, acct |-> None, consent |-> TRUE,
           body |-> FALSE, mcp |-> FALSE]

\* An invocation: the copy of the job, the instant it loaded it, the handlers
\* it may still run, the ProvisionStatus its next write sets, and what follows
\* that write ("begin" and "next": a handler; "assume": advanceToAssumeRole).
Idle == [pc |-> "idle", job |-> NewJob, now |-> 0, left |-> 0,
         mark |-> None, then |-> "stop"]

\* hydrateManagedProvisionJobFromInstance: the instance may know an account from
\* an earlier job, an adopted one included.  processConsentForJob: the consent is
\* optional.
Init ==
    /\ bodyEnabled \in BOOLEAN
    /\ clock = 0
    /\ \E a \in {None, "own", "foreign"}, c \in BOOLEAN :
         row = [NewJob EXCEPT !.acct = a, !.consent = c]
    /\ inst = "queued"
    /\ inv = [w \in Workers |-> Idle]
    /\ requests = <<>>
    /\ builds = <<>>
    /\ entered = {}
    /\ unheard = [k \in Kinds |-> 0]
    /\ retries = 0
    /\ mishaps = 0
    /\ overlapped = FALSE

Alone == \A w \in Workers : inv[w].pc = "idle"
Succeeded == {b.mode : b \in {b \in ToSet(builds) : b.state = "ok"}}

Lost == unheard["request"] + unheard["lesser"] + unheard["body"] + unheard["mcp"]

\* A writer begins: an overlap when another one is under way.
Begins ==
    /\ overlapped' = (overlapped \/ ~Alone)
    /\ mishaps' = IF Alone THEN mishaps ELSE mishaps + 1
    /\ mishaps' + Lost <= MaxFaults

-----------------------------------------------------------------------------
(* An invocation: load, write, end.                                        *)

MutFailedKeepsConsent(j) == [j EXCEPT !.status = "error", !.step = "failed"]

\* failJob, on a copy
Failed(j) == [j EXCEPT !.status = "error", !.step = "failed", !.consent = FALSE]

\* processProvisionJob on a row it finds active.  With provisioning disabled or
\* its configuration missing the loaded job is failed, with no lease; with a
\* lease the handlers begin, and startManagedProvisioningJobIfQueued first
\* restarts a queued copy at its first step.
Load(w) ==
    LET begun == [Idle EXCEPT !.job = row, !.now = clock, !.left = MaxTransitions]
    IN  /\ inv[w].pc = "idle"
        /\ row.status \in Active
        /\ Begins
        /\ \/ inv' = [inv EXCEPT ![w] = [Idle EXCEPT !.pc = "put", !.job = Failed(row),
                                                     !.mark = "error"]]
           \/ /\ row.status = "queued"
              /\ inv' = [inv EXCEPT ![w] =
                   [begun EXCEPT !.pc = "put", !.mark = "running", !.then = "begin",
                                 !.job.status = "running", !.job.step = "queued"]]
           \/ /\ row.status = "running"
              /\ inv' = [inv EXCEPT ![w] = [begun EXCEPT !.pc = "handle"]]
        /\ UNCHANGED <<bodyEnabled, clock, shared, external, retries>>

\* processProvisionSweepJob: the scanned row's consent has expired.  The scan is
\* this action and the write a later Put, so the row it fails may be long out of
\* date.  (The sweep's other outcome, a new message, is that Load is always
\* possible.)
Sweep(w) ==
    /\ inv[w].pc = "idle"
    /\ row.status \in Active
    /\ row.consent
    /\ clock >= ConsentAge
    /\ Begins
    /\ inv' = [inv EXCEPT ![w] = [Idle EXCEPT !.pc = "put", !.job = Failed(row),
                                              !.mark = "error"]]
    /\ UNCHANGED <<bodyEnabled, clock, shared, external, retries>>

\* persistJobAndInstance and failJob write the whole copy, unconditionally;
\* advanceManagedProvisioningLoop goes on, or leaves the rest to a new message.
Put(w) ==
    LET i == inv[w]
        more == IF i.then = "next" THEN i.left - 1 ELSE i.left
    IN  /\ i.pc = "put"
        /\ row' = i.job
        /\ inst' = IF i.mark = None THEN inst ELSE i.mark
        /\ inv' = [inv EXCEPT ![w] =
             CASE i.then = "assume" ->
                    [i EXCEPT !.job.step = "account.assumeRole",
                              !.mark = None, !.then = "next"]
               [] i.then \in {"begin", "next"} /\ more > 0 ->
                    [i EXCEPT !.pc = "handle", !.left = more, !.mark = None,
                              !.then = "stop"]
               [] OTHER -> Idle]
        /\ UNCHANGED <<bodyEnabled, clock, external, history>>

\* The invocation dies or its write fails: nothing more is written, and the
\* queue or the sweep starts another one.  (Dying before the handler's call
\* leaves no other state than dying after a call without effect.)
Dies(w) ==
    /\ inv[w].pc = "put"
    /\ mishaps + Lost < MaxFaults
    /\ mishaps' = mishaps + 1
    /\ inv' = [inv EXCEPT ![w] = Idle]
    /\ UNCHANGED <<bodyEnabled, clock, shared, external, retries, overlapped>>

-----------------------------------------------------------------------------
(* What the handlers have in common.                                       *)

Handling(w, step) == inv[w].pc = "handle" /\ inv[w].job.step = step

\* The copy is ready to be written, the instance's status with it if mark says
\* so; an invocation that stops then has no more use for its instant.
Stage(w, j, mark, then) ==
    LET i == IF then = "stop" THEN Idle ELSE inv[w]
    IN  /\ inv' = [inv EXCEPT ![w] = [i EXCEPT !.pc = "put", !.job = j,
                                              !.mark = mark, !.then = then]]
        /\ UNCHANGED <<bodyEnabled, clock, shared, history>>

\* The invocation ends here and writes nothing.
Leave(w) ==
    /\ inv' = [inv EXCEPT ![w] = Idle]
    /\ UNCHANGED <<bodyEnabled, clock, shared, history>>

MutFailLeavesInstance(w, j) == Stage(w, Failed(j), None, "stop")

Advance(w, j) == Stage(w, j, None, "next")
Wait(w, j) == Stage(w, j, None, "stop")
Fail(w, j) == Stage(w, Failed(j), "error", "stop")
Done(w, j) == Stage(w, [j EXCEPT !.status = "ok", !.step = "done"], "ok", "stop")

\* retryProvisionJobOrFail; what follows the failing write is the caller's.
RetryOrFail(w, j, then) ==
    LET k == [j EXCEPT !.attempts = @ + 1]
    IN  IF k.attempts >= MaxAttempts
        THEN Stage(w, Failed(k), "error", then)
        ELSE Wait(w, k)

\* validateAdoptedProvisionAccount: only an account no request of ours made.
MustValidate(j) == j.acct # None /\ j.req = 0
Valid(j) == j.acct = "own"

\* The call took effect but the worker had an error, or no identifier, for answer.
Unheard(k) ==
    /\ mishaps + Lost < MaxFaults
    /\ unheard' = [unheard EXCEPT ![k] = @ + 1]

Enter(a) == entered' = IF a = "foreign" THEN entered \cup {a} ELSE entered

\* The steps that need an account restart its allocation when there is none.
Restart(w, j) == Advance(w, [j EXCEPT !.step = "account.create"])

-----------------------------------------------------------------------------
(* Account allocation.                                                     *)

AdvanceQueued(w) ==
    /\ Handling(w, "queued")
    /\ Advance(w, [inv[w].job EXCEPT !.step = "account.create"])
    /\ UNCHANGED external

\* advanceProvisionAccountCreate, with the account there already
AccountKnown(w) ==
    LET j == inv[w].job
    IN  /\ Handling(w, "account.create")
        /\ j.acct # None
        /\ \/ /\ MustValidate(j) => Valid(j)
              /\ Advance(w, [j EXCEPT !.step = "account.move"])
           \/ /\ MustValidate(j)
              /\ RetryOrFail(w, j, "stop") \/ Fail(w, j)
        /\ UNCHANGED external

\* requestAccountCreate, or straight to polling a request already made.  The
\* request may have been made although CreateAccount answers with an error, or
\* without its identifier.
AccountCreate(w) ==
    LET j == inv[w].job
        polled == [j EXCEPT !.step = "account.create.poll"]
    IN  /\ Handling(w, "account.create")
        /\ j.acct = None
        /\ \/ /\ j.req # 0
              /\ Wait(w, polled)
              /\ UNCHANGED external
           \/ /\ j.req = 0
              /\ RetryOrFail(w, j, "stop") \/ Fail(w, j)
              /\ UNCHANGED external
           \/ /\ j.req = 0
              /\ requests' = Append(requests, "pending")
              /\ \/ Wait(w, [polled EXCEPT !.req = Len(requests')]) /\ UNCHANGED unheard
                 \/ (RetryOrFail(w, j, "stop") \/ Fail(w, j)) /\ Unheard("request")
              /\ UNCHANGED <<builds, entered>>

\* advanceProvisionAccountCreatePoll.  A request ends, for the model, when a
\* poll first finds it ended; an e-mail address has at most one account.
AccountCreatePoll(w) ==
    LET j == inv[w].job
        Found(state) == /\ requests[j.req] \in {"pending", state}
                        /\ requests' = [requests EXCEPT ![j.req] = state]
                        /\ UNCHANGED <<builds, entered, unheard>>
    IN  /\ Handling(w, "account.create.poll")
        /\ IF j.acct # None
           THEN Advance(w, [j EXCEPT !.step = "account.move"]) /\ UNCHANGED external
           ELSE IF j.req = 0 THEN Restart(w, j) /\ UNCHANGED external
           ELSE IF inv[w].now >= CreateAge THEN Fail(w, j) /\ UNCHANGED external
           ELSE \/ /\ RetryOrFail(w, j, "stop") \/ Fail(w, j)
                   /\ UNCHANGED external
                \/ /\ Wait(w, j) \/ Leave(w)
                   /\ Found("pending")
                \/ /\ \A i \in DOMAIN requests : requests[i] = "made" => i = j.req
                   /\ Advance(w, [j EXCEPT !.acct = "own", !.step = "account.move"])
                   /\ Found("made")
                \/ /\ Fail(w, j)
                   /\ Found("failed")

\* advanceProvisionAccountMove.  A failure of the move itself is written and
\* then followed by advanceToAssumeRole all the same: moveProvisionAccountToTargetOU
\* answers it like success.
AccountMove(w) ==
    LET j == inv[w].job
        moveOn == [j EXCEPT !.step = "account.assumeRole"]
    IN  /\ Handling(w, "account.move")
        /\ \/ /\ MustValidate(j)
              /\ RetryOrFail(w, j, "stop") \/ Fail(w, j)
              /\ UNCHANGED external
           \/ /\ MustValidate(j) => Valid(j)
              /\ \/ Advance(w, moveOn)
                 \/ RetryOrFail(w, j, "assume")
                 \/ Stage(w, Failed(j), "error", "assume")
              /\ UNCHANGED external
           \/ /\ MustValidate(j) => Valid(j)
              /\ Stage(w, j, None, "assume")
              /\ Enter(j.acct)
              /\ UNCHANGED <<requests, builds, unheard>>

\* advanceProvisionAssumeRole
AssumeRole(w) ==
    LET j == inv[w].job
    IN  /\ Handling(w, "account.assumeRole")
        /\ IF j.acct = None THEN Restart(w, j) /\ UNCHANGED external
           ELSE IF inv[w].now >= AssumeAge THEN Fail(w, j) /\ UNCHANGED external
           ELSE \/ /\ Wait(w, j) \/ RetryOrFail(w, j, "stop")
                   /\ UNCHANGED external
                \/ /\ Advance(w, [j EXCEPT !.step = "dns.childZone"])
                   /\ Enter(j.acct)
                   /\ UNCHANGED <<requests, builds, unheard>>

-----------------------------------------------------------------------------
(* Names and configuration: each step is done, or retried.                 *)

DoneOrRetry(w, step, next) ==
    LET j == inv[w].job
    IN  /\ Handling(w, step)
        /\ Advance(w, [j EXCEPT !.step = next]) \/ RetryOrFail(w, j, "stop")
        /\ UNCHANGED external

\* Every job at these steps has its account (AssumeRole has seen to it).  The
\* parent zone is required configuration, and a child zone found without name
\* servers counts as an error of the step before.
ChildZone(w) == DoneOrRetry(w, "dns.childZone", "dns.parentDelegation")
ParentDelegation(w) == DoneOrRetry(w, "dns.parentDelegation", "instance.config")

\* advanceProvisionInstanceConfig also fails when the instance is gone.
InstanceConfig(w) ==
    \/ DoneOrRetry(w, "instance.config", "deploy.start")
    \/ /\ Handling(w, "instance.config")
       /\ Fail(w, inv[w].job)
       /\ UNCHANGED external

-----------------------------------------------------------------------------
(* Runners.                                                                *)

\* startDeployRunnerWithMode and what its callers do next: while StartBuild's
\* idempotency token is honoured the newest build of the job and mode is returned
\* again, later a new one is started, and the answer may be an error although a
\* build was started.
StartBuild(w, mode, j, waiting) ==
    LET same == {i \in DOMAIN builds : builds[i].mode = mode}
        started == Append(builds, [mode |-> mode, state |-> "running"])
    IN  /\ \/ /\ \E i \in same : /\ \A k \in same : k <= i
                                 /\ Wait(w, [waiting EXCEPT !.run = i])
              /\ UNCHANGED <<builds, unheard>>
           \/ /\ builds' = started
              /\ Wait(w, [waiting EXCEPT !.run = Len(started)])
              /\ UNCHANGED unheard
           \/ /\ builds' = started
              /\ RetryOrFail(w, j, "stop")
              /\ Unheard(mode)
        /\ Enter(j.acct)
        /\ UNCHANGED requests

\* advanceProvisionDeployStart: a runner known already is polled; else the
\* consent must decrypt, the instance load and the consent be fresh.
DeployStart(w) ==
    LET j == inv[w].job
        waiting == [j EXCEPT !.step = "deploy.wait", !.consent = FALSE]
    IN  /\ Handling(w, "deploy.start")
        /\ \/ j.run # 0 /\ Wait(w, waiting) /\ UNCHANGED external
           \/ j.run = 0 /\ RetryOrFail(w, j, "stop") /\ UNCHANGED external
           \/ (j.run = 0 \/ j.consent) /\ Fail(w, j) /\ UNCHANGED external
           \/ /\ j.run = 0
              /\ j.consent => inv[w].now < ConsentAge
              /\ StartBuild(w, "lesser", j, waiting)

\* getDeployRunnerStatus and the cases all three wait steps share; finished is
\* what the step does when the runner it polls has succeeded.  A runner ends,
\* for the model, when a poll first finds it ended.
PollRunner(w, step, finished) ==
    LET j == inv[w].job
        Found(state) == /\ j.run # 0
                        /\ builds[j.run].state \in {"running", state}
                        /\ builds' = [builds EXCEPT ![j.run].state = state]
                        /\ UNCHANGED <<requests, entered, unheard>>
    IN  /\ Handling(w, step)
        /\ \/ RetryOrFail(w, j, "stop") /\ UNCHANGED external
           \/ Found("ok") /\ finished
           \/ Found("bad") /\ Fail(w, j)
           \/ /\ Found("running")
              /\ IF inv[w].now >= DeployAge THEN Fail(w, j) ELSE Wait(w, j)

DeployWait(w) ==
    PollRunner(w, "deploy.wait", Advance(w, [inv[w].job EXCEPT !.step = "receipt.ingest"]))

MutNextPhaseKeepsRun(j) ==
    [j EXCEPT !.step = IF j.body THEN "deploy.mcp.start" ELSE "body.deploy.start"]

\* The copy advanceProvisionReceiptIngest goes on with when body and MCP wiring
\* are still to come: no runner, and the first phase that is missing.
NextPhase(j) ==
    [j EXCEPT !.run = 0,
              !.step = IF j.body THEN "deploy.mcp.start" ELSE "body.deploy.start"]

\* advanceProvisionReceiptIngest; only a succeeded Lesser runner left a receipt.
\* (The account applyLesserUpReceipt takes from it is the one that runner was
\* given, the job's own.)
ReceiptIngest(w) ==
    LET j == inv[w].job
    IN  /\ Handling(w, "receipt.ingest")
        /\ \/ RetryOrFail(w, j, "stop")
           \/ "lesser" \in Succeeded /\ Fail(w, j)
           \/ /\ "lesser" \in Succeeded
              /\ IF bodyEnabled /\ ~j.mcp
                 THEN Stage(w, NextPhase(j), "running", "next")
                 ELSE Done(w, j)
        /\ UNCHANGED external

\* advanceProvisionBodyDeployStart
BodyDeployStart(w) ==
    LET j == inv[w].job
        waiting == [j EXCEPT !.step = "body.deploy.wait"]
    IN  /\ Handling(w, "body.deploy.start")
        /\ IF ~bodyEnabled THEN Done(w, j) /\ UNCHANGED external
           ELSE IF j.body
           THEN Advance(w, [j EXCEPT !.step = "deploy.mcp.start", !.run = 0]) /\ UNCHANGED external
           ELSE IF j.run # 0 THEN Wait(w, waiting) /\ UNCHANGED external
           ELSE \/ RetryOrFail(w, j, "stop") /\ UNCHANGED external
                \/ Fail(w, j) /\ UNCHANGED external
                \/ StartBuild(w, "body", j, waiting)

BodyDeployWait(w) ==
    PollRunner(w, "body.deploy.wait",
               Advance(w, [inv[w].job EXCEPT !.body = TRUE, !.run = 0,
                                             !.step = "deploy.mcp.start"]))

\* advanceProvisionDeployMcpStart
DeployMcpStart(w) ==
    LET j == inv[w].job
        waiting == [j EXCEPT !.step = "deploy.mcp.wait"]
    IN  /\ Handling(w, "deploy.mcp.start")
        /\ IF ~bodyEnabled THEN Done(w, j) /\ UNCHANGED external
           ELSE IF ~j.body
           THEN Advance(w, [j EXCEPT !.step = "body.deploy.start", !.run = 0]) /\ UNCHANGED external
           ELSE IF j.mcp THEN Done(w, j) /\ UNCHANGED external
           ELSE IF j.run # 0 THEN Wait(w, waiting) /\ UNCHANGED external
           ELSE \/ RetryOrFail(w, j, "stop") /\ UNCHANGED external
                \/ StartBuild(w, "mcp", j, waiting)

DeployMcpWait(w) ==
    PollRunner(w, "deploy.mcp.wait",
               Done(w, [inv[w].job EXCEPT !.mcp = TRUE, !.run = 0]))

-----------------------------------------------------------------------------
(* The operator, and time.                                                 *)

Intervenes ==
    /\ row.status = "error"
    /\ retries < MaxRetries
    /\ retries' = retries + 1
    /\ Begins
    /\ inst' = "queued"
    /\ UNCHANGED <<bodyEnabled, clock, inv, external>>

MutRetryForgetsRequest ==
    /\ Intervenes
    /\ row' = [row EXCEPT !.status = "queued", !.step = "queued", !.attempts = 0, !.req = 0]

\* handleRetryOperatorProvisionJob: the runner and the request are kept.
Retry ==
    /\ Intervenes
    /\ row' = [row EXCEPT !.status = "queued", !.step = "queued", !.attempts = 0]

MutAdoptKeepsRequest(a) ==
    /\ row.acct \in {None, a}
    /\ Intervenes
    /\ row' = [row EXCEPT !.status = "queued", !.step = "account.move",
                          !.attempts = 0, !.acct = a]

\* handleAdoptOperatorProvisionJobAccount: no other account than one it has
\* (read and conditional write, during which the job stays failed, are one).
Adopt(a) ==
    /\ row.acct \in {None, a}
    /\ Intervenes
    /\ row' = [row EXCEPT !.status = "queued", !.step = "account.move",
                          !.attempts = 0, !.acct = a, !.req = 0]

Tick ==
    /\ clock < MaxClock
    /\ clock' = clock + 1
    /\ UNCHANGED <<bodyEnabled, shared, inv, external, history>>

Handle(w) ==
    \/ AdvanceQueued(w) \/ AccountKnown(w) \/ AccountCreate(w) \/ AccountCreatePoll(w)
    \/ AccountMove(w) \/ AssumeRole(w) \/ ChildZone(w) \/ ParentDelegation(w)
    \/ InstanceConfig(w) \/ DeployStart(w) \/ DeployWait(w) \/ ReceiptIngest(w)
    \/ BodyDeployStart(w) \/ BodyDeployWait(w) \/ DeployMcpStart(w) \/ DeployMcpWait(w)

Next ==
    \/ \E w \in Workers : Load(w) \/ Sweep(w) \/ Handle(w) \/ Put(w) \/ Dies(w)
    \/ Retry
    \/ \E a \in {"own", "foreign"} : Adopt(a)
    \/ Tick

Spec == Init /\ [][Next]_vars

\* An invocation under way goes on, the queue and the sweep deliver an active
\* job again and again (a lease that turns one away runs out), and time passes.
\* Nothing is asked of Organizations, of CodeBuild or of the operator.
Fairness ==
    /\ \A w \in Workers : WF_vars(Handle(w) \/ Put(w))
    /\ WF_vars(\E w \in Workers : Load(w))
    /\ WF_vars(Tick)

LiveSpec == Spec /\ Fairness

-----------------------------------------------------------------------------
Jobs == [status : {"queued", "running", "ok", "error"}, step : Steps,
         attempts : 0 .. MaxAttempts + 1, run : 0 .. Len(builds), req : 0 .. Len(requests),
         acct : {None, "own", "foreign"}, consent : BOOLEAN,
         body : BOOLEAN, mcp : BOOLEAN]

\* The row and every copy are well formed, and name a runner and a request
\* that exist.
TypeOK ==
    /\ row \in Jobs
    /\ \A w \in Workers : inv[w].job \in Jobs /\ inv[w].left \in 0 .. MaxTransitions
    /\ inst \in {"queued", "running", "ok", "error"}
    /\ clock \in 0 .. MaxClock

Needs == [lesser |-> {}, body |-> {"lesser"}, mcp |-> {"lesser", "body"}]

\* Managed provisioning deploys Lesser first, then lesser-body, then wires MCP:
\* no runner was ever started before the ones it builds on had succeeded, and a
\* job that reports ok has had them all, however retries, dead invocations and
\* stale copies written over newer rows have moved its step and its runner.
PhasesInOrder ==
    /\ \A b \in ToSet(builds) : Needs[b.mode] \subseteq Succeeded
    /\ row.body => "body" \in Succeeded
    /\ row.status = "ok" =>
         (IF bodyEnabled THEN Modes ELSE {"lesser"}) \subseteq Succeeded

\* CSR-012: an adopted account that fails validation is never moved, assumed
\* or deployed into, whichever copy of the job an invocation works on.
EntersOnlyValidated == entered = {}

Started(m) == Cardinality({i \in DOMAIN builds : builds[i].mode = m})

\* A CreateAccount request whose answer was recorded is never made again: each
\* further one takes an invocation that died or overlapped another, or a call
\* that made a request and failed all the same, and an operator's retry alone is
\* no reason.  Runners may also be started once more for every retry.
NothingTwice ==
    /\ Len(requests) <= 1 + mishaps + unheard["request"]
    /\ \A m \in Modes : Started(m) <= 1 + mishaps + unheard[m] + retries

\* A row that holds the consent has still to start its runner.  With no write
\* under way, each Lesser runner started before belongs to a retry, or was lost to
\* a dead or overlapping invocation or to a failed answer.
ConsentUnspent ==
    row.consent =>
      /\ row.status \in Active /\ row.step \in BeforeRunner /\ row.run = 0
      /\ Alone => Started("lesser") <= mishaps + unheard["lesser"] + retries

\* The owner's consent is spent on one runner: whatever step is taken, a row that
\* then holds it has not spent it, and a consent that has left the row, for a
\* runner or with a failure, comes back only with a stale copy, after two writers
\* were under way at once.
ConsentSpent ==
    [][ConsentUnspent' /\ (row'.consent => row.consent \/ overlapped)]_vars

\* As long as no two writers were under way at once, the instance shows the
\* status of the job, dead invocations and failed writes notwithstanding.
InstanceAgrees == ~overlapped => inst = row.status

\* A job that is queued or running ends, in ok or in error: account creation,
\* role assumption and runners that never answer run into the ages, errors into
\* the attempts.
ProvisionSettles == (row.status \in Active) ~> (row.status \notin Active)

\* The comment in advanceProvisionAccountMove: a job marked as error does not
\* proceed through the OU move and assume-role steps.
FailedStops == row.status = "error" => row.step = "failed"
=============================================================================
