----------------------------- MODULE UpdateJobs -----------------------------
(***************************************************************************)
(* The managed-update worker of internal/provisionworker: one UpdateJob    *)
(* row, the Lambda invocations that advance it, the CodeBuild deploy       *)
(* runner they start and the receipt the runner leaves in S3.              *)
(*                                                                         *)
(* An invocation (processUpdateJob) is started by an SQS message, which is *)
(* delivered at least once, or by the five-minute sweep; both come to the  *)
(* same thing here, that any idle worker may load a job that is queued or  *)
(* running at any time.  It reads the row, takes the processing lease with *)
(* a conditional write, runs step handlers on its in-memory copy, each of  *)
(* which ends in a conditional write of the whole copy, and finally        *)
(* releases the lease.  It may die at any point and cannot outlive         *)
(* FnTimeout.                                                              *)
(*                                                                         *)
(* The rows' UpdatedAt is the version every write is conditional on.  All  *)
(* the writes of one invocation store the same instant, read once after    *)
(* the load.  It is a time (claim and runner ages are measured from it)    *)
(* and an identity; identities are drawn from the least number not in use, *)
(* so that equal means "written by the same invocation".                   *)
(*                                                                         *)
(* The three kinds of job (full Lesser, lesser-body, MCP wiring) run the   *)
(* same steps under different names; only the full kind verifies.  The cap *)
(* of six handlers per invocation is never met (the longest chain between  *)
(* two delays is three) and is left out.                                   *)
(***************************************************************************)
EXTENDS Integers, Sequences, FiniteSets

CONSTANTS
    Workers,        \* concurrent invocations
    None,           \* no lease owner
    Kinds,          \* the kinds of job to consider
    FnTimeout,      \* Lambda function timeout
    LeaseTTL,       \* updateProcessingLeaseTTL
    ClaimMaxAge,    \* updateRunnerStartClaimMaxAge
    MissingMaxAge,  \* updateRunnerMissingMaxAge
    MaxDeployAge,   \* provisionMaxDeployAge
    VerifyBudget,   \* updateVerifyBudgetRequirement
    TokenTTL,       \* how long CodeBuild honours an idempotency token
    MaxAttempts,    \* UpdateJob.MaxAttempts
    ReplyLoss,      \* TRUE: StartBuild may take effect and still report an error
    MaxClock,       \* bound: the clock stops here
    FaultHorizon    \* bound: no crash or store error after this time

\* The envelope ordering the source asks for: the lease outlives the function.
ASSUME LeaseOutlivesFunction ==
    /\ FnTimeout \in Nat /\ LeaseTTL \in Nat
    /\ FnTimeout < LeaseTTL

ASSUME ConstantTypes ==
    /\ None \notin Workers
    /\ Kinds \subseteq {"full", "body", "mcp"}
    /\ {ClaimMaxAge, MissingMaxAge, MaxDeployAge, VerifyBudget, TokenTTL,
        MaxAttempts, MaxClock, FaultHorizon} \subseteq Nat
    /\ ReplyLoss \in BOOLEAN

VARIABLES
    kind,       \* BodyOnly / MCPOnly / neither, fixed at creation
    clock,
    row,        \* the stored job: status, step, runId (0: none), attempts
    updatedAt,  \* its UpdatedAt: [at, id]
    lease,      \* its ProcessingLeaseOwner / ProcessingLeaseUntil
    marker,     \* Instance.UpdateStatus, written in the same transactions
    stamped,    \* TRUE: the instance record carries the job's version
    pc,         \* where each invocation is
    mem,        \* its in-memory copy of the row
    memAt,      \* the UpdatedAt of that copy
    born,       \* when it started
    now,        \* the instant it read after loading
    run,        \* the build StartBuild returned to it
    builds,     \* CodeBuild's builds for this job
    receipt     \* the runner's receipt is in S3

shared == <<row, updatedAt, lease, marker, stamped>>
local  == <<mem, memAt, born, now, run>>
env    == <<kind, clock, builds, receipt>>
vars   == <<env, shared, pc, local>>

-----------------------------------------------------------------------------
Job(st, sp, r, n) == [status |-> st, step |-> sp, runId |-> r, attempts |-> n]

Active == {"queued", "running"}
Steps == {"queued", "config", "start", "claimed", "wait", "ingest", "verify",
          "done", "failed"}
Holding == {"leased", "run", "claimed", "started", "startErr", "verify", "release"}

NoCopy == Job("queued", "queued", 0, 0)
NoTime == [at |-> 0, id |-> 0]
NoLease == [owner |-> None, until |-> 0]

\* updateJobProcessable
updateJobProcessable(j) == j.status \in Active

LeaseOf(w) == [owner |-> w, until |-> now[w].at + LeaseTTL]

UsedIds == {updatedAt.id} \cup {memAt[w].id : w \in Workers}
                          \cup {now[w].id : w \in Workers}
FreshId == CHOOSE i \in 0 .. 2 * Cardinality(Workers) + 1 : i \notin UsedIds

Init ==
    /\ kind \in Kinds
    /\ clock = 0
    /\ row = NoCopy
    /\ updatedAt = NoTime
    /\ lease = NoLease
    /\ marker = "queued"
    /\ stamped = FALSE
    /\ pc = [w \in Workers |-> "idle"]
    /\ mem = [w \in Workers |-> NoCopy]
    /\ memAt = [w \in Workers |-> NoTime]
    /\ born = [w \in Workers |-> 0]
    /\ now = [w \in Workers |-> NoTime]
    /\ run = [w \in Workers |-> 0]
    /\ builds = <<>>
    /\ receipt = FALSE

-----------------------------------------------------------------------------
(* Writes.                                                                 *)

\* persistUpdateJobAndInstance and failUpdateJob: the whole copy, the lease
\* fields included, on condition that UpdatedAt is the one the copy carries.
\* A failed condition ends the run quietly.
Persist(w, j, m, s, next) ==
    /\ IF updatedAt = memAt[w]
       THEN /\ row' = j
            /\ updatedAt' = now[w]
            /\ lease' = LeaseOf(w)
            /\ marker' = m
            /\ stamped' = s
            /\ mem' = [mem EXCEPT ![w] = j]
            /\ memAt' = [memAt EXCEPT ![w] = now[w]]
            /\ pc' = [pc EXCEPT ![w] = next]
       ELSE /\ pc' = [pc EXCEPT ![w] = "release"]
            /\ UNCHANGED <<shared, mem, memAt>>
    /\ UNCHANGED <<env, born, now, run>>

Moved(w, sp, r) == Job(mem[w].status, sp, r, mem[w].attempts)

failUpdateJob(w, n) ==
    Persist(w, Job("error", "failed", mem[w].runId, n), "error", stamped, "release")

\* The claim writes touch the named fields only and are conditional on the
\* stored status and step as well.
ClaimWrite(w, from, j, copy, m, next) ==
    /\ IF row.status = "running" /\ row.step = from /\ updatedAt = memAt[w]
       THEN /\ row' = j
            /\ updatedAt' = now[w]
            /\ marker' = m
            /\ mem' = [mem EXCEPT ![w] = copy]
            /\ memAt' = [memAt EXCEPT ![w] = now[w]]
            /\ pc' = [pc EXCEPT ![w] = next]
       ELSE /\ pc' = [pc EXCEPT ![w] = "release"]
            /\ UNCHANGED <<row, updatedAt, marker, mem, memAt>>
    /\ UNCHANGED <<env, lease, stamped, born, now, run>>

MutFailClaimedNoMarker(w) ==
    ClaimWrite(w, "claimed", Job("error", "failed", 0, row.attempts),
               Job("error", "failed", 0, mem[w].attempts), marker, "release")

failClaimedUpdateJob(w) ==
    ClaimWrite(w, "claimed", Job("error", "failed", 0, row.attempts),
               Job("error", "failed", 0, mem[w].attempts), "error", "release")

-----------------------------------------------------------------------------
(* An invocation: load, lease, run, release.                               *)

Leave(w) ==
    /\ pc' = [pc EXCEPT ![w] = "idle"]
    /\ mem' = [mem EXCEPT ![w] = NoCopy]
    /\ memAt' = [memAt EXCEPT ![w] = NoTime]
    /\ born' = [born EXCEPT ![w] = 0]
    /\ now' = [now EXCEPT ![w] = NoTime]
    /\ run' = [run EXCEPT ![w] = 0]

\* loadUpdateJob: a consistent read; a settled job ends the invocation.
loadUpdateJob(w) ==
    /\ pc[w] = "idle"
    /\ updateJobProcessable(row)
    /\ pc' = [pc EXCEPT ![w] = "loaded"]
    /\ mem' = [mem EXCEPT ![w] = row]
    /\ memAt' = [memAt EXCEPT ![w] = updatedAt]
    /\ born' = [born EXCEPT ![w] = clock]
    /\ UNCHANGED <<env, shared, now, run>>

MutLeaseTaken(w, t) == updatedAt = memAt[w]

MutLeaseAnyVersion(w, t) ==
    lease.owner = None \/ lease.until <= t \/ lease.owner = w

\* The condition of the lease write.  The same owner is a retry of a dead
\* invocation under its own request id.
LeaseFree(w, t) ==
    /\ lease.owner = None \/ lease.until <= t \/ lease.owner = w
    /\ updatedAt = memAt[w]

\* `now` was read between the load and the write.  Lease fields are the only
\* ones written, UpdatedAt is left alone.
acquireUpdateJobProcessingLease(w) ==
    /\ pc[w] = "loaded"
    /\ \E t \in born[w] .. clock :
         /\ LeaseFree(w, t)
         /\ now' = [now EXCEPT ![w] = [at |-> t, id |-> FreshId]]
         /\ lease' = [owner |-> w, until |-> t + LeaseTTL]
    /\ pc' = [pc EXCEPT ![w] = "leased"]
    /\ UNCHANGED <<env, row, updatedAt, marker, stamped, mem, memAt, born, run>>

LeaseRefused(w) ==
    /\ pc[w] = "loaded"
    /\ \E t \in born[w] .. clock : ~ LeaseFree(w, t)
    /\ Leave(w)
    /\ UNCHANGED <<env, shared>>

\* Deferred to the end of every leased invocation; conditional on the owner.
releaseUpdateJobProcessingLease(w) ==
    /\ pc[w] = "release"
    /\ lease' = IF lease.owner = w THEN NoLease ELSE lease
    /\ Leave(w)
    /\ UNCHANGED <<env, row, updatedAt, marker, stamped>>

\* Provisioning disabled, configuration missing, or the job expired.
Refuse(w) ==
    /\ pc[w] = "leased"
    /\ failUpdateJob(w, mem[w].attempts)

startManagedUpdateJobIfQueued(w) ==
    /\ pc[w] = "leased"
    /\ IF mem[w].status = "queued"
       THEN Persist(w, Job("running", mem[w].step, mem[w].runId, mem[w].attempts),
                    "running", stamped, "run")
       ELSE /\ pc' = [pc EXCEPT ![w] = "run"]
            /\ UNCHANGED <<env, shared, local>>

\* A store error ends the run after the last write that took effect.
StoreError(w) ==
    /\ pc[w] \in {"leased", "run", "started", "startErr", "verify"}
    /\ clock <= FaultHorizon
    /\ pc' = [pc EXCEPT ![w] = "release"]
    /\ UNCHANGED <<env, shared, local>>

\* The invocation dies, or its release is lost: the lease stays.
Crash(w) ==
    /\ pc[w] # "idle"
    /\ clock <= FaultHorizon
    /\ Leave(w)
    /\ UNCHANGED <<env, shared>>

-----------------------------------------------------------------------------
(* Step handlers, dispatched on the copy's step.                           *)

At(w, sp) == pc[w] = "run" /\ mem[w].step = sp

advanceUpdateQueued(w) ==
    /\ At(w, "queued")
    /\ Persist(w, Moved(w, "config", mem[w].runId), marker, stamped, "run")

\* The instance is loaded, its metadata and secret references resolved.
advanceUpdateInstanceConfig(w) ==
    /\ At(w, "config")
    /\ Persist(w, Moved(w, "start", mem[w].runId), mem[w].status, stamped, "run")

\* Instance missing, metadata or secrets unresolvable, release preflight
\* failed, or a receipt that does not validate.
HandlerFails(w) ==
    /\ \/ At(w, "config") \/ At(w, "start")
       \/ (At(w, "wait") \/ At(w, "ingest")) /\ receipt
    /\ failUpdateJob(w, mem[w].attempts)

\* A transient failure: instance load, status poll or receipt load.
retryUpdateJobOrFail(w) ==
    /\ \E sp \in {"config", "start", "wait", "ingest"} : At(w, sp)
    /\ IF mem[w].attempts + 1 >= MaxAttempts
       THEN failUpdateJob(w, mem[w].attempts + 1)
       ELSE Persist(w, Job(mem[w].status, mem[w].step, mem[w].runId,
                           mem[w].attempts + 1), marker, stamped, "release")

\* A recorded run id moves on to wait; otherwise the start is claimed, which
\* also needs the stored run id to be unset (it is whenever the step is start).
\* Two ways out do not occur: back to config without an instance key (config
\* records one before it moves on), and a body job without a version (the
\* portal resolves one).  StartBuild follows the claim with no store access between.
claimUpdateRunnerStart(w) ==
    /\ At(w, "start")
    /\ IF mem[w].runId # 0
       THEN Persist(w, Moved(w, "wait", mem[w].runId), marker, stamped, "release")
       ELSE ClaimWrite(w, "start", Job(row.status, "claimed", row.runId, row.attempts),
                       Moved(w, "claimed", mem[w].runId), marker, "claimed")

\* StartBuild under the job's idempotency token: a build started within the
\* token's life is returned again.
SameToken == {b \in 1 .. Len(builds) : clock - builds[b].at < TokenTTL}
NewBuild == Append(builds, [at |-> clock, st |-> "running"])

startUpdateDeployRunner(w) ==
    /\ pc[w] = "claimed"
    /\ \/ /\ builds' = IF SameToken = {} THEN NewBuild ELSE builds
          /\ run' = [run EXCEPT ![w] = Len(builds')]
          /\ pc' = [pc EXCEPT ![w] = "started"]
       \/ /\ \/ builds' = builds
             \/ ReplyLoss /\ SameToken = {} /\ builds' = NewBuild
          /\ pc' = [pc EXCEPT ![w] = "startErr"]
          /\ UNCHANGED run
    /\ UNCHANGED <<kind, clock, receipt, shared, mem, memAt, born, now>>

completeClaimedUpdateRunnerStart(w) ==
    /\ pc[w] = "started"
    /\ ClaimWrite(w, "claimed", Job(row.status, "wait", run[w], row.attempts),
                  Moved(w, "wait", run[w]), marker, "release")

retryClaimedUpdateRunnerStart(w) ==
    /\ pc[w] = "startErr"
    /\ LET n == mem[w].attempts + 1 IN
       IF n >= MaxAttempts
       THEN failClaimedUpdateJob(w)
       ELSE ClaimWrite(w, "claimed", Job(row.status, "start", 0, n),
                       Job(mem[w].status, "start", 0, n), marker, "release")

\* updateRunnerClaimExpired, measured from the claim's UpdatedAt.
ClaimExpired(w) == now[w].at - memAt[w].at > ClaimMaxAge

MutClaimRestarted(w) ==
    /\ At(w, "claimed")
    /\ IF ClaimExpired(w)
       THEN Persist(w, Moved(w, "start", 0), marker, stamped, "run")
       ELSE /\ pc' = [pc EXCEPT ![w] = "release"]
            /\ UNCHANGED <<env, shared, local>>

MutClaimedNeverFails(w) ==
    /\ At(w, "claimed")
    /\ pc' = [pc EXCEPT ![w] = "release"]
    /\ UNCHANGED <<env, shared, local>>

\* A claim nobody completed is waited for and then failed, never restarted.
advanceUpdateRunnerClaimed(w) ==
    /\ At(w, "claimed")
    /\ IF ClaimExpired(w)
       THEN failClaimedUpdateJob(w)
       ELSE /\ pc' = [pc EXCEPT ![w] = "release"]
            /\ UNCHANGED <<env, shared, local>>

Polled(w) == builds[mem[w].runId].st

MutSucceededSkipsIngest(w) ==
    /\ At(w, "wait") /\ Polled(w) # "failed"
    /\ Persist(w, Moved(w, "verify", 0), marker, TRUE, "run")

advanceSucceededUpdateRunnerWait(w) ==
    /\ At(w, "wait") /\ Polled(w) = "succeeded"
    /\ Persist(w, Moved(w, "ingest", 0), marker, stamped, "run")

advanceInProgressUpdateRunnerWait(w) ==
    /\ At(w, "wait") /\ Polled(w) = "running"
    /\ now[w].at <= MaxDeployAge
    /\ Persist(w, mem[w], marker, stamped, "release")

\* The build failed, outlived the deploy age, or is unknown to CodeBuild.
failUpdateRunnerWait(w) ==
    /\ At(w, "wait")
    /\ \/ Polled(w) = "failed"
       \/ Polled(w) = "running" /\ now[w].at > MaxDeployAge
       \/ now[w].at - memAt[w].at >= MissingMaxAge
    /\ failUpdateJob(w, mem[w].attempts)

\* The receipt is found, in the wait step before the poll or in the ingest
\* step.  A full update goes on to verification, the others are done.
advanceUpdateReceipt(w) ==
    /\ At(w, "wait") \/ At(w, "ingest")
    /\ receipt
    /\ IF kind = "full"
       THEN Persist(w, Moved(w, "verify", 0), marker, TRUE, "run")
       ELSE Persist(w, Job("ok", "done", 0, mem[w].attempts), "ok", TRUE, "release")

Remaining(w) == born[w] + FnTimeout - clock

\* Too little of the invocation is left: try again in a fresh one.
deferUpdateVerifyForBudget(w) ==
    /\ At(w, "verify") \/ pc[w] = "verify"
    /\ Remaining(w) < VerifyBudget
    /\ Persist(w, mem[w], marker, stamped, "release")

BeginVerify(w) ==
    /\ At(w, "verify")
    /\ Remaining(w) >= VerifyBudget
    /\ pc' = [pc EXCEPT ![w] = "verify"]
    /\ UNCHANGED <<env, shared, local>>

advanceUpdateVerify(w) ==
    /\ pc[w] = "verify"
    /\ \/ Persist(w, Job("ok", "done", mem[w].runId, mem[w].attempts), "ok",
                  TRUE, "release")
       \/ failUpdateJob(w, mem[w].attempts)

-----------------------------------------------------------------------------
(* The environment: time, and the CodeBuild runner.                        *)

\* The Lambda service ends an invocation at its timeout, so time does not
\* pass a live invocation's deadline.
Tick ==
    /\ clock < MaxClock
    /\ \A w \in Workers : pc[w] # "idle" => clock < born[w] + FnTimeout
    /\ clock' = clock + 1
    /\ UNCHANGED <<kind, builds, receipt, shared, pc, local>>

RunnerWritesReceipt ==
    /\ ~ receipt
    /\ \E b \in 1 .. Len(builds) : builds[b].st = "running"
    /\ receipt' = TRUE
    /\ UNCHANGED <<kind, clock, builds, shared, pc, local>>

\* A build succeeds only after its receipt is uploaded.
RunnerEnds ==
    /\ \E b \in 1 .. Len(builds) : \E s \in {"succeeded", "failed"} :
         /\ builds[b].st = "running"
         /\ s = "succeeded" => receipt
         /\ builds' = [builds EXCEPT ![b] = [at |-> builds[b].at, st |-> s]]
    /\ UNCHANGED <<kind, clock, receipt, shared, pc, local>>

Step(w) ==
    \/ acquireUpdateJobProcessingLease(w)
    \/ LeaseRefused(w)
    \/ releaseUpdateJobProcessingLease(w)
    \/ Refuse(w)
    \/ startManagedUpdateJobIfQueued(w)
    \/ advanceUpdateQueued(w)
    \/ advanceUpdateInstanceConfig(w)
    \/ HandlerFails(w)
    \/ retryUpdateJobOrFail(w)
    \/ claimUpdateRunnerStart(w)
    \/ startUpdateDeployRunner(w)
    \/ completeClaimedUpdateRunnerStart(w)
    \/ retryClaimedUpdateRunnerStart(w)
    \/ advanceUpdateRunnerClaimed(w)
    \/ advanceSucceededUpdateRunnerWait(w)
    \/ advanceInProgressUpdateRunnerWait(w)
    \/ failUpdateRunnerWait(w)
    \/ advanceUpdateReceipt(w)
    \/ deferUpdateVerifyForBudget(w)
    \/ BeginVerify(w)
    \/ advanceUpdateVerify(w)

Next ==
    \/ \E w \in Workers : loadUpdateJob(w) \/ Step(w) \/ StoreError(w) \/ Crash(w)
    \/ Tick \/ RunnerWritesReceipt \/ RunnerEnds

Spec == Init /\ [][Next]_vars

\* The sweep loads every active job every five minutes, a live invocation
\* keeps running, time passes and CodeBuild ends its builds.  Faults are not
\* fair, and neither is the runner's success.
FairSpec ==
    /\ Spec
    /\ \A w \in Workers : WF_vars(loadUpdateJob(w)) /\ WF_vars(Step(w))
    /\ WF_vars(Tick)
    /\ WF_vars(RunnerEnds)

-----------------------------------------------------------------------------
(* Properties.                                                             *)

Times == [at : 0 .. MaxClock, id : 0 .. 2 * Cardinality(Workers) + 1]
Jobs == [status : {"queued", "running", "ok", "error"}, step : Steps,
         runId : 0 .. Len(builds), attempts : 0 .. MaxAttempts]

TypeOK ==
    /\ kind \in Kinds
    /\ clock \in 0 .. MaxClock
    /\ row \in Jobs
    /\ updatedAt \in Times
    /\ lease.owner \in Workers \cup {None} /\ lease.until \in 0 .. MaxClock + LeaseTTL
    /\ marker \in {"queued", "running", "ok", "error"}
    /\ stamped \in BOOLEAN /\ receipt \in BOOLEAN
    /\ pc \in [Workers -> Holding \cup {"idle", "loaded"}]
    /\ mem \in [Workers -> Jobs]
    /\ memAt \in [Workers -> Times] /\ now \in [Workers -> Times]
    /\ born \in [Workers -> 0 .. MaxClock]
    /\ run \in [Workers -> 0 .. Len(builds)]
    /\ \A b \in 1 .. Len(builds) :
         builds[b].at \in 0 .. MaxClock /\ builds[b].st \in {"running", "succeeded", "failed"}

\* No two invocations work on the job at once: a lease is never lost to
\* another invocation while its holder still runs, which is what a lease
\* longer than the function timeout is for.
LeaseExclusive ==
    \A v, w \in Workers : pc[v] \in Holding /\ pc[w] \in Holding => v = w

\* The holder's copy carries the stored UpdatedAt throughout, so none of its
\* conditional writes can be rejected on the version.
HolderIsCurrent ==
    \A w \in Workers : pc[w] \in Holding => memAt[w] = updatedAt

\* Once the job is settled the instance's update status says so: no path
\* settles the job and leaves the instance marked as updating, which would
\* block every later update request.
SettledMarker == ~ updateJobProcessable(row) => marker = row.status

\* A job is reported ok, and the instance record carries its version, only
\* after the runner has left its receipt.
VersionNeedsReceipt == (row.status = "ok" => stamped) /\ (stamped => receipt)

\* Whatever is lost or crashes, the job settles for good: it is not left
\* running with nobody to advance it.
EventuallySettled == <>[](row.status \in {"ok", "error"})

\* One deploy runner per job: when the worker dies between StartBuild and
\* recording the build, the next invocation refuses to launch a duplicate
\* (the stale-claim message says so), even when CodeBuild has forgotten the
\* idempotency token.  Claimed for invocations one at a time.
NoDuplicateRunner == Len(builds) <= 1

\* A settled job stays as it was settled.
SettledIsFinal == [][~ updateJobProcessable(row) => row' = row]_vars
=============================================================================
