-------------------------- MODULE UpdateJobsProofs --------------------------
(***************************************************************************)
(* What UpdateJobs promises, for any number of invocations and any         *)
(* constants in which the lease outlives the function timeout.             *)
(*                                                                         *)
(* LeaseInv: a live invocation is within its deadline, and a holder's      *)
(* lease is the stored one, runs until LeaseTTL after the instant the      *)
(* holder read, which is no earlier than its start, and its copy carries   *)
(* the stored UpdatedAt.  A second invocation would need the lease to have *)
(* lapsed by an instant it read, which is no later than the clock, which   *)
(* is within the holder's deadline: before the lapse.                      *)
(*                                                                         *)
(* The lease does not make a holder's copy the newest one, so DataInv says *)
(* of every copy what it must not bring back.  RunnerInv and RowOpen are   *)
(* for invocations one at a time, where a copy is never old.               *)
(***************************************************************************)
EXTENDS UpdateJobs, TLAPS

LeaseInv ==
    /\ clock \in Nat
    /\ pc \in [Workers -> Holding \cup {"idle", "loaded"}]
    /\ born \in [Workers -> Nat]
    /\ DOMAIN now = Workers /\ DOMAIN memAt = Workers
    /\ \A w \in Workers : now[w].at \in Nat
    /\ \A w \in Workers : pc[w] # "idle" => clock <= born[w] + FnTimeout
    /\ \A w \in Workers : pc[w] \in Holding =>
         /\ lease = LeaseOf(w)
         /\ born[w] <= now[w].at
         /\ memAt[w] = updatedAt

\* What a holder's step does to the variables of LeaseInv: the clock, its
\* start and its instant stay, it remains a holder, and either nothing is
\* written or the row and the copy get the holder's instant as UpdatedAt.
HolderStep(w) ==
    /\ pc[w] \in Holding
    /\ \E p \in Holding : pc' = [pc EXCEPT ![w] = p]
    /\ UNCHANGED <<clock, born, now>>
    /\ \/ UNCHANGED <<updatedAt, lease, memAt>>
       \/ /\ updatedAt' = now[w]
          /\ memAt' = [memAt EXCEPT ![w] = now[w]]
          /\ lease' = lease \/ lease' = LeaseOf(w)

\* Every write ends in a HolderStep when it starts from a holder and goes to
\* a holder's place.
LEMMA PersistIsHolderStep ==
    ASSUME NEW w \in Workers, NEW j, NEW m, NEW s, NEW next \in Holding,
           pc[w] \in Holding, Persist(w, j, m, s, next)
    PROVE  HolderStep(w)
  <1>1. "release" \in Holding
    BY DEF Holding
  <1> QED
    BY <1>1 DEF Persist, HolderStep, env, shared

LEMMA ClaimIsHolderStep ==
    ASSUME NEW w \in Workers, NEW from, NEW j, NEW copy, NEW m, NEW next \in Holding,
           pc[w] \in Holding, ClaimWrite(w, from, j, copy, m, next)
    PROVE  HolderStep(w)
  <1>1. "release" \in Holding
    BY DEF Holding
  <1> QED
    BY <1>1 DEF ClaimWrite, HolderStep, env

LEMMA PlainIsHolderStep ==
    ASSUME NEW w \in Workers, NEW p \in Holding, pc[w] \in Holding,
           pc' = [pc EXCEPT ![w] = p],
           UNCHANGED <<clock, born, now, updatedAt, lease, memAt>>
    PROVE  HolderStep(w)
  BY DEF HolderStep

\* Every step handler is a HolderStep.
LEMMA HandlersAreHolderSteps ==
    ASSUME NEW w \in Workers,
           \/ Refuse(w) \/ startManagedUpdateJobIfQueued(w)
           \/ advanceUpdateQueued(w) \/ advanceUpdateInstanceConfig(w)
           \/ HandlerFails(w) \/ retryUpdateJobOrFail(w)
           \/ claimUpdateRunnerStart(w) \/ startUpdateDeployRunner(w)
           \/ completeClaimedUpdateRunnerStart(w)
           \/ retryClaimedUpdateRunnerStart(w) \/ advanceUpdateRunnerClaimed(w)
           \/ advanceSucceededUpdateRunnerWait(w)
           \/ advanceInProgressUpdateRunnerWait(w) \/ failUpdateRunnerWait(w)
           \/ advanceUpdateReceipt(w) \/ deferUpdateVerifyForBudget(w)
           \/ BeginVerify(w) \/ advanceUpdateVerify(w) \/ StoreError(w)
    PROVE  HolderStep(w)
  <1>h. {"leased", "run", "claimed", "started", "startErr", "verify", "release"}
           \subseteq Holding
    BY DEF Holding
  <1>f. ASSUME NEW n, pc[w] \in Holding, failUpdateJob(w, n)
        PROVE  HolderStep(w)
    BY <1>f, <1>h, PersistIsHolderStep DEF failUpdateJob
  <1>g. ASSUME pc[w] \in Holding, failClaimedUpdateJob(w)
        PROVE  HolderStep(w)
    BY <1>g, <1>h, ClaimIsHolderStep DEF failClaimedUpdateJob
  <1>q. ASSUME NEW p \in Holding, pc[w] \in Holding,
               pc' = [pc EXCEPT ![w] = p], UNCHANGED <<env, shared, local>>
        PROVE  HolderStep(w)
    BY <1>q, PlainIsHolderStep DEF env, shared, local
  <1>1. CASE Refuse(w)
    BY <1>1, <1>f, <1>h DEF Refuse
  <1>2. CASE startManagedUpdateJobIfQueued(w)
    BY <1>2, <1>q, <1>h, PersistIsHolderStep DEF startManagedUpdateJobIfQueued
  <1>3. CASE advanceUpdateQueued(w)
    BY <1>3, <1>h, PersistIsHolderStep DEF advanceUpdateQueued, At
  <1>4. CASE advanceUpdateInstanceConfig(w)
    BY <1>4, <1>h, PersistIsHolderStep DEF advanceUpdateInstanceConfig, At
  <1>5. CASE HandlerFails(w)
    BY <1>5, <1>f, <1>h DEF HandlerFails, At
  <1>6. CASE retryUpdateJobOrFail(w)
    BY <1>6, <1>f, <1>h, PersistIsHolderStep DEF retryUpdateJobOrFail, At
  <1>7. CASE claimUpdateRunnerStart(w)
    BY <1>7, <1>h, PersistIsHolderStep, ClaimIsHolderStep DEF claimUpdateRunnerStart, At
  <1>8. CASE startUpdateDeployRunner(w)
    BY <1>8, <1>h, PlainIsHolderStep DEF startUpdateDeployRunner, shared
  <1>9. CASE completeClaimedUpdateRunnerStart(w)
    BY <1>9, <1>h, ClaimIsHolderStep DEF completeClaimedUpdateRunnerStart
  <1>10. CASE retryClaimedUpdateRunnerStart(w)
    BY <1>10, <1>g, <1>h, ClaimIsHolderStep DEF retryClaimedUpdateRunnerStart
  <1>11. CASE advanceUpdateRunnerClaimed(w)
    BY <1>11, <1>g, <1>q, <1>h DEF advanceUpdateRunnerClaimed, At
  <1>12. CASE advanceSucceededUpdateRunnerWait(w)
    BY <1>12, <1>h, PersistIsHolderStep DEF advanceSucceededUpdateRunnerWait, At
  <1>13. CASE advanceInProgressUpdateRunnerWait(w)
    BY <1>13, <1>h, PersistIsHolderStep DEF advanceInProgressUpdateRunnerWait, At
  <1>14. CASE failUpdateRunnerWait(w)
    BY <1>14, <1>f, <1>h DEF failUpdateRunnerWait, At
  <1>15. CASE advanceUpdateReceipt(w)
    BY <1>15, <1>h, PersistIsHolderStep DEF advanceUpdateReceipt, At
  <1>16. CASE deferUpdateVerifyForBudget(w)
    BY <1>16, <1>h, PersistIsHolderStep DEF deferUpdateVerifyForBudget, At
  <1>17. CASE BeginVerify(w)
    BY <1>17, <1>q, <1>h DEF BeginVerify, At
  <1>18. CASE advanceUpdateVerify(w)
    BY <1>18, <1>f, <1>h, PersistIsHolderStep DEF advanceUpdateVerify
  <1>19. CASE StoreError(w)
    BY <1>19, <1>q, <1>h DEF StoreError
  <1> QED
    BY <1>1, <1>2, <1>3, <1>4, <1>5, <1>6, <1>7, <1>8, <1>9, <1>10, <1>11,
       <1>12, <1>13, <1>14, <1>15, <1>16, <1>17, <1>18, <1>19

\* Two holders would hold the same stored lease.
LEMMA OneHolder == LeaseInv => LeaseExclusive
  BY DEF LeaseInv, LeaseExclusive, LeaseOf

\* The lease of a live holder cannot be taken by another invocation.
LEMMA LeaseNotFree ==
    ASSUME LeaseInv, NEW v \in Workers, NEW w \in Workers, pc[w] \in Holding,
           NEW t \in born[v] .. clock, LeaseFree(v, t)
    PROVE  v = w
  <1>1. pc[w] # "idle"
    BY DEF Holding
  <1>2. lease.owner = w /\ lease.until = now[w].at + LeaseTTL
    BY DEF LeaseInv, LeaseOf
  <1>3. born[w] \in Nat /\ now[w].at \in Nat /\ clock \in Nat /\ born[v] \in Nat
    BY DEF LeaseInv
  <1>4. clock <= born[w] + FnTimeout /\ born[w] <= now[w].at
    BY <1>1 DEF LeaseInv
  <1>5. ~ (lease.until <= t)
    BY <1>2, <1>3, <1>4, LeaseOutlivesFunction
  <1>6. lease.owner # None
    BY <1>2, ConstantTypes
  <1> QED
    BY <1>2, <1>5, <1>6 DEF LeaseFree

LEMMA InitLease == Init => LeaseInv
  BY DEF Init, LeaseInv, NoTime, Holding

LEMMA NextLease == LeaseInv /\ [Next]_vars => LeaseInv'
  <1> SUFFICES ASSUME LeaseInv, [Next]_vars PROVE LeaseInv'
    OBVIOUS
  <1>0. FnTimeout \in Nat /\ LeaseTTL \in Nat
    BY LeaseOutlivesFunction
  <1>1. CASE UNCHANGED vars
    BY <1>1 DEF LeaseInv, LeaseOf, vars, env, shared, local
  <1>2. ASSUME NEW w \in Workers, HolderStep(w) PROVE LeaseInv'
    <2>1. pc \in [Workers -> Holding \cup {"idle", "loaded"}]
      BY DEF LeaseInv
    <2>2. \A v \in Workers : pc[v] \in Holding => v = w
      BY <1>2, OneHolder DEF LeaseExclusive, HolderStep
    <2>3. pc' \in [Workers -> Holding \cup {"idle", "loaded"}]
      BY <1>2, <2>1 DEF HolderStep
    <2>4. \A v \in Workers : pc'[v] # "idle" => pc[v] # "idle"
      BY <1>2, <2>1 DEF HolderStep, Holding
    <2>5. \A v \in Workers : pc'[v] \in Holding => v = w
      BY <1>2, <2>1, <2>2 DEF HolderStep
    <2>6. lease' = LeaseOf(w)' /\ born'[w] <= now'[w].at /\ memAt'[w] = updatedAt'
          /\ DOMAIN memAt' = Workers
      BY <1>2 DEF HolderStep, LeaseInv, LeaseOf
    <2> QED
      BY <1>2, <2>3, <2>4, <2>5, <2>6 DEF HolderStep, LeaseInv
  <1>3. ASSUME NEW w \in Workers, Leave(w), clock' = clock, updatedAt' = updatedAt,
               lease' = lease \/ lease.owner = w
        PROVE  LeaseInv'
    <2>1. pc \in [Workers -> Holding \cup {"idle", "loaded"}]
      BY DEF LeaseInv
    <2>2. pc' \in [Workers -> Holding \cup {"idle", "loaded"}] /\ pc'[w] = "idle"
          /\ \A v \in Workers \ {w} : pc'[v] = pc[v]
      BY <1>3, <2>1 DEF Leave
    <2>3. \A v \in Workers : v # w => born'[v] = born[v] /\ now'[v] = now[v]
                                      /\ memAt'[v] = memAt[v]
      BY <1>3 DEF Leave, LeaseInv
    <2>4. born' \in [Workers -> Nat] /\ DOMAIN now' = Workers
          /\ DOMAIN memAt' = Workers /\ now'[w] = NoTime
      BY <1>3 DEF Leave, LeaseInv
    <2>5. \A v \in Workers : now'[v].at \in Nat
      BY <2>3, <2>4 DEF LeaseInv, NoTime
    <2>6. ASSUME NEW v \in Workers, pc'[v] \in Holding
          PROVE  lease' = LeaseOf(v)' /\ born'[v] <= now'[v].at /\ memAt'[v] = updatedAt'
      <3>1. v # w /\ pc[v] \in Holding
        BY <2>2, <2>6 DEF Holding
      <3>2. lease = LeaseOf(v) /\ lease.owner = v
        BY <3>1 DEF LeaseInv, LeaseOf
      <3> QED
        BY <1>3, <2>3, <3>1, <3>2 DEF LeaseInv, LeaseOf
    <2>7. \A v \in Workers : pc'[v] # "idle" => clock' <= born'[v] + FnTimeout
      BY <1>3, <2>2, <2>3 DEF LeaseInv
    <2> QED
      BY <1>3, <2>2, <2>4, <2>5, <2>6, <2>7 DEF LeaseInv
  <1>4. ASSUME NEW w \in Workers, loadUpdateJob(w) PROVE LeaseInv'
    <2>1. pc' \in [Workers -> Holding \cup {"idle", "loaded"}] /\ pc'[w] = "loaded"
          /\ \A v \in Workers \ {w} : pc'[v] = pc[v]
      BY <1>4 DEF loadUpdateJob, LeaseInv
    <2>2. born' \in [Workers -> Nat] /\ born'[w] = clock
          /\ \A v \in Workers \ {w} : born'[v] = born[v] /\ memAt'[v] = memAt[v]
      BY <1>4 DEF loadUpdateJob, LeaseInv
    <2>3. clock' = clock /\ now' = now /\ lease' = lease /\ updatedAt' = updatedAt
          /\ DOMAIN memAt' = Workers
      BY <1>4 DEF loadUpdateJob, env, shared, LeaseInv
    <2>4. \A v \in Workers : pc'[v] \in Holding => v # w /\ pc[v] \in Holding
      BY <2>1 DEF Holding
    <2> QED
      BY <2>1, <2>2, <2>3, <2>4, <1>0 DEF LeaseInv, LeaseOf
  <1>5. ASSUME NEW w \in Workers, acquireUpdateJobProcessingLease(w) PROVE LeaseInv'
    <2>1. PICK t \in born[w] .. clock :
            /\ LeaseFree(w, t)
            /\ now' = [now EXCEPT ![w] = [at |-> t, id |-> FreshId]]
            /\ lease' = [owner |-> w, until |-> t + LeaseTTL]
      BY <1>5 DEF acquireUpdateJobProcessingLease
    <2>2. \A v \in Workers : pc[v] \notin Holding
      <3>1. ASSUME NEW v \in Workers, pc[v] \in Holding PROVE FALSE
        <4>1. v = w
          BY <2>1, <3>1, LeaseNotFree
        <4> QED
          BY <4>1, <3>1, <1>5 DEF acquireUpdateJobProcessingLease, Holding
      <3> QED
        BY <3>1
    <2>3. pc' \in [Workers -> Holding \cup {"idle", "loaded"}]
          /\ \A v \in Workers \ {w} : pc'[v] = pc[v]
      BY <1>5 DEF acquireUpdateJobProcessingLease, LeaseInv, Holding
    <2>4. clock' = clock /\ born' = born /\ updatedAt' = updatedAt /\ memAt' = memAt
      BY <1>5 DEF acquireUpdateJobProcessingLease, env
    <2>5. t \in Nat /\ born[w] <= t
      BY <2>1 DEF LeaseInv
    <2>6. DOMAIN now' = Workers /\ now'[w].at = t
          /\ \A v \in Workers \ {w} : now'[v] = now[v]
      BY <2>1 DEF LeaseInv
    <2>7. memAt[w] = updatedAt
      BY <2>1 DEF LeaseFree
    <2>8. pc[w] = "loaded"
      BY <1>5 DEF acquireUpdateJobProcessingLease
    <2>9. \A v \in Workers : now'[v].at \in Nat
      BY <2>5, <2>6 DEF LeaseInv
    <2>10. \A v \in Workers : pc'[v] # "idle" => clock' <= born'[v] + FnTimeout
      BY <2>3, <2>4, <2>8 DEF LeaseInv
    <2>11. \A v \in Workers : pc'[v] \in Holding =>
             lease' = LeaseOf(v)' /\ born'[v] <= now'[v].at /\ memAt'[v] = updatedAt'
      BY <2>1, <2>2, <2>3, <2>4, <2>5, <2>6, <2>7 DEF LeaseOf
    <2> QED
      BY <2>3, <2>4, <2>6, <2>9, <2>10, <2>11 DEF LeaseInv
  <1>6. ASSUME Tick PROVE LeaseInv'
    <2>1. clock' = clock + 1 /\ pc' = pc /\ born' = born /\ now' = now
          /\ lease' = lease /\ memAt' = memAt /\ updatedAt' = updatedAt
      BY <1>6 DEF Tick, shared, local
    <2>2. \A w \in Workers : pc[w] # "idle" => clock < born[w] + FnTimeout
      BY <1>6 DEF Tick
    <2> QED
      BY <2>1, <2>2, <1>0 DEF LeaseInv, LeaseOf
  <1>7. ASSUME RunnerWritesReceipt \/ RunnerEnds PROVE LeaseInv'
    BY <1>7 DEF RunnerWritesReceipt, RunnerEnds, LeaseInv, LeaseOf, shared, local
  <1>8. ASSUME NEW w \in Workers,
               loadUpdateJob(w) \/ Step(w) \/ StoreError(w) \/ Crash(w)
        PROVE  LeaseInv'
    <2>1. CASE loadUpdateJob(w)
      BY <2>1, <1>4
    <2>2. CASE acquireUpdateJobProcessingLease(w)
      BY <2>2, <1>5
    <2>3. CASE LeaseRefused(w)
      BY <2>3, <1>3 DEF LeaseRefused, env, shared
    <2>4. CASE releaseUpdateJobProcessingLease(w)
      BY <2>4, <1>3 DEF releaseUpdateJobProcessingLease, env
    <2>5. CASE Crash(w)
      BY <2>5, <1>3 DEF Crash, env, shared
    <2> QED
      BY <1>8, <2>1, <2>2, <2>3, <2>4, <2>5, <1>2, HandlersAreHolderSteps DEF Step
  <1> QED
    BY <1>1, <1>6, <1>7, <1>8 DEF Next

\* acquireUpdateJobProcessingLease and the function timeout together keep two
\* invocations from working on one job, whatever crashes.
THEOREM LeaseIsExclusive == Spec => []LeaseExclusive
  <1>1. Spec => []LeaseInv
    BY InitLease, NextLease, PTL DEF Spec
  <1> QED
    BY <1>1, OneHolder, PTL

\* No conditional write of a lease holder is ever rejected on UpdatedAt: once
\* the lease is held, the version check of persistUpdateJobAndInstance and of
\* the claim writes is redundant.
THEOREM HolderStaysCurrent == Spec => []HolderIsCurrent
  <1>1. Spec => []LeaseInv
    BY InitLease, NextLease, PTL DEF Spec
  <1>2. LeaseInv => HolderIsCurrent
    BY DEF LeaseInv, HolderIsCurrent
  <1> QED
    BY <1>1, <1>2, PTL

-----------------------------------------------------------------------------
(* What the writes leave behind.  A settled job must show on the instance, *)
(* and a version must have its receipt, although a holder may write a copy *)
(* that is older than the row: DataInv says what every copy is good for.   *)

Working == {"loaded", "leased", "run", "claimed", "started", "startErr", "verify"}

DataInv ==
    /\ DOMAIN mem = Workers
    /\ SettledMarker
    /\ VersionNeedsReceipt
    /\ row.step = "verify" => receipt
    /\ \A w \in Workers :
         /\ pc[w] \in Working => mem[w].status \in Active
         /\ mem[w].step = "verify" => receipt
         /\ pc[w] = "verify" => mem[w].step = "verify"


\* What a whole-copy write must bring along to keep DataInv.
LEMMA PersistKeepsData ==
    ASSUME DataInv, DOMAIN pc = Workers,
           NEW w \in Workers, NEW j, NEW m, NEW s, NEW next,
           Persist(w, j, m, s, next),
           j.status \notin Active => m = j.status,
           j.status = "ok" => s,
           s => receipt,
           j.step = "verify" => receipt,
           next \in Working => j.status \in Active,
           next # "verify"
    PROVE  DataInv'
  <1>1. CASE updatedAt = memAt[w]
    <2>1. /\ row' = j /\ marker' = m /\ stamped' = s /\ receipt' = receipt
          /\ mem' = [mem EXCEPT ![w] = j] /\ pc' = [pc EXCEPT ![w] = next]
      BY <1>1 DEF Persist, env
    <2>2. DOMAIN mem' = Workers /\ mem'[w] = j /\ pc'[w] = next
          /\ \A v \in Workers \ {w} : mem'[v] = mem[v] /\ pc'[v] = pc[v]
      BY <2>1 DEF DataInv
    <2>3. SettledMarker'
      BY <2>1 DEF SettledMarker, updateJobProcessable
    <2>4. VersionNeedsReceipt'
      BY <2>1 DEF VersionNeedsReceipt
    <2>5. row'.step = "verify" => receipt'
      BY <2>1
    <2>6. \A v \in Workers :
            /\ pc'[v] \in Working => mem'[v].status \in Active
            /\ mem'[v].step = "verify" => receipt'
            /\ pc'[v] = "verify" => mem'[v].step = "verify"
      BY <2>1, <2>2 DEF DataInv
    <2> QED
      BY <2>2, <2>3, <2>4, <2>5, <2>6 DEF DataInv
  <1>2. CASE updatedAt # memAt[w]
    <2>1. pc' = [pc EXCEPT ![w] = "release"]
          /\ UNCHANGED <<row, marker, stamped, mem, receipt>>
      BY <1>2 DEF Persist, env, shared
    <2>2. SettledMarker' /\ VersionNeedsReceipt'
      BY <2>1 DEF DataInv, SettledMarker, VersionNeedsReceipt, updateJobProcessable
    <2> QED
      BY <2>1, <2>2 DEF DataInv, Working
  <1> QED
    BY <1>1, <1>2

\* The claim writes keep a running row running or mark it as failed.
LEMMA ClaimKeepsData ==
    ASSUME DataInv, DOMAIN pc = Workers,
           NEW w \in Workers, NEW from, NEW j, NEW copy, NEW m, NEW next,
           ClaimWrite(w, from, j, copy, m, next),
           \/ row.status = "running" => j.status = "running"
           \/ j.status = "error" /\ m = "error",
           j.step # "verify", copy.step # "verify",
           next \in Working => copy.status \in Active,
           next # "verify"
    PROVE  DataInv'
  <1>1. CASE UNCHANGED <<row, marker, mem>> /\ pc' = [pc EXCEPT ![w] = "release"]
    <2>1. UNCHANGED <<row, marker, stamped, mem, receipt>>
      BY <1>1 DEF ClaimWrite, env
    <2>2. SettledMarker' /\ VersionNeedsReceipt'
      BY <2>1 DEF DataInv, SettledMarker, VersionNeedsReceipt, updateJobProcessable
    <2> QED
      BY <1>1, <2>1, <2>2 DEF DataInv, Working
  <1>2. CASE /\ row.status = "running" /\ row' = j /\ marker' = m
             /\ mem' = [mem EXCEPT ![w] = copy] /\ pc' = [pc EXCEPT ![w] = next]
    <2>1. stamped' = stamped /\ receipt' = receipt
      BY DEF ClaimWrite, env
    <2>2. DOMAIN mem' = Workers /\ mem'[w] = copy /\ pc'[w] = next
          /\ \A v \in Workers \ {w} : mem'[v] = mem[v] /\ pc'[v] = pc[v]
      BY <1>2 DEF DataInv
    <2>3. SettledMarker'
      BY <1>2 DEF SettledMarker, updateJobProcessable, Active
    <2>4. VersionNeedsReceipt'
      BY <1>2, <2>1 DEF DataInv, VersionNeedsReceipt
    <2>5. row'.step = "verify" => receipt'
      BY <1>2
    <2>6. \A v \in Workers :
            /\ pc'[v] \in Working => mem'[v].status \in Active
            /\ mem'[v].step = "verify" => receipt'
            /\ pc'[v] = "verify" => mem'[v].step = "verify"
      BY <1>2, <2>1, <2>2 DEF DataInv
    <2> QED
      BY <2>2, <2>3, <2>4, <2>5, <2>6 DEF DataInv
  <1> QED
    BY <1>1, <1>2 DEF ClaimWrite

\* An invocation that goes away, or goes on without writing.
LEMMA QuietKeepsData ==
    ASSUME DataInv, DOMAIN pc = Workers, NEW w \in Workers, NEW p,
           pc' = [pc EXCEPT ![w] = p],
           UNCHANGED <<row, marker, stamped, mem>>,
           receipt' = receipt,
           p \in Working => mem[w].status \in Active,
           p = "verify" => mem[w].step = "verify"
    PROVE  DataInv'
  <1>1. SettledMarker' /\ VersionNeedsReceipt'
    BY DEF DataInv, SettledMarker, VersionNeedsReceipt, updateJobProcessable
  <1> QED
    BY <1>1 DEF DataInv

LEMMA LeaveKeepsData ==
    ASSUME DataInv, DOMAIN pc = Workers, NEW w \in Workers, Leave(w),
           UNCHANGED <<row, marker, stamped, receipt>>
    PROVE  DataInv'
  <1>1. SettledMarker' /\ VersionNeedsReceipt'
    BY DEF DataInv, SettledMarker, VersionNeedsReceipt, updateJobProcessable
  <1>2. mem' = [mem EXCEPT ![w] = NoCopy] /\ pc' = [pc EXCEPT ![w] = "idle"]
    BY DEF Leave
  <1>3. NoCopy.step # "verify" /\ "idle" \notin Working
    BY DEF NoCopy, Job, Working
  <1> QED
    BY <1>1, <1>2, <1>3 DEF DataInv

\* Every handler keeps DataInv.  A handler that works has an active copy; one
\* that settles the job writes the instance in the same transaction; the
\* version is stored where the receipt was read, or after it was.
LEMMA HandlersKeepData ==
    ASSUME DataInv, DOMAIN pc = Workers, NEW w \in Workers,
           \/ Refuse(w) \/ startManagedUpdateJobIfQueued(w)
           \/ advanceUpdateQueued(w) \/ advanceUpdateInstanceConfig(w)
           \/ HandlerFails(w) \/ retryUpdateJobOrFail(w)
           \/ claimUpdateRunnerStart(w) \/ startUpdateDeployRunner(w)
           \/ completeClaimedUpdateRunnerStart(w)
           \/ retryClaimedUpdateRunnerStart(w) \/ advanceUpdateRunnerClaimed(w)
           \/ advanceSucceededUpdateRunnerWait(w)
           \/ advanceInProgressUpdateRunnerWait(w) \/ failUpdateRunnerWait(w)
           \/ advanceUpdateReceipt(w) \/ deferUpdateVerifyForBudget(w)
           \/ BeginVerify(w) \/ advanceUpdateVerify(w) \/ StoreError(w)
    PROVE  DataInv'
  <1>a. pc[w] \in Working => mem[w].status \in Active
    BY DEF DataInv
  <1>v. mem[w].step = "verify" => receipt
    BY DEF DataInv
  <1>s. stamped => receipt
    BY DEF DataInv, VersionNeedsReceipt
  <1>o. "ok" \notin Active /\ "error" \notin Active
    BY DEF Active
  <1>w. {"leased", "run", "claimed", "started", "startErr", "verify"} \subseteq Working
        /\ "release" \notin Working
    BY DEF Working
  <1>j. \A st, sp, r, n : Job(st, sp, r, n).status = st /\ Job(st, sp, r, n).step = sp
    BY DEF Job
  <1>m. \A sp, r : Moved(w, sp, r).status = mem[w].status /\ Moved(w, sp, r).step = sp
    BY <1>j DEF Moved
  <1>f. ASSUME NEW n, failUpdateJob(w, n) PROVE DataInv'
    BY <1>f, <1>s, <1>w, <1>j, PersistKeepsData DEF failUpdateJob
  <1>g. ASSUME failClaimedUpdateJob(w) PROVE DataInv'
    BY <1>g, <1>w, <1>j, ClaimKeepsData DEF failClaimedUpdateJob
  <1>q. ASSUME UNCHANGED <<env, shared, local>>, pc[w] \in Working,
               NEW p, pc' = [pc EXCEPT ![w] = p], p = "verify" => mem[w].step = "verify"
        PROVE  DataInv'
    BY <1>q, <1>a, QuietKeepsData DEF env, shared, local
  <1>1. CASE Refuse(w)
    BY <1>1, <1>f DEF Refuse
  <1>2. CASE startManagedUpdateJobIfQueued(w)
    <2>1. pc[w] \in Working
      BY <1>2, <1>w DEF startManagedUpdateJobIfQueued
    <2>2. CASE mem[w].status = "queued"
      <3> DEFINE j == Job("running", mem[w].step, mem[w].runId, mem[w].attempts)
      <3>1. Persist(w, j, "running", stamped, "run")
        BY <1>2, <2>2 DEF startManagedUpdateJobIfQueued
      <3>2. j.status = "running" /\ j.step = mem[w].step /\ "running" \in Active
        BY <1>j DEF Active
      <3> QED
        BY <3>1, <3>2, <1>s, <1>v, PersistKeepsData
    <2>3. CASE mem[w].status # "queued"
      BY <1>2, <2>1, <2>3, <1>q DEF startManagedUpdateJobIfQueued
    <2> QED
      BY <2>2, <2>3
  <1>3. CASE advanceUpdateQueued(w)
    BY <1>3, <1>a, <1>o, <1>s, <1>w, <1>m, PersistKeepsData DEF advanceUpdateQueued, At
  <1>4. CASE advanceUpdateInstanceConfig(w)
    BY <1>4, <1>a, <1>o, <1>s, <1>w, <1>m, PersistKeepsData
       DEF advanceUpdateInstanceConfig, At
  <1>5. CASE HandlerFails(w)
    BY <1>5, <1>f DEF HandlerFails
  <1>6. CASE retryUpdateJobOrFail(w)
    <2> DEFINE j == Job(mem[w].status, mem[w].step, mem[w].runId, mem[w].attempts + 1)
    <2>1. mem[w].status \in Active
      BY <1>6, <1>a, <1>w DEF retryUpdateJobOrFail, At
    <2>2. j.status = mem[w].status /\ j.step = mem[w].step
      BY <1>j
    <2>3. CASE Persist(w, j, marker, stamped, "release")
      BY <2>1, <2>2, <2>3, <1>v, <1>o, <1>s, <1>w, PersistKeepsData
    <2> QED
      BY <1>6, <2>3, <1>f DEF retryUpdateJobOrFail
  <1>7. CASE claimUpdateRunnerStart(w)
    <2>1. mem[w].status \in Active
      BY <1>7, <1>a, <1>w DEF claimUpdateRunnerStart, At
    <2>2. CASE mem[w].runId # 0
      BY <1>7, <2>1, <2>2, <1>o, <1>s, <1>w, <1>m, PersistKeepsData
         DEF claimUpdateRunnerStart
    <2>3. CASE mem[w].runId = 0
      BY <1>7, <2>1, <2>3, <1>j, <1>m, ClaimKeepsData DEF claimUpdateRunnerStart
    <2> QED
      BY <2>2, <2>3
  <1>8. CASE startUpdateDeployRunner(w)
    <2>1. pc[w] = "claimed" /\ \E p \in {"started", "startErr"} : pc' = [pc EXCEPT ![w] = p]
      BY <1>8 DEF startUpdateDeployRunner
    <2>2. UNCHANGED <<row, marker, stamped, mem, receipt>>
      BY <1>8 DEF startUpdateDeployRunner, shared
    <2> QED
      BY <2>1, <2>2, <1>a, <1>w, QuietKeepsData
  <1>9. CASE completeClaimedUpdateRunnerStart(w)
    BY <1>9, <1>j, <1>m, <1>w, ClaimKeepsData DEF completeClaimedUpdateRunnerStart
  <1>10. CASE retryClaimedUpdateRunnerStart(w)
    <2> DEFINE n == mem[w].attempts + 1
    <2>1. CASE ClaimWrite(w, "claimed", Job(row.status, "start", 0, n),
                          Job(mem[w].status, "start", 0, n), marker, "release")
      BY <2>1, <1>j, <1>w, ClaimKeepsData
    <2> QED
      BY <1>10, <2>1, <1>g DEF retryClaimedUpdateRunnerStart
  <1>11. CASE advanceUpdateRunnerClaimed(w)
    BY <1>11, <1>g, <1>q, <1>w DEF advanceUpdateRunnerClaimed, At
  <1>12. CASE advanceSucceededUpdateRunnerWait(w)
    BY <1>12, <1>a, <1>o, <1>s, <1>w, <1>m, PersistKeepsData
       DEF advanceSucceededUpdateRunnerWait, At
  <1>13. CASE advanceInProgressUpdateRunnerWait(w)
    BY <1>13, <1>a, <1>o, <1>s, <1>v, <1>w, PersistKeepsData
       DEF advanceInProgressUpdateRunnerWait, At
  <1>14. CASE failUpdateRunnerWait(w)
    BY <1>14, <1>f DEF failUpdateRunnerWait
  <1>15. CASE advanceUpdateReceipt(w)
    <2>1. receipt /\ mem[w].status \in Active
      BY <1>15, <1>a, <1>w DEF advanceUpdateReceipt, At
    <2>2. CASE Persist(w, Moved(w, "verify", 0), marker, TRUE, "run")
      BY <2>1, <2>2, <1>o, <1>m, PersistKeepsData
    <2>3. CASE Persist(w, Job("ok", "done", 0, mem[w].attempts), "ok", TRUE, "release")
      <3> DEFINE j == Job("ok", "done", 0, mem[w].attempts)
      <3>1. j.status = "ok" /\ j.step = "done"
        BY DEF Job
      <3>2. Persist(w, j, "ok", TRUE, "release")
        BY <2>3
      <3> HIDE DEF j
      <3> QED
        BY <2>1, <3>1, <3>2, <1>w, PersistKeepsData
    <2> QED
      BY <1>15, <2>2, <2>3 DEF advanceUpdateReceipt
  <1>16. CASE deferUpdateVerifyForBudget(w)
    BY <1>16, <1>a, <1>o, <1>s, <1>v, <1>w, PersistKeepsData
       DEF deferUpdateVerifyForBudget, At
  <1>17. CASE BeginVerify(w)
    BY <1>17, <1>q, <1>w DEF BeginVerify, At
  <1>18. CASE advanceUpdateVerify(w)
    <2>1. receipt
      BY <1>18, <1>v DEF advanceUpdateVerify, DataInv
    <2>2. CASE Persist(w, Job("ok", "done", mem[w].runId, mem[w].attempts), "ok",
                       TRUE, "release")
      <3> DEFINE j == Job("ok", "done", mem[w].runId, mem[w].attempts)
      <3>1. j.status = "ok" /\ j.step = "done"
        BY DEF Job
      <3>2. Persist(w, j, "ok", TRUE, "release")
        BY <2>2
      <3> HIDE DEF j
      <3> QED
        BY <2>1, <3>1, <3>2, <1>w, PersistKeepsData
    <2> QED
      BY <1>18, <2>2, <1>f DEF advanceUpdateVerify
  <1>19. CASE StoreError(w)
    BY <1>19, <1>q, <1>w DEF StoreError
  <1> QED
    BY <1>1, <1>2, <1>3, <1>4, <1>5, <1>6, <1>7, <1>8, <1>9, <1>10, <1>11,
       <1>12, <1>13, <1>14, <1>15, <1>16, <1>17, <1>18, <1>19

LEMMA InitData == Init => DataInv
  <1> SUFFICES ASSUME Init PROVE DataInv
    OBVIOUS
  <1>1. /\ row = NoCopy /\ marker = "queued" /\ stamped = FALSE /\ receipt = FALSE
        /\ pc = [w \in Workers |-> "idle"] /\ mem = [w \in Workers |-> NoCopy]
    BY DEF Init
  <1>2. NoCopy.status = "queued" /\ NoCopy.step = "queued" /\ "idle" \notin Working
    BY DEF NoCopy, Job, Working
  <1>3. SettledMarker /\ VersionNeedsReceipt
    BY <1>1, <1>2 DEF SettledMarker, VersionNeedsReceipt, updateJobProcessable, Active
  <1> QED
    BY <1>1, <1>2, <1>3 DEF DataInv

LEMMA NextData == LeaseInv /\ DataInv /\ [Next]_vars => DataInv'
  <1> SUFFICES ASSUME LeaseInv, DataInv, [Next]_vars PROVE DataInv'
    OBVIOUS
  <1>0. DOMAIN pc = Workers
    BY DEF LeaseInv
  <1>1. ASSUME UNCHANGED <<row, marker, stamped, mem, pc>>, receipt => receipt'
        PROVE  DataInv'
    <2>1. SettledMarker' /\ VersionNeedsReceipt'
      BY <1>1 DEF DataInv, SettledMarker, VersionNeedsReceipt, updateJobProcessable
    <2> QED
      BY <1>1, <2>1 DEF DataInv
  <1>2. CASE UNCHANGED vars
    BY <1>1, <1>2 DEF vars, env, shared, local
  <1>3. ASSUME NEW w \in Workers, loadUpdateJob(w) PROVE DataInv'
    <2>1. /\ row.status \in Active
          /\ pc' = [pc EXCEPT ![w] = "loaded"] /\ mem' = [mem EXCEPT ![w] = row]
          /\ UNCHANGED <<row, marker, stamped, receipt>>
      BY <1>3 DEF loadUpdateJob, updateJobProcessable, env, shared
    <2>2. SettledMarker' /\ VersionNeedsReceipt'
      BY <2>1 DEF DataInv, SettledMarker, VersionNeedsReceipt, updateJobProcessable
    <2> QED
      BY <2>1, <2>2, <1>0 DEF DataInv
  <1>4. ASSUME NEW w \in Workers, acquireUpdateJobProcessingLease(w) PROVE DataInv'
    <2>1. pc[w] \in Working /\ mem[w].status \in Active
      BY <1>4 DEF acquireUpdateJobProcessingLease, DataInv, Working
    <2> QED
      BY <1>0, <1>4, <2>1, QuietKeepsData DEF acquireUpdateJobProcessingLease, env
  <1>5. ASSUME NEW w \in Workers,
               \/ LeaseRefused(w) \/ releaseUpdateJobProcessingLease(w) \/ Crash(w)
        PROVE  DataInv'
    BY <1>0, <1>5, LeaveKeepsData
       DEF LeaseRefused, releaseUpdateJobProcessingLease, Crash, env, shared
  <1>6. CASE Tick \/ RunnerWritesReceipt \/ RunnerEnds
    BY <1>1, <1>6 DEF Tick, RunnerWritesReceipt, RunnerEnds, shared, local
  <1>7. ASSUME NEW w \in Workers,
               loadUpdateJob(w) \/ Step(w) \/ StoreError(w) \/ Crash(w)
        PROVE  DataInv'
    BY <1>0, <1>3, <1>4, <1>5, <1>7, HandlersKeepData DEF Step
  <1> QED
    BY <1>2, <1>6, <1>7 DEF Next

LEMMA DataInvariant == Spec => []DataInv
  <1>1. Spec => []LeaseInv
    BY InitLease, NextLease, PTL DEF Spec
  <1> QED
    BY <1>1, InitData, NextData, PTL DEF Spec

\* Whatever dies, is refused or is written from a copy older than the row, a
\* settled job shows as settled on its instance: every write that settles it
\* (failUpdateJob, failClaimedUpdateJob, the receipt and verify handlers)
\* carries the instance's update status along.
THEOREM SettledShowsOnInstance == Spec => []SettledMarker
  <1>1. DataInv => SettledMarker
    BY DEF DataInv
  <1> QED
    BY <1>1, DataInvariant, PTL

\* No path reports a job ok, or stamps its version on the instance record,
\* without the runner's receipt, for every kind of job and every number of
\* invocations.
THEOREM VersionHasReceipt == Spec => []VersionNeedsReceipt
  <1>1. DataInv => VersionNeedsReceipt
    BY DEF DataInv
  <1> QED
    BY <1>1, DataInvariant, PTL

-----------------------------------------------------------------------------
(* One runner per job, for invocations one at a time.  RunnerInv says where *)
(* a build cannot exist yet: while the row or the copy is at a step that    *)
(* still leads to a claim, between the claim and StartBuild, and after a    *)
(* StartBuild that failed.  Two invocations break it: one that waits for    *)
(* the lease keeps a copy from before the other's claim, and when the claim *)
(* has left UpdatedAt as it was the copy still passes for current.          *)

BeforeClaim == {"queued", "config", "start"}

BuildRecord == [at : Nat, st : {"running", "succeeded", "failed"}]

RunnerInv ==
    /\ builds \in Seq(BuildRecord)
    /\ Len(builds) <= 1
    /\ row.step \in BeforeClaim => builds = <<>>
    /\ \A w \in Workers :
         /\ pc[w] # "idle" /\ mem[w].step \in BeforeClaim => builds = <<>>
         /\ pc[w] \in {"claimed", "startErr"} => builds = <<>>
         /\ pc[w] \in {"claimed", "started", "startErr"} =>
              row.step = "claimed" /\ mem[w].step = "claimed"

OneAtATime == \A v, w \in Workers : v = w

LEMMA PersistKeepsRunner ==
    ASSUME RunnerInv, OneAtATime, DOMAIN pc = Workers, DOMAIN mem = Workers,
           NEW w \in Workers, pc[w] # "idle", NEW j, NEW m, NEW s,
           NEW next \in {"run", "release"},
           Persist(w, j, m, s, next),
           j.step \in BeforeClaim => builds = <<>>
    PROVE  RunnerInv'
  <1>1. builds' = builds
    BY DEF Persist, env
  <1>2. CASE updatedAt = memAt[w]
    <2>1. row' = j /\ mem'[w] = j /\ pc'[w] = next
      BY <1>2 DEF Persist
    <2> QED
      BY <1>1, <2>1 DEF RunnerInv, OneAtATime
  <1>3. CASE updatedAt # memAt[w]
    <2>1. row' = row /\ mem' = mem /\ pc'[w] = "release"
      BY <1>3 DEF Persist, shared
    <2> QED
      BY <1>1, <2>1 DEF RunnerInv, OneAtATime
  <1> QED
    BY <1>2, <1>3

LEMMA ClaimKeepsRunner ==
    ASSUME RunnerInv, OneAtATime, DOMAIN pc = Workers, DOMAIN mem = Workers,
           NEW w \in Workers, pc[w] # "idle", NEW from, NEW j, NEW copy, NEW m,
           NEW next \in {"claimed", "release"},
           ClaimWrite(w, from, j, copy, m, next),
           j.step \in BeforeClaim \/ copy.step \in BeforeClaim => builds = <<>>,
           next = "claimed" => builds = <<>> /\ j.step = "claimed" /\ copy.step = "claimed"
    PROVE  RunnerInv'
  <1>1. builds' = builds
    BY DEF ClaimWrite, env
  <1>2. CASE row' = j /\ mem' = [mem EXCEPT ![w] = copy] /\ pc' = [pc EXCEPT ![w] = next]
    <2>1. mem'[w] = copy /\ pc'[w] = next
      BY <1>2
    <2> QED
      BY <1>1, <1>2, <2>1 DEF RunnerInv, OneAtATime
  <1>3. CASE row' = row /\ mem' = mem /\ pc' = [pc EXCEPT ![w] = "release"]
    BY <1>1, <1>3 DEF RunnerInv, OneAtATime
  <1> QED
    BY <1>2, <1>3 DEF ClaimWrite

\* The step that starts a runner: the only one that adds a build.
LEMMA StartKeepsRunner ==
    ASSUME RunnerInv, OneAtATime, ~ ReplyLoss, DOMAIN pc = Workers, clock \in Nat,
           NEW w \in Workers, startUpdateDeployRunner(w)
    PROVE  RunnerInv'
  <1>1. builds = <<>> /\ row.step = "claimed" /\ mem[w].step = "claimed"
    BY DEF startUpdateDeployRunner, RunnerInv
  <1>2. row' = row /\ mem' = mem
    BY DEF startUpdateDeployRunner, shared
  <1>3. "claimed" \notin BeforeClaim
    BY DEF BeforeClaim
  <1>8. [at |-> clock, st |-> "running"] \in BuildRecord
    BY DEF BuildRecord
  <1>4. NewBuild \in Seq(BuildRecord) /\ Len(NewBuild) = 1
    BY <1>1, <1>8 DEF NewBuild
  <1>5. CASE builds' = builds /\ pc'[w] \in {"started", "startErr"}
    BY <1>1, <1>2, <1>3, <1>5 DEF RunnerInv, OneAtATime
  <1>6. CASE builds' = NewBuild /\ pc'[w] = "started"
    <2>1. builds' \in Seq(BuildRecord)
      BY <1>4, <1>6
    <2>2. Len(builds') = 1
      BY <1>4, <1>6
    <2> QED
      BY <2>1, <2>2, <1>1, <1>2, <1>3, <1>6 DEF RunnerInv, OneAtATime
  <1>7. pc'[w] \in {"started", "startErr"} /\ (pc'[w] = "startErr" => builds' = builds)
        /\ (builds' = NewBuild \/ builds' = builds)
    BY DEF startUpdateDeployRunner
  <1> QED
    BY <1>5, <1>6, <1>7

\* An invocation goes on without writing, or goes away.
LEMMA QuietKeepsRunner ==
    ASSUME RunnerInv, OneAtATime, NEW w \in Workers, UNCHANGED <<row, builds>>,
           \/ pc'[w] = "idle"
           \/ pc[w] # "idle" /\ pc'[w] \in {"leased", "run", "verify", "release"} /\ mem' = mem
    PROVE  RunnerInv'
  BY DEF RunnerInv, OneAtATime

LEMMA NextRunner ==
    ASSUME OneAtATime, ~ ReplyLoss
    PROVE  LeaseInv /\ DataInv /\ RunnerInv /\ [Next]_vars => RunnerInv'
  <1> SUFFICES ASSUME LeaseInv, DataInv, RunnerInv, [Next]_vars PROVE RunnerInv'
    OBVIOUS
  <1>0. DOMAIN pc = Workers /\ DOMAIN mem = Workers /\ clock \in Nat
    BY DEF LeaseInv, DataInv
  <1>j. \A st, sp, r, n : Job(st, sp, r, n).step = sp
    BY DEF Job
  <1>b. \A sp \in {"failed", "claimed", "wait", "ingest", "verify", "done"} :
          sp \notin BeforeClaim
    BY DEF BeforeClaim
  <1>1. CASE UNCHANGED vars
    BY <1>1 DEF RunnerInv, vars, env, shared, local
  <1>2. ASSUME NEW w \in Workers, loadUpdateJob(w) PROVE RunnerInv'
    <2>1. row' = row /\ builds' = builds /\ mem'[w] = row /\ pc'[w] = "loaded"
      BY <1>0, <1>2 DEF loadUpdateJob, env, shared
    <2> QED
      BY <2>1 DEF RunnerInv, OneAtATime
  <1>3. ASSUME NEW w \in Workers,
               \/ LeaseRefused(w) \/ releaseUpdateJobProcessingLease(w) \/ Crash(w)
        PROVE  RunnerInv'
    BY <1>0, <1>3, QuietKeepsRunner
       DEF LeaseRefused, releaseUpdateJobProcessingLease, Crash, Leave, env, shared
  <1>4. ASSUME NEW w \in Workers, acquireUpdateJobProcessingLease(w) PROVE RunnerInv'
    BY <1>0, <1>4, QuietKeepsRunner DEF acquireUpdateJobProcessingLease, env
  <1>5. CASE Tick \/ RunnerWritesReceipt
    BY <1>5 DEF Tick, RunnerWritesReceipt, shared, local, RunnerInv
  <1>6. CASE RunnerEnds
    <2>1. PICK b \in 1 .. Len(builds), s \in {"succeeded", "failed"} :
            builds' = [builds EXCEPT ![b] = [at |-> builds[b].at, st |-> s]]
      BY <1>6 DEF RunnerEnds
    <2>2. builds \in Seq(BuildRecord)
      BY DEF RunnerInv
    <2>7. builds[b] \in BuildRecord
      BY <2>1, <2>2
    <2>3. [at |-> builds[b].at, st |-> s] \in BuildRecord
      BY <2>7 DEF BuildRecord
    <2>4. builds' \in Seq(BuildRecord) /\ Len(builds') = Len(builds)
      BY <2>1, <2>2, <2>3
    <2>5. builds # <<>>
      BY <2>1, <2>2
    <2>6. row' = row /\ mem' = mem /\ pc' = pc
      BY <1>6 DEF RunnerEnds, shared, local
    <2> QED
      BY <2>4, <2>5, <2>6 DEF RunnerInv
  <1>7. ASSUME NEW w \in Workers, Step(w) \/ StoreError(w) PROVE RunnerInv'
    <2>e. mem[w].step \in BeforeClaim /\ pc[w] # "idle" => builds = <<>>
      BY DEF RunnerInv
    <2>f. ASSUME NEW n, pc[w] # "idle", failUpdateJob(w, n) PROVE RunnerInv'
      BY <1>0, <1>j, <1>b, <2>f, PersistKeepsRunner DEF failUpdateJob
    <2>g. ASSUME pc[w] # "idle", failClaimedUpdateJob(w) PROVE RunnerInv'
      BY <1>0, <1>j, <1>b, <2>g, ClaimKeepsRunner DEF failClaimedUpdateJob
    <2>q. ASSUME pc[w] # "idle", UNCHANGED <<env, shared, local>>,
                 NEW p \in {"run", "verify", "release"}, pc' = [pc EXCEPT ![w] = p]
          PROVE  RunnerInv'
      BY <1>0, <2>q, QuietKeepsRunner DEF env, shared, local
    <2>m. \A sp, r : Moved(w, sp, r).step = sp
      BY <1>j DEF Moved
    <2>1. CASE acquireUpdateJobProcessingLease(w) \/ LeaseRefused(w)
               \/ releaseUpdateJobProcessingLease(w)
      BY <2>1, <1>3, <1>4
    <2>2. CASE Refuse(w) \/ HandlerFails(w) \/ failUpdateRunnerWait(w)
      BY <2>2, <2>f DEF Refuse, HandlerFails, failUpdateRunnerWait, At
    <2>3. CASE startManagedUpdateJobIfQueued(w)
      <3>1. pc[w] # "idle"
        BY <2>3 DEF startManagedUpdateJobIfQueued
      <3>2. CASE Persist(w, Job("running", mem[w].step, mem[w].runId, mem[w].attempts),
                         "running", stamped, "run")
        BY <1>0, <1>j, <2>e, <3>1, <3>2, PersistKeepsRunner
      <3> QED
        BY <2>3, <2>q, <3>1, <3>2 DEF startManagedUpdateJobIfQueued
    <2>4. CASE advanceUpdateQueued(w) \/ advanceUpdateInstanceConfig(w)
      <3>1. pc[w] = "run" /\ builds = <<>>
        BY <2>4, <2>e DEF advanceUpdateQueued, advanceUpdateInstanceConfig, At, BeforeClaim
      <3> QED
        BY <1>0, <2>4, <3>1, PersistKeepsRunner
           DEF advanceUpdateQueued, advanceUpdateInstanceConfig
    <2>5. CASE retryUpdateJobOrFail(w)
      <3>1. pc[w] # "idle"
        BY <2>5 DEF retryUpdateJobOrFail, At
      <3>2. CASE Persist(w, Job(mem[w].status, mem[w].step, mem[w].runId,
                                mem[w].attempts + 1), marker, stamped, "release")
        BY <1>0, <1>j, <2>e, <3>1, <3>2, PersistKeepsRunner
      <3> QED
        BY <2>5, <2>f, <3>1, <3>2 DEF retryUpdateJobOrFail
    <2>6. CASE claimUpdateRunnerStart(w)
      <3>1. pc[w] = "run" /\ builds = <<>>
        BY <2>6, <2>e DEF claimUpdateRunnerStart, At, BeforeClaim
      <3>2. CASE Persist(w, Moved(w, "wait", mem[w].runId), marker, stamped, "release")
        BY <1>0, <3>1, <3>2, PersistKeepsRunner
      <3>3. CASE ClaimWrite(w, "start", Job(row.status, "claimed", row.runId, row.attempts),
                            Moved(w, "claimed", mem[w].runId), marker, "claimed")
        BY <1>0, <1>j, <2>m, <3>1, <3>3, ClaimKeepsRunner
      <3> QED
        BY <2>6, <3>2, <3>3 DEF claimUpdateRunnerStart
    <2>7. CASE startUpdateDeployRunner(w)
      BY <1>0, <2>7, StartKeepsRunner
    <2>8. CASE completeClaimedUpdateRunnerStart(w)
      BY <1>0, <1>j, <1>b, <2>m, <2>8, ClaimKeepsRunner
         DEF completeClaimedUpdateRunnerStart
    <2>9. CASE retryClaimedUpdateRunnerStart(w)
      <3> DEFINE n == mem[w].attempts + 1
      <3>1. pc[w] = "startErr" /\ builds = <<>>
        BY <2>9 DEF retryClaimedUpdateRunnerStart, RunnerInv
      <3>2. CASE ClaimWrite(w, "claimed", Job(row.status, "start", 0, n),
                            Job(mem[w].status, "start", 0, n), marker, "release")
        BY <1>0, <3>1, <3>2, ClaimKeepsRunner
      <3> QED
        BY <2>9, <2>g, <3>1, <3>2 DEF retryClaimedUpdateRunnerStart
    <2>10. CASE advanceUpdateRunnerClaimed(w)
      BY <2>10, <2>g, <2>q DEF advanceUpdateRunnerClaimed, At
    <2>11. CASE advanceSucceededUpdateRunnerWait(w)
      BY <1>0, <1>b, <2>m, <2>11, PersistKeepsRunner
         DEF advanceSucceededUpdateRunnerWait, At
    <2>12. CASE advanceInProgressUpdateRunnerWait(w)
      BY <1>0, <2>e, <2>12, PersistKeepsRunner DEF advanceInProgressUpdateRunnerWait, At
    <2>13. CASE advanceUpdateReceipt(w)
      <3>1. pc[w] # "idle"
        BY <2>13 DEF advanceUpdateReceipt, At
      <3>2. CASE Persist(w, Moved(w, "verify", 0), marker, TRUE, "run")
        BY <1>0, <1>b, <2>m, <3>1, <3>2, PersistKeepsRunner
      <3>3. CASE Persist(w, Job("ok", "done", 0, mem[w].attempts), "ok", TRUE, "release")
        <4> DEFINE j == Job("ok", "done", 0, mem[w].attempts)
        <4>1. j.step \notin BeforeClaim
          BY DEF Job, BeforeClaim
        <4>2. Persist(w, j, "ok", TRUE, "release")
          BY <3>3
        <4> HIDE DEF j
        <4> QED
          BY <1>0, <3>1, <4>1, <4>2, PersistKeepsRunner
      <3> QED
        BY <2>13, <3>2, <3>3 DEF advanceUpdateReceipt
    <2>14. CASE deferUpdateVerifyForBudget(w)
      BY <1>0, <2>e, <2>14, PersistKeepsRunner DEF deferUpdateVerifyForBudget, At
    <2>15. CASE BeginVerify(w) \/ StoreError(w)
      BY <2>15, <2>q DEF BeginVerify, At, StoreError
    <2>16. CASE advanceUpdateVerify(w)
      <3>1. pc[w] # "idle"
        BY <2>16 DEF advanceUpdateVerify
      <3>2. CASE Persist(w, Job("ok", "done", mem[w].runId, mem[w].attempts), "ok",
                         TRUE, "release")
        <4> DEFINE j == Job("ok", "done", mem[w].runId, mem[w].attempts)
        <4>1. j.step \notin BeforeClaim
          BY DEF Job, BeforeClaim
        <4>2. Persist(w, j, "ok", TRUE, "release")
          BY <3>2
        <4> HIDE DEF j
        <4> QED
          BY <1>0, <3>1, <4>1, <4>2, PersistKeepsRunner
      <3> QED
        BY <2>16, <2>f, <3>1, <3>2 DEF advanceUpdateVerify
    <2> QED
      BY <1>7, <2>1, <2>2, <2>3, <2>4, <2>5, <2>6, <2>7, <2>8, <2>9, <2>10,
         <2>11, <2>12, <2>13, <2>14, <2>15, <2>16 DEF Step
  <1> QED
    BY <1>1, <1>2, <1>3, <1>5, <1>6, <1>7 DEF Next

LEMMA InitRunner == Init => RunnerInv
  <1> SUFFICES ASSUME Init PROVE RunnerInv
    OBVIOUS
  <1>1. builds = <<>> /\ \A w \in Workers : pc[w] = "idle"
    BY DEF Init
  <1> QED
    BY <1>1 DEF RunnerInv

\* When invocations come one at a time and StartBuild never reports an error
\* for a build it has started, a job gets one deploy runner at most, wherever
\* an invocation dies and whether or not CodeBuild still knows the token: the
\* claim is recorded before StartBuild and is failed, never restarted.
THEOREM OneRunnerPerJob ==
    ASSUME OneAtATime, ~ ReplyLoss
    PROVE  Spec => []NoDuplicateRunner
  <1>1. Spec => []LeaseInv
    BY InitLease, NextLease, PTL DEF Spec
  <1>2. LeaseInv /\ DataInv /\ RunnerInv /\ [Next]_vars => RunnerInv'
    BY NextRunner
  <1>3. RunnerInv => NoDuplicateRunner
    BY DEF RunnerInv, NoDuplicateRunner
  <1> QED
    BY <1>1, <1>2, <1>3, DataInvariant, InitRunner, PTL DEF Spec

-----------------------------------------------------------------------------
(* SettledIsFinal is false for two invocations, which the run update_settled *)
(* shows.  One invocation at a time never has an old copy in its hands:    *)
(* while it works, the row has not been settled.                           *)

RowOpen == \A w \in Workers : pc[w] \in Working => updateJobProcessable(row)

\* What an invocation's step does to the row: nothing, without getting to work
\* again; a write of its copy or of a running claim; or its last write.
LEMMA RowSteps ==
    ASSUME LeaseInv, DataInv, NEW w \in Workers, Step(w) \/ StoreError(w)
    PROVE  \/ row' = row /\ (pc'[w] \in Working => pc[w] \in Working)
           \/ /\ pc[w] \in Working
              /\ pc'[w] \in Working => row' = mem'[w] \/ row'.status = "running"
  <1>0. DOMAIN pc = Workers /\ DOMAIN mem = Workers
    BY DEF LeaseInv, DataInv
  <1> DEFINE Goal == \/ row' = row /\ (pc'[w] \in Working => pc[w] \in Working)
                     \/ /\ pc[w] \in Working
                        /\ pc'[w] \in Working => row' = mem'[w] \/ row'.status = "running"
  <1> SUFFICES Goal
    OBVIOUS
  <1>p. ASSUME pc[w] \in Working, NEW j, NEW m, NEW s, NEW next, Persist(w, j, m, s, next)
        PROVE  Goal
    BY <1>0, <1>p DEF Persist, shared
  <1>c. ASSUME pc[w] \in Working, NEW from, NEW j, NEW copy, NEW m, NEW next,
               ClaimWrite(w, from, j, copy, m, next),
               next \in Working => j.status = row.status
        PROVE  Goal
    BY <1>0, <1>c DEF ClaimWrite
  <1>q. ASSUME row' = row, pc[w] \in Working PROVE Goal
    BY <1>q
  <1>i. ASSUME row' = row, pc'[w] \notin Working PROVE Goal
    BY <1>i
  <1>w. \A p \in {"loaded", "leased", "run", "claimed", "started", "startErr", "verify"} :
          p \in Working
    BY DEF Working
  <1>n. "release" \notin Working /\ "idle" \notin Working
    BY DEF Working
  <1> HIDE DEF Goal
  <1>f. ASSUME pc[w] \in Working, NEW n, failUpdateJob(w, n) PROVE Goal
    BY <1>f, <1>p DEF failUpdateJob
  <1>g. ASSUME pc[w] \in Working, failClaimedUpdateJob(w) PROVE Goal
    BY <1>g, <1>c, <1>n DEF failClaimedUpdateJob
  <1>1. CASE LeaseRefused(w) \/ releaseUpdateJobProcessingLease(w)
    BY <1>0, <1>1, <1>i, <1>n DEF LeaseRefused, releaseUpdateJobProcessingLease, Leave, shared
  <1>2. CASE \/ acquireUpdateJobProcessingLease(w) \/ startUpdateDeployRunner(w)
             \/ BeginVerify(w) \/ StoreError(w)
    BY <1>2, <1>q, <1>w
       DEF acquireUpdateJobProcessingLease, startUpdateDeployRunner, BeginVerify,
           StoreError, At, shared
  <1>3. CASE Refuse(w) \/ HandlerFails(w) \/ failUpdateRunnerWait(w)
    BY <1>3, <1>f, <1>w DEF Refuse, HandlerFails, failUpdateRunnerWait, At
  <1>4. CASE startManagedUpdateJobIfQueued(w)
    BY <1>4, <1>p, <1>q, <1>w DEF startManagedUpdateJobIfQueued, shared
  <1>5. CASE \/ advanceUpdateQueued(w) \/ advanceUpdateInstanceConfig(w)
             \/ advanceSucceededUpdateRunnerWait(w) \/ advanceInProgressUpdateRunnerWait(w)
             \/ advanceUpdateReceipt(w) \/ deferUpdateVerifyForBudget(w)
    BY <1>5, <1>p, <1>w
       DEF advanceUpdateQueued, advanceUpdateInstanceConfig,
           advanceSucceededUpdateRunnerWait, advanceInProgressUpdateRunnerWait,
           advanceUpdateReceipt, deferUpdateVerifyForBudget, At
  <1>6. CASE retryUpdateJobOrFail(w)
    BY <1>6, <1>f, <1>p, <1>w DEF retryUpdateJobOrFail, At
  <1>7. CASE claimUpdateRunnerStart(w)
    <2>1. Job(row.status, "claimed", row.runId, row.attempts).status = row.status
      BY DEF Job
    <2> QED
      BY <1>7, <2>1, <1>p, <1>c, <1>w DEF claimUpdateRunnerStart, At
  <1>8. CASE completeClaimedUpdateRunnerStart(w)
    BY <1>8, <1>c, <1>w, <1>n DEF completeClaimedUpdateRunnerStart
  <1>9. CASE retryClaimedUpdateRunnerStart(w)
    BY <1>9, <1>c, <1>g, <1>w, <1>n DEF retryClaimedUpdateRunnerStart
  <1>10. CASE advanceUpdateRunnerClaimed(w)
    BY <1>10, <1>g, <1>q, <1>w DEF advanceUpdateRunnerClaimed, At, shared
  <1>11. CASE advanceUpdateVerify(w)
    BY <1>11, <1>f, <1>p, <1>w DEF advanceUpdateVerify
  <1> QED
    BY <1>1, <1>2, <1>3, <1>4, <1>5, <1>6, <1>7, <1>8, <1>9, <1>10, <1>11 DEF Step

\* A step keeps the row open for whoever works, and only writes an open row.
LEMMA NextOpen ==
    ASSUME OneAtATime, LeaseInv, DataInv, DataInv', RowOpen, [Next]_vars
    PROVE  /\ RowOpen'
           /\ ~ updateJobProcessable(row) => row' = row
  <1>0. DOMAIN pc = Workers
    BY DEF LeaseInv
  <1>1. CASE UNCHANGED <<row, pc>>
    BY <1>1 DEF RowOpen, updateJobProcessable
  <1>2. ASSUME NEW w \in Workers, loadUpdateJob(w) PROVE RowOpen' /\ row' = row
    BY <1>2 DEF loadUpdateJob, shared, RowOpen, updateJobProcessable
  <1>3. ASSUME NEW w \in Workers, Crash(w) PROVE RowOpen' /\ row' = row
    <2>1. row' = row /\ pc'[w] = "idle"
      BY <1>0, <1>3 DEF Crash, Leave, shared
    <2> QED
      BY <2>1 DEF RowOpen, OneAtATime, Working
  <1>4. ASSUME NEW w \in Workers, Step(w) \/ StoreError(w)
        PROVE  RowOpen' /\ (~ updateJobProcessable(row) => row' = row)
    <2>1. CASE row' = row /\ (pc'[w] \in Working => pc[w] \in Working)
      BY <2>1 DEF RowOpen, OneAtATime, updateJobProcessable
    <2>2. CASE /\ pc[w] \in Working
               /\ pc'[w] \in Working => row' = mem'[w] \/ row'.status = "running"
      <3>1. updateJobProcessable(row)
        BY <2>2 DEF RowOpen
      <3>2. pc'[w] \in Working => row'.status \in Active
        BY <2>2 DEF DataInv, Active
      <3> QED
        BY <3>1, <3>2 DEF RowOpen, OneAtATime, updateJobProcessable
    <2> QED
      BY <1>4, <2>1, <2>2, RowSteps
  <1>5. CASE Tick \/ RunnerWritesReceipt \/ RunnerEnds
    BY <1>1, <1>5 DEF Tick, RunnerWritesReceipt, RunnerEnds, shared
  <1>6. CASE UNCHANGED vars
    BY <1>1, <1>6 DEF vars, shared
  <1> QED
    BY <1>2, <1>3, <1>4, <1>5, <1>6 DEF Next

\* When invocations come one at a time, a settled job is never written again,
\* wherever they die and however late they are repeated: what update_settled
\* shows takes a second invocation that has loaded the row meanwhile.
THEOREM SettledStaysSettled ==
    ASSUME OneAtATime PROVE Spec => SettledIsFinal
  <1>1. Spec => []LeaseInv
    BY InitLease, NextLease, PTL DEF Spec
  <1>2. Init => RowOpen
    BY DEF Init, RowOpen, NoCopy, Job, updateJobProcessable, Active
  <1>3. LeaseInv /\ DataInv /\ DataInv' /\ RowOpen /\ [Next]_vars => RowOpen'
    BY NextOpen
  <1>4. LeaseInv /\ DataInv /\ DataInv' /\ RowOpen /\ [Next]_vars
          => [~ updateJobProcessable(row) => row' = row]_vars
    BY NextOpen
  <1> QED
    BY <1>1, <1>2, <1>3, <1>4, DataInvariant, PTL DEF Spec, SettledIsFinal
=============================================================================
