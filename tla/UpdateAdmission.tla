-------------------------- MODULE UpdateAdmission --------------------------
(***************************************************************************)
(* Which update jobs one managed instance gets: the portal's create and    *)
(* list handlers (handlers_portal_updates.go), the operator's MCP          *)
(* remediation (handlers_operator_remediate_mcp.go), and the update worker *)
(* reduced to what it does to a job's status and the instance's markers    *)
(* (UpdateJobs models the rest of it).                                     *)
(*                                                                         *)
(* A handler makes one request to DynamoDB at a time, so every access is a *)
(* step of its own and calls interleave between them.  The lists go        *)
(* through secondary indexes, which lag behind the table: a job may be     *)
(* missing or be listed with a status it no longer has.  getInstance, the  *)
(* first access of a call, may return an old row too; a call that begins   *)
(* early and goes on late covers that.  env says which conditions a        *)
(* behaviour has: whether the indexes are prompt, and whether operators    *)
(* remediate.                                                              *)
(*                                                                         *)
(* Queue messages are left out: they only decide when the worker moves a   *)
(* job, which it may do at any time.  A list is never cut short (it asks   *)
(* for at least 20 jobs).  "ended" stands for ok and for error, which no   *)
(* guard here tells apart.                                                 *)
(***************************************************************************)
EXTENDS Integers, Sequences, FiniteSets

CONSTANTS
  Creates,       \* calls of the portal that ask for an update
  Lists,         \* calls of the portal that list the instance's jobs
  Remediations,  \* calls of an operator that rewire stale MCP wiring
  Versions,
  Asks,          \* the updates that may be asked for
  Wiring,        \* the MCP update a remediation asks for
  Envs           \* the conditions that are tried

Kinds == {"lesser", "lesser-body", "mcp"}
Active == {"queued", "running"}
Status == Active \cup {"ended"}

Ask == [kind : Kinds, version : Versions]
Job == [kind : Kinds, version : Versions, status : Status]

ASSUME AdmissionAssumption ==
  /\ Asks \subseteq Ask /\ Wiring \in Ask /\ Wiring.kind = "mcp"
  /\ Envs \subseteq [prompt : BOOLEAN, remediate : BOOLEAN]
  /\ Creates \cap Lists = {}

VARIABLES
  env,      \* the conditions of this behaviour
  jobs,     \* the UpdateJob rows, in the order they were created
  inst,     \* the instance's update markers: one for all kinds, one per kind
  call,     \* per portal call: where it is and what it has read
  wire      \* per remediation: where it is

vars == <<env, jobs, inst, call, wire>>

Calls == Creates \cup Lists
JobIds == 1 .. Len(jobs)
NoMark == [status |-> "none", job |-> 0]
NoMarks == [any |-> NoMark, of |-> [k \in Kinds |-> NoMark]]
ActiveJobs == {j \in JobIds : jobs[j].status \in Active}
NoAnswer == [what |-> "none", job |-> 0]

Init ==
  /\ env \in Envs
  /\ jobs = << >>
  /\ inst = NoMarks
  /\ call = [c \in Calls |-> [pc |-> "idle", ask |-> Wiring, copy |-> NoMarks,
                              live |-> {}, since |-> 0, answer |-> NoAnswer]]
  /\ wire = [m \in Remediations |-> "idle"]

----------------------------------------------------------------------------
(* Reads.                                                                  *)

(* What a list through an index may show as active.  Every job was once    *)
(* missing and once active, and a lagging index may still say so.          *)
Views == IF env.prompt THEN {ActiveJobs} ELSE SUBSET JobIds

(* sameManagedUpdateRequest: the kinds agree, and what that kind carries.  *)
Same(j, ask) == jobs[j].kind = ask.kind /\ jobs[j].version = ask.version

(* The lists are sorted newest first, and the first match is taken.        *)
NewestSame(j, seen, ask) ==
  j \in seen /\ Same(j, ask) /\ \A i \in seen : Same(i, ask) => i <= j

(* The marker of the requested kind, or the common one if that kind has    *)
(* never been updated.                                                     *)
managedUpdateMarkerForRequest(copy, ask) ==
  IF copy.of[ask.kind].job # 0 THEN copy.of[ask.kind] ELSE copy.any

----------------------------------------------------------------------------
(* Writes.                                                                 *)

(* A new row.                                                              *)
NewJob(ask) ==
  jobs' = Append(jobs, [kind |-> ask.kind, version |-> ask.version, status |-> "queued"])

(* setManagedUpdateInstanceMarker: both markers name the job.              *)
Marked(marks, kind, j, status) ==
  [any |-> [status |-> status, job |-> j],
   of  |-> [marks.of EXCEPT ![kind] = [status |-> status, job |-> j]]]

MutRepairedCommonOnly(copy) ==
  [any |-> [status |-> "ended", job |-> inst.any.job], of |-> inst.of]

(* repairStaleInstanceUpdateMarker: the common marker is set to error, and *)
(* with it the kind's marker that the copy shows active for the same job,  *)
(* on condition that the common marker is still the one of the copy.       *)
Repaired(copy) ==
  [any |-> [status |-> "ended", job |-> inst.any.job],
   of  |-> [k \in Kinds |->
              IF copy.of[k].job = copy.any.job /\ copy.of[k].status \in Active
              THEN [status |-> "ended", job |-> inst.of[k].job] ELSE inst.of[k]]]

NeedsRepair(copy) == copy.any.status \in Active /\ copy.any.job # 0

repairStaleInstanceUpdateMarker(copy) ==
  inst' = IF inst.any = copy.any THEN Repaired(copy) ELSE inst

(* The call is over; its copy of the instance is gone.                     *)
Answer(c, what, j) ==
  call' = [call EXCEPT ![c].pc = "done", ![c].copy = NoMarks,
                       ![c].answer = [what |-> what, job |-> j]]

Goto(c, pc) == call' = [call EXCEPT ![c].pc = pc]

----------------------------------------------------------------------------
(* Portal calls.                                                           *)

(* requireInstanceAccess reads the instance.  live and since are           *)
(* auxiliary: the jobs active, and the number of jobs, when it begins.     *)
Begin(c, ask, pc) ==
  /\ call[c].pc = "idle"
  /\ call' = [call EXCEPT ![c] =
       [pc |-> pc, ask |-> ask, copy |-> inst,
        live |-> ActiveJobs, since |-> Len(jobs), answer |-> NoAnswer]]
  /\ UNCHANGED <<env, jobs, inst, wire>>

(* A request for "latest" is first refused if any job is listed active.    *)
BeginCreate(c, ask) == Begin(c, ask, "list") \/ Begin(c, ask, "precheck")

BeginList(c) == Begin(c, Wiring, "list")

rejectActiveManagedUpdateBeforeLatestResolution(c) ==
  /\ call[c].pc = "precheck"
  /\ \E seen \in Views :
       IF seen # {} THEN Answer(c, "refused", 0) ELSE Goto(c, "list")
  /\ UNCHANGED <<env, jobs, inst, wire>>

(* Where a create goes on when it has found no active job: to the repair,  *)
(* or past it.                                                             *)
AfterMarker(c) == IF NeedsRepair(call[c].copy) THEN "repair" ELSE "write"

(* The job a marker names is read first, if the marker says it is active.  *)
AfterList(c) ==
  LET mark == managedUpdateMarkerForRequest(call[c].copy, call[c].ask) IN
  IF mark.job # 0 /\ mark.status \in Active THEN "get" ELSE AfterMarker(c)

MutAnyListedIsTheAnswer(c) ==
  /\ c \in Creates /\ call[c].pc = "list"
  /\ \E seen \in Views :
       \/ \E j \in seen : Answer(c, "existing", j)
       \/ seen = {} /\ Goto(c, AfterList(c))
  /\ UNCHANGED <<env, jobs, inst, wire>>

(* findActiveUpdateJobsByInstance, in a create: a listed job of the same   *)
(* request is the answer, any other refuses the call.                      *)
findExistingManagedUpdateJob(c) ==
  /\ c \in Creates /\ call[c].pc = "list"
  /\ \E seen \in Views :
       \/ \E j \in seen : NewestSame(j, seen, call[c].ask) /\ Answer(c, "existing", j)
       \/ /\ seen # {} /\ \A j \in seen : ~Same(j, call[c].ask)
          /\ Answer(c, "refused", 0)
       \/ seen = {} /\ Goto(c, AfterList(c))
  /\ UNCHANGED <<env, jobs, inst, wire>>

(* getExistingUpdateJobFromInstanceState: the job the copy's marker names  *)
(* is read consistently.  A read that fails is taken for a missing job.    *)
getExistingUpdateJobFromInstanceState(c) ==
  LET j == managedUpdateMarkerForRequest(call[c].copy, call[c].ask).job IN
  /\ call[c].pc = "get"
  /\ \/ Same(j, call[c].ask) /\ Answer(c, "existing", j)
     \/ /\ ~Same(j, call[c].ask) /\ jobs[j].status \in Active
        /\ Answer(c, "refused", 0)
     \/ Goto(c, AfterMarker(c))
  /\ UNCHANGED <<env, jobs, inst, wire>>

(* The create handler's repair; a failed condition is ignored.             *)
CreateRepairs(c) ==
  /\ c \in Creates /\ call[c].pc = "repair"
  /\ repairStaleInstanceUpdateMarker(call[c].copy)
  /\ Goto(c, "write")
  /\ UNCHANGED <<env, jobs, wire>>

MutNoCondition == TRUE

(* The condition of the transaction that creates the job.                  *)
updateInstanceNoActiveUpdateCondition == inst.any.status \notin Active

MutMarkerWithoutRow(c) ==
  /\ call[c].pc = "write"
  /\ updateInstanceNoActiveUpdateCondition
  /\ inst' = Marked(inst, call[c].ask.kind, Len(jobs) + 1, "queued")
  /\ Answer(c, "failed", 0)
  /\ UNCHANGED <<env, jobs, wire>>

(* Job and markers are written in one transaction, or neither is.          *)
handlePortalCreateInstanceUpdateJob(c) ==
  LET ask == call[c].ask IN
  /\ call[c].pc = "write"
  /\ updateInstanceNoActiveUpdateCondition
  /\ NewJob(ask)
  /\ inst' = Marked(inst, ask.kind, Len(jobs) + 1, "queued")
  /\ Answer(c, "created", Len(jobs) + 1)
  /\ UNCHANGED <<env, wire>>

CreateConflicts(c) ==
  /\ call[c].pc = "write"
  /\ ~updateInstanceNoActiveUpdateCondition
  /\ Goto(c, "relist")
  /\ UNCHANGED <<env, jobs, inst, wire>>

(* A refused transaction looks again for a job of the same request.        *)
handleManagedUpdateCreateConflict(c) ==
  /\ call[c].pc = "relist"
  /\ \E seen \in Views :
       \/ \E j \in seen : NewestSame(j, seen, call[c].ask) /\ Answer(c, "existing", j)
       \/ (\A j \in seen : ~Same(j, call[c].ask)) /\ Answer(c, "refused", 0)
  /\ UNCHANGED <<env, jobs, inst, wire>>

(* The list handler repairs the marker when it lists no active job and the *)
(* copy's marker is active; it does not read the job the marker names.     *)
nudgeActiveUpdateJobIfNeeded(c) ==
  /\ c \in Lists /\ call[c].pc = "list"
  /\ \E seen \in Views :
       IF seen = {} /\ NeedsRepair(call[c].copy)
       THEN Goto(c, "repair") ELSE Answer(c, "listed", 0)
  /\ UNCHANGED <<env, jobs, inst, wire>>

ListRepairs(c) ==
  /\ c \in Lists /\ call[c].pc = "repair"
  /\ repairStaleInstanceUpdateMarker(call[c].copy)
  /\ Answer(c, "listed", 0)
  /\ UNCHANGED <<env, jobs, wire>>

(* A request to the store fails and the call answers 500, or it dies.      *)
CallFails(c) ==
  /\ call[c].pc \notin {"idle", "done"}
  /\ Answer(c, "failed", 0)
  /\ UNCHANGED <<env, jobs, inst, wire>>

----------------------------------------------------------------------------
(* Remediation.                                                            *)

(* The instance's wiring is stale, and the index of active jobs is read;   *)
(* an instance with an active MCP job is skipped.                          *)
ListActiveUpdateJobs(m) ==
  /\ env.remediate /\ wire[m] = "idle"
  /\ \E seen \in Views :
       wire' = [wire EXCEPT ![m] =
         IF \E j \in seen : jobs[j].kind = "mcp" THEN "skipped" ELSE "create"]
  /\ UNCHANGED <<env, jobs, inst, call>>

(* A plain create: no marker, no condition.  A create that fails is        *)
(* skipped: the call goes no further.                                      *)
createRemediationMCPJob(m) ==
  /\ wire[m] = "create"
  /\ NewJob(Wiring)
  /\ wire' = [wire EXCEPT ![m] = "created"]
  /\ UNCHANGED <<env, inst, call>>

----------------------------------------------------------------------------
(* The update worker.                                                      *)

MutEndsWithoutMarker(j, status) ==
  /\ jobs[j].status \in Active
  /\ jobs' = [jobs EXCEPT ![j].status = status]
  /\ inst' = IF status = "ended" THEN inst ELSE Marked(inst, jobs[j].kind, j, status)
  /\ UNCHANGED <<env, call, wire>>

(* The worker writes a job's status and the markers in one transaction, on *)
(* no condition about the markers: it starts a queued job, writes the      *)
(* markers of a running one again, and ends it.                            *)
persistUpdateJobAndInstance(j, status) ==
  /\ jobs[j].status \in Active
  /\ jobs' = [jobs EXCEPT ![j].status = status]
  /\ inst' = Marked(inst, jobs[j].kind, j, status)
  /\ UNCHANGED <<env, call, wire>>

----------------------------------------------------------------------------
CallStep(c) ==
  \/ rejectActiveManagedUpdateBeforeLatestResolution(c)
  \/ findExistingManagedUpdateJob(c)
  \/ getExistingUpdateJobFromInstanceState(c)
  \/ CreateRepairs(c)
  \/ handlePortalCreateInstanceUpdateJob(c)
  \/ CreateConflicts(c)
  \/ handleManagedUpdateCreateConflict(c)
  \/ nudgeActiveUpdateJobIfNeeded(c)
  \/ ListRepairs(c)
  \/ CallFails(c)

Next ==
  \/ \E c \in Creates, ask \in Asks : BeginCreate(c, ask)
  \/ \E c \in Lists : BeginList(c)
  \/ \E c \in Calls : CallStep(c)
  \/ \E m \in Remediations : ListActiveUpdateJobs(m) \/ createRemediationMCPJob(m)
  \/ \E j \in JobIds : \E status \in {"running", "ended"} : persistUpdateJobAndInstance(j, status)

Spec == Init /\ [][Next]_vars

----------------------------------------------------------------------------
(* Properties.                                                             *)

Mark == [status : Status \cup {"none"}, job : 0 .. Len(jobs)]
Marks == [any : Mark, of : [Kinds -> Mark]]
Answers == {"none", "existing", "created", "refused", "listed", "failed"}
Call == [pc : {"idle", "precheck", "list", "get", "repair", "write", "relist", "done"},
         ask : Ask, copy : Marks, live : SUBSET JobIds, since : 0 .. Len(jobs),
         answer : [what : Answers, job : 0 .. Len(jobs)]]

(* Every marker, a copy's too, and every answer names a row that exists:   *)
(* the create handler writes row and marker in one transaction.            *)
TypeOK ==
  /\ env \in Envs
  /\ jobs \in Seq(Job)
  /\ inst \in Marks
  /\ call \in [Calls -> Call]
  /\ wire \in [Remediations -> {"idle", "create", "created", "skipped"}]

(* The promise is made when indexes are prompt and nobody remediates.      *)
Exclusive == env.prompt /\ ~env.remediate

(* No two update jobs of an instance are active at once (the conflict      *)
(* answers of the create handler).                                         *)
OneActive == Exclusive => \A i, j \in ActiveJobs : i = j

(* A marker that says queued or running names a job in exactly that state: *)
(* a marker is never left behind by its job, whatever lags, races, repairs *)
(* or remediates, so nothing blocks an instance for ever, and a repair     *)
(* (repairStaleInstanceUpdateMarker) can only hit a job that is active.    *)
MarkersNameLiveJobs ==
  \A m \in {inst.any} \cup {inst.of[k] : k \in Kinds} :
    m.status \in Active => m.job \in JobIds /\ jobs[m.job].status = m.status

(* The common marker and the marker of its job's kind always agree, so the *)
(* portal's views of an update do not contradict each other.               *)
MarkersAgree == inst.any.job # 0 => inst.of[jobs[inst.any.job].kind] = inst.any

During(c) == call[c].live \cup (call[c].since + 1) .. Len(jobs)

(* With prompt indexes a portal answer is true of some moment of the call:   *)
(* the job it returns is of the request and was active during the call,    *)
(* and it refuses only if some job was (findExistingManagedUpdateJob,      *)
(* handleManagedUpdateCreateConflict).                                     *)
AnswersAreTrue ==
  env.prompt =>
    \A c \in Creates :
      /\ call[c].answer.what \in {"existing", "created"} =>
           call[c].answer.job \in During(c) /\ Same(call[c].answer.job, call[c].ask)
      /\ call[c].answer.what = "refused" => During(c) # {}

(* However often remediation is asked for, an instance has one active MCP  *)
(* job (handleOperatorRemediateMCPDrift: "skips slugs that already have an *)
(* active MCP-only UpdateJob").                                            *)
OneWiring ==
  \A i, j \in ActiveJobs : jobs[i].kind = "mcp" /\ jobs[j].kind = "mcp" => i = j

Slot == INSTANCE UpdateSlot WITH exclusive <- Exclusive, admitted <- Len(jobs), active <- ActiveJobs

(* Admission implements the slot: the handlers, the worker and the repairs *)
(* together admit a job only into an empty slot, and no job that has ended *)
(* is active again.                                                        *)
ImplementsSlot == Slot!SlotSpec
=============================================================================
