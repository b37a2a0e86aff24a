------------------------ MODULE ProvisionJobsProofs ------------------------
(***************************************************************************)
(* What ProvisionJobs promises, for any number of invocations and any      *)
(* bounds.  No write of the worker is conditional, so any copy of the job, *)
(* however old, may become the row: nothing can be said of the row that    *)
(* does not hold of every copy.  The invariant is therefore a predicate on *)
(* one copy, Sound, that the row and every invocation's copy satisfy and   *)
(* every handler preserves, whatever the others do; what it says of the    *)
(* builds (PhaseSound) only becomes easier as builds are added and end.    *)
(* Two parts relate the copies with one another: Accord, of the time before*)
(* two writers meet, and CountInv, a count of what the copies can still    *)
(* ask for.                                                                *)
(***************************************************************************)
EXTENDS ProvisionJobs, FiniteSetTheorems, TLAPS

JobRecord == [status : {"queued", "running", "ok", "error"}, step : Steps,
              attempts : Nat, run : Nat, req : Nat, acct : {None, "own", "foreign"},
              consent : BOOLEAN, body : BOOLEAN, mcp : BOOLEAN]

InvRecord == [pc : {"idle", "handle", "put"}, job : JobRecord, now : Nat, left : Int,
              mark : {None, "running", "ok", "error"},
              then : {"stop", "begin", "next", "assume"}]

BuildRecord == [mode : Modes, state : {"running", "ok", "bad"}]

Types ==
    /\ bodyEnabled \in BOOLEAN /\ overlapped \in BOOLEAN
    /\ clock \in Nat /\ mishaps \in Nat /\ retries \in Nat
    /\ row \in JobRecord
    /\ inv \in [Workers -> InvRecord]
    /\ requests \in Seq({"pending", "made", "failed"})
    /\ builds \in Seq(BuildRecord)
    /\ unheard \in [Kinds -> Nat]

-----------------------------------------------------------------------------
(* What every copy is good for.                                            *)

\* The steps at which nothing has been done with the job's account.
BeforeEntry == {"queued", "account.create", "account.create.poll", "account.move",
                "failed"}

\* An account that failed validation was not made by a request of this job
\* and is not past the move.
AccountSound(j) ==
    j.acct = "foreign" => j.req = 0 /\ j.step \in BeforeEntry

ConsentSound(j) ==
    j.consent => j.status \in Active /\ j.step \in BeforeRunner /\ j.run = 0

LaterSteps == {"body.deploy.start", "body.deploy.wait", "deploy.mcp.start",
               "deploy.mcp.wait"}

AllPhases == IF bodyEnabled THEN Modes ELSE {"lesser"}

\* What the builds have come to, as the copy's step and flags tell it.
PhaseSound(j) ==
    /\ j.run \in 0 .. Len(builds)
    /\ j.body => "body" \in Succeeded
    /\ j.mcp => "mcp" \in Succeeded
    /\ j.step \in LaterSteps => "lesser" \in Succeeded
    /\ j.step \in {"body.deploy.start", "deploy.mcp.start"} => j.run = 0
    /\ j.step = "body.deploy.wait" /\ j.run # 0 => builds[j.run].mode = "body"
    /\ j.step = "deploy.mcp.wait" /\ j.run # 0 => builds[j.run].mode = "mcp"
    /\ j.step \in {"deploy.mcp.start", "deploy.mcp.wait"} => j.body
    /\ j.status = "ok" => AllPhases \subseteq Succeeded

Sound(j) == AccountSound(j) /\ ConsentSound(j) /\ PhaseSound(j)

\* What a copy can still ask for: an account, or a runner of some mode.
BodySteps == BeforeRunner \cup {"deploy.wait", "receipt.ingest", "body.deploy.start"}
McpSteps == BodySteps \cup {"body.deploy.wait", "deploy.mcp.start"}
StepsBefore(k) ==
    IF k = "lesser" THEN BeforeRunner ELSE IF k = "body" THEN BodySteps ELSE McpSteps

Could(k, j) ==
    IF k = "request" THEN j.req = 0 /\ j.acct = None ELSE j.step \in StepsBefore(k)

MayMake(k, j, then) == Could(k, j) \/ (k # "request" /\ then = "assume")

\* A copy a handler may work on: not an error copy past deploy.start.
Workable(j) ==
    /\ j.status \in {"running", "error"}
    /\ j.step \notin BeforeRunner => j.status = "running"

InvSound(i) ==
    /\ Sound(i.job)
    /\ i.then = "assume" => i.job.acct # "foreign"
    /\ i.pc = "put" /\ i.mark # None => i.mark = i.job.status
    /\ i.pc = "put" /\ i.then = "assume" => i.job.status \in {"running", "error"}
    /\ i.pc = "handle" \/ (i.pc = "put" /\ i.then \in {"begin", "next"}) => Workable(i.job)

\* Before two writers meet there is one invocation at most, and what it has
\* not yet written about the status is nothing; it holds no consent that the row
\* has lost.
Accord ==
    ~ overlapped =>
      /\ inst = row.status
      /\ \A v, w \in Workers : inv[v].pc # "idle" /\ inv[w].pc # "idle" => v = w
      /\ \A w \in Workers :
           inv[w].pc = "handle" \/ (inv[w].pc = "put" /\ inv[w].mark = None) =>
             inv[w].job.status = row.status
      /\ \A w \in Workers : inv[w].pc # "idle" /\ inv[w].job.consent => row.consent

BuildsInOrder == \A i \in DOMAIN builds : Needs[builds[i].mode] \subseteq Succeeded

ProvisionInv ==
    /\ Types
    /\ Sound(row)
    /\ \A w \in Workers : InvSound(inv[w])
    /\ BuildsInOrder
    /\ EntersOnlyValidated
    /\ Accord

-----------------------------------------------------------------------------
(* Copies.  What a handler may make of the copy o it works on: the copy j, *)
(* to be written with the mark, and then to go on or not.                  *)

Fits(o, j, mark, then) ==
    /\ j \in JobRecord
    /\ then \in {"stop", "next", "assume"}
    /\ \/ mark = None /\ j.status = o.status
       \/ mark \in {"running", "ok", "error"} /\ j.status = mark
    /\ AccountSound(j) /\ ConsentSound(j) /\ (j.consent => o.consent)
    /\ then = "assume" => j.acct # "foreign" /\ j.status \in {"running", "error"}
    /\ then = "next" => Workable(j)
    /\ \A k \in Kinds : MayMake(k, j, then) => Could(k, o)

\* A copy a handler starts from.
Handled(o) == o \in JobRecord /\ Sound(o) /\ Workable(o)

LEMMA NoneIsNone == None \notin {"own", "foreign", "queued", "running", "ok", "error"}
  BY ProvisionConstants

LEMMA Transitive ==
    ASSUME NEW o, NEW j, j.step \in StepsBefore("lesser") => o.step \in StepsBefore("lesser"),
           j.step \in StepsBefore("body") => o.step \in StepsBefore("body"),
           j.step \in StepsBefore("mcp") => o.step \in StepsBefore("mcp"),
           j.req = 0 /\ j.acct = None => o.req = 0 /\ o.acct = None,
           NEW then, then # "assume"
    PROVE  \A k \in Kinds : MayMake(k, j, then) => Could(k, o)
  BY DEF Kinds, Modes, MayMake, Could

LEMMA FailedFields ==
    ASSUME NEW j \in JobRecord
    PROVE  /\ Failed(j) \in JobRecord
           /\ Failed(j).status = "error" /\ Failed(j).step = "failed"
           /\ Failed(j).consent = FALSE
           /\ Failed(j).acct = j.acct /\ Failed(j).req = j.req /\ Failed(j).run = j.run
           /\ Failed(j).body = j.body /\ Failed(j).mcp = j.mcp
  BY DEF Failed, JobRecord, Steps

LEMMA FailedNever == \A k \in Modes : "failed" \notin StepsBefore(k)
  BY DEF Modes, StepsBefore, BeforeRunner, BodySteps, McpSteps

\* failJob, of a copy or of one with another attempt counted.
LEMMA FailedFits ==
    ASSUME NEW o, Handled(o), NEW k \in JobRecord, Sound(k),
           k.req = o.req, k.acct = o.acct
    PROVE  /\ Fits(o, Failed(k), "error", "stop")
           /\ PhaseSound(Failed(k))
           /\ o.acct # "foreign" /\ o.step = "account.move" =>
                Fits(o, Failed(k), "error", "assume")
  <1> DEFINE f == Failed(k)
  <1>1. /\ f \in JobRecord /\ f.status = "error" /\ f.step = "failed" /\ f.consent = FALSE
        /\ f.acct = k.acct /\ f.req = k.req /\ f.run = k.run
        /\ f.body = k.body /\ f.mcp = k.mcp
    BY FailedFields
  <1> HIDE DEF f
  <1>2. AccountSound(f)
    BY <1>1 DEF Sound, AccountSound, BeforeEntry
  <1>3. ConsentSound(f)
    BY <1>1 DEF ConsentSound
  <1>4. PhaseSound(f)
    BY <1>1 DEF Sound, PhaseSound, LaterSteps
  <1>5. \A q \in Kinds : Could(q, f) => Could(q, o)
    BY <1>1, FailedNever DEF Could, Kinds
  <1>6. Fits(o, f, "error", "stop")
    BY <1>1, <1>2, <1>3, <1>5 DEF Fits, MayMake
  <1>7. ASSUME o.acct # "foreign", o.step = "account.move"
        PROVE  Fits(o, f, "error", "assume")
    <2>1. \A q \in Modes : o.step \in StepsBefore(q)
      BY <1>7 DEF Modes, StepsBefore, BeforeRunner, BodySteps, McpSteps
    <2>2. \A q \in Kinds : MayMake(q, f, "assume") => Could(q, o)
      BY <1>5, <2>1 DEF MayMake, Could, Kinds
    <2> QED
      BY <1>1, <1>2, <1>3, <1>7, <2>2 DEF Fits
  <1> QED
    BY <1>4, <1>6, <1>7 DEF f

LEMMA AttemptFits ==
    ASSUME NEW o, Handled(o), NEW k, k = [o EXCEPT !.attempts = @ + 1]
    PROVE  /\ k \in JobRecord /\ Sound(k) /\ k.req = o.req /\ k.acct = o.acct
           /\ Fits(o, k, None, "stop")
  <1>1. /\ k \in JobRecord /\ k.status = o.status /\ k.step = o.step
        /\ k.run = o.run /\ k.req = o.req /\ k.acct = o.acct
        /\ k.consent = o.consent /\ k.body = o.body /\ k.mcp = o.mcp
    BY DEF Handled, JobRecord
  <1>2. AccountSound(k) /\ ConsentSound(k) /\ PhaseSound(k)
    BY <1>1 DEF Handled, Sound, AccountSound, ConsentSound, PhaseSound
  <1>3. \A q \in Kinds : MayMake(q, k, "stop") => Could(q, o)
    BY <1>1, Transitive
  <1> QED
    BY <1>1, <1>2, <1>3 DEF Sound, Fits

\* A copy that only changes its step, and not to one of the later phases.
LEMMA StepFits ==
    ASSUME NEW o, Handled(o), NEW s \in Steps, NEW j, j = [o EXCEPT !.step = s],
           o.acct = "foreign" => s \in BeforeEntry,
           o.consent => s \in BeforeRunner,
           s \notin LaterSteps,
           s \in StepsBefore("lesser") => o.step \in StepsBefore("lesser"),
           s \in StepsBefore("body") => o.step \in StepsBefore("body"),
           s \in StepsBefore("mcp") => o.step \in StepsBefore("mcp")
    PROVE  /\ Fits(o, j, None, "stop") /\ PhaseSound(j)
           /\ s \in BeforeRunner \/ o.step \notin BeforeRunner => Fits(o, j, None, "next")
  <1>1. /\ j \in JobRecord /\ j.status = o.status /\ j.step = s
        /\ j.run = o.run /\ j.req = o.req /\ j.acct = o.acct
        /\ j.consent = o.consent /\ j.body = o.body /\ j.mcp = o.mcp
    BY DEF Handled, JobRecord
  <1>2. AccountSound(j) /\ ConsentSound(j)
    BY <1>1 DEF Handled, Sound, AccountSound, ConsentSound
  <1>3. PhaseSound(j)
    BY <1>1 DEF Handled, Sound, PhaseSound, LaterSteps
  <1>4. \A k \in Kinds : MayMake(k, j, "stop") => Could(k, o)
    BY <1>1, Transitive
  <1>5. \A k \in Kinds : MayMake(k, j, "next") => Could(k, o)
    BY <1>1, Transitive
  <1>6. s \in BeforeRunner \/ o.step \notin BeforeRunner => Workable(j)
    BY <1>1 DEF Handled, Workable
  <1> QED
    BY <1>1, <1>2, <1>3, <1>4, <1>5, <1>6 DEF Fits

-----------------------------------------------------------------------------
(* Builds and requests.  They are only added to, and end once.             *)

Grows ==
    /\ bodyEnabled' = bodyEnabled /\ entered' = entered
    /\ requests' \in Seq({"pending", "made", "failed"})
    /\ unheard' \in [Kinds -> Nat]
    /\ builds' \in Seq(BuildRecord) /\ Len(builds) <= Len(builds')
    /\ \A i \in 1 .. Len(builds) :
         /\ builds'[i].mode = builds[i].mode
         /\ builds[i].state = "ok" => builds'[i].state = "ok"
    /\ \A i \in 1 .. Len(builds') :
         i \notin 1 .. Len(builds) => Needs[builds'[i].mode] \subseteq Succeeded

LEMMA SucceededIs ==
    /\ \A m : m \in Succeeded <=>
         \E i \in DOMAIN builds : builds[i].mode = m /\ builds[i].state = "ok"
    /\ \A m : m \in Succeeded' <=>
         \E i \in DOMAIN builds' : builds'[i].mode = m /\ builds'[i].state = "ok"
  BY DEF Succeeded, ToSet

LEMMA SucceededGrows ==
    ASSUME Types, Grows
    PROVE  Succeeded \subseteq Succeeded'
  <1>1. DOMAIN builds = 1 .. Len(builds) /\ DOMAIN builds' = 1 .. Len(builds')
        /\ Len(builds) \in Nat /\ Len(builds') \in Nat
    BY DEF Types, Grows
  <1>2. SUFFICES ASSUME NEW m \in Succeeded PROVE m \in Succeeded'
    OBVIOUS
  <1>3. PICK i \in 1 .. Len(builds) : builds[i].mode = m /\ builds[i].state = "ok"
    BY <1>1, SucceededIs
  <1>4. i \in 1 .. Len(builds') /\ builds'[i].mode = m /\ builds'[i].state = "ok"
    BY <1>1, <1>3 DEF Grows
  <1> QED
    BY <1>1, <1>4, SucceededIs

LEMMA PhaseStays ==
    ASSUME Types, Grows, NEW j \in JobRecord, PhaseSound(j)
    PROVE  PhaseSound(j)'
  <1>1. Succeeded \subseteq Succeeded'
    BY SucceededGrows
  <1>2. Len(builds) \in Nat /\ Len(builds') \in Nat /\ Len(builds) <= Len(builds')
    BY DEF Types, Grows
  <1>3. j.run \in 0 .. Len(builds) /\ j.run \in 0 .. Len(builds')
    BY <1>2 DEF PhaseSound
  <1>4. j.run # 0 => builds'[j.run].mode = builds[j.run].mode
    BY <1>2, <1>3 DEF Grows
  <1>5. AllPhases' = AllPhases
    BY DEF AllPhases, Grows
  <1> QED
    BY <1>1, <1>3, <1>4, <1>5 DEF PhaseSound

LEMMA OrderStays ==
    ASSUME Types, Grows, BuildsInOrder
    PROVE  BuildsInOrder'
  <1>1. DOMAIN builds = 1 .. Len(builds) /\ DOMAIN builds' = 1 .. Len(builds')
    BY DEF Types, Grows
  <1>2. ASSUME NEW i \in DOMAIN builds' PROVE Needs[builds'[i].mode] \subseteq Succeeded
    BY <1>1, <1>2 DEF Grows, BuildsInOrder
  <1> QED
    BY <1>2, SucceededGrows DEF BuildsInOrder

\* How many requests, or runners of a mode, have been made.
BuildsOf(k) == {i \in DOMAIN builds : builds[i].mode = k}
Made(k) == IF k = "request" THEN Len(requests) ELSE Cardinality(BuildsOf(k))

LEMMA BuildsOfFinite ==
    ASSUME Types, NEW k
    PROVE  IsFiniteSet(BuildsOf(k)) /\ Cardinality(BuildsOf(k)) \in Nat
  <1>1. DOMAIN builds = 1 .. Len(builds) /\ Len(builds) \in Nat
    BY DEF Types
  <1>2. IsFiniteSet(1 .. Len(builds))
    BY <1>1, FS_Interval
  <1>3. BuildsOf(k) \subseteq 1 .. Len(builds)
    BY <1>1 DEF BuildsOf
  <1> QED
    BY <1>2, <1>3, FS_Subset, FS_CardinalityType

LEMMA MadeSame ==
    ASSUME Types, Len(requests') = Len(requests),
           builds' \in Seq(BuildRecord), Len(builds') = Len(builds),
           \A i \in 1 .. Len(builds) : builds'[i].mode = builds[i].mode
    PROVE  \A k \in Kinds : Made(k)' = Made(k)
  <1>1. DOMAIN builds = 1 .. Len(builds) /\ DOMAIN builds' = 1 .. Len(builds)
    BY DEF Types
  <1>2. \A k : BuildsOf(k)' = BuildsOf(k)
    BY <1>1 DEF BuildsOf
  <1> QED
    BY <1>2 DEF Made

LEMMA MadeBuild ==
    ASSUME Types, requests' = requests, NEW m \in Modes,
           builds' = Append(builds, [mode |-> m, state |-> "running"])
    PROVE  /\ Made(m)' = Made(m) + 1
           /\ \A k \in Kinds \ {m} : Made(k)' = Made(k)
  <1> DEFINE b == [mode |-> m, state |-> "running"]
             n == Len(builds) + 1
  <1>1. b \in BuildRecord /\ b.mode = m
    BY DEF BuildRecord
  <1>2. builds' = Append(builds, b)
    OBVIOUS
  <1> HIDE DEF b
  <1>3. /\ DOMAIN builds = 1 .. Len(builds) /\ Len(builds) \in Nat
        /\ DOMAIN builds' = 1 .. n /\ builds'[n] = b
        /\ \A i \in 1 .. Len(builds) : builds'[i] = builds[i]
    BY <1>1, <1>2 DEF Types
  <1>4. ASSUME NEW k, k # m PROVE BuildsOf(k)' = BuildsOf(k)
    BY <1>1, <1>3, <1>4 DEF BuildsOf
  <1>5. BuildsOf(m)' = BuildsOf(m) \cup {n}
    BY <1>1, <1>3 DEF BuildsOf
  <1>6. n \notin BuildsOf(m)
    BY <1>3 DEF BuildsOf
  <1>7. Cardinality(BuildsOf(m)') = Cardinality(BuildsOf(m)) + 1
    BY <1>5, <1>6, BuildsOfFinite, FS_AddElement
  <1>8. m # "request"
    BY DEF Modes
  <1> QED
    BY <1>4, <1>7, <1>8 DEF Made

-----------------------------------------------------------------------------
(* What a handler does: it prepares a copy that fits, or leaves.           *)

Counted(w, j, then) ==
    \A k \in Kinds :
      \/ Made(k)' = Made(k) /\ unheard'[k] = unheard[k]
      \/ /\ Made(k)' = Made(k) + 1 /\ unheard'[k] = unheard[k]
         /\ Could(k, inv[w].job) /\ ~ MayMake(k, j, then)
      \/ Made(k)' = Made(k) + 1 /\ unheard'[k] = unheard[k] + 1

CopyStep(w, j, mark, then) ==
    /\ inv[w].pc = "handle"
    /\ Stage(w, j, mark, then)
    /\ Fits(inv[w].job, j, mark, then)
    /\ PhaseSound(j)'
    /\ Grows
    /\ Counted(w, j, then)

LeaveStep(w) ==
    /\ inv[w].pc = "handle"
    /\ Leave(w)
    /\ Grows
    /\ unheard' = unheard
    /\ \A k \in Kinds : Made(k)' = Made(k)

HandlerStep(w) ==
    \/ LeaveStep(w)
    \/ \E j, mark, then : CopyStep(w, j, mark, then)

\* Steps that leave the number and the modes of the builds alone.
Calm ==
    /\ bodyEnabled' = bodyEnabled /\ entered' = entered
    /\ requests' \in Seq({"pending", "made", "failed"}) /\ Len(requests') = Len(requests)
    /\ unheard' = unheard
    /\ builds' \in Seq(BuildRecord) /\ Len(builds') = Len(builds)
    /\ \A i \in 1 .. Len(builds) :
         /\ builds'[i].mode = builds[i].mode
         /\ builds[i].state = "ok" => builds'[i].state = "ok"

LEMMA CalmGrows ==
    ASSUME Types, Calm
    PROVE  Grows /\ \A k \in Kinds : Made(k)' = Made(k)
  <1>1. \A k \in Kinds : Made(k)' = Made(k)
    BY MadeSame DEF Calm
  <1>2. Grows
    BY DEF Types, Calm, Grows
  <1> QED
    BY <1>1, <1>2

LEMMA QuietIsCalm ==
    ASSUME Types, UNCHANGED external, bodyEnabled' = bodyEnabled
    PROVE  Calm
  BY DEF Types, Calm, external

LEMMA CalmCopy ==
    ASSUME Types, Calm, NEW w \in Workers, inv[w].pc = "handle", NEW j, NEW mark, NEW then,
           Stage(w, j, mark, then), Fits(inv[w].job, j, mark, then), PhaseSound(j)
    PROVE  HandlerStep(w)
  <1>1. Grows /\ \A k \in Kinds : Made(k)' = Made(k)
    BY CalmGrows
  <1>2. PhaseSound(j)'
    BY <1>1, PhaseStays DEF Fits
  <1> QED
    BY <1>1, <1>2 DEF HandlerStep, CopyStep, Counted, Calm

\* The call for one more of kind m took effect, and the handler has an error: the
\* copy is tried again, or failed.
LEMMA LostCopy ==
    ASSUME Types, Grows, NEW w \in Workers, inv[w].pc = "handle", Handled(inv[w].job),
           RetryOrFail(w, inv[w].job, "stop") \/ Fail(w, inv[w].job),
           NEW m \in Kinds, Unheard(m), Made(m)' = Made(m) + 1,
           \A k \in Kinds \ {m} : Made(k)' = Made(k)
    PROVE  HandlerStep(w)
  <1>1. PICK o : o = inv[w].job
    OBVIOUS
  <1>2. PICK k : k = [o EXCEPT !.attempts = @ + 1]
    OBVIOUS
  <1>3. o \in JobRecord /\ Sound(o)
    BY <1>1 DEF Handled
  <1>4. /\ k \in JobRecord /\ Sound(k) /\ k.req = o.req /\ k.acct = o.acct
        /\ Fits(o, k, None, "stop")
    BY <1>1, <1>2, AttemptFits
  <1>5. /\ Fits(o, Failed(k), "error", "stop") /\ PhaseSound(Failed(k))
        /\ Fits(o, Failed(o), "error", "stop") /\ PhaseSound(Failed(o))
    BY <1>1, <1>3, <1>4, FailedFits
  <1>6. \/ Stage(w, Failed(k), "error", "stop") \/ Stage(w, k, None, "stop")
        \/ Stage(w, Failed(o), "error", "stop")
    BY <1>1, <1>2 DEF RetryOrFail, Wait, Fail
  <1>7. \A q \in Kinds : unheard'[q] = IF q = m THEN unheard[q] + 1 ELSE unheard[q]
    BY DEF Unheard, Types
  <1>8. \A j : Counted(w, j, "stop")
    BY <1>7 DEF Counted
  <1>9. ASSUME NEW j, NEW mark, Stage(w, j, mark, "stop"), Fits(o, j, mark, "stop"),
               PhaseSound(j)
        PROVE  HandlerStep(w)
    <2>1. PhaseSound(j)'
      BY <1>9, PhaseStays DEF Fits
    <2> QED
      BY <1>1, <1>8, <1>9, <2>1 DEF HandlerStep, CopyStep
  <1> QED
    BY <1>4, <1>5, <1>6, <1>9 DEF Sound

\* retryProvisionJobOrFail and failJob, in whichever handler.
LEMMA RetryCopy ==
    ASSUME Types, Calm, NEW w \in Workers, inv[w].pc = "handle", Handled(inv[w].job),
           NEW then \in {"stop", "assume"},
           then = "assume" => inv[w].job.acct # "foreign" /\ inv[w].job.step = "account.move",
           RetryOrFail(w, inv[w].job, then)
    PROVE  HandlerStep(w)
  <1> DEFINE k == [inv[w].job EXCEPT !.attempts = @ + 1]
  <1>1. /\ k \in JobRecord /\ Sound(k) /\ k.req = inv[w].job.req /\ k.acct = inv[w].job.acct
        /\ Fits(inv[w].job, k, None, "stop")
    BY AttemptFits
  <1>2. Stage(w, Failed(k), "error", then) \/ Stage(w, k, None, "stop")
    BY DEF RetryOrFail, Wait
  <1> HIDE DEF k
  <1>3. PhaseSound(k) /\ PhaseSound(Failed(k)) /\ Fits(inv[w].job, Failed(k), "error", then)
    BY <1>1, FailedFits DEF Sound
  <1> QED
    BY <1>1, <1>2, <1>3, CalmCopy

LEMMA FailCopy ==
    ASSUME Types, Calm, NEW w \in Workers, inv[w].pc = "handle", Handled(inv[w].job),
           Fail(w, inv[w].job)
    PROVE  HandlerStep(w)
  <1>1. Fits(inv[w].job, Failed(inv[w].job), "error", "stop") /\ PhaseSound(Failed(inv[w].job))
    BY FailedFits DEF Handled
  <1> QED
    BY <1>1, CalmCopy DEF Fail

\* What an invocation in a handler works on.
LEMMA HandleGives ==
    ASSUME ProvisionInv, NEW w \in Workers, inv[w].pc = "handle"
    PROVE  /\ Types /\ inv[w] \in InvRecord /\ Handled(inv[w].job)
           /\ inv[w].job \in JobRecord
           /\ inv[w].job.acct = "foreign" =>
                inv[w].job.req = 0 /\ inv[w].job.step \in BeforeEntry
           /\ inv[w].job.consent =>
                inv[w].job.status \in Active /\ inv[w].job.step \in BeforeRunner
                /\ inv[w].job.run = 0
           /\ inv[w].job.status \in {"running", "error"}
           /\ inv[w].job.step \notin BeforeRunner => inv[w].job.status = "running"
  <1>1. inv[w] \in InvRecord /\ InvSound(inv[w])
    BY DEF ProvisionInv, Types
  <1>2. inv[w].job \in JobRecord /\ Sound(inv[w].job) /\ Workable(inv[w].job)
    BY <1>1 DEF InvRecord, InvSound
  <1> QED
    BY <1>1, <1>2 DEF ProvisionInv, Handled, Sound, Workable, AccountSound, ConsentSound

\* A step that stays within a handler's own copy.
LEMMA StepCopy ==
    ASSUME ProvisionInv, Calm, NEW w \in Workers, inv[w].pc = "handle", NEW s \in Steps,
           NEW then \in {"stop", "next"},
           Stage(w, [inv[w].job EXCEPT !.step = s], None, then),
           inv[w].job.acct = "foreign" => s \in BeforeEntry,
           inv[w].job.consent => s \in BeforeRunner,
           s \notin LaterSteps,
           s \in StepsBefore("lesser") => inv[w].job.step \in StepsBefore("lesser"),
           s \in StepsBefore("body") => inv[w].job.step \in StepsBefore("body"),
           s \in StepsBefore("mcp") => inv[w].job.step \in StepsBefore("mcp"),
           then = "next" => s \in BeforeRunner \/ inv[w].job.step \notin BeforeRunner
    PROVE  HandlerStep(w)
  <1> DEFINE j == [inv[w].job EXCEPT !.step = s]
  <1>1. Types /\ Handled(inv[w].job)
    BY HandleGives
  <1>2. Fits(inv[w].job, j, None, then) /\ PhaseSound(j)
    BY <1>1, StepFits
  <1>3. Stage(w, j, None, then)
    OBVIOUS
  <1> HIDE DEF j
  <1> QED
    BY <1>1, <1>2, <1>3, CalmCopy

\* Every step of the allocation of an account, of the names and of the
\* configuration lies before every runner.
LEMMA EarlySteps ==
    \A s \in BeforeRunner : s \in Steps /\ s \notin LaterSteps
      /\ s \in StepsBefore("lesser") /\ s \in StepsBefore("body") /\ s \in StepsBefore("mcp")
  BY DEF Steps, LaterSteps, StepsBefore, BeforeRunner, BodySteps, McpSteps

LEMMA EarlyCopy ==
    ASSUME ProvisionInv, Calm, NEW w \in Workers, inv[w].pc = "handle",
           NEW s \in BeforeRunner, inv[w].job.step \in BeforeRunner,
           NEW then \in {"stop", "next"},
           Stage(w, [inv[w].job EXCEPT !.step = s], None, then),
           inv[w].job.acct = "foreign" => s \in BeforeEntry
    PROVE  HandlerStep(w)
  BY EarlySteps, StepCopy

\* Nothing outside the invocations changes.
LEMMA Quiet ==
    ASSUME ProvisionInv, UNCHANGED external, NEW w, NEW j, NEW mark, NEW then,
           Stage(w, j, mark, then)
    PROVE  Calm
  BY QuietIsCalm DEF Stage, ProvisionInv

LEMMA QuietRetry ==
    ASSUME ProvisionInv, UNCHANGED external, NEW w \in Workers, inv[w].pc = "handle",
           NEW then \in {"stop", "assume"},
           then = "assume" => inv[w].job.acct # "foreign" /\ inv[w].job.step = "account.move",
           RetryOrFail(w, inv[w].job, then)
    PROVE  HandlerStep(w)
  <1>1. bodyEnabled' = bodyEnabled
    BY DEF RetryOrFail, Wait, Stage
  <1>2. Calm
    BY <1>1, QuietIsCalm DEF ProvisionInv
  <1> QED
    BY <1>2, HandleGives, RetryCopy

LEMMA QuietFail ==
    ASSUME ProvisionInv, UNCHANGED external, NEW w \in Workers, inv[w].pc = "handle",
           Fail(w, inv[w].job)
    PROVE  HandlerStep(w)
  <1>1. Calm
    BY Quiet DEF Fail
  <1> QED
    BY <1>1, HandleGives, FailCopy

LEMMA QuietEarly ==
    ASSUME ProvisionInv, UNCHANGED external, NEW w \in Workers, inv[w].pc = "handle",
           NEW s \in BeforeRunner, inv[w].job.step \in BeforeRunner,
           Advance(w, [inv[w].job EXCEPT !.step = s]) \/ Wait(w, [inv[w].job EXCEPT !.step = s]),
           inv[w].job.acct = "foreign" => s \in BeforeEntry
    PROVE  HandlerStep(w)
  <1>1. Calm
    BY Quiet DEF Advance, Wait
  <1> QED
    BY <1>1, EarlyCopy DEF Advance, Wait

LEMMA QueuedHandler ==
    ASSUME ProvisionInv, NEW w \in Workers, AdvanceQueued(w)
    PROVE  HandlerStep(w)
  BY QuietEarly DEF AdvanceQueued, Handling, BeforeRunner, BeforeEntry

LEMMA AccountKnownHandler ==
    ASSUME ProvisionInv, NEW w \in Workers, AccountKnown(w)
    PROVE  HandlerStep(w)
  BY QuietEarly, QuietRetry, QuietFail DEF AccountKnown, Handling, BeforeRunner, BeforeEntry

LEMMA AccountCreateHandler ==
    ASSUME ProvisionInv, NEW w \in Workers, AccountCreate(w)
    PROVE  HandlerStep(w)
  <1> DEFINE o == inv[w].job
             polled == [o EXCEPT !.step = "account.create.poll"]
  <1>1. inv[w].pc = "handle" /\ o.step = "account.create" /\ o.acct = None
    BY DEF AccountCreate, Handling
  <1>2. CASE Wait(w, polled) /\ UNCHANGED external
    BY <1>1, <1>2, QuietEarly DEF BeforeRunner, BeforeEntry
  <1>3. CASE (RetryOrFail(w, o, "stop") \/ Fail(w, o)) /\ UNCHANGED external
    BY <1>1, <1>3, QuietRetry, QuietFail
  <1>5. CASE /\ requests' = Append(requests, "pending")
             /\ RetryOrFail(w, o, "stop") \/ Fail(w, o)
             /\ Unheard("request")
             /\ UNCHANGED <<builds, entered>>
    <2>1. Types /\ Handled(o)
      BY <1>1, HandleGives
    <2>2. /\ requests' \in Seq({"pending", "made", "failed"})
          /\ Len(requests') = Len(requests) + 1
      BY <1>5, <2>1 DEF Types
    <2>3. bodyEnabled' = bodyEnabled
      BY <1>5 DEF RetryOrFail, Fail, Wait, Stage
    <2>4. unheard' \in [Kinds -> Nat] /\ "request" \in Kinds
      BY <1>5, <2>1 DEF Unheard, Types, Kinds
    <2>5. Grows
      BY <1>5, <2>1, <2>2, <2>3, <2>4 DEF Types, Grows
    <2>6. /\ Made("request")' = Made("request") + 1
          /\ \A k \in Kinds \ {"request"} : Made(k)' = Made(k)
      BY <1>5, <2>2 DEF Made, BuildsOf
    <2> QED
      BY <1>1, <1>5, <2>1, <2>4, <2>5, <2>6, LostCopy
  <1>4. CASE /\ o.req = 0
             /\ requests' = Append(requests, "pending")
             /\ Wait(w, [polled EXCEPT !.req = Len(requests')])
             /\ UNCHANGED <<builds, entered, unheard>>
    <2> DEFINE r == Len(requests')
               j == [polled EXCEPT !.req = r]
    <2>1. Types /\ Handled(o) /\ o \in JobRecord /\ Sound(o)
      BY <1>1, HandleGives DEF Handled
    <2>2. /\ requests' \in Seq({"pending", "made", "failed"})
          /\ Len(requests') = Len(requests) + 1 /\ Len(requests) \in Nat
      BY <1>4, <2>1 DEF Types
    <2>4. Stage(w, j, None, "stop") /\ bodyEnabled' = bodyEnabled
      BY <1>4 DEF Wait, Stage
    <2>13. r \in Nat /\ r # 0
      BY <2>2
    <2> HIDE DEF r
    <2>3. /\ j \in JobRecord /\ j.status = o.status /\ j.step = "account.create.poll"
          /\ j.run = o.run /\ j.req # 0 /\ j.acct = None /\ j.consent = o.consent
          /\ j.body = o.body /\ j.mcp = o.mcp
      BY <1>1, <2>1, <2>13 DEF JobRecord, Steps, BeforeRunner
    <2> HIDE DEF j
    <2>5. AccountSound(j) /\ ConsentSound(j) /\ PhaseSound(j)
      BY <1>1, <2>1, <2>3, NoneIsNone
         DEF Sound, AccountSound, ConsentSound, PhaseSound, BeforeRunner, LaterSteps
    <2>6. \A k \in Kinds : MayMake(k, j, "stop") => Could(k, o)
      BY <1>1, <2>3, EarlySteps, Transitive DEF BeforeRunner
    <2>7. Fits(o, j, None, "stop")
      BY <2>3, <2>5, <2>6 DEF Fits
    <2>8. Grows
      BY <1>4, <2>1, <2>2, <2>4 DEF Types, Grows
    <2>9. \A k \in Kinds \ {"request"} : Made(k)' = Made(k)
      BY <1>4 DEF Made, BuildsOf
    <2>10. Made("request")' = Made("request") + 1
      BY <2>2 DEF Made
    <2>11. Could("request", o) /\ ~ MayMake("request", j, "stop")
      BY <1>1, <1>4, <2>3 DEF Could, MayMake
    <2>12. Counted(w, j, "stop")
      BY <1>4, <2>9, <2>10, <2>11 DEF Counted
    <2> QED
      BY <1>1, <2>1, <2>3, <2>4, <2>5, <2>7, <2>8, <2>12, PhaseStays
         DEF HandlerStep, CopyStep
  <1> QED
    BY <1>2, <1>3, <1>4, <1>5 DEF AccountCreate

\* A copy that is written again as it is.
LEMMA SameFits ==
    ASSUME NEW o, Handled(o)
    PROVE  /\ Fits(o, o, None, "stop") /\ PhaseSound(o)
           /\ o.acct # "foreign" /\ o.step = "account.move" => Fits(o, o, None, "assume")
  <1>1. \A k \in Kinds : MayMake(k, o, "stop") => Could(k, o)
    BY DEF MayMake
  <1>2. Fits(o, o, None, "stop") /\ PhaseSound(o)
    BY <1>1 DEF Handled, Sound, Fits
  <1>3. ASSUME o.acct # "foreign", o.step = "account.move"
        PROVE  Fits(o, o, None, "assume")
    <2>1. \A k \in Kinds : MayMake(k, o, "assume") => Could(k, o)
      BY <1>3, EarlySteps DEF MayMake, Could, Kinds, Modes, BeforeRunner
    <2> QED
      BY <1>3, <2>1 DEF Handled, Sound, Workable, Fits
  <1> QED
    BY <1>2, <1>3

\* Organizations' answer about a request.
LEMMA FoundRequest ==
    ASSUME Types, NEW r, NEW state \in {"pending", "made", "failed"},
           requests' = [requests EXCEPT ![r] = state],
           UNCHANGED <<builds, entered, unheard>>, bodyEnabled' = bodyEnabled
    PROVE  Calm
  <1> DEFINE S == {"pending", "made", "failed"}
  <1>1. requests \in [1 .. Len(requests) -> S] /\ Len(requests) \in Nat
    BY DEF Types
  <1>2. requests' \in [1 .. Len(requests) -> S]
    BY <1>1
  <1>3. requests' \in Seq(S) /\ Len(requests') = Len(requests)
    BY <1>1, <1>2
  <1> QED
    BY <1>3 DEF Types, Calm

LEMMA AccountCreatePollHandler ==
    ASSUME ProvisionInv, NEW w \in Workers, AccountCreatePoll(w)
    PROVE  HandlerStep(w)
  <1> DEFINE o == inv[w].job
             own == [o EXCEPT !.acct = "own", !.step = "account.move"]
             Asked(state) == /\ requests' = [requests EXCEPT ![o.req] = state]
                             /\ UNCHANGED <<builds, entered, unheard>>
  <1>1. inv[w].pc = "handle" /\ o.step = "account.create.poll"
    BY DEF AccountCreatePoll, Handling
  <1>2. Types /\ Handled(o) /\ o \in JobRecord /\ Sound(o)
    BY <1>1, HandleGives DEF Handled
  <1>3. CASE Advance(w, [o EXCEPT !.step = "account.move"]) /\ UNCHANGED external
    BY <1>1, <1>3, QuietEarly DEF BeforeRunner, BeforeEntry
  <1>4. CASE Restart(w, o) /\ UNCHANGED external
    BY <1>1, <1>4, QuietEarly DEF Restart, BeforeRunner, BeforeEntry
  <1>5. CASE (RetryOrFail(w, o, "stop") \/ Fail(w, o)) /\ UNCHANGED external
    BY <1>1, <1>5, QuietRetry, QuietFail
  <1>6. CASE Wait(w, o) /\ Asked("pending")
    <2>1. Stage(w, o, None, "stop") /\ bodyEnabled' = bodyEnabled
      BY <1>6 DEF Wait, Stage
    <2> QED
      BY <1>1, <1>2, <1>6, <2>1, FoundRequest, SameFits, CalmCopy
  <1>7. CASE Leave(w) /\ Asked("pending")
    <2>1. bodyEnabled' = bodyEnabled
      BY <1>7 DEF Leave
    <2> QED
      BY <1>1, <1>2, <1>7, <2>1, FoundRequest, CalmGrows DEF HandlerStep, LeaveStep, Calm
  <1>8. CASE o.acct = None /\ o.req # 0 /\ Advance(w, own) /\ Asked("made")
    <2>1. Stage(w, own, None, "next") /\ bodyEnabled' = bodyEnabled
      BY <1>8 DEF Advance, Stage
    <2>2. Calm
      BY <1>2, <1>8, <2>1, FoundRequest
    <2>3. /\ own \in JobRecord /\ own.status = o.status /\ own.step = "account.move"
          /\ own.run = o.run /\ own.req = o.req /\ own.acct = "own"
          /\ own.consent = o.consent /\ own.body = o.body /\ own.mcp = o.mcp
      BY <1>2 DEF JobRecord, Steps, BeforeRunner
    <2> HIDE DEF own
    <2>4. AccountSound(own) /\ ConsentSound(own) /\ PhaseSound(own)
      BY <1>2, <2>3 DEF Sound, AccountSound, ConsentSound, PhaseSound, BeforeRunner, LaterSteps
    <2>5. \A k \in Kinds : MayMake(k, own, "next") => Could(k, o)
      BY <1>1, <1>8, <2>3, EarlySteps, Transitive DEF BeforeRunner
    <2>6. Workable(own)
      BY <1>2, <2>3 DEF Handled, Workable, BeforeRunner
    <2>7. Fits(o, own, None, "next")
      BY <2>3, <2>4, <2>5, <2>6 DEF Fits
    <2> QED
      BY <1>1, <1>2, <2>1, <2>2, <2>4, <2>7, CalmCopy
  <1>9. CASE Fail(w, o) /\ Asked("failed")
    <2>1. bodyEnabled' = bodyEnabled
      BY <1>9 DEF Fail, Stage
    <2> QED
      BY <1>1, <1>2, <1>9, <2>1, FoundRequest, FailCopy
  <1>10. CASE Fail(w, o) /\ UNCHANGED external
    BY <1>1, <1>10, QuietFail
  <1> QED
    BY <1>3, <1>4, <1>5, <1>6, <1>7, <1>8, <1>9, <1>10 DEF AccountCreatePoll

LEMMA AccountMoveHandler ==
    ASSUME ProvisionInv, NEW w \in Workers, AccountMove(w)
    PROVE  HandlerStep(w)
  <1> DEFINE o == inv[w].job
  <1>1. inv[w].pc = "handle" /\ o.step = "account.move"
    BY DEF AccountMove, Handling
  <1>2. Types /\ Handled(o) /\ o \in JobRecord /\ Sound(o)
    BY <1>1, HandleGives DEF Handled
  <1>3. CASE (RetryOrFail(w, o, "stop") \/ Fail(w, o)) /\ UNCHANGED external
    BY <1>1, <1>3, QuietRetry, QuietFail
  <1>4. ASSUME MustValidate(o) => Valid(o)
        PROVE  o.acct # "foreign"
    BY <1>2, <1>4, NoneIsNone DEF MustValidate, Valid, Sound, AccountSound
  <1>5. CASE o.acct # "foreign" /\ UNCHANGED external
             /\ Advance(w, [o EXCEPT !.step = "account.assumeRole"])
    BY <1>1, <1>5, QuietEarly DEF BeforeRunner
  <1>6. CASE o.acct # "foreign" /\ UNCHANGED external /\ RetryOrFail(w, o, "assume")
    BY <1>1, <1>6, QuietRetry
  <1>7. CASE o.acct # "foreign" /\ UNCHANGED external /\ Stage(w, Failed(o), "error", "assume")
    BY <1>1, <1>2, <1>7, FailedFits, Quiet, CalmCopy
  <1>8. CASE o.acct # "foreign" /\ Stage(w, o, None, "assume") /\ Enter(o.acct)
             /\ UNCHANGED <<requests, builds, unheard>>
    <2>1. UNCHANGED external
      BY <1>8 DEF Enter, external
    <2> QED
      BY <1>1, <1>2, <1>8, <2>1, SameFits, Quiet, CalmCopy
  <1> QED
    BY <1>3, <1>4, <1>5, <1>6, <1>7, <1>8 DEF AccountMove

LEMMA AssumeRoleHandler ==
    ASSUME ProvisionInv, NEW w \in Workers, AssumeRole(w)
    PROVE  HandlerStep(w)
  <1> DEFINE o == inv[w].job
  <1>1. inv[w].pc = "handle" /\ o.step = "account.assumeRole"
    BY DEF AssumeRole, Handling
  <1>2. Types /\ Handled(o) /\ o \in JobRecord /\ o.acct # "foreign"
    BY <1>1, HandleGives DEF BeforeEntry
  <1>3. CASE Restart(w, o) /\ UNCHANGED external
    BY <1>1, <1>3, QuietEarly DEF Restart, BeforeRunner, BeforeEntry
  <1>4. CASE (RetryOrFail(w, o, "stop") \/ Fail(w, o)) /\ UNCHANGED external
    BY <1>1, <1>4, QuietRetry, QuietFail
  <1>5. CASE Wait(w, o) /\ UNCHANGED external
    BY <1>1, <1>2, <1>5, SameFits, Quiet, CalmCopy DEF Wait
  <1>6. CASE Advance(w, [o EXCEPT !.step = "dns.childZone"]) /\ Enter(o.acct)
             /\ UNCHANGED <<requests, builds, unheard>>
    <2>1. UNCHANGED external
      BY <1>2, <1>6 DEF Enter, external
    <2> QED
      BY <1>1, <1>2, <1>6, <2>1, QuietEarly DEF BeforeRunner
  <1> QED
    BY <1>3, <1>4, <1>5, <1>6 DEF AssumeRole

LEMMA ConfigurationHandlers ==
    ASSUME ProvisionInv, NEW w \in Workers,
           ChildZone(w) \/ ParentDelegation(w) \/ InstanceConfig(w)
    PROVE  HandlerStep(w)
  <1> DEFINE o == inv[w].job
  <1>1. ASSUME NEW s \in BeforeRunner \ BeforeEntry, NEW t \in BeforeRunner,
               DoneOrRetry(w, s, t)
        PROVE  HandlerStep(w)
    <2>1. inv[w].pc = "handle" /\ o.step = s
      BY <1>1 DEF DoneOrRetry, Handling
    <2>2. o.acct # "foreign"
      BY <2>1, <1>1, HandleGives
    <2> QED
      BY <1>1, <2>1, <2>2, QuietEarly, QuietRetry DEF DoneOrRetry
  <1>2. CASE Handling(w, "instance.config") /\ Fail(w, o) /\ UNCHANGED external
    BY <1>2, QuietFail DEF Handling
  <1> QED
    BY <1>1, <1>2 DEF ChildZone, ParentDelegation, InstanceConfig, BeforeRunner, BeforeEntry

\* A step whose copy relies on what it has just found out about the builds.
LEMMA FreshCopy ==
    ASSUME Types, Calm, NEW w \in Workers, inv[w].pc = "handle", NEW j, NEW mark, NEW then,
           Stage(w, j, mark, then), Fits(inv[w].job, j, mark, then), PhaseSound(j)'
    PROVE  HandlerStep(w)
  BY CalmGrows DEF HandlerStep, CopyStep, Counted, Calm

\* StartBuild, for a job that waits for the runner next.
LEMMA StartBuildHandler ==
    ASSUME ProvisionInv, NEW w \in Workers, inv[w].pc = "handle", NEW o, o = inv[w].job,
           NEW m \in Modes, NEW j,
           j \in JobRecord, StartBuild(w, m, o, j),
           Needs[m] \subseteq Succeeded, "lesser" \in Succeeded \/ m = "lesser",
           o.acct # "foreign", o.step \in StepsBefore(m),
           j.status = o.status, j.acct = o.acct, j.req = o.req,
           j.body = o.body, j.mcp = o.mcp, j.consent = FALSE,
           \/ m = "lesser" /\ j.step = "deploy.wait"
           \/ m = "body" /\ j.step = "body.deploy.wait"
           \/ m = "mcp" /\ j.step = "deploy.mcp.wait" /\ j.body
    PROVE  HandlerStep(w)
  <1> DEFINE With(r) == [j EXCEPT !.run = r]
             new == [mode |-> m, state |-> "running"]
  <1>1. Types /\ Handled(o) /\ o \in JobRecord /\ Sound(o)
        /\ o.status \in {"running", "error"}
    BY HandleGives DEF Handled
  <1>2. Len(builds) \in Nat /\ DOMAIN builds = 1 .. Len(builds)
    BY <1>1 DEF Types
  <1>3. ASSUME NEW r \in Nat
        PROVE  /\ With(r) \in JobRecord /\ With(r).status = o.status /\ With(r).step = j.step
               /\ With(r).run = r /\ With(r).req = o.req /\ With(r).acct = o.acct
               /\ With(r).consent = FALSE /\ With(r).body = o.body /\ With(r).mcp = o.mcp
    BY <1>3 DEF JobRecord
  <1> HIDE DEF With
  <1>4. \A k \in Modes : j.step \in StepsBefore(k) => o.step \in StepsBefore(k)
    BY DEF StepsBefore, Modes, BeforeRunner, BodySteps, McpSteps
  <1>5. j.step \notin StepsBefore(m)
    BY DEF StepsBefore, BeforeRunner, BodySteps, McpSteps
  <1>6. ASSUME NEW r \in Nat PROVE Fits(o, With(r), None, "stop")
    <2>1. AccountSound(With(r)) /\ ConsentSound(With(r))
      BY <1>3 DEF AccountSound, ConsentSound
    <2>2. \A k \in Kinds : MayMake(k, With(r), "stop") => Could(k, o)
      BY <1>3, <1>4, Transitive DEF Modes
    <2> QED
      BY <1>3, <2>1, <2>2 DEF Fits
  <1>7. ASSUME Grows, NEW r \in 1 .. Len(builds'), builds'[r].mode = m
        PROVE  PhaseSound(With(r))'
    <2>1. PhaseSound(o)' /\ Succeeded \subseteq Succeeded'
      BY <1>1, <1>7, PhaseStays, SucceededGrows DEF Sound
    <2>2. Len(builds') \in Nat
      BY <1>7 DEF Grows
    <2>3. r \in Nat /\ r \in 0 .. Len(builds')
      BY <2>2
    <2> DEFINE k == With(r)
    <2>4. /\ k.status = o.status /\ k.step = j.step /\ k.run = r
          /\ k.body = o.body /\ k.mcp = o.mcp
      BY <1>3, <2>3
    <2>5. \A x : x = k => PhaseSound(x)'
      <3> TAKE x
      <3> HAVE x = k
      <3>1. /\ x.status = o.status /\ x.step = j.step /\ x.run = r
            /\ x.body = o.body /\ x.mcp = o.mcp
        BY <2>4
      <3>2. (x.body => "body" \in Succeeded') /\ (x.mcp => "mcp" \in Succeeded')
        BY <1>1, <2>1, <3>1 DEF Sound, PhaseSound
      <3> QED
        BY <1>1, <1>7, <2>1, <2>3, <3>1, <3>2 DEF PhaseSound, LaterSteps
    <2> QED
      BY <2>5
  <1>8. ASSUME NEW r \in 1 .. Len(builds), builds[r].mode = m, Wait(w, With(r)),
               Enter(o.acct), UNCHANGED <<requests, builds, unheard>>
        PROVE  HandlerStep(w)
    <2>1. UNCHANGED external
      BY <1>8 DEF Enter, external
    <2>2. Calm /\ Stage(w, With(r), None, "stop")
      BY <1>8, <2>1, Quiet DEF Wait
    <2>3. Grows
      BY <1>1, <2>2, CalmGrows
    <2>4. PhaseSound(With(r))'
      BY <1>7, <1>8, <2>3
    <2> QED
      BY <1>1, <1>2, <1>6, <2>2, <2>4, FreshCopy
  <1>10. ASSUME builds' = Append(builds, new), RetryOrFail(w, o, "stop"), Unheard(m),
                Enter(o.acct), requests' = requests
         PROVE  HandlerStep(w)
    <2>1. Made(m)' = Made(m) + 1 /\ \A k \in Kinds \ {m} : Made(k)' = Made(k)
      BY <1>1, <1>10, MadeBuild
    <2>2. new \in BuildRecord /\ new.mode = m
      BY DEF BuildRecord
    <2> HIDE DEF new
    <2>3. /\ builds' \in Seq(BuildRecord) /\ Len(builds') = Len(builds) + 1
          /\ builds'[Len(builds) + 1] = new
          /\ \A i \in 1 .. Len(builds) : builds'[i] = builds[i]
      BY <1>1, <1>10, <2>2 DEF Types
    <2>4. \A i \in 1 .. Len(builds') : i \notin 1 .. Len(builds) => builds'[i] = new
      BY <1>2, <2>3
    <2>5. entered' = entered /\ bodyEnabled' = bodyEnabled
      BY <1>10 DEF Enter, RetryOrFail, Wait, Stage
    <2>6. unheard' \in [Kinds -> Nat] /\ m \in Kinds
      BY <1>1, <1>10 DEF Unheard, Types, Kinds
    <2>7. Grows
      BY <1>1, <1>2, <1>10, <2>2, <2>3, <2>4, <2>5, <2>6 DEF Grows, Types
    <2> QED
      BY <1>1, <1>10, <2>1, <2>6, <2>7, LostCopy
  <1>9. ASSUME builds' = Append(builds, new), Wait(w, With(Len(builds'))), Enter(o.acct),
               requests' = requests, unheard' = unheard
        PROVE  HandlerStep(w)
    <2>1. PICK r : r = Len(builds')
      OBVIOUS
    <2>2. new \in BuildRecord /\ new.mode = m
      BY DEF BuildRecord
    <2> HIDE DEF new
    <2>3. /\ builds' \in Seq(BuildRecord) /\ r = Len(builds) + 1 /\ builds'[r] = new
          /\ \A i \in 1 .. Len(builds) : builds'[i] = builds[i]
      BY <1>1, <1>9, <2>1, <2>2 DEF Types
    <2>4. r \in Nat /\ r \in 1 .. Len(builds')
      BY <1>2, <2>1, <2>3
    <2>5. entered' = entered
      BY <1>9 DEF Enter
    <2>6. Stage(w, With(r), None, "stop") /\ bodyEnabled' = bodyEnabled
      BY <1>9, <2>1 DEF Wait, Stage
    <2>7. \A i \in 1 .. Len(builds') : i \notin 1 .. Len(builds) => builds'[i] = new
      BY <1>2, <2>1, <2>3
    <2>8. Grows
      BY <1>1, <1>2, <1>9, <2>1, <2>2, <2>3, <2>5, <2>6, <2>7 DEF Grows, Types
    <2>9. PhaseSound(With(r))'
      BY <1>7, <2>2, <2>3, <2>4, <2>8
    <2>10. Made(m)' = Made(m) + 1 /\ \A k \in Kinds \ {m} : Made(k)' = Made(k)
      BY <1>1, <1>9, MadeBuild DEF new
    <2>11. Could(m, o) /\ ~ MayMake(m, With(r), "stop")
      BY <1>3, <1>5, <2>4 DEF Could, MayMake, Modes
    <2>12. Counted(w, With(r), "stop")
      BY <1>9, <2>10, <2>11 DEF Counted
    <2> QED
      BY <1>6, <2>4, <2>6, <2>8, <2>9, <2>12 DEF HandlerStep, CopyStep
  <1> QED
    <2>1. CASE \E i \in {x \in DOMAIN builds : builds[x].mode = m} :
                 Wait(w, With(i)) /\ Enter(o.acct) /\ UNCHANGED <<requests, builds, unheard>>
      BY <1>2, <1>8, <2>1
    <2>2. CASE /\ builds' = Append(builds, new) /\ Wait(w, With(Len(builds')))
               /\ Enter(o.acct) /\ UNCHANGED <<requests, unheard>>
      BY <1>9, <2>2
    <2>3. CASE /\ builds' = Append(builds, new) /\ RetryOrFail(w, o, "stop")
               /\ Unheard(m) /\ Enter(o.acct) /\ UNCHANGED requests
      BY <1>10, <2>3
    <2> QED
      BY <2>1, <2>2, <2>3 DEF StartBuild, With

LEMMA DeployStartHandler ==
    ASSUME ProvisionInv, NEW w \in Workers, DeployStart(w)
    PROVE  HandlerStep(w)
  <1>1. PICK o : o = inv[w].job
    OBVIOUS
  <1> DEFINE waiting == [o EXCEPT !.step = "deploy.wait", !.consent = FALSE]
  <1>2. inv[w].pc = "handle" /\ o.step = "deploy.start"
    BY <1>1 DEF DeployStart, Handling
  <1>3. Types /\ Handled(o) /\ o \in JobRecord /\ Sound(o) /\ o.acct # "foreign"
    BY <1>1, <1>2, HandleGives DEF BeforeEntry, Handled
  <1>4. /\ waiting \in JobRecord /\ waiting.status = o.status /\ waiting.step = "deploy.wait"
        /\ waiting.run = o.run /\ waiting.req = o.req /\ waiting.acct = o.acct
        /\ waiting.consent = FALSE /\ waiting.body = o.body /\ waiting.mcp = o.mcp
    BY <1>3 DEF JobRecord, Steps
  <1>5. CASE Wait(w, waiting) /\ UNCHANGED external
    <2>1. Stage(w, waiting, None, "stop")
      BY <1>5 DEF Wait
    <2> HIDE DEF waiting
    <2>2. AccountSound(waiting) /\ ConsentSound(waiting) /\ PhaseSound(waiting)
      BY <1>3, <1>4 DEF Sound, AccountSound, ConsentSound, PhaseSound, LaterSteps
    <2>3. \A k \in Kinds : MayMake(k, waiting, "stop") => Could(k, o)
      BY <1>2, <1>4, EarlySteps, Transitive DEF BeforeRunner
    <2>4. Fits(o, waiting, None, "stop")
      BY <1>4, <2>2, <2>3 DEF Fits
    <2> QED
      BY <1>1, <1>2, <1>3, <1>5, <2>1, <2>2, <2>4, Quiet, CalmCopy
  <1>6. CASE (RetryOrFail(w, o, "stop") \/ Fail(w, o)) /\ UNCHANGED external
    BY <1>1, <1>2, <1>6, QuietRetry, QuietFail
  <1>7. CASE StartBuild(w, "lesser", o, waiting)
    <2> HIDE DEF waiting
    <2>1. Needs["lesser"] = {} /\ "lesser" \in Modes
      BY DEF Needs, Modes
    <2>2. o.step \in StepsBefore("lesser")
      BY <1>2, EarlySteps DEF BeforeRunner
    <2> QED
      BY <1>1, <1>2, <1>3, <1>4, <1>7, <2>1, <2>2, StartBuildHandler
  <1> QED
    BY <1>1, <1>5, <1>6, <1>7 DEF DeployStart

\* CodeBuild's answer about a runner.
FoundRunner(w, state) ==
    /\ inv[w].job.run # 0
    /\ builds[inv[w].job.run].state \in {"running", state}
    /\ builds' = [builds EXCEPT ![inv[w].job.run].state = state]
    /\ UNCHANGED <<requests, entered, unheard>>

LEMMA FoundRunnerCalm ==
    ASSUME ProvisionInv, NEW w \in Workers, inv[w].pc = "handle",
           NEW state \in {"running", "ok", "bad"}, FoundRunner(w, state),
           bodyEnabled' = bodyEnabled
    PROVE  /\ Calm
           /\ state = "ok" => builds[inv[w].job.run].mode \in Succeeded'
           /\ inv[w].job.run \in 1 .. Len(builds)
  <1>1. PICK r : r = inv[w].job.run
    OBVIOUS
  <1>2. Types /\ r \in Nat /\ r \in 0 .. Len(builds) /\ r # 0
    BY <1>1, HandleGives DEF Handled, Sound, PhaseSound, FoundRunner, JobRecord
  <1>3. Len(builds) \in Nat /\ builds \in [1 .. Len(builds) -> BuildRecord]
    BY <1>2 DEF Types
  <1>4. r \in 1 .. Len(builds)
    BY <1>2, <1>3
  <1> DEFINE b == [builds[r] EXCEPT !.state = state]
  <1>5. builds' = [builds EXCEPT ![r] = b]
    BY <1>1 DEF FoundRunner
  <1>6. b \in BuildRecord /\ b.mode = builds[r].mode /\ b.state = state
    BY <1>3, <1>4 DEF BuildRecord
  <1> HIDE DEF b
  <1>7. builds' \in [1 .. Len(builds) -> BuildRecord] /\ builds'[r] = b
        /\ \A i \in 1 .. Len(builds) : i # r => builds'[i] = builds[i]
    BY <1>3, <1>4, <1>5, <1>6
  <1>8. builds' \in Seq(BuildRecord) /\ Len(builds') = Len(builds)
    BY <1>3, <1>7
  <1>9. builds[r].state = "ok" => state = "ok"
    BY <1>1 DEF FoundRunner
  <1>10. Calm
    BY <1>2, <1>6, <1>7, <1>8, <1>9 DEF Calm, Types, FoundRunner
  <1>11. state = "ok" => builds[r].mode \in Succeeded'
    BY <1>4, <1>6, <1>7, SucceededIs
  <1> QED
    BY <1>1, <1>4, <1>10, <1>11

\* What the three wait steps have in common.
LEMMA PollHandler ==
    ASSUME ProvisionInv, NEW w \in Workers, inv[w].pc = "handle",
           \/ RetryOrFail(w, inv[w].job, "stop") /\ UNCHANGED external
           \/ FoundRunner(w, "bad") /\ Fail(w, inv[w].job)
           \/ FoundRunner(w, "running") /\ (Fail(w, inv[w].job) \/ Wait(w, inv[w].job))
    PROVE  HandlerStep(w)
  <1>1. Types /\ Handled(inv[w].job)
    BY HandleGives
  <1>2. CASE RetryOrFail(w, inv[w].job, "stop") /\ UNCHANGED external
    BY <1>2, QuietRetry
  <1>3. ASSUME NEW s \in {"bad", "running"}, FoundRunner(w, s), Fail(w, inv[w].job)
        PROVE  HandlerStep(w)
    BY <1>1, <1>3, FoundRunnerCalm, FailCopy DEF Fail, Stage
  <1>4. CASE FoundRunner(w, "running") /\ Wait(w, inv[w].job)
    <2>1. Stage(w, inv[w].job, None, "stop") /\ bodyEnabled' = bodyEnabled
      BY <1>4 DEF Wait, Stage
    <2> QED
      BY <1>1, <1>4, <2>1, FoundRunnerCalm, SameFits, CalmCopy
  <1> QED
    BY <1>2, <1>3, <1>4

LEMMA DeployWaitHandler ==
    ASSUME ProvisionInv, NEW w \in Workers, DeployWait(w)
    PROVE  HandlerStep(w)
  <1> DEFINE j == [inv[w].job EXCEPT !.step = "receipt.ingest"]
  <1>1. inv[w].pc = "handle" /\ inv[w].job.step = "deploy.wait"
    BY DEF DeployWait, PollRunner, Handling
  <1>2. CASE FoundRunner(w, "ok") /\ Advance(w, j)
    <2>1. Stage(w, j, None, "next") /\ bodyEnabled' = bodyEnabled
      BY <1>2 DEF Advance, Stage
    <2>2. Calm
      BY <1>1, <1>2, <2>1, FoundRunnerCalm
    <2>3. inv[w].job.acct # "foreign" /\ ~ inv[w].job.consent
      BY <1>1, HandleGives DEF BeforeEntry, BeforeRunner
    <2>4. /\ "receipt.ingest" \in Steps /\ "receipt.ingest" \notin LaterSteps
          /\ "receipt.ingest" \notin StepsBefore("lesser")
          /\ "deploy.wait" \in StepsBefore("body") /\ "deploy.wait" \in StepsBefore("mcp")
          /\ "deploy.wait" \notin BeforeRunner
      BY DEF Steps, LaterSteps, StepsBefore, BeforeRunner, BodySteps, McpSteps
    <2> QED
      BY <1>1, <2>1, <2>2, <2>3, <2>4, StepCopy
  <1> QED
    BY <1>1, <1>2, PollHandler DEF DeployWait, PollRunner, FoundRunner

\* A job that is done with everything: its builds have all succeeded.
LEMMA DoneFits ==
    ASSUME NEW o \in JobRecord, NEW j, j = [o EXCEPT !.status = "ok", !.step = "done"],
           o.acct # "foreign", ~ o.consent
    PROVE  /\ Fits(o, j, "ok", "stop")
           /\ j.status = "ok" /\ j.step = "done" /\ j.run = o.run
           /\ j.body = o.body /\ j.mcp = o.mcp
  <1>1. /\ j \in JobRecord /\ j.status = "ok" /\ j.step = "done" /\ j.run = o.run
        /\ j.req = o.req /\ j.acct = o.acct /\ j.consent = o.consent
        /\ j.body = o.body /\ j.mcp = o.mcp
    BY DEF JobRecord, Steps
  <1>2. AccountSound(j) /\ ConsentSound(j)
    BY <1>1 DEF AccountSound, ConsentSound
  <1>3. "done" \notin StepsBefore("lesser") /\ "done" \notin StepsBefore("body")
        /\ "done" \notin StepsBefore("mcp")
    BY DEF StepsBefore, BeforeRunner, BodySteps, McpSteps
  <1>4. \A k \in Kinds : MayMake(k, j, "stop") => Could(k, o)
    BY <1>1, <1>3, Transitive
  <1> QED
    BY <1>1, <1>2, <1>4 DEF Fits

LEMMA DoneCopy ==
    ASSUME ProvisionInv, UNCHANGED external, NEW w \in Workers, inv[w].pc = "handle",
           inv[w].job.step \notin BeforeRunner, inv[w].job.step # "failed",
           AllPhases \subseteq Succeeded, Done(w, inv[w].job)
    PROVE  HandlerStep(w)
  <1>1. PICK j : j = [inv[w].job EXCEPT !.status = "ok", !.step = "done"]
    OBVIOUS
  <1>2. Types /\ inv[w].job \in JobRecord /\ PhaseSound(inv[w].job)
        /\ inv[w].job.acct # "foreign" /\ ~ inv[w].job.consent
    BY HandleGives DEF Handled, Sound, BeforeEntry, BeforeRunner
  <1>3. /\ Fits(inv[w].job, j, "ok", "stop")
        /\ j.status = "ok" /\ j.step = "done" /\ j.run = inv[w].job.run
        /\ j.body = inv[w].job.body /\ j.mcp = inv[w].job.mcp
    BY <1>1, <1>2, DoneFits
  <1>4. PhaseSound(j)
    BY <1>2, <1>3 DEF PhaseSound, LaterSteps
  <1>5. Stage(w, j, "ok", "stop")
    BY <1>1 DEF Done
  <1> QED
    BY <1>2, <1>3, <1>4, <1>5, Quiet, CalmCopy

\* MCP wiring comes last.
LEMMA McpMeansAll ==
    ASSUME ProvisionInv, "mcp" \in Succeeded
    PROVE  Modes \subseteq Succeeded
  <1>1. PICK i \in DOMAIN builds : builds[i].mode = "mcp"
    BY SucceededIs
  <1>2. Needs["mcp"] \subseteq Succeeded
    BY <1>1 DEF ProvisionInv, BuildsInOrder
  <1> QED
    BY <1>2 DEF Needs, Modes

\* What is known at the steps after the Lesser runner.
LEMMA LaterGives ==
    ASSUME ProvisionInv, NEW w \in Workers, inv[w].pc = "handle",
           inv[w].job.step \notin BeforeRunner, inv[w].job.step # "failed"
    PROVE  /\ Types /\ Handled(inv[w].job) /\ inv[w].job \in JobRecord
           /\ PhaseSound(inv[w].job) /\ inv[w].job.status = "running"
           /\ inv[w].job.acct # "foreign" /\ inv[w].job.consent = FALSE
  <1>1. /\ Types /\ Handled(inv[w].job) /\ inv[w].job \in JobRecord
        /\ inv[w].job.status = "running"
        /\ inv[w].job.acct # "foreign" /\ ~ inv[w].job.consent
    BY HandleGives DEF BeforeEntry, BeforeRunner
  <1>2. inv[w].job.consent \in BOOLEAN
    BY <1>1 DEF JobRecord
  <1> QED
    BY <1>1, <1>2 DEF Handled, Sound

LEMMA StepOrder ==
    /\ "receipt.ingest" \in StepsBefore("body") /\ "receipt.ingest" \in StepsBefore("mcp")
    /\ "body.deploy.start" \in StepsBefore("body") /\ "body.deploy.start" \in StepsBefore("mcp")
    /\ "body.deploy.wait" \notin StepsBefore("body") /\ "body.deploy.wait" \in StepsBefore("mcp")
    /\ "deploy.mcp.start" \notin StepsBefore("body") /\ "deploy.mcp.start" \in StepsBefore("mcp")
    /\ "deploy.mcp.wait" \notin StepsBefore("body") /\ "deploy.mcp.wait" \notin StepsBefore("mcp")
    /\ \A s \in LaterSteps \cup {"receipt.ingest"} : s \notin StepsBefore("lesser")
    /\ \A s \in LaterSteps \cup {"receipt.ingest"} :
         s \notin BeforeRunner /\ s \in Steps /\ s # "failed"
  BY DEF StepsBefore, BeforeRunner, BodySteps, McpSteps, LaterSteps, Steps

LEMMA ReceiptIngestHandler ==
    ASSUME ProvisionInv, NEW w \in Workers, ReceiptIngest(w)
    PROVE  HandlerStep(w)
  <1> DEFINE o == inv[w].job
  <1>1. inv[w].pc = "handle" /\ o.step = "receipt.ingest" /\ UNCHANGED external
    BY DEF ReceiptIngest, Handling
  <1>2. /\ Types /\ Handled(o) /\ o \in JobRecord /\ PhaseSound(o)
        /\ o.status = "running" /\ o.acct # "foreign" /\ o.consent = FALSE
    BY <1>1, StepOrder, LaterGives
  <1>3. CASE RetryOrFail(w, o, "stop") \/ Fail(w, o)
    BY <1>1, <1>3, QuietRetry, QuietFail
  <1>4. CASE "lesser" \in Succeeded /\ Stage(w, NextPhase(o), "running", "next")
    <2>1. PICK j : j = NextPhase(o)
      OBVIOUS
    <2>2. /\ j \in JobRecord /\ j.status = "running" /\ j.run = 0
          /\ j.req = o.req /\ j.acct = o.acct /\ j.consent = FALSE
          /\ j.body = o.body /\ j.mcp = o.mcp
          /\ j.step = IF o.body THEN "deploy.mcp.start" ELSE "body.deploy.start"
      BY <1>2, <2>1 DEF NextPhase, JobRecord, Steps
    <2>3. AccountSound(j) /\ ConsentSound(j) /\ Workable(j)
      BY <1>2, <2>2 DEF AccountSound, ConsentSound, Workable
    <2>4. Len(builds) \in Nat
      BY <1>2 DEF Types
    <2>5. PhaseSound(j)
      BY <1>2, <1>4, <2>2, <2>4 DEF PhaseSound
    <2>6. \A k \in Kinds : MayMake(k, j, "next") => Could(k, o)
      BY <1>1, <2>2, StepOrder, Transitive DEF LaterSteps
    <2>7. Fits(o, j, "running", "next")
      BY <2>2, <2>3, <2>6 DEF Fits
    <2> QED
      BY <1>1, <1>2, <1>4, <2>1, <2>5, <2>7, Quiet, CalmCopy
  <1>5. CASE "lesser" \in Succeeded /\ ~ (bodyEnabled /\ ~ o.mcp) /\ Done(w, o)
    <2>1. AllPhases \subseteq Succeeded
      BY <1>2, <1>5, McpMeansAll DEF AllPhases, PhaseSound
    <2> QED
      BY <1>1, <1>5, <2>1, StepOrder, DoneCopy
  <1> QED
    BY <1>3, <1>4, <1>5 DEF ReceiptIngest

LEMMA BodyDeployStartHandler ==
    ASSUME ProvisionInv, NEW w \in Workers, BodyDeployStart(w)
    PROVE  HandlerStep(w)
  <1>1. PICK o : o = inv[w].job
    OBVIOUS
  <1>2. inv[w].pc = "handle" /\ o.step = "body.deploy.start"
    BY <1>1 DEF BodyDeployStart, Handling
  <1>3. /\ Types /\ Handled(o) /\ o \in JobRecord /\ PhaseSound(o)
        /\ o.status = "running" /\ o.acct # "foreign" /\ o.consent = FALSE
    BY <1>1, <1>2, StepOrder, LaterGives DEF LaterSteps
  <1>4. "lesser" \in Succeeded /\ o.run = 0
    BY <1>2, <1>3 DEF PhaseSound, LaterSteps
  <1>5. CASE ~ bodyEnabled /\ Done(w, o) /\ UNCHANGED external
    BY <1>1, <1>2, <1>4, <1>5, StepOrder, DoneCopy DEF AllPhases, LaterSteps
  <1>6. CASE (RetryOrFail(w, o, "stop") \/ Fail(w, o)) /\ UNCHANGED external
    BY <1>1, <1>2, <1>6, QuietRetry, QuietFail
  <1>7. CASE /\ o.body /\ UNCHANGED external
             /\ Advance(w, [o EXCEPT !.step = "deploy.mcp.start", !.run = 0])
    <2>1. PICK j : j = [o EXCEPT !.step = "deploy.mcp.start", !.run = 0]
      OBVIOUS
    <2>2. /\ j \in JobRecord /\ j.status = "running" /\ j.run = 0
          /\ j.req = o.req /\ j.acct = o.acct /\ j.consent = FALSE
          /\ j.body = o.body /\ j.mcp = o.mcp /\ j.step = "deploy.mcp.start"
      BY <1>3, <2>1 DEF JobRecord, Steps
    <2>3. AccountSound(j) /\ ConsentSound(j) /\ Workable(j)
      BY <1>3, <2>2 DEF AccountSound, ConsentSound, Workable
    <2>4. Len(builds) \in Nat
      BY <1>3 DEF Types
    <2>5. PhaseSound(j)
      BY <1>3, <1>4, <1>7, <2>2, <2>4 DEF PhaseSound
    <2>6. \A k \in Kinds : MayMake(k, j, "next") => Could(k, o)
      BY <1>2, <2>2, StepOrder, Transitive DEF LaterSteps
    <2>7. Fits(o, j, None, "next")
      BY <1>3, <2>2, <2>3, <2>6 DEF Fits
    <2>8. Stage(w, j, None, "next")
      BY <1>7, <2>1 DEF Advance
    <2> QED
      BY <1>1, <1>2, <1>3, <1>7, <2>5, <2>7, <2>8, Quiet, CalmCopy
  <1>8. CASE StartBuild(w, "body", o, [o EXCEPT !.step = "body.deploy.wait"])
    <2>1. PICK j : j = [o EXCEPT !.step = "body.deploy.wait"]
      OBVIOUS
    <2>2. /\ j \in JobRecord /\ j.status = o.status
          /\ j.req = o.req /\ j.acct = o.acct /\ j.consent = FALSE
          /\ j.body = o.body /\ j.mcp = o.mcp /\ j.step = "body.deploy.wait"
      BY <1>3, <2>1 DEF JobRecord, Steps
    <2>3. Needs["body"] \subseteq Succeeded /\ "body" \in Modes
      BY <1>4 DEF Needs, Modes
    <2>4. StartBuild(w, "body", o, j) /\ o.step \in StepsBefore("body")
      BY <1>2, <1>8, <2>1, StepOrder
    <2> QED
      BY <1>1, <1>2, <1>3, <1>4, <2>2, <2>3, <2>4, StartBuildHandler
  <1> QED
    BY <1>1, <1>4, <1>5, <1>6, <1>7, <1>8 DEF BodyDeployStart

LEMMA BodyDeployWaitHandler ==
    ASSUME ProvisionInv, NEW w \in Workers, BodyDeployWait(w)
    PROVE  HandlerStep(w)
  <1>1. PICK o : o = inv[w].job
    OBVIOUS
  <1>2. inv[w].pc = "handle" /\ o.step = "body.deploy.wait"
    BY <1>1 DEF BodyDeployWait, PollRunner, Handling
  <1>3. /\ Types /\ Handled(o) /\ o \in JobRecord /\ PhaseSound(o)
        /\ o.status = "running" /\ o.acct # "foreign" /\ o.consent = FALSE
    BY <1>1, <1>2, StepOrder, LaterGives DEF LaterSteps
  <1>4. PICK j : j = [o EXCEPT !.body = TRUE, !.run = 0, !.step = "deploy.mcp.start"]
    OBVIOUS
  <1>5. CASE FoundRunner(w, "ok") /\ Advance(w, j)
    <2>1. Stage(w, j, None, "next") /\ bodyEnabled' = bodyEnabled
      BY <1>5 DEF Advance, Stage
    <2>2. Calm /\ builds[o.run].mode \in Succeeded' /\ o.run # 0
      BY <1>1, <1>2, <1>5, <2>1, FoundRunnerCalm DEF FoundRunner
    <2>3. "body" \in Succeeded'
      BY <1>2, <1>3, <2>2 DEF PhaseSound
    <2>4. /\ j \in JobRecord /\ j.status = "running" /\ j.run = 0
          /\ j.req = o.req /\ j.acct = o.acct /\ j.consent = FALSE
          /\ j.body = TRUE /\ j.mcp = o.mcp /\ j.step = "deploy.mcp.start"
      BY <1>3, <1>4 DEF JobRecord, Steps
    <2>5. AccountSound(j) /\ ConsentSound(j) /\ Workable(j)
      BY <1>3, <2>4 DEF AccountSound, ConsentSound, Workable
    <2>6. Grows /\ PhaseSound(o)'
      BY <1>3, <2>2, CalmGrows, PhaseStays
    <2>7. Len(builds') \in Nat
      BY <2>6 DEF Grows
    <2>8. PhaseSound(j)'
      BY <1>2, <2>3, <2>4, <2>6, <2>7 DEF PhaseSound, LaterSteps
    <2>9. \A k \in Kinds : MayMake(k, j, "next") => Could(k, o)
      BY <1>2, <2>4, StepOrder, Transitive DEF LaterSteps
    <2>10. Fits(o, j, None, "next")
      BY <1>3, <2>4, <2>5, <2>9 DEF Fits
    <2> QED
      BY <1>1, <1>2, <1>3, <2>1, <2>2, <2>8, <2>10, FreshCopy
  <1> QED
    BY <1>1, <1>2, <1>4, <1>5, PollHandler DEF BodyDeployWait, PollRunner, FoundRunner

LEMMA DeployMcpStartHandler ==
    ASSUME ProvisionInv, NEW w \in Workers, DeployMcpStart(w)
    PROVE  HandlerStep(w)
  <1>1. PICK o : o = inv[w].job
    OBVIOUS
  <1>2. inv[w].pc = "handle" /\ o.step = "deploy.mcp.start"
    BY <1>1 DEF DeployMcpStart, Handling
  <1>3. /\ Types /\ Handled(o) /\ o \in JobRecord /\ PhaseSound(o)
        /\ o.status = "running" /\ o.acct # "foreign" /\ o.consent = FALSE
    BY <1>1, <1>2, StepOrder, LaterGives DEF LaterSteps
  <1>4. "lesser" \in Succeeded /\ o.run = 0 /\ o.body /\ "body" \in Succeeded
    BY <1>2, <1>3 DEF PhaseSound, LaterSteps
  <1>5. CASE ~ bodyEnabled /\ Done(w, o) /\ UNCHANGED external
    BY <1>1, <1>2, <1>4, <1>5, StepOrder, DoneCopy DEF AllPhases, LaterSteps
  <1>6. CASE o.mcp /\ Done(w, o) /\ UNCHANGED external
    <2>1. AllPhases \subseteq Succeeded
      BY <1>3, <1>4, <1>6, McpMeansAll DEF AllPhases, PhaseSound
    <2> QED
      BY <1>1, <1>2, <1>6, <2>1, StepOrder, DoneCopy DEF LaterSteps
  <1>7. CASE RetryOrFail(w, o, "stop") /\ UNCHANGED external
    BY <1>1, <1>2, <1>7, QuietRetry
  <1>8. CASE StartBuild(w, "mcp", o, [o EXCEPT !.step = "deploy.mcp.wait"])
    <2>1. PICK j : j = [o EXCEPT !.step = "deploy.mcp.wait"]
      OBVIOUS
    <2>2. /\ j \in JobRecord /\ j.status = o.status
          /\ j.req = o.req /\ j.acct = o.acct /\ j.consent = FALSE
          /\ j.body = o.body /\ j.mcp = o.mcp /\ j.step = "deploy.mcp.wait"
      BY <1>3, <2>1 DEF JobRecord, Steps
    <2>3. Needs["mcp"] \subseteq Succeeded /\ "mcp" \in Modes
      BY <1>4 DEF Needs, Modes
    <2>4. StartBuild(w, "mcp", o, j) /\ o.step \in StepsBefore("mcp")
      BY <1>2, <1>8, <2>1, StepOrder
    <2> QED
      BY <1>1, <1>2, <1>3, <1>4, <2>2, <2>3, <2>4, StartBuildHandler
  <1> QED
    BY <1>1, <1>4, <1>5, <1>6, <1>7, <1>8 DEF DeployMcpStart

LEMMA DeployMcpWaitHandler ==
    ASSUME ProvisionInv, NEW w \in Workers, DeployMcpWait(w)
    PROVE  HandlerStep(w)
  <1>1. PICK o : o = inv[w].job
    OBVIOUS
  <1>2. inv[w].pc = "handle" /\ o.step = "deploy.mcp.wait"
    BY <1>1 DEF DeployMcpWait, PollRunner, Handling
  <1>3. /\ Types /\ Handled(o) /\ o \in JobRecord /\ PhaseSound(o)
        /\ o.status = "running" /\ o.acct # "foreign" /\ o.consent = FALSE
    BY <1>1, <1>2, StepOrder, LaterGives DEF LaterSteps
  <1>4. PICK p : p = [o EXCEPT !.mcp = TRUE, !.run = 0]
    OBVIOUS
  <1>5. PICK j : j = [p EXCEPT !.status = "ok", !.step = "done"]
    OBVIOUS
  <1>6. CASE FoundRunner(w, "ok") /\ Done(w, p)
    <2>1. Stage(w, j, "ok", "stop") /\ bodyEnabled' = bodyEnabled
      BY <1>5, <1>6 DEF Done, Stage
    <2>2. Calm /\ builds[o.run].mode \in Succeeded' /\ o.run # 0
      BY <1>1, <1>2, <1>6, <2>1, FoundRunnerCalm DEF FoundRunner
    <2>3. "mcp" \in Succeeded'
      BY <1>2, <1>3, <2>2 DEF PhaseSound
    <2>4. Grows /\ PhaseSound(o)'
      BY <1>3, <2>2, CalmGrows, PhaseStays
    <2>5. Modes \subseteq Succeeded'
      BY <1>2, <2>3, <2>4 DEF PhaseSound, LaterSteps, Modes
    <2>6. /\ j \in JobRecord /\ j.status = "ok" /\ j.run = 0
          /\ j.req = o.req /\ j.acct = o.acct /\ j.consent = FALSE
          /\ j.body = o.body /\ j.mcp = TRUE /\ j.step = "done"
      BY <1>3, <1>4, <1>5 DEF JobRecord, Steps
    <2>7. AccountSound(j) /\ ConsentSound(j)
      BY <1>3, <2>6 DEF AccountSound, ConsentSound
    <2>8. Len(builds') \in Nat /\ AllPhases' \subseteq Modes
      BY <2>4 DEF Grows, AllPhases, Modes
    <2>9. PhaseSound(j)'
      BY <2>5, <2>6, <2>8 DEF PhaseSound, LaterSteps, Modes
    <2>10. \A k \in Modes : "done" \notin StepsBefore(k)
      BY DEF Modes, StepsBefore, BeforeRunner, BodySteps, McpSteps
    <2>11. \A k \in Kinds : MayMake(k, j, "stop") => Could(k, o)
      BY <2>6, <2>10, Transitive DEF Modes
    <2>12. Fits(o, j, "ok", "stop")
      BY <2>6, <2>7, <2>11 DEF Fits
    <2> QED
      BY <1>1, <1>2, <1>3, <2>1, <2>2, <2>9, <2>12, FreshCopy
  <1> QED
    BY <1>1, <1>2, <1>4, <1>6, PollHandler DEF DeployMcpWait, PollRunner, FoundRunner

LEMMA HandlersAreHandlerSteps ==
    ASSUME ProvisionInv, NEW w \in Workers, Handle(w)
    PROVE  HandlerStep(w)
  BY QueuedHandler, AccountKnownHandler, AccountCreateHandler, AccountCreatePollHandler,
     AccountMoveHandler, AssumeRoleHandler, ConfigurationHandlers, DeployStartHandler,
     DeployWaitHandler, ReceiptIngestHandler, BodyDeployStartHandler,
     BodyDeployWaitHandler, DeployMcpStartHandler, DeployMcpWaitHandler DEF Handle

-----------------------------------------------------------------------------
(* The steps preserve the invariant.                                       *)

LEMMA IdleFacts ==
    /\ NewJob \in JobRecord
    /\ Idle \in InvRecord
    /\ Idle.pc = "idle" /\ Idle.job = NewJob /\ Idle.mark = None /\ Idle.then = "stop"
  <1>1. NewJob \in JobRecord
    BY DEF NewJob, JobRecord, Steps, BeforeRunner
  <1> QED
    BY <1>1 DEF Idle, InvRecord

\* A fresh job is sound, and so is an invocation that is not under way.
LEMMA IdleSound ==
    ASSUME Types
    PROVE  Sound(NewJob) /\ InvSound(Idle)
  <1>1. /\ NewJob.status = "queued" /\ NewJob.step = "queued" /\ NewJob.run = 0
        /\ NewJob.acct = None /\ NewJob.body = FALSE /\ NewJob.mcp = FALSE
    BY DEF NewJob
  <1>2. Len(builds) \in Nat
    BY DEF Types
  <1>3. AccountSound(NewJob) /\ ConsentSound(NewJob)
    BY <1>1, NoneIsNone DEF AccountSound, ConsentSound, Active, BeforeRunner
  <1>4. PhaseSound(NewJob)
    BY <1>1, <1>2 DEF PhaseSound, LaterSteps
  <1> QED
    BY <1>3, <1>4, IdleFacts DEF Sound, InvSound

LEMMA IdleStays ==
    ASSUME Types, Grows
    PROVE  InvSound(Idle)'
  <1>1. Sound(NewJob) /\ NewJob \in JobRecord
    BY IdleSound, IdleFacts
  <1>2. PhaseSound(NewJob)'
    BY <1>1, PhaseStays DEF Sound
  <1>3. Sound(NewJob)'
    BY <1>1, <1>2 DEF Sound, AccountSound, ConsentSound
  <1> QED
    BY <1>3, IdleFacts DEF InvSound

LEMMA SoundStays ==
    ASSUME Types, Grows, NEW j \in JobRecord, Sound(j)
    PROVE  Sound(j)'
  <1>1. PhaseSound(j)'
    BY PhaseStays DEF Sound
  <1> QED
    BY <1>1 DEF Sound, AccountSound, ConsentSound

\* An invocation that does not move stays sound while the builds grow.
LEMMA InvStays ==
    ASSUME Types, Grows, NEW i \in InvRecord, InvSound(i)
    PROVE  InvSound(i)'
  <1>1. i.job \in JobRecord
    BY DEF InvRecord
  <1>2. Sound(i.job)'
    BY <1>1, SoundStays DEF InvSound
  <1> QED
    BY <1>2 DEF InvSound, Workable

\* What every step has to show: the builds grow, what it writes is sound, the
\* copies it replaces are, and the status is still shown as it should be.
LEMMA StepPreserves ==
    ASSUME ProvisionInv, Grows,
           overlapped' \in BOOLEAN, clock' \in Nat, mishaps' \in Nat, retries' \in Nat,
           row' \in JobRecord, Sound(row)',
           inv' \in [Workers -> InvRecord],
           \A v \in Workers : inv'[v] = inv[v] \/ InvSound(inv[v])',
           Accord'
    PROVE  ProvisionInv'
  <1>1. Types
    BY DEF ProvisionInv
  <1>2. Types'
    BY <1>1 DEF Types, Grows
  <1>3. ASSUME NEW v \in Workers PROVE InvSound(inv[v])'
    <2>1. CASE InvSound(inv[v])'
      BY <2>1
    <2>2. CASE inv'[v] = inv[v]
      <3>1. PICK i : i = inv[v]
        OBVIOUS
      <3>2. i \in InvRecord /\ InvSound(i)
        BY <1>1, <3>1 DEF ProvisionInv, Types
      <3>3. InvSound(i)'
        BY <1>1, <3>2, InvStays
      <3> QED
        BY <2>2, <3>1, <3>3
    <2> QED
      BY <2>1, <2>2
  <1>4. BuildsInOrder'
    BY <1>1, OrderStays DEF ProvisionInv
  <1>5. EntersOnlyValidated'
    BY DEF ProvisionInv, EntersOnlyValidated, Grows
  <1> QED
    BY <1>2, <1>3, <1>4, <1>5 DEF ProvisionInv

\* The same, of a step by invocation w alone that leaves the row.
LEMMA MovePreserves ==
    ASSUME ProvisionInv, Grows, NEW w \in Workers, NEW i \in InvRecord,
           inv' = [inv EXCEPT ![w] = i], InvSound(i)', row' = row,
           overlapped' \in BOOLEAN, clock' \in Nat, mishaps' \in Nat, retries' \in Nat,
           Accord'
    PROVE  ProvisionInv'
  <1>1. Types
    BY DEF ProvisionInv
  <1>2. /\ inv' \in [Workers -> InvRecord] /\ inv'[w] = i
        /\ \A v \in Workers \ {w} : inv'[v] = inv[v]
    BY <1>1 DEF Types
  <1>3. \A v \in Workers : inv'[v] = inv[v] \/ InvSound(inv[v])'
    BY <1>2
  <1>4. PICK r : r = row
    OBVIOUS
  <1>5. r \in JobRecord /\ Sound(r)
    BY <1>1, <1>4 DEF ProvisionInv, Types
  <1>6. Sound(r)'
    BY <1>1, <1>5, SoundStays
  <1>7. Sound(row)'
    BY <1>4, <1>6
  <1> QED
    BY <1>2, <1>3, <1>4, <1>5, <1>7, StepPreserves

LEMMA QuietTypes ==
    ASSUME Types, UNCHANGED <<bodyEnabled, external>>
    PROVE  Grows
  BY QuietIsCalm, CalmGrows

\* A handler's copy is one its invocation may write.
LEMMA CopyPreserves ==
    ASSUME ProvisionInv, NEW w \in Workers, NEW j, NEW mark, NEW then,
           CopyStep(w, j, mark, then)
    PROVE  ProvisionInv'
  <1>1. PICK b : b = IF then = "stop" THEN Idle ELSE inv[w]
    OBVIOUS
  <1>2. PICK i : i = [b EXCEPT !.pc = "put", !.job = j, !.mark = mark, !.then = then]
    OBVIOUS
  <1>3. Types /\ Grows /\ inv[w] \in InvRecord
    BY DEF ProvisionInv, Types, CopyStep
  <1>4. b \in InvRecord
    BY <1>1, <1>3, IdleFacts
  <1>5. /\ inv' = [inv EXCEPT ![w] = i]
        /\ UNCHANGED <<bodyEnabled, clock, row, inst, retries, mishaps, overlapped>>
    BY <1>1, <1>2 DEF CopyStep, Stage, shared, history
  <1>6. Fits(inv[w].job, j, mark, then) /\ PhaseSound(j)' /\ inv[w].pc = "handle"
    BY DEF CopyStep
  <1>7. /\ j \in JobRecord /\ then \in {"stop", "next", "assume"}
        /\ mark \in {None, "running", "ok", "error"}
        /\ mark = None => j.status = inv[w].job.status
        /\ mark # None => j.status = mark
        /\ AccountSound(j) /\ ConsentSound(j) /\ (j.consent => inv[w].job.consent)
        /\ then = "assume" => j.acct # "foreign" /\ j.status \in {"running", "error"}
        /\ then = "next" => Workable(j)
    BY <1>6, NoneIsNone DEF Fits
  <1>8. i \in InvRecord /\ i.pc = "put" /\ i.job = j /\ i.mark = mark /\ i.then = then
    BY <1>2, <1>4, <1>7 DEF InvRecord
  <1>9. InvSound(i)'
    <2>1. Sound(i.job)'
      BY <1>6, <1>7, <1>8 DEF Sound, AccountSound, ConsentSound
    <2> QED
      BY <1>7, <1>8, <2>1 DEF InvSound, Workable
  <1>10. Accord'
    <2>1. /\ inv'[w] = i
          /\ \A v \in Workers \ {w} : inv'[v] = inv[v]
      BY <1>3, <1>5 DEF Types
    <2> QED
      BY <1>5, <1>6, <1>7, <1>8, <2>1 DEF ProvisionInv, Accord
  <1>11. overlapped' \in BOOLEAN /\ clock' \in Nat /\ mishaps' \in Nat /\ retries' \in Nat
    BY <1>3, <1>5 DEF Types
  <1> QED
    BY <1>3, <1>5, <1>8, <1>9, <1>10, <1>11, MovePreserves

\* An invocation that ends, having written nothing, changes nothing.
LEMMA EndPreserves ==
    ASSUME ProvisionInv, NEW w \in Workers, Grows, inv' = [inv EXCEPT ![w] = Idle],
           UNCHANGED <<clock, row, inst, retries, overlapped>>, mishaps' \in Nat
    PROVE  ProvisionInv'
  <1>1. Types
    BY DEF ProvisionInv
  <1>2. Idle \in InvRecord /\ InvSound(Idle)' /\ Idle.pc = "idle"
    BY <1>1, IdleFacts, IdleStays
  <1>3. /\ inv'[w] = Idle
        /\ \A v \in Workers \ {w} : inv'[v] = inv[v]
    BY <1>1 DEF Types
  <1>4. Accord'
    BY <1>2, <1>3 DEF ProvisionInv, Accord
  <1>5. overlapped' \in BOOLEAN /\ clock' \in Nat /\ retries' \in Nat
    BY <1>1 DEF Types
  <1> QED
    BY <1>2, <1>4, <1>5, MovePreserves

LEMMA HandlePreserves ==
    ASSUME ProvisionInv, NEW w \in Workers, Handle(w)
    PROVE  ProvisionInv'
  <1>1. HandlerStep(w)
    BY HandlersAreHandlerSteps
  <1>2. CASE LeaveStep(w)
    BY <1>2, EndPreserves DEF LeaveStep, Leave, shared, history, ProvisionInv, Types
  <1>3. CASE \E j, mark, then : CopyStep(w, j, mark, then)
    BY <1>3, CopyPreserves
  <1> QED
    BY <1>1, <1>2, <1>3 DEF HandlerStep

LEMMA DiesPreserves ==
    ASSUME ProvisionInv, NEW w \in Workers, Dies(w)
    PROVE  ProvisionInv'
  <1>1. Types
    BY DEF ProvisionInv
  <1>2. Grows /\ mishaps' \in Nat
    BY <1>1, QuietTypes DEF Dies, Types
  <1> QED
    BY <1>2, EndPreserves DEF Dies, shared

LEMMA FailedSound ==
    ASSUME NEW j \in JobRecord, Sound(j)
    PROVE  Sound(Failed(j))
  <1>1. PICK f : f = Failed(j)
    OBVIOUS
  <1>2. /\ f \in JobRecord /\ f.status = "error" /\ f.step = "failed" /\ f.consent = FALSE
        /\ f.acct = j.acct /\ f.req = j.req /\ f.run = j.run
        /\ f.body = j.body /\ f.mcp = j.mcp
    BY <1>1, FailedFields
  <1>3. AccountSound(f) /\ ConsentSound(f)
    BY <1>2 DEF Sound, AccountSound, ConsentSound, BeforeEntry
  <1>4. PhaseSound(f)
    BY <1>2 DEF Sound, PhaseSound, LaterSteps
  <1> QED
    BY <1>1, <1>3, <1>4 DEF Sound

\* An invocation begins, on a copy of the row, or to write it as failed.
LEMMA BeginPreserves ==
    ASSUME ProvisionInv, NEW w \in Workers, NEW i \in InvRecord,
           inv' = [inv EXCEPT ![w] = i], Begins, InvSound(i),
           i.pc = "handle" \/ (i.pc = "put" /\ i.mark = None) => i.job.status = row.status,
           i.job.consent => row.consent,
           UNCHANGED <<bodyEnabled, clock, row, inst, external, retries>>
    PROVE  ProvisionInv'
  <1>1. Types
    BY DEF ProvisionInv
  <1>2. Grows /\ clock' \in Nat /\ retries' \in Nat
    BY <1>1, QuietTypes DEF Types
  <1>3. mishaps' \in Nat /\ overlapped' \in BOOLEAN
    BY <1>1 DEF Types, Begins, Alone
  <1>4. InvSound(i)'
    BY <1>1, <1>2, InvStays
  <1>5. /\ inv'[w] = i
        /\ \A v \in Workers \ {w} : inv'[v] = inv[v]
    BY <1>1 DEF Types
  <1>6. Accord'
    <2>1. CASE overlapped'
      BY <2>1 DEF Accord
    <2>2. CASE ~ overlapped'
      <3>1. ~ overlapped /\ \A v \in Workers : inv[v].pc = "idle"
        BY <2>2 DEF Begins, Alone
      <3>2. inst' = row'.status
        BY <3>1 DEF ProvisionInv, Accord
      <3>3. \A v \in Workers : inv'[v].pc # "idle" => v = w
        BY <1>5, <3>1
      <3> QED
        BY <1>5, <3>2, <3>3 DEF Accord
    <2> QED
      BY <2>1, <2>2
  <1> QED
    BY <1>2, <1>3, <1>4, <1>6, MovePreserves

LEMMA FailingPreserves ==
    ASSUME ProvisionInv, NEW w \in Workers, Begins,
           inv' = [inv EXCEPT ![w] = [Idle EXCEPT !.pc = "put", !.job = Failed(row),
                                                  !.mark = "error"]],
           UNCHANGED <<bodyEnabled, clock, row, inst, external, retries>>
    PROVE  ProvisionInv'
  <1>1. PICK f : f = Failed(row)
    OBVIOUS
  <1>2. PICK i : i = [Idle EXCEPT !.pc = "put", !.job = f, !.mark = "error"]
    OBVIOUS
  <1>3. f \in JobRecord /\ Sound(f) /\ f.status = "error" /\ f.consent = FALSE
    BY <1>1, FailedFields, FailedSound DEF ProvisionInv, Types
  <1>4. i \in InvRecord /\ i.pc = "put" /\ i.job = f /\ i.mark = "error" /\ i.then = "stop"
    BY <1>2, <1>3, IdleFacts DEF InvRecord
  <1>5. InvSound(i)
    BY <1>3, <1>4 DEF InvSound
  <1> QED
    BY <1>1, <1>2, <1>3, <1>4, <1>5, NoneIsNone, BeginPreserves

LEMMA SweepPreserves ==
    ASSUME ProvisionInv, NEW w \in Workers, Sweep(w)
    PROVE  ProvisionInv'
  BY FailingPreserves DEF Sweep, shared

\* The invocation an unfinished row begins with.
LEMMA BegunFacts ==
    ASSUME ProvisionInv, NEW b,
           b = [Idle EXCEPT !.job = row, !.now = clock, !.left = MaxTransitions]
    PROVE  b \in InvRecord /\ b.job = row /\ b.then = "stop"
  <1>1. PICK z : z = Idle
    OBVIOUS
  <1>2. PICK r : r = row
    OBVIOUS
  <1>3. /\ z \in InvRecord /\ z.then = "stop" /\ r \in JobRecord
        /\ MaxTransitions \in Int /\ clock \in Nat
    BY <1>1, <1>2, IdleFacts, ProvisionConstants DEF ProvisionInv, Types
  <1>4. b = [z EXCEPT !.job = r, !.now = clock, !.left = MaxTransitions]
    BY <1>1, <1>2
  <1> QED
    BY <1>2, <1>3, <1>4 DEF InvRecord

LEMMA LoadPreserves ==
    ASSUME ProvisionInv, NEW w \in Workers, Load(w)
    PROVE  ProvisionInv'
  <1> DEFINE begun == [Idle EXCEPT !.job = row, !.now = clock, !.left = MaxTransitions]
  <1>1. Types /\ row \in JobRecord /\ clock \in Nat /\ Sound(row) /\ MaxTransitions \in Nat
    BY ProvisionConstants DEF ProvisionInv, Types
  <1>2. Begins /\ UNCHANGED <<bodyEnabled, clock, row, inst, external, retries>>
    BY DEF Load, shared
  <1>6. PICK b : b = begun
    OBVIOUS
  <1>7. b \in InvRecord /\ b.job = row /\ b.then = "stop"
    BY <1>6, BegunFacts
  <1>3. CASE inv' = [inv EXCEPT ![w] = [Idle EXCEPT !.pc = "put", !.job = Failed(row),
                                                    !.mark = "error"]]
    BY <1>2, <1>3, FailingPreserves
  <1>4. CASE inv' = [inv EXCEPT ![w] =
                 [begun EXCEPT !.pc = "put", !.mark = "running", !.then = "begin",
                               !.job.status = "running", !.job.step = "queued"]]
    <2>1. PICK j : j = [row EXCEPT !.status = "running", !.step = "queued"]
      OBVIOUS
    <2>2. /\ j \in JobRecord /\ j.status = "running" /\ j.step = "queued"
          /\ j.run = row.run /\ j.req = row.req /\ j.acct = row.acct
          /\ j.consent = row.consent /\ j.body = row.body /\ j.mcp = row.mcp
      BY <1>1, <2>1 DEF JobRecord, Steps, BeforeRunner
    <2>3. AccountSound(j) /\ ConsentSound(j) /\ Workable(j)
      BY <1>1, <2>2 DEF Sound, AccountSound, ConsentSound, Workable, BeforeEntry,
                        BeforeRunner, Active
    <2>4. PhaseSound(j)
      BY <1>1, <2>2 DEF Sound, PhaseSound, LaterSteps
    <2>5. PICK i : i = [begun EXCEPT !.pc = "put", !.mark = "running", !.then = "begin",
                                     !.job.status = "running", !.job.step = "queued"]
      OBVIOUS
    <2>6. /\ i \in InvRecord /\ i.pc = "put" /\ i.job = j /\ i.mark = "running"
          /\ i.then = "begin"
      BY <1>1, <1>6, <1>7, <2>1, <2>2, <2>5 DEF InvRecord
    <2>7. InvSound(i)
      BY <2>2, <2>3, <2>4, <2>6 DEF InvSound, Sound
    <2> QED
      BY <1>2, <1>4, <2>2, <2>5, <2>6, <2>7, NoneIsNone, BeginPreserves
  <1>5. CASE row.status = "running" /\ inv' = [inv EXCEPT ![w] = [begun EXCEPT !.pc = "handle"]]
    <2>1. PICK i : i = [begun EXCEPT !.pc = "handle"]
      OBVIOUS
    <2>2. i \in InvRecord /\ i.pc = "handle" /\ i.job = row /\ i.then = "stop"
      BY <1>1, <1>6, <1>7, <2>1 DEF InvRecord
    <2>3. InvSound(i)
      BY <1>1, <1>5, <2>2 DEF InvSound, Workable
    <2> QED
      BY <1>2, <1>5, <2>1, <2>2, <2>3, BeginPreserves
  <1> QED
    BY <1>3, <1>4, <1>5 DEF Load

\* Where Put leaves the invocation: moved on to the role, at the next handler,
\* or ended.
LEMMA PutGives ==
    ASSUME ProvisionInv, NEW w \in Workers, Put(w), NEW i, i = inv[w]
    PROVE  \E n \in InvRecord :
             /\ inv' = [inv EXCEPT ![w] = n]
             /\ InvSound(n)
             /\ \/ n.pc = "idle"
                \/ /\ n.pc \in {"put", "handle"} /\ n.job.status = i.job.status
                   /\ n.job.acct = i.job.acct /\ n.job.req = i.job.req
                   /\ n.job.consent = i.job.consent
                   /\ n.then # "assume"
                   /\ i.then = "assume" \/ n.job.step = i.job.step
  <1>1. Types /\ i \in InvRecord /\ InvSound(i) /\ i.pc = "put"
    BY DEF ProvisionInv, Types, Put
  <1>2. i.job \in JobRecord /\ Sound(i.job)
    BY <1>1 DEF InvRecord, InvSound
  <1>3. CASE i.then = "assume" /\ inv' = [inv EXCEPT ![w] =
                 [i EXCEPT !.job.step = "account.assumeRole", !.mark = None, !.then = "next"]]
    <2>1. PICK j : j = [i.job EXCEPT !.step = "account.assumeRole"]
      OBVIOUS
    <2>2. PICK n : n = [i EXCEPT !.job.step = "account.assumeRole",
                                 !.mark = None, !.then = "next"]
      OBVIOUS
    <2>3. /\ j \in JobRecord /\ j.status = i.job.status /\ j.step = "account.assumeRole"
          /\ j.run = i.job.run /\ j.req = i.job.req /\ j.acct = i.job.acct
          /\ j.consent = i.job.consent /\ j.body = i.job.body /\ j.mcp = i.job.mcp
      BY <1>2, <2>1 DEF JobRecord, Steps, BeforeRunner
    <2>4. n \in InvRecord /\ n.pc = "put" /\ n.job = j /\ n.mark = None /\ n.then = "next"
      BY <1>1, <1>2, <2>1, <2>2, <2>3 DEF InvRecord
    <2>5. AccountSound(j) /\ ConsentSound(j) /\ Workable(j)
      BY <1>1, <1>2, <1>3, <2>3 DEF InvSound, Sound, AccountSound, ConsentSound, Workable,
                                    BeforeRunner
    <2>6. PhaseSound(j)
      BY <1>2, <2>3 DEF Sound, PhaseSound, LaterSteps
    <2>7. InvSound(n)
      BY <2>4, <2>5, <2>6 DEF InvSound, Sound
    <2> QED
      BY <1>3, <2>2, <2>3, <2>4, <2>7
  <1>4. ASSUME NEW more \in Int, i.then \in {"begin", "next"},
               inv' = [inv EXCEPT ![w] =
                 [i EXCEPT !.pc = "handle", !.left = more, !.mark = None, !.then = "stop"]]
        PROVE  \E n \in InvRecord :
                 /\ inv' = [inv EXCEPT ![w] = n] /\ InvSound(n)
                 /\ n.pc = "handle" /\ n.job = i.job /\ n.then = "stop"
    <2>1. PICK n : n = [i EXCEPT !.pc = "handle", !.left = more, !.mark = None,
                                 !.then = "stop"]
      OBVIOUS
    <2>2. n \in InvRecord /\ n.pc = "handle" /\ n.job = i.job /\ n.then = "stop"
      BY <1>1, <1>4, <2>1 DEF InvRecord
    <2>3. InvSound(n)
      BY <1>1, <1>2, <1>4, <2>2 DEF InvSound
    <2> QED
      BY <1>4, <2>1, <2>2, <2>3
  <1>5. CASE inv' = [inv EXCEPT ![w] = Idle]
    BY <1>1, <1>5, IdleFacts, IdleSound
  <1>6. i.left \in Int /\ i.left - 1 \in Int
    BY <1>1 DEF InvRecord
  <1>7. PICK more \in Int :
          \/ i.then = "assume" /\ inv' = [inv EXCEPT ![w] =
               [i EXCEPT !.job.step = "account.assumeRole", !.mark = None, !.then = "next"]]
          \/ i.then \in {"begin", "next"} /\ inv' = [inv EXCEPT ![w] =
               [i EXCEPT !.pc = "handle", !.left = more, !.mark = None, !.then = "stop"]]
          \/ inv' = [inv EXCEPT ![w] = Idle]
    BY <1>6 DEF Put
  <1> QED
    BY <1>3, <1>4, <1>5, <1>7

LEMMA PutPreserves ==
    ASSUME ProvisionInv, NEW w \in Workers, Put(w)
    PROVE  ProvisionInv'
  <1>1. PICK i : i = inv[w]
    OBVIOUS
  <1>2. PICK n \in InvRecord :
             /\ inv' = [inv EXCEPT ![w] = n] /\ InvSound(n)
             /\ \/ n.pc = "idle"
                \/ n.job.status = i.job.status /\ n.job.consent = i.job.consent
    BY <1>1, PutGives
  <1>3. Types /\ i \in InvRecord /\ InvSound(i) /\ i.pc = "put"
    BY <1>1 DEF ProvisionInv, Types, Put
  <1>4. /\ row' = i.job /\ inst' = (IF i.mark = None THEN inst ELSE i.mark)
        /\ UNCHANGED <<bodyEnabled, clock, external, retries, mishaps, overlapped>>
    BY <1>1 DEF Put, history
  <1>5. Grows /\ clock' \in Nat /\ retries' \in Nat /\ mishaps' \in Nat /\ overlapped' \in BOOLEAN
    BY <1>3, <1>4, QuietTypes DEF Types
  <1>6. /\ inv' \in [Workers -> InvRecord] /\ inv'[w] = n
        /\ \A v \in Workers \ {w} : inv'[v] = inv[v]
    BY <1>2, <1>3 DEF Types
  <1>7. InvSound(n)'
    BY <1>2, <1>3, <1>5, InvStays
  <1>8. \A v \in Workers : inv'[v] = inv[v] \/ InvSound(inv[v])'
    BY <1>6, <1>7
  <1>9. row' \in JobRecord /\ Sound(row)'
    <2>1. PICK j : j = i.job
      OBVIOUS
    <2>2. j \in JobRecord /\ Sound(j)
      BY <1>3, <2>1 DEF InvRecord, InvSound
    <2>3. Sound(j)'
      BY <1>3, <1>5, <2>2, SoundStays
    <2> QED
      BY <1>4, <2>1, <2>2, <2>3
  <1>10. Accord'
    BY <1>1, <1>2, <1>3, <1>4, <1>6 DEF ProvisionInv, Accord, InvSound
  <1> QED
    BY <1>5, <1>6, <1>8, <1>9, <1>10, StepPreserves

\* The operator finds a failed job, whose consent is gone, and queues it again.
LEMMA IntervenesPreserves ==
    ASSUME ProvisionInv, Intervenes, NEW j \in JobRecord, row' = j, j.status = "queued",
           j.step \in {"queued", "account.move"}, j.run = row.run, j.consent = row.consent,
           j.body = row.body, j.mcp = row.mcp,
           j.acct = "foreign" => j.req = 0
    PROVE  ProvisionInv'
  <1>1. Types /\ Sound(row) /\ row.status = "error"
    BY DEF ProvisionInv, Intervenes
  <1>2. /\ inst' = "queued" /\ Begins
        /\ UNCHANGED <<bodyEnabled, clock, inv, external>> /\ retries' = retries + 1
    BY DEF Intervenes
  <1>3. Grows /\ clock' \in Nat /\ retries' \in Nat /\ mishaps' \in Nat /\ overlapped' \in BOOLEAN
    BY <1>1, <1>2, QuietTypes DEF Types, Begins, Alone
  <1>4. AccountSound(j) /\ ConsentSound(j)
    BY <1>1 DEF Sound, AccountSound, ConsentSound, Active, BeforeEntry
  <1>5. PhaseSound(j)
    BY <1>1 DEF Sound, PhaseSound, LaterSteps
  <1>6. Sound(j)'
    BY <1>1, <1>3, <1>4, <1>5, SoundStays DEF Sound
  <1>7. Accord'
    BY <1>2 DEF ProvisionInv, Accord, Begins, Alone
  <1>8. inv' \in [Workers -> InvRecord] /\ \A v \in Workers : inv'[v] = inv[v]
    BY <1>1, <1>2 DEF Types
  <1> QED
    BY <1>3, <1>6, <1>7, <1>8, StepPreserves

LEMMA OperatorPreserves ==
    ASSUME ProvisionInv, Retry \/ \E a \in {"own", "foreign"} : Adopt(a)
    PROVE  ProvisionInv'
  <1>1. row \in JobRecord /\ Sound(row)
    BY DEF ProvisionInv, Types
  <1>2. CASE Retry
    <2>1. PICK j : j = [row EXCEPT !.status = "queued", !.step = "queued", !.attempts = 0]
      OBVIOUS
    <2>2. /\ j \in JobRecord /\ j.status = "queued" /\ j.step = "queued"
          /\ j.run = row.run /\ j.req = row.req /\ j.acct = row.acct
          /\ j.consent = row.consent /\ j.body = row.body /\ j.mcp = row.mcp
      BY <1>1, <2>1 DEF JobRecord, Steps, BeforeRunner
    <2>3. j.acct = "foreign" => j.req = 0
      BY <1>1, <2>2 DEF Sound, AccountSound
    <2> QED
      BY <1>2, <2>1, <2>2, <2>3, IntervenesPreserves DEF Retry
  <1>3. ASSUME NEW a \in {"own", "foreign"}, Adopt(a) PROVE ProvisionInv'
    <2>1. PICK j : j = [row EXCEPT !.status = "queued", !.step = "account.move",
                                   !.attempts = 0, !.acct = a, !.req = 0]
      OBVIOUS
    <2>2. /\ j \in JobRecord /\ j.status = "queued" /\ j.step = "account.move"
          /\ j.run = row.run /\ j.req = 0 /\ j.acct = a
          /\ j.consent = row.consent /\ j.body = row.body /\ j.mcp = row.mcp
      BY <1>1, <2>1 DEF JobRecord, Steps, BeforeRunner
    <2> QED
      BY <1>3, <2>1, <2>2, IntervenesPreserves DEF Adopt
  <1> QED
    BY <1>2, <1>3

LEMMA StillPreserves ==
    ASSUME ProvisionInv, Tick \/ UNCHANGED vars
    PROVE  ProvisionInv'
  <1>1. Types /\ Sound(row)
    BY DEF ProvisionInv
  <1>2. /\ UNCHANGED <<bodyEnabled, row, inst, inv, external, retries, mishaps, overlapped>>
        /\ clock' = clock + 1 \/ clock' = clock
    BY DEF Tick, vars, shared, history
  <1>3. Grows /\ clock' \in Nat
    BY <1>1, <1>2, QuietTypes DEF Types
  <1>4. PICK r : r = row
    OBVIOUS
  <1>5. Sound(r)'
    BY <1>1, <1>3, <1>4, SoundStays DEF Types
  <1>6. Accord'
    BY <1>2 DEF ProvisionInv, Accord
  <1>7. /\ inv' \in [Workers -> InvRecord] /\ \A v \in Workers : inv'[v] = inv[v]
        /\ overlapped' \in BOOLEAN /\ mishaps' \in Nat /\ retries' \in Nat
        /\ row' \in JobRecord /\ Sound(row)'
    BY <1>1, <1>2, <1>4, <1>5 DEF Types
  <1> QED
    BY <1>3, <1>6, <1>7, StepPreserves

LEMMA ProvisionInit ==
    ASSUME Init
    PROVE  ProvisionInv
  <1>1. PICK a \in {None, "own", "foreign"}, c \in BOOLEAN :
          row = [NewJob EXCEPT !.acct = a, !.consent = c]
    BY DEF Init
  <1>2. /\ row \in JobRecord /\ row.status = "queued" /\ row.step = "queued" /\ row.run = 0
        /\ row.req = 0 /\ row.body = FALSE /\ row.mcp = FALSE
    BY <1>1, IdleFacts DEF JobRecord, NewJob
  <1>3. builds = <<>> /\ requests = <<>> /\ inv = [w \in Workers |-> Idle]
    BY DEF Init
  <1>4. Types
    <2>1. builds \in Seq(BuildRecord) /\ requests \in Seq({"pending", "made", "failed"})
      BY <1>3
    <2>2. inv \in [Workers -> InvRecord]
      BY <1>3, IdleFacts
    <2>3. unheard \in [Kinds -> Nat]
      BY DEF Init
    <2> QED
      BY <1>2, <2>1, <2>2, <2>3 DEF Init, Types
  <1>5. Len(builds) = 0 /\ DOMAIN builds = {}
    BY <1>3
  <1>6. AccountSound(row) /\ ConsentSound(row)
    BY <1>2 DEF AccountSound, ConsentSound, BeforeEntry, BeforeRunner, Active
  <1>7. PhaseSound(row)
    BY <1>2, <1>5 DEF PhaseSound, LaterSteps
  <1>8. \A w \in Workers : InvSound(inv[w]) /\ inv[w].pc = "idle"
    BY <1>3, <1>4, IdleSound, IdleFacts
  <1>9. BuildsInOrder
    BY <1>5 DEF BuildsInOrder
  <1>10. Accord
    BY <1>2, <1>8 DEF Accord, Init
  <1>11. EntersOnlyValidated
    BY DEF Init, EntersOnlyValidated
  <1> QED
    BY <1>4, <1>6, <1>7, <1>8, <1>9, <1>10, <1>11 DEF ProvisionInv, Sound

LEMMA ProvisionStep ==
    ASSUME ProvisionInv, [Next]_vars
    PROVE  ProvisionInv'
  BY LoadPreserves, SweepPreserves, HandlePreserves, PutPreserves, DiesPreserves,
     OperatorPreserves, StillPreserves DEF Next

LEMMA ProvisionInvariant == Spec => []ProvisionInv
  <1>1. Init => ProvisionInv
    BY ProvisionInit
  <1>2. ProvisionInv /\ [Next]_vars => ProvisionInv'
    BY ProvisionStep
  <1> QED
    BY <1>1, <1>2, PTL DEF Spec

-----------------------------------------------------------------------------
(* Counting.  Of each kind, what has been made, and what can still be made *)
(* by the copies under way or by the next one that loads the row, is never *)
(* more than one, one for every mishap and failed answer and, of runners,  *)
(* one for every retry.  A row that could still ask is a spare only while no copy that   *)
(* cannot ask is about to be written over it.                              *)

Able(k, w) == inv[w].pc # "idle" /\ MayMake(k, inv[w].job, inv[w].then)
AbleSet(k) == {w \in Workers : Able(k, w)}
Settling(k) == \E w \in Workers : inv[w].pc = "put" /\ ~ Able(k, w)
Spare(k) == IF AbleSet(k) = {} /\ Could(k, row) /\ ~ Settling(k) THEN 1 ELSE 0
Allowed(k) == 1 + mishaps + unheard[k] + (IF k = "request" THEN 0 ELSE retries)

Within(k) == Made(k) + Cardinality(AbleSet(k)) + Spare(k) <= Allowed(k)

\* Only a row that no handler has worked on since is queued.
QueuedEarly ==
    /\ row.status = "queued" => row.step \in BeforeRunner
    /\ \A w \in Workers : inv[w].pc # "idle" => inv[w].job.status # "queued"

CountInv == QueuedEarly /\ \A k \in Kinds : Within(k)

Bit(b) == IF b THEN 1 ELSE 0

\* Two sets that differ in w at most.
LEMMA DifferInOne ==
    ASSUME NEW S, NEW T, NEW w, IsFiniteSet(S), IsFiniteSet(T), S \ {w} = T \ {w}
    PROVE  /\ Cardinality(S) \in Nat /\ Cardinality(T) \in Nat
           /\ Cardinality(T) + Bit(w \in S) = Cardinality(S) + Bit(w \in T)
  <1>1. Cardinality(S) \in Nat /\ Cardinality(T) \in Nat
    BY FS_CardinalityType
  <1>2. CASE (w \in S) <=> (w \in T)
    <2>1. S = T
      BY <1>2
    <2> QED
      BY <1>1, <2>1 DEF Bit
  <1>3. CASE w \in S /\ w \notin T
    <2>1. S = T \cup {w}
      BY <1>3
    <2>2. Cardinality(S) = Cardinality(T) + 1
      BY <1>3, <2>1, FS_AddElement
    <2> QED
      BY <1>1, <1>3, <2>2 DEF Bit
  <1>4. CASE w \notin S /\ w \in T
    <2>1. T = S \cup {w}
      BY <1>4
    <2>2. Cardinality(T) = Cardinality(S) + 1
      BY <1>4, <2>1, FS_AddElement
    <2> QED
      BY <1>1, <1>4, <2>2 DEF Bit
  <1> QED
    BY <1>2, <1>3, <1>4

LEMMA AbleFinite ==
    ASSUME NEW k
    PROVE  /\ IsFiniteSet(AbleSet(k)) /\ Cardinality(AbleSet(k)) \in Nat
           /\ IsFiniteSet(AbleSet(k)')
           /\ Cardinality(AbleSet(k)) = 0 <=> AbleSet(k) = {}
  <1>1. IsFiniteSet(AbleSet(k)) /\ IsFiniteSet(AbleSet(k)')
    BY ProvisionConstants, FS_Subset DEF AbleSet
  <1> QED
    BY <1>1, FS_CardinalityType, FS_EmptySet

\* The numbers a step of one invocation changes.
LEMMA OneMoves ==
    ASSUME Types, NEW k \in Kinds, NEW w \in Workers, NEW i \in InvRecord,
           inv' = [inv EXCEPT ![w] = i]
    PROVE  /\ Cardinality(AbleSet(k)) \in Nat /\ Cardinality(AbleSet(k)') \in Nat
           /\ Cardinality(AbleSet(k)') + Bit(Able(k, w)) =
                Cardinality(AbleSet(k)) + Bit(Able(k, w)')
           /\ inv'[w] = i /\ \A v \in Workers \ {w} : inv'[v] = inv[v]
           /\ \A v \in Workers \ {w} : Able(k, v)' <=> Able(k, v)
           /\ w \in AbleSet(k) <=> Able(k, w)
           /\ w \in AbleSet(k)' <=> Able(k, w)'
           /\ Able(k, w)' <=> (i.pc # "idle" /\ MayMake(k, i.job, i.then))
  <1>1. inv'[w] = i /\ \A v \in Workers \ {w} : inv'[v] = inv[v]
    BY DEF Types
  <1>2. \A v \in Workers \ {w} : Able(k, v)' <=> Able(k, v)
    BY <1>1 DEF Able, MayMake, Could
  <1>3. Able(k, w)' <=> (i.pc # "idle" /\ MayMake(k, i.job, i.then))
    BY <1>1 DEF Able, MayMake, Could
  <1>4. AbleSet(k) \ {w} = AbleSet(k)' \ {w}
    BY <1>2 DEF AbleSet
  <1>5. (w \in AbleSet(k) <=> Able(k, w)) /\ (w \in AbleSet(k)' <=> Able(k, w)')
    BY DEF AbleSet
  <1>6. IsFiniteSet(AbleSet(k)) /\ IsFiniteSet(AbleSet(k)')
    BY AbleFinite
  <1>7. /\ Cardinality(AbleSet(k)) \in Nat /\ Cardinality(AbleSet(k)') \in Nat
        /\ Cardinality(AbleSet(k)') + Bit(w \in AbleSet(k)) =
             Cardinality(AbleSet(k)) + Bit(w \in AbleSet(k)')
    BY <1>4, <1>6, DifferInOne
  <1> QED
    BY <1>1, <1>2, <1>3, <1>5, <1>7 DEF Bit

LEMMA CountTypes ==
    ASSUME Types, NEW k \in Kinds
    PROVE  Made(k) \in Nat /\ Allowed(k) \in Nat /\ Spare(k) \in {0, 1}
  <1>1. Len(requests) \in Nat
    BY DEF Types
  <1> QED
    BY <1>1, BuildsOfFinite DEF Types, Made, Allowed, Spare

LEMMA CopyCounts ==
    ASSUME ProvisionInv, CountInv, NEW w \in Workers, NEW j, NEW mark, NEW then,
           CopyStep(w, j, mark, then)
    PROVE  CountInv'
  <1>1. PICK b : b = IF then = "stop" THEN Idle ELSE inv[w]
    OBVIOUS
  <1>2. PICK i : i = [b EXCEPT !.pc = "put", !.job = j, !.mark = mark, !.then = then]
    OBVIOUS
  <1>3. Types /\ inv[w] \in InvRecord /\ b \in InvRecord
    BY <1>1, IdleFacts DEF ProvisionInv, Types
  <1>4. /\ inv' = [inv EXCEPT ![w] = i]
        /\ UNCHANGED <<row, retries, mishaps>>
    BY <1>1, <1>2 DEF CopyStep, Stage, shared, history
  <1>5. Fits(inv[w].job, j, mark, then) /\ inv[w].pc = "handle" /\ Counted(w, j, then)
    BY DEF CopyStep
  <1>6. i \in InvRecord /\ i.pc = "put" /\ i.job = j /\ i.then = then
    BY <1>2, <1>3, <1>5, NoneIsNone DEF InvRecord, Fits
  <1>7. j.status # "queued"
    BY <1>3, <1>5 DEF Fits, ProvisionInv, InvSound, Workable
  <1>8. QueuedEarly'
    <2>1. inv'[w] = i /\ \A v \in Workers \ {w} : inv'[v] = inv[v]
      BY <1>3, <1>4 DEF Types
    <2> QED
      BY <1>4, <1>6, <1>7, <2>1 DEF CountInv, QueuedEarly
  <1>9. ASSUME NEW k \in Kinds PROVE Within(k)'
    <2>1. /\ Cardinality(AbleSet(k)) \in Nat /\ Cardinality(AbleSet(k)') \in Nat
          /\ Cardinality(AbleSet(k)') + Bit(Able(k, w)) =
               Cardinality(AbleSet(k)) + Bit(Able(k, w)')
          /\ inv'[w] = i
          /\ w \in AbleSet(k)' <=> Able(k, w)'
          /\ Able(k, w)' <=> MayMake(k, j, then)
      BY <1>3, <1>4, <1>6, OneMoves
    <2>2. MayMake(k, j, then) => Could(k, inv[w].job)
      BY <1>5 DEF Fits
    <2>3. Could(k, inv[w].job) => Able(k, w)
      BY <1>5 DEF Able, MayMake
    <2>4. Spare(k)' = 0
      <3>1. CASE Able(k, w)'
        BY <2>1, <3>1 DEF Spare
      <3>2. CASE ~ Able(k, w)'
        <4>1. Settling(k)'
          BY <1>6, <2>1, <3>2 DEF Settling
        <4> QED
          BY <4>1 DEF Spare
      <3> QED
        BY <3>1, <3>2
    <2>5. Made(k) \in Nat /\ Allowed(k) \in Nat /\ Spare(k) \in {0, 1} /\ Within(k)
      BY <1>3, CountTypes DEF CountInv
    <2>6. mishaps \in Nat /\ retries \in Nat /\ unheard[k] \in Nat
      BY <1>3 DEF Types
    <2>7. \/ Made(k)' = Made(k) /\ Allowed(k)' = Allowed(k)
          \/ /\ Made(k)' = Made(k) + 1 /\ Allowed(k)' = Allowed(k)
             /\ Could(k, inv[w].job) /\ ~ MayMake(k, j, then)
          \/ Made(k)' = Made(k) + 1 /\ Allowed(k)' = Allowed(k) + 1
      BY <1>4, <1>5, <2>6 DEF Counted, Allowed
    <2> QED
      BY <2>1, <2>2, <2>3, <2>4, <2>5, <2>7 DEF Within, Bit
  <1> QED
    BY <1>8, <1>9 DEF CountInv

\* An invocation ends without a write: by itself, at no cost, since one that
\* handles a copy was not about to settle anything, or as a mishap.
LEMMA EndCounts ==
    ASSUME ProvisionInv, CountInv, NEW w \in Workers,
           inv' = [inv EXCEPT ![w] = Idle], UNCHANGED <<row, retries, unheard>>,
           \A k \in Kinds : Made(k)' = Made(k),
           \/ mishaps' = mishaps + 1
           \/ mishaps' = mishaps /\ inv[w].pc = "handle"
    PROVE  CountInv'
  <1>1. Types
    BY DEF ProvisionInv
  <1>2. Idle \in InvRecord /\ Idle.pc = "idle"
    BY IdleFacts
  <1>3. inv'[w] = Idle /\ \A v \in Workers \ {w} : inv'[v] = inv[v]
    BY <1>1 DEF Types
  <1>4. QueuedEarly'
    BY <1>2, <1>3 DEF CountInv, QueuedEarly
  <1>5. ASSUME NEW k \in Kinds PROVE Within(k)'
    <2>0. /\ Cardinality(AbleSet(k)) \in Nat /\ Cardinality(AbleSet(k)') \in Nat
          /\ Cardinality(AbleSet(k)') + Bit(Able(k, w)) =
               Cardinality(AbleSet(k)) + Bit(Able(k, w)')
          /\ ~ Able(k, w)'
      BY <1>1, <1>2, OneMoves
    <2>1. Cardinality(AbleSet(k)') + Bit(Able(k, w)) = Cardinality(AbleSet(k))
      BY <2>0 DEF Bit
    <2>2. /\ \A v \in Workers \ {w} : Able(k, v)' <=> Able(k, v)
          /\ w \in AbleSet(k) <=> Able(k, w)
          /\ ~ Able(k, w)'
      BY <1>1, <1>2, OneMoves
    <2>3. Made(k) \in Nat /\ Allowed(k) \in Nat /\ Spare(k) \in {0, 1} /\ Within(k)
          /\ Made(k)' = Made(k)
      BY <1>1, CountTypes DEF CountInv
    <2>4. Spare(k)' \in {0, 1}
      BY DEF Spare
    <2>5. mishaps \in Nat /\ retries \in Nat /\ unheard[k] \in Nat
      BY <1>1 DEF Types
    <2>6. CASE mishaps' = mishaps + 1
      <3>1. Allowed(k)' = Allowed(k) + 1
        BY <2>5, <2>6 DEF Allowed
      <3> QED
        BY <2>0, <2>1, <2>3, <2>4, <3>1 DEF Within, Bit
    <2>7. CASE mishaps' = mishaps /\ inv[w].pc = "handle"
      <3>1. Allowed(k)' = Allowed(k)
        BY <2>7 DEF Allowed
      <3>2. CASE Able(k, w)
        BY <2>0, <2>1, <2>3, <2>4, <3>1, <3>2 DEF Within, Bit
      <3>3. CASE ~ Able(k, w)
        <4>1. AbleSet(k)' = AbleSet(k)
          BY <2>2, <3>3 DEF AbleSet
        <4>2. Could(k, row)' <=> Could(k, row)
          BY DEF Could
        <4>3. Settling(k) => Settling(k)'
          <5>1. ASSUME NEW v \in Workers, inv[v].pc = "put", ~ Able(k, v)
                PROVE  v # w /\ inv'[v].pc = "put" /\ ~ Able(k, v)'
            BY <1>3, <2>2, <2>7, <5>1
          <5> QED
            BY <5>1 DEF Settling
        <4>4. Spare(k)' <= Spare(k)
          BY <4>1, <4>2, <4>3 DEF Spare
        <4> QED
          BY <2>0, <2>1, <2>3, <2>4, <3>1, <4>1, <4>4 DEF Within
      <3> QED
        BY <3>2, <3>3
    <2> QED
      BY <2>6, <2>7
  <1> QED
    BY <1>4, <1>5 DEF CountInv

LEMMA QuietMade ==
    ASSUME Types, UNCHANGED <<bodyEnabled, external>>
    PROVE  \A k \in Kinds : Made(k)' = Made(k)
  BY QuietIsCalm, CalmGrows

LEMMA HandleCounts ==
    ASSUME ProvisionInv, CountInv, NEW w \in Workers, Handle(w)
    PROVE  CountInv'
  <1>1. HandlerStep(w)
    BY HandlersAreHandlerSteps
  <1>2. CASE LeaveStep(w)
    BY <1>2, EndCounts DEF LeaveStep, Leave, shared, history
  <1>3. CASE \E j, mark, then : CopyStep(w, j, mark, then)
    BY <1>3, CopyCounts
  <1> QED
    BY <1>1, <1>2, <1>3 DEF HandlerStep

LEMMA DiesCounts ==
    ASSUME ProvisionInv, CountInv, NEW w \in Workers, Dies(w)
    PROVE  CountInv'
  <1>1. \A k \in Kinds : Made(k)' = Made(k)
    BY QuietMade DEF ProvisionInv, Dies
  <1> QED
    BY <1>1, EndCounts DEF Dies, shared, external

\* An invocation begins.  Alone, it takes over what the row could still ask
\* for; beside another, it is a mishap.
LEMMA BeginCounts ==
    ASSUME ProvisionInv, CountInv, NEW w \in Workers, inv[w].pc = "idle",
           NEW i \in InvRecord, inv' = [inv EXCEPT ![w] = i], Begins,
           UNCHANGED <<bodyEnabled, row, external, retries>>,
           i.pc \in {"put", "handle"}, i.then # "assume", i.job.status # "queued",
           \A k \in Kinds : Could(k, i.job) => Could(k, row),
           i.pc = "handle" => i.job = row
    PROVE  CountInv'
  <1>1. Types
    BY DEF ProvisionInv
  <1>2. inv'[w] = i /\ \A v \in Workers \ {w} : inv'[v] = inv[v]
    BY <1>1 DEF Types
  <1>3. QueuedEarly'
    BY <1>2 DEF CountInv, QueuedEarly
  <1>4. ASSUME NEW k \in Kinds PROVE Within(k)'
    <2>1. /\ Cardinality(AbleSet(k)) \in Nat /\ Cardinality(AbleSet(k)') \in Nat
          /\ Cardinality(AbleSet(k)') + Bit(Able(k, w)) =
               Cardinality(AbleSet(k)) + Bit(Able(k, w)')
          /\ w \in AbleSet(k)' <=> Able(k, w)'
          /\ Able(k, w)' <=> (i.pc # "idle" /\ MayMake(k, i.job, i.then))
      BY <1>1, OneMoves
    <2>2. ~ Able(k, w) /\ (Able(k, w)' <=> Could(k, i.job))
      BY <2>1 DEF Able, MayMake
    <2>3. Cardinality(AbleSet(k)') = Cardinality(AbleSet(k)) + Bit(Able(k, w)')
      BY <2>1, <2>2 DEF Bit
    <2>4. Made(k) \in Nat /\ Allowed(k) \in Nat /\ Spare(k) \in {0, 1} /\ Within(k)
          /\ Made(k)' = Made(k)
      BY <1>1, CountTypes, QuietMade DEF CountInv
    <2>5. Spare(k)' \in {0, 1} /\ (Able(k, w)' => Spare(k)' = 0)
      BY <2>1 DEF Spare
    <2>6. mishaps \in Nat /\ retries \in Nat /\ unheard[k] \in Nat /\ unheard' = unheard
      BY <1>1 DEF Types, external
    <2>7. CASE ~ Alone
      <3>1. Allowed(k)' = Allowed(k) + 1
        BY <2>6, <2>7 DEF Allowed, Begins
      <3> QED
        BY <2>1, <2>3, <2>4, <2>5, <3>1 DEF Within, Bit
    <2>8. CASE Alone
      <3>1. Allowed(k)' = Allowed(k)
        BY <2>6, <2>8 DEF Allowed, Begins
      <3>2. AbleSet(k) = {} /\ ~ Settling(k)
        BY <2>8 DEF Alone, AbleSet, Able, Settling
      <3>3. CASE Able(k, w)'
        <4>1. Could(k, row)
          BY <2>2, <3>3
        <4>2. Spare(k) = 1
          BY <3>2, <4>1 DEF Spare
        <4> QED
          BY <2>1, <2>3, <2>4, <2>5, <3>1, <3>3, <4>2 DEF Within, Bit
      <3>4. CASE ~ Able(k, w)'
        <4>1. Spare(k)' <= Spare(k)
          <5>1. CASE i.pc = "put"
            <6>1. Settling(k)'
              BY <1>2, <3>4, <5>1 DEF Settling
            <6> QED
              BY <2>4, <6>1 DEF Spare
          <5>2. CASE i.pc = "handle"
            <6>1. ~ Could(k, row)
              BY <2>2, <3>4, <5>2
            <6>2. ~ Could(k, row)'
              BY <6>1 DEF Could
            <6> QED
              BY <2>4, <6>2 DEF Spare
          <5> QED
            BY <5>1, <5>2
        <4> QED
          BY <2>1, <2>3, <2>4, <2>5, <3>1, <3>4, <4>1 DEF Within, Bit
      <3> QED
        BY <3>3, <3>4
    <2> QED
      BY <2>7, <2>8
  <1> QED
    BY <1>3, <1>4 DEF CountInv

LEMMA FailingCounts ==
    ASSUME ProvisionInv, CountInv, NEW w \in Workers, inv[w].pc = "idle", Begins,
           inv' = [inv EXCEPT ![w] = [Idle EXCEPT !.pc = "put", !.job = Failed(row),
                                                  !.mark = "error"]],
           UNCHANGED <<bodyEnabled, row, external, retries>>
    PROVE  CountInv'
  <1>1. PICK f : f = Failed(row)
    OBVIOUS
  <1>2. PICK i : i = [Idle EXCEPT !.pc = "put", !.job = f, !.mark = "error"]
    OBVIOUS
  <1>3. /\ f \in JobRecord /\ f.status = "error" /\ f.step = "failed"
        /\ f.acct = row.acct /\ f.req = row.req
    BY <1>1, FailedFields DEF ProvisionInv, Types
  <1>4. i \in InvRecord /\ i.pc = "put" /\ i.job = f /\ i.then = "stop"
    BY <1>2, <1>3, IdleFacts DEF InvRecord
  <1>5. \A k \in Kinds : Could(k, f) => Could(k, row)
    BY <1>3, FailedNever DEF Could, Kinds
  <1> QED
    BY <1>1, <1>2, <1>3, <1>4, <1>5, BeginCounts

LEMMA SweepCounts ==
    ASSUME ProvisionInv, CountInv, NEW w \in Workers, Sweep(w)
    PROVE  CountInv'
  BY FailingCounts DEF Sweep, shared

LEMMA EarlyBeforeAll == \A k \in Modes : BeforeRunner \subseteq StepsBefore(k)
  BY DEF Modes, StepsBefore, BodySteps, McpSteps

LEMMA LoadCounts ==
    ASSUME ProvisionInv, CountInv, NEW w \in Workers, Load(w)
    PROVE  CountInv'
  <1> DEFINE begun == [Idle EXCEPT !.job = row, !.now = clock, !.left = MaxTransitions]
  <1>1. row \in JobRecord
    BY DEF ProvisionInv, Types
  <1>2. /\ inv[w].pc = "idle" /\ Begins
        /\ UNCHANGED <<bodyEnabled, row, external, retries>>
    BY DEF Load, shared
  <1>3. PICK b : b = begun
    OBVIOUS
  <1>4. b \in InvRecord /\ b.job = row /\ b.then = "stop"
    BY <1>3, BegunFacts
  <1>5. CASE inv' = [inv EXCEPT ![w] = [Idle EXCEPT !.pc = "put", !.job = Failed(row),
                                                    !.mark = "error"]]
    BY <1>2, <1>5, FailingCounts
  <1>6. CASE row.status = "queued" /\ inv' = [inv EXCEPT ![w] =
                 [begun EXCEPT !.pc = "put", !.mark = "running", !.then = "begin",
                               !.job.status = "running", !.job.step = "queued"]]
    <2>1. PICK j : j = [row EXCEPT !.status = "running", !.step = "queued"]
      OBVIOUS
    <2>2. /\ j \in JobRecord /\ j.status = "running" /\ j.req = row.req /\ j.acct = row.acct
      BY <1>1, <2>1 DEF JobRecord, Steps, BeforeRunner
    <2>3. PICK i : i = [begun EXCEPT !.pc = "put", !.mark = "running", !.then = "begin",
                                     !.job.status = "running", !.job.step = "queued"]
      OBVIOUS
    <2>4. i \in InvRecord /\ i.pc = "put" /\ i.job = j /\ i.then = "begin"
      BY <1>1, <1>3, <1>4, <2>1, <2>2, <2>3 DEF InvRecord
    <2>5. row.step \in BeforeRunner
      BY <1>6 DEF CountInv, QueuedEarly
    <2>6. \A k \in Kinds : Could(k, j) => Could(k, row)
      BY <2>2, <2>5, EarlyBeforeAll DEF Could, Kinds
    <2> QED
      BY <1>2, <1>6, <2>2, <2>3, <2>4, <2>6, BeginCounts
  <1>7. CASE row.status = "running" /\ inv' = [inv EXCEPT ![w] = [begun EXCEPT !.pc = "handle"]]
    <2>1. PICK i : i = [begun EXCEPT !.pc = "handle"]
      OBVIOUS
    <2>2. i \in InvRecord /\ i.pc = "handle" /\ i.job = row /\ i.then = "stop"
      BY <1>3, <1>4, <2>1 DEF InvRecord
    <2> QED
      BY <1>2, <1>7, <2>1, <2>2, BeginCounts
  <1> QED
    BY <1>5, <1>6, <1>7 DEF Load

LEMMA PutCounts ==
    ASSUME ProvisionInv, CountInv, NEW w \in Workers, Put(w)
    PROVE  CountInv'
  <1>1. PICK i : i = inv[w]
    OBVIOUS
  <1>2. PICK n \in InvRecord :
             /\ inv' = [inv EXCEPT ![w] = n]
             /\ \/ n.pc = "idle"
                \/ /\ n.pc \in {"put", "handle"} /\ n.job.status = i.job.status
                   /\ n.job.acct = i.job.acct /\ n.job.req = i.job.req
                   /\ n.job.consent = i.job.consent
                   /\ n.then # "assume"
                   /\ i.then = "assume" \/ n.job.step = i.job.step
    BY <1>1, PutGives
  <1>3. Types /\ i.pc = "put" /\ row' = i.job
        /\ UNCHANGED <<bodyEnabled, external, retries, mishaps>>
    BY <1>1 DEF ProvisionInv, Put, history
  <1>4. inv'[w] = n /\ \A v \in Workers \ {w} : inv'[v] = inv[v]
    BY <1>2, <1>3 DEF Types
  <1>5. i.job.status # "queued"
    BY <1>1, <1>3 DEF CountInv, QueuedEarly
  <1>6. QueuedEarly'
    BY <1>2, <1>3, <1>4, <1>5 DEF CountInv, QueuedEarly
  <1>7. ASSUME NEW k \in Kinds PROVE Within(k)'
    <2>1. /\ Cardinality(AbleSet(k)) \in Nat /\ Cardinality(AbleSet(k)') \in Nat
          /\ Cardinality(AbleSet(k)') + Bit(Able(k, w)) =
               Cardinality(AbleSet(k)) + Bit(Able(k, w)')
          /\ w \in AbleSet(k)' <=> Able(k, w)'
          /\ w \in AbleSet(k) <=> Able(k, w)
          /\ Able(k, w)' <=> (n.pc # "idle" /\ MayMake(k, n.job, n.then))
      BY <1>2, <1>3, OneMoves
    <2>2. Made(k) \in Nat /\ Allowed(k) \in Nat /\ Spare(k) \in {0, 1} /\ Within(k)
          /\ Made(k)' = Made(k)
      BY <1>3, CountTypes, QuietMade DEF CountInv
    <2>3. Allowed(k)' = Allowed(k)
      BY <1>3 DEF Allowed, external
    <2>4. Spare(k)' \in {0, 1} /\ (Able(k, w)' => Spare(k)' = 0)
      BY <2>1 DEF Spare
    <2>5. CASE Able(k, w)
      BY <2>1, <2>2, <2>3, <2>4, <2>5 DEF Within, Bit
    <2>6. CASE ~ Able(k, w)
      <3>1. ~ MayMake(k, i.job, i.then)
        BY <1>1, <1>3, <2>6 DEF Able
      <3>2. ~ Could(k, row)'
        BY <1>3, <3>1 DEF MayMake, Could
      <3>3. ~ Able(k, w)'
        BY <1>2, <2>1, <3>1 DEF MayMake, Could
      <3>4. Spare(k)' = 0
        BY <3>2 DEF Spare
      <3> QED
        BY <2>1, <2>2, <2>3, <2>6, <3>3, <3>4 DEF Within, Bit
    <2> QED
      BY <2>5, <2>6
  <1> QED
    BY <1>6, <1>7 DEF CountInv

\* A retry pays for one more runner of each mode and for no request: the row
\* keeps the request it has, or is given an account.
LEMMA OperatorCounts ==
    ASSUME ProvisionInv, CountInv, Retry \/ \E a \in {"own", "foreign"} : Adopt(a)
    PROVE  CountInv'
  <1>1. Types /\ row \in JobRecord /\ mishaps \in Nat /\ retries \in Nat
    BY DEF ProvisionInv, Types
  <1>2. /\ Begins /\ UNCHANGED <<bodyEnabled, inv, external>> /\ retries' = retries + 1
    BY DEF Retry, Adopt, Intervenes
  <1>3. row'.step \in BeforeRunner /\ (Could("request", row)' => Could("request", row))
    <2>1. CASE Retry
      BY <1>1, <2>1 DEF Retry, JobRecord, Could, BeforeRunner
    <2>2. ASSUME NEW a \in {"own", "foreign"}, Adopt(a)
          PROVE  row'.step \in BeforeRunner /\ row'.acct = a
      BY <1>1, <2>2 DEF Adopt, JobRecord, BeforeRunner
    <2> QED
      BY <2>1, <2>2, NoneIsNone DEF Could
  <1>4. QueuedEarly'
    BY <1>2, <1>3 DEF CountInv, QueuedEarly
  <1>5. mishaps' = mishaps \/ mishaps' = mishaps + 1
    BY <1>2 DEF Begins
  <1>6. ASSUME NEW k \in Kinds PROVE Within(k)'
    <2>1. /\ AbleSet(k)' = AbleSet(k) /\ (Settling(k)' <=> Settling(k))
      BY <1>2 DEF AbleSet, Able, Settling
    <2>2. Made(k) \in Nat /\ Allowed(k) \in Nat /\ Spare(k) \in {0, 1} /\ Within(k)
          /\ Made(k)' = Made(k) /\ Spare(k)' \in {0, 1}
      BY <1>1, <1>2, CountTypes, QuietMade DEF CountInv, Spare
    <2>3. Cardinality(AbleSet(k)) \in Nat /\ unheard[k] \in Nat /\ unheard' = unheard
      BY <1>1, <1>2, AbleFinite DEF Types, external
    <2>4. CASE k = "request"
      <3>1. Spare(k)' <= Spare(k)
        BY <1>3, <2>1, <2>4 DEF Spare
      <3>2. Allowed(k)' = Allowed(k) \/ Allowed(k)' = Allowed(k) + 1
        BY <1>1, <1>5, <2>3, <2>4 DEF Allowed
      <3> QED
        BY <2>1, <2>2, <2>3, <3>1, <3>2 DEF Within
    <2>5. CASE k # "request"
      <3>1. Allowed(k)' = Allowed(k) + 1 \/ Allowed(k)' = Allowed(k) + 2
        BY <1>1, <1>2, <1>5, <2>3, <2>5 DEF Allowed
      <3> QED
        BY <2>1, <2>2, <2>3, <3>1 DEF Within
    <2> QED
      BY <2>4, <2>5
  <1> QED
    BY <1>4, <1>6 DEF CountInv

LEMMA StillCounts ==
    ASSUME ProvisionInv, CountInv, Tick \/ UNCHANGED vars
    PROVE  CountInv'
  <1>1. Types
    BY DEF ProvisionInv
  <1>2. UNCHANGED <<bodyEnabled, row, inv, external, retries, mishaps>>
    BY DEF Tick, vars, shared, history
  <1>3. QueuedEarly'
    BY <1>2 DEF CountInv, QueuedEarly
  <1>4. ASSUME NEW k \in Kinds PROVE Within(k)'
    <2>1. Made(k)' = Made(k) /\ Allowed(k)' = Allowed(k)
      BY <1>1, <1>2, QuietMade DEF Allowed, external
    <2>2. /\ AbleSet(k)' = AbleSet(k) /\ (Settling(k)' <=> Settling(k))
          /\ Could(k, row)' <=> Could(k, row)
      BY <1>2 DEF AbleSet, Able, Settling, Could
    <2>3. Spare(k)' = Spare(k)
      BY <2>2 DEF Spare
    <2> QED
      BY <2>1, <2>2, <2>3 DEF CountInv, Within
  <1> QED
    BY <1>3, <1>4 DEF CountInv

LEMMA CountInit ==
    ASSUME Init
    PROVE  CountInv
  <1>1. Types
    BY ProvisionInit DEF ProvisionInv
  <1>2. builds = <<>> /\ requests = <<>> /\ mishaps = 0 /\ retries = 0
        /\ \A w \in Workers : inv[w].pc = "idle"
    BY IdleFacts DEF Init
  <1>3. Len(requests) = 0 /\ DOMAIN builds = {}
    BY <1>2
  <1>4. row.step \in BeforeRunner
    BY DEF Init, NewJob, BeforeRunner
  <1>5. ASSUME NEW k \in Kinds PROVE Within(k)
    <2>1. BuildsOf(k) = {}
      BY <1>3 DEF BuildsOf
    <2>2. Made(k) = 0
      BY <1>3, <2>1, FS_EmptySet DEF Made
    <2>3. AbleSet(k) = {}
      BY <1>2 DEF AbleSet, Able
    <2>4. Cardinality(AbleSet(k)) = 0
      BY <2>3, FS_EmptySet
    <2>6. unheard[k] = 0
      BY DEF Init
    <2>5. Spare(k) \in {0, 1} /\ Allowed(k) = 1
      BY <1>2, <2>6 DEF Spare, Allowed
    <2> QED
      BY <2>2, <2>4, <2>5 DEF Within
  <1> QED
    BY <1>2, <1>4, <1>5 DEF CountInv, QueuedEarly

LEMMA CountStep ==
    ASSUME ProvisionInv, CountInv, [Next]_vars
    PROVE  CountInv'
  BY LoadCounts, SweepCounts, HandleCounts, PutCounts, DiesCounts,
     OperatorCounts, StillCounts DEF Next

-----------------------------------------------------------------------------
(* The theorems.                                                           *)

LEMMA ProvisionCounts == Spec => []CountInv
  <1>1. Init => CountInv
    BY CountInit
  <1>2. ProvisionInv /\ CountInv /\ [Next]_vars => CountInv'
    BY CountStep
  <1> QED
    BY <1>1, <1>2, ProvisionInvariant, PTL DEF Spec

\* An adopted account that failed validateAdoptedProvisionAccount is never
\* moved, assumed or deployed into, for any number of invocations: no copy that
\* carries one has got past the move.
THEOREM ForeignNeverEntered == Spec => []EntersOnlyValidated
  <1>1. ProvisionInv => EntersOnlyValidated
    BY DEF ProvisionInv
  <1> QED
    BY <1>1, ProvisionInvariant, PTL

\* A row that nobody is about to write and that could still start the Lesser
\* runner is the spare of the count.
LEMMA UnspentRow ==
    ASSUME ProvisionInv, CountInv
    PROVE  ConsentUnspent
  <1>1. SUFFICES ASSUME row.consent PROVE
          /\ row.status \in Active /\ row.step \in BeforeRunner /\ row.run = 0
          /\ Alone => Started("lesser") <= mishaps + unheard["lesser"] + retries
    BY DEF ConsentUnspent
  <1>2. row.status \in Active /\ row.step \in BeforeRunner /\ row.run = 0
    BY <1>1 DEF ProvisionInv, Sound, ConsentSound
  <1>3. ASSUME Alone PROVE Started("lesser") <= mishaps + unheard["lesser"] + retries
    <2>1. "lesser" \in Kinds /\ Types
      BY DEF Kinds, Modes, ProvisionInv
    <2>2. AbleSet("lesser") = {} /\ ~ Settling("lesser")
      BY <1>3 DEF Alone, AbleSet, Able, Settling
    <2>3. Could("lesser", row)
      BY <1>2 DEF Could, StepsBefore
    <2>4. Spare("lesser") = 1 /\ Cardinality(AbleSet("lesser")) = 0
      BY <2>2, <2>3, AbleFinite DEF Spare
    <2>5. Made("lesser") \in Nat /\ Made("lesser") = Started("lesser")
      BY <2>1, CountTypes DEF Made, Started, BuildsOf
    <2>6. mishaps \in Nat /\ retries \in Nat /\ unheard["lesser"] \in Nat
      BY <2>1 DEF Types
    <2>7. Made("lesser") + 1 <= 1 + mishaps + unheard["lesser"] + retries
      BY <2>1, <2>4, <2>5, <2>6 DEF CountInv, Within, Allowed
    <2> QED
      BY <2>5, <2>6, <2>7
  <1> QED
    BY <1>2, <1>3

\* Only Put changes the consent of the row, and it writes a copy.
LEMMA ConsentReturns ==
    ASSUME ProvisionInv, [Next]_vars, row'.consent
    PROVE  row.consent \/ overlapped
  <1>1. CASE row' = row
    BY <1>1
  <1>2. ASSUME NEW w \in Workers, Put(w) PROVE row.consent \/ overlapped
    BY <1>2 DEF Put, ProvisionInv, Accord
  <1>3. CASE Retry \/ \E a \in {"own", "foreign"} : Adopt(a)
    BY <1>3 DEF Retry, Adopt, ProvisionInv, Types, JobRecord
  <1>4. ASSUME NEW w \in Workers, Load(w) \/ Sweep(w) \/ Dies(w) PROVE row' = row
    BY <1>4 DEF Load, Sweep, Dies, shared
  <1>5. ASSUME NEW w \in Workers, Handle(w) PROVE row' = row
    <2>1. HandlerStep(w)
      BY <1>5, HandlersAreHandlerSteps
    <2> QED
      BY <2>1 DEF HandlerStep, LeaveStep, CopyStep, Leave, Stage, shared
  <1>6. CASE Tick \/ UNCHANGED vars
    BY <1>1, <1>6 DEF Tick, vars, shared
  <1> QED
    BY <1>1, <1>2, <1>3, <1>4, <1>5, <1>6 DEF Next

\* The owner's consent is spent on one runner: a row that holds it has started
\* none, except one lost with a dead or overlapping invocation or a failed answer
\* or one of a retry, and a consent that advanceProvisionDeployStart or failJob
\* has cleared comes back only with a stale copy, after two writers were under
\* way at once.
THEOREM ConsentIsSpent == Spec => ConsentSpent
  <1>1. ProvisionInv /\ CountInv => ConsentUnspent
    BY UnspentRow
  <1>2. ProvisionInv /\ [Next]_vars => (row'.consent => row.consent \/ overlapped)
    BY ConsentReturns
  <1> QED
    BY <1>1, <1>2, ProvisionInvariant, ProvisionCounts, PTL DEF Spec, ConsentSpent

\* Lesser, then lesser-body, then MCP: no runner starts before the ones it
\* builds on have succeeded, and a job reported ok has had them all, whichever
\* copies the invocations write over one another.
THEOREM PhasesStayInOrder == Spec => []PhasesInOrder
  <1>1. ASSUME ProvisionInv PROVE PhasesInOrder
    <2>1. \A b \in ToSet(builds) : Needs[b.mode] \subseteq Succeeded
      BY <1>1 DEF ProvisionInv, BuildsInOrder, ToSet
    <2>2. /\ row.body => "body" \in Succeeded
          /\ row.status = "ok" => AllPhases \subseteq Succeeded
      BY <1>1 DEF ProvisionInv, Sound, PhaseSound
    <2> QED
      BY <2>1, <2>2 DEF PhasesInOrder, AllPhases
  <1> QED
    BY <1>1, ProvisionInvariant, PTL

\* Until two writers have been under way at once, the instance shows the
\* job's status, whatever dies or fails in between.
THEOREM InstanceAlwaysAgrees == Spec => []InstanceAgrees
  <1>1. ProvisionInv => InstanceAgrees
    BY DEF ProvisionInv, Accord, InstanceAgrees
  <1> QED
    BY <1>1, ProvisionInvariant, PTL

\* requestAccountCreate asks Organizations once, and once more for every
\* invocation that died or overlapped another and every request CreateAccount
\* made but did not answer; a runner of each mode starts once, and once more for
\* every mishap, every unanswered start and every retry.
THEOREM NothingMadeTwice == Spec => []NothingTwice
  <1>1. ASSUME ProvisionInv, CountInv PROVE NothingTwice
    <2>1. Types
      BY <1>1 DEF ProvisionInv
    <2>2. ASSUME NEW k \in Kinds PROVE Made(k) <= Allowed(k)
      <3>1. Made(k) \in Nat /\ Allowed(k) \in Nat /\ Spare(k) \in {0, 1}
        BY <2>1, CountTypes
      <3>2. Cardinality(AbleSet(k)) \in Nat
        BY AbleFinite
      <3> QED
        BY <1>1, <3>1, <3>2 DEF CountInv, Within
    <2>3. mishaps \in Nat /\ unheard["request"] \in Nat
      BY <2>1 DEF Types, Kinds
    <2>4. Len(requests) <= 1 + mishaps + unheard["request"]
      BY <2>2, <2>3 DEF Kinds, Made, Allowed
    <2>5. ASSUME NEW m \in Modes
          PROVE  Started(m) <= 1 + mishaps + unheard[m] + retries
      <3>1. m \in Kinds /\ m # "request"
        BY DEF Kinds, Modes
      <3>2. Made(m) = Started(m) /\ Allowed(m) = 1 + mishaps + unheard[m] + retries
        BY <3>1 DEF Made, Allowed, Started, BuildsOf
      <3> QED
        BY <2>2, <3>1, <3>2
    <2> QED
      BY <2>4, <2>5 DEF NothingTwice
  <1> QED
    BY <1>1, ProvisionInvariant, ProvisionCounts, PTL
=============================================================================
