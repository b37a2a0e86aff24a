----------------------- MODULE UpdateAdmissionProofs -----------------------
(***************************************************************************)
(* Update admission, for any number of calls and remediations: the         *)
(* markers are sound whatever lags or races, the answers are true, and     *)
(* admission implements UpdateSlot.                                        *)
(*                                                                         *)
(* A call acts on a copy it read earlier, so the invariant relates every   *)
(* copy to the jobs as they are now (CallFacts).  All of it survives the   *)
(* ageing of jobs: rows are added, kinds and versions stay, and a job that *)
(* has ended stays ended (Ages, CallAges).  One active job at a time rests *)
(* on the common marker naming it (Excl), and a repair cannot disturb that *)
(* marker: with prompt indexes the job of the copy has ended by then,      *)
(* while the job of an active marker is active.                            *)
(*                                                                         *)
(* The facts are stated of any sequence of jobs J, so that they can be     *)
(* used before and after a step.                                           *)
(***************************************************************************)
EXTENDS UpdateAdmission, TLAPS

MarkIn(J) == [status : Status \cup {"none"}, job : 0 .. Len(J)]
MarksIn(J) == [any : MarkIn(J), of : [Kinds -> MarkIn(J)]]
ActiveIn(J) == {j \in 1 .. Len(J) : J[j].status \in Active}
DuringIn(r, J) == r.live \cup (r.since + 1) .. Len(J)
Pcs == {"idle", "precheck", "list", "get", "repair", "write", "relist", "done"}
CallIn(J) == [pc : Pcs, ask : Ask, copy : MarksIn(J), live : SUBSET (1 .. Len(J)),
              since : 0 .. Len(J), answer : [what : Answers, job : 0 .. Len(J)]]

\* An active marker shows its job's state.
Live(m, J) == m.status \in Active => m.job \in 1 .. Len(J) /\ J[m.job].status = m.status

\* The common marker is its kind's marker, and a kind's marker names a job
\* of that kind.
Paired(I, J) ==
    /\ I \in MarksIn(J)
    /\ I.any.job # 0 => I.of[J[I.any.job].kind] = I.any
    /\ \A k \in Kinds : I.of[k].job # 0 => J[I.of[k].job].kind = k

MarksOK(I, J) ==
    /\ Paired(I, J)
    /\ Live(I.any, J)
    /\ \A k \in Kinds : Live(I.of[k], J)

\* Jobs only get more and older.
Ages(J, K) ==
    /\ K \in Seq(Job)
    /\ Len(J) <= Len(K)
    /\ \A j \in 1 .. Len(J) :
         /\ K[j].kind = J[j].kind
         /\ K[j].version = J[j].version
         /\ J[j].status = "ended" => K[j].status = "ended"

\* What an answer claims of the call.
TrueAnswer(r, J) ==
    /\ r.answer.what \in {"existing", "created"} =>
         /\ r.answer.job \in DuringIn(r, J)
         /\ r.answer.job \in 1 .. Len(J)
         /\ J[r.answer.job].kind = r.ask.kind
         /\ J[r.answer.job].version = r.ask.version
    /\ r.answer.what = "refused" => DuringIn(r, J) # {}

\* The copy's active markers name jobs that were active when it was read.
CopyLive(r) ==
    /\ r.copy.any.status \in Active => r.copy.any.job \in r.live
    /\ \A k \in Kinds : r.copy.of[k].status \in Active => r.copy.of[k].job \in r.live

\* What a call knows at each place, when indexes are prompt (p) or not.
PlaceFacts(r, J, p) ==
    /\ r.pc = "repair" => NeedsRepair(r.copy)
    /\ r.pc = "get" =>
         LET mark == managedUpdateMarkerForRequest(r.copy, r.ask) IN
         mark.job # 0 /\ mark.status \in Active
    /\ p /\ r.pc \in {"get", "repair"} /\ NeedsRepair(r.copy) =>
         J[r.copy.any.job].status = "ended"
    /\ r.pc = "relist" => DuringIn(r, J) # {}

CallFacts(r, J, p) ==
    /\ r \in CallIn(J)
    /\ Paired(r.copy, J)
    /\ CopyLive(r)
    /\ PlaceFacts(r, J, p)
    /\ r.pc # "idle" => ActiveIn(J) \subseteq DuringIn(r, J)
    /\ p => TrueAnswer(r, J)

\* While the promise is made, the common marker shows the active job.
Excl ==
    /\ Exclusive => \A j \in ActiveJobs : inst.any = [status |-> jobs[j].status, job |-> j]
    /\ ~env.remediate => \A m \in Remediations : wire[m] = "idle"

Base ==
    /\ env \in Envs
    /\ jobs \in Seq(Job)
    /\ wire \in [Remediations -> {"idle", "create", "created", "skipped"}]
    /\ call = [d \in Calls |-> call[d]]

Inv ==
    /\ Base
    /\ MarksOK(inst, jobs)
    /\ \A c \in Calls : CallFacts(call[c], jobs, env.prompt)
    /\ Excl

----------------------------------------------------------------------------
(* Jobs.                                                                   *)

USE AdmissionAssumption

\* A step that leaves the jobs alone ages them.
LEMMA SameAges ==
    ASSUME NEW J \in Seq(Job)
    PROVE  Ages(J, J)
  BY DEF Ages

\* The jobs with one more, and with another status of one.
Added(J, ask) == Append(J, [kind |-> ask.kind, version |-> ask.version, status |-> "queued"])
WithStatus(J, j, status) == [J EXCEPT ![j].status = status]

\* A new row ages the others.
LEMMA AppendAges ==
    ASSUME NEW J \in Seq(Job), NEW ask \in Ask
    PROVE  /\ Ages(J, Added(J, ask))
           /\ Len(Added(J, ask)) = Len(J) + 1
           /\ \A j \in 1 .. Len(J) : Added(J, ask)[j] = J[j]
           /\ Added(J, ask)[Len(J) + 1] = [kind |-> ask.kind, version |-> ask.version, status |-> "queued"]
           /\ ActiveIn(Added(J, ask)) = ActiveIn(J) \cup {Len(J) + 1}
  <1> DEFINE new == [kind |-> ask.kind, version |-> ask.version, status |-> "queued"]
             K == Added(J, ask)
  <1> USE DEF Added
  <1>1. new \in Job
    BY DEF Job, Ask, Status, Active
  <1>2. Len(K) = Len(J) + 1 /\ K \in Seq(Job) /\ Len(J) \in Nat
    BY <1>1
  <1>3. \A j \in 1 .. Len(J) : K[j] = J[j]
    BY <1>1, <1>2
  <1>4. K[Len(J) + 1] = new
    BY <1>1, <1>2
  <1>5. new.status \in Active
    BY DEF Active
  <1>6. Ages(J, K)
    BY <1>2, <1>3 DEF Ages
  <1>7. ActiveIn(K) = ActiveIn(J) \cup {Len(J) + 1}
    <2> HIDE DEF new
    <2>1. \A j \in 1 .. Len(K) : j \in 1 .. Len(J) \/ j = Len(J) + 1
      BY <1>2
    <2>2. \A j \in 1 .. Len(J) : j \in 1 .. Len(K)
      BY <1>2
    <2>3. Len(J) + 1 \in 1 .. Len(K)
      BY <1>2
    <2> QED BY <2>1, <2>2, <2>3, <1>3, <1>4, <1>5 DEF ActiveIn
  <1> QED BY <1>2, <1>3, <1>4, <1>6, <1>7

\* So does a change of status of an active job.
LEMMA StatusAges ==
    ASSUME NEW J \in Seq(Job), NEW j \in 1 .. Len(J), NEW status \in {"running", "ended"},
           J[j].status \in Active
    PROVE  /\ Ages(J, WithStatus(J, j, status))
           /\ Len(WithStatus(J, j, status)) = Len(J)
           /\ \A i \in 1 .. Len(J) : i # j => WithStatus(J, j, status)[i] = J[i]
           /\ WithStatus(J, j, status)[j].status = status
           /\ WithStatus(J, j, status)[j].kind = J[j].kind
  <1> DEFINE K == WithStatus(J, j, status)
  <1> USE DEF WithStatus
  <1>1. J[j] \in Job
    OBVIOUS
  <1>2. [J[j] EXCEPT !.status = status] \in Job
    BY <1>1 DEF Job, Status, Active
  <1>3. K = [J EXCEPT ![j] = [J[j] EXCEPT !.status = status]]
    OBVIOUS
  <1>4. K \in Seq(Job) /\ Len(K) = Len(J)
    BY <1>2, <1>3
  <1>5. \A i \in 1 .. Len(J) : i # j => K[i] = J[i]
    BY <1>3
  <1>6. K[j] = [J[j] EXCEPT !.status = status]
    BY <1>3
  <1>7. K[j].status = status /\ K[j].kind = J[j].kind /\ K[j].version = J[j].version
    BY <1>1, <1>6 DEF Job
  <1>8. J[j].status # "ended"
    BY DEF Active
  <1> QED
    BY <1>4, <1>5, <1>7, <1>8 DEF Ages

\* What a call knows outlives every ageing of the jobs.
LEMMA CallAges ==
    ASSUME NEW J \in Seq(Job), NEW K, Ages(J, K), NEW r, NEW p \in BOOLEAN, CallFacts(r, J, p)
    PROVE  CallFacts(r, K, p)
  <1>1. Len(J) \in Nat /\ Len(K) \in Nat /\ Len(J) <= Len(K)
    BY DEF Ages
  <1>2. \A j \in 0 .. Len(J) : j \in 0 .. Len(K)
    BY <1>1
  <1>3. \A j \in 1 .. Len(J) : j \in 1 .. Len(K)
    BY <1>1
  <1>4. r \in CallIn(K) /\ r \in CallIn(J)
    BY <1>2, <1>3 DEF CallFacts, CallIn, MarksIn, MarkIn
  <1>5. r.since \in 0 .. Len(J) /\ r.live \subseteq 1 .. Len(J)
    BY <1>4 DEF CallIn
  <1>6. DuringIn(r, J) \subseteq DuringIn(r, K)
    BY <1>1, <1>5 DEF DuringIn
  <1>7. r.copy \in MarksIn(J) /\ r.copy \in MarksIn(K)
    BY <1>4 DEF CallIn
  <1>8. /\ r.copy.any.job \in 0 .. Len(J)
        /\ \A k \in Kinds : r.copy.of[k].job \in 0 .. Len(J)
    BY <1>7 DEF MarksIn, MarkIn
  <1>9. \A j \in 0 .. Len(J) : j # 0 => j \in 1 .. Len(J)
    BY <1>1
  <1>10. Paired(r.copy, K)
    BY <1>7, <1>8, <1>9 DEF Paired, Ages, CallFacts
  <1>11. PlaceFacts(r, K, p)
    <2>1. NeedsRepair(r.copy) => r.copy.any.job \in 1 .. Len(J)
      BY <1>8, <1>9 DEF NeedsRepair
    <2> QED BY <2>1, <1>6 DEF PlaceFacts, CallFacts, Ages
  <1>12. r.pc # "idle" => ActiveIn(K) \subseteq DuringIn(r, K)
    <2> SUFFICES ASSUME r.pc # "idle", NEW j \in 1 .. Len(K), K[j].status \in Active
                 PROVE  j \in DuringIn(r, K)
      BY DEF ActiveIn
    <2>1. CASE j \in 1 .. Len(J)
      <3>1. J[j] \in Job
        BY <2>1
      <3>2. J[j].status \in Active
        BY <2>1, <3>1 DEF Ages, Job, Status, Active
      <3> QED BY <2>1, <3>2, <1>6 DEF CallFacts, ActiveIn
    <2>2. CASE j \notin 1 .. Len(J)
      BY <2>2, <1>1, <1>5 DEF DuringIn
    <2> QED BY <2>1, <2>2
  <1>13. TrueAnswer(r, J) => TrueAnswer(r, K)
    BY <1>3, <1>6 DEF TrueAnswer, Ages
  <1> QED
    BY <1>4, <1>10, <1>11, <1>12, <1>13 DEF CallFacts

----------------------------------------------------------------------------
(* Markers.                                                                *)

\* Writing both markers of a job that is new or has changed status.
LEMMA MarkedOK ==
    ASSUME NEW J \in Seq(Job), NEW K, Ages(J, K), NEW I, MarksOK(I, J),
           NEW j \in 1 .. Len(K), NEW status \in Status, K[j].status = status,
           \A i \in 1 .. Len(J) : i # j => K[i] = J[i]
    PROVE  MarksOK(Marked(I, K[j].kind, j, status), K)
  <1> DEFINE k0 == K[j].kind
             M == Marked(I, k0, j, status)
  <1>1. Len(J) \in Nat /\ Len(K) \in Nat /\ Len(J) <= Len(K) /\ K \in Seq(Job)
    BY DEF Ages
  <1>2. K[j] \in Job /\ k0 \in Kinds
    <2>1. K[j] \in Job
      BY <1>1
    <2> QED BY <2>1 DEF Job
  <1>3. I \in MarksIn(J) /\ Paired(I, J)
    BY DEF MarksOK, Paired
  <1>4. /\ M.any = [status |-> status, job |-> j]
        /\ M.of[k0] = M.any
        /\ \A k \in Kinds : k # k0 => M.of[k] = I.of[k]
    BY <1>2, <1>3 DEF Marked, MarksIn
  <1>5. \A n \in 0 .. Len(J) : n \in 0 .. Len(K) /\ (n # 0 => n \in 1 .. Len(J) /\ n \in 1 .. Len(K))
    BY <1>1
  <1>6. j \in 0 .. Len(K) /\ j # 0
    BY <1>1
  <1>7. \A k \in Kinds : I.of[k] \in MarkIn(J) /\ I.of[k].job \in 0 .. Len(J)
    BY <1>3 DEF MarksIn, MarkIn
  <1>8. M \in MarksIn(K)
    <2>1. [status |-> status, job |-> j] \in MarkIn(K)
      BY <1>6 DEF MarkIn
    <2>2. \A k \in Kinds : I.of[k] \in MarkIn(K)
      BY <1>5, <1>7 DEF MarkIn
    <2>3. I.of \in [Kinds -> MarkIn(K)]
      BY <2>2, <1>3 DEF MarksIn
    <2> QED BY <2>1, <2>3, <1>2 DEF Marked, MarksIn
  <1>9. \A k \in Kinds : k # k0 => I.of[k].job # j
    <2> SUFFICES ASSUME NEW k \in Kinds, I.of[k].job = j PROVE k = k0
      OBVIOUS
    <2>1. j \in 1 .. Len(J)
      BY <1>5, <1>6, <1>7
    <2>2. J[j].kind = k /\ K[j].kind = J[j].kind
      BY <2>1, <1>3, <1>6 DEF Paired, Ages
    <2> QED BY <2>2
  <1> HIDE DEF M
  <1>10. Paired(M, K)
    <2>1. M.any.job = j /\ M.of[K[M.any.job].kind] = M.any
      BY <1>4
    <2>2. ASSUME NEW k \in Kinds, M.of[k].job # 0 PROVE K[M.of[k].job].kind = k
      <3>1. CASE k = k0
        BY <3>1, <1>4
      <3>2. CASE k # k0
        <4>1. M.of[k] = I.of[k] /\ I.of[k].job \in 1 .. Len(J)
          BY <3>2, <2>2, <1>4, <1>5, <1>7
        <4> QED BY <4>1, <2>2, <1>3 DEF Paired, Ages
      <3> QED BY <3>1, <3>2
    <2> QED BY <1>8, <2>1, <2>2 DEF Paired
  <1>11. Live(M.any, K)
    BY <1>4 DEF Live
  <1>12. ASSUME NEW k \in Kinds PROVE Live(M.of[k], K)
    <2>1. CASE k = k0
      BY <2>1, <1>4, <1>11
    <2>2. CASE k # k0
      <3>1. M.of[k] = I.of[k] /\ Live(I.of[k], J)
        BY <2>2, <1>4 DEF MarksOK
      <3> QED BY <2>2, <3>1, <1>5, <1>7, <1>9 DEF Live
    <2> QED BY <2>1, <2>2
  <1> QED BY <1>10, <1>11, <1>12 DEF MarksOK, M

\* A repair takes both markers of one job, and no other, out of the active
\* states.
LEMMA RepairedOK ==
    ASSUME jobs \in Seq(Job), MarksOK(inst, jobs), NEW copy, Paired(copy, jobs),
           NeedsRepair(copy), inst.any = copy.any
    PROVE  MarksOK(Repaired(copy), jobs)
  <1> DEFINE M == Repaired(copy)
             j == inst.any.job
             k0 == jobs[j].kind
  <1>1. Len(jobs) \in Nat /\ inst \in MarksIn(jobs) /\ copy \in MarksIn(jobs) /\ Paired(inst, jobs)
    BY DEF MarksOK, Paired
  <1>2. j \in 1 .. Len(jobs) /\ j # 0 /\ j \in 0 .. Len(jobs)
    BY <1>1 DEF NeedsRepair, MarksIn, MarkIn
  <1>3. k0 \in Kinds
    <2>1. jobs[j] \in Job
      BY <1>2
    <2> QED BY <2>1 DEF Job
  <1>4. copy.of[k0] = copy.any /\ inst.of[k0] = inst.any
    BY <1>1, <1>2 DEF Paired
  <1>5. \A k \in Kinds : k # k0 => copy.of[k].job # copy.any.job
    BY <1>1, <1>2 DEF Paired
  <1>6. /\ M.any = [status |-> "ended", job |-> j]
        /\ M.of[k0] = M.any
        /\ \A k \in Kinds : k # k0 => M.of[k] = inst.of[k]
    BY <1>3, <1>4, <1>5 DEF Repaired, NeedsRepair
  <1>7. M \in MarksIn(jobs)
    <2>1. \A k \in Kinds : inst.of[k] \in MarkIn(jobs) /\ inst.of[k].job \in 0 .. Len(jobs)
      BY <1>1 DEF MarksIn, MarkIn
    <2>2. \A n \in 0 .. Len(jobs) : [status |-> "ended", job |-> n] \in MarkIn(jobs)
      BY DEF MarkIn, Status
    <2> QED BY <2>1, <2>2, <1>2 DEF MarksIn, Repaired
  <1> HIDE DEF M
  <1>8. "ended" \notin Active
    BY DEF Active
  <1>9. Paired(M, jobs)
    BY <1>1, <1>6, <1>7 DEF Paired
  <1>10. Live(M.any, jobs)
    BY <1>6, <1>8 DEF Live
  <1>11. ASSUME NEW k \in Kinds PROVE Live(M.of[k], jobs)
    BY <1>6, <1>10 DEF MarksOK
  <1> QED BY <1>9, <1>10, <1>11 DEF MarksOK, M

----------------------------------------------------------------------------
(* Calls.                                                                  *)

\* A call goes on.
LEMMA GotoFacts ==
    ASSUME NEW J \in Seq(Job), NEW p \in BOOLEAN, NEW r, CallFacts(r, J, p), r.pc # "idle",
           NEW pc \in Pcs, NEW q, q = [r EXCEPT !.pc = pc], PlaceFacts(q, J, p)
    PROVE  CallFacts(q, J, p)
  <1>1. r \in CallIn(J)
    BY DEF CallFacts
  <1>2. /\ q.ask = r.ask /\ q.copy = r.copy /\ q.live = r.live
        /\ q.since = r.since /\ q.answer = r.answer
    BY <1>1 DEF CallIn
  <1>3. q \in CallIn(J)
    BY <1>1 DEF CallIn
  <1>4. DuringIn(q, J) = DuringIn(r, J)
    BY <1>2 DEF DuringIn
  <1> QED
    BY <1>2, <1>3, <1>4 DEF CallFacts, CopyLive, TrueAnswer

LEMMA NoMarksPaired ==
    ASSUME NEW J \in Seq(Job)
    PROVE  /\ Paired(NoMarks, J)
           /\ NoMarks.any.status \notin Active
           /\ \A k \in Kinds : NoMarks.of[k].status \notin Active
  <1>1. Len(J) \in Nat
    OBVIOUS
  <1>2. NoMark \in MarkIn(J) /\ NoMark.job = 0 /\ NoMark.status = "none"
    BY <1>1 DEF NoMark, MarkIn
  <1>3. NoMarks \in MarksIn(J) /\ NoMarks.any = NoMark /\ \A k \in Kinds : NoMarks.of[k] = NoMark
    BY <1>2 DEF NoMarks, MarksIn
  <1> QED BY <1>2, <1>3 DEF Paired, Active

\* A call ends with an answer that is true.
LEMMA AnswerFacts ==
    ASSUME NEW J \in Seq(Job), NEW p \in BOOLEAN, NEW r, CallFacts(r, J, p), r.pc # "idle",
           NEW what \in Answers, NEW j \in 0 .. Len(J), NEW q,
           q = [r EXCEPT !.pc = "done", !.copy = NoMarks,
                         !.answer = [what |-> what, job |-> j]],
           p => TrueAnswer(q, J)
    PROVE  CallFacts(q, J, p)
  <1>1. r \in CallIn(J)
    BY DEF CallFacts
  <1>2. NoMarks \in MarksIn(J)
    BY NoMarksPaired DEF Paired
  <1>3. /\ q.pc = "done" /\ q.copy = NoMarks /\ q.live = r.live /\ q.since = r.since
    BY <1>1 DEF CallIn
  <1>4. q \in CallIn(J)
    BY <1>1, <1>2 DEF CallIn, Pcs
  <1>5. CopyLive(q)
    BY <1>3, NoMarksPaired DEF CopyLive
  <1>6. PlaceFacts(q, J, p)
    BY <1>3 DEF PlaceFacts
  <1>7. DuringIn(q, J) = DuringIn(r, J)
    BY <1>3 DEF DuringIn
  <1> QED
    BY <1>3, <1>4, <1>5, <1>6, <1>7, NoMarksPaired DEF CallFacts

\* One call changes, while the jobs age.
LEMMA OthersKept ==
    ASSUME Inv, NEW c \in Calls, NEW r, call' = [call EXCEPT ![c] = r], env' = env,
           Ages(jobs, jobs'), CallFacts(r, jobs', env.prompt)
    PROVE  call' = [d \in Calls |-> call'[d]] /\ \A d \in Calls : CallFacts(call'[d], jobs', env'.prompt)
  <1>1. env.prompt \in BOOLEAN /\ jobs \in Seq(Job) /\ call = [d \in Calls |-> call[d]]
    BY DEF Inv, Base
  <1>2. ASSUME NEW d \in Calls PROVE CallFacts(call'[d], jobs', env.prompt)
    <2>1. CASE d = c
      BY <1>1, <2>1
    <2>2. CASE d # c
      <3>1. call'[d] = call[d] /\ CallFacts(call[d], jobs, env.prompt)
        BY <1>1, <2>2 DEF Inv
      <3> QED BY <3>1, <1>1, CallAges
    <2> QED BY <2>1, <2>2
  <1> QED BY <1>1, <1>2

\* No call changes.
LEMMA AllKept ==
    ASSUME Inv, UNCHANGED <<env, call>>, Ages(jobs, jobs')
    PROVE  call' = [d \in Calls |-> call'[d]] /\ \A d \in Calls : CallFacts(call'[d], jobs', env'.prompt)
  <1>1. env.prompt \in BOOLEAN /\ jobs \in Seq(Job) /\ call = [d \in Calls |-> call[d]]
    BY DEF Inv, Base
  <1> QED BY <1>1, CallAges DEF Inv

----------------------------------------------------------------------------
(* Steps of a call that write nothing.                                     *)

LEMMA CallOnly ==
    ASSUME Inv, NEW c \in Calls, NEW r, call' = [call EXCEPT ![c] = r],
           UNCHANGED <<env, jobs, inst, wire>>, CallFacts(r, jobs, env.prompt)
    PROVE  Inv'
  <1>1. jobs \in Seq(Job) /\ jobs' = jobs
    BY DEF Inv, Base
  <1>2. Ages(jobs, jobs')
    BY <1>1, SameAges
  <1>3. call' = [d \in Calls |-> call'[d]] /\ \A d \in Calls : CallFacts(call'[d], jobs', env'.prompt)
    BY <1>1, <1>2, OthersKept
  <1>4. Base'
    BY <1>3 DEF Inv, Base, Calls
  <1>5. Excl'
    BY DEF Inv, Excl, Exclusive, ActiveJobs, JobIds
  <1>6. MarksOK(inst, jobs)'
    BY DEF Inv
  <1> QED BY <1>3, <1>4, <1>5, <1>6 DEF Inv

LEMMA GotoStep ==
    ASSUME Inv, NEW c \in Calls, call[c].pc # "idle", NEW pc \in Pcs, Goto(c, pc),
           UNCHANGED <<env, jobs, inst, wire>>,
           PlaceFacts([call[c] EXCEPT !.pc = pc], jobs, env.prompt)
    PROVE  Inv'
  <1> DEFINE q == [call[c] EXCEPT !.pc = pc]
  <1>1. call' = [call EXCEPT ![c] = q]
    BY DEF Goto
  <1>2. jobs \in Seq(Job) /\ env.prompt \in BOOLEAN /\ CallFacts(call[c], jobs, env.prompt)
    BY DEF Inv, Base
  <1>3. CallFacts(q, jobs, env.prompt)
    BY <1>2, GotoFacts
  <1> HIDE DEF q
  <1> QED BY <1>1, <1>3, CallOnly

LEMMA AnswerStep ==
    ASSUME Inv, NEW c \in Calls, call[c].pc # "idle",
           NEW what \in {"existing", "refused", "listed", "failed"},
           NEW j \in 0 .. Len(jobs), Answer(c, what, j),
           UNCHANGED <<env, jobs, inst, wire>>,
           env.prompt /\ what = "existing" =>
             j \in DuringIn(call[c], jobs) /\ j \in JobIds /\ Same(j, call[c].ask),
           env.prompt /\ what = "refused" => DuringIn(call[c], jobs) # {}
    PROVE  Inv'
  <1> DEFINE q == [call[c] EXCEPT !.pc = "done", !.copy = NoMarks,
                                  !.answer = [what |-> what, job |-> j]]
  <1>1. call' = [call EXCEPT ![c] = q]
    BY DEF Answer, Inv, Base
  <1>2. jobs \in Seq(Job) /\ env.prompt \in BOOLEAN /\ CallFacts(call[c], jobs, env.prompt)
    BY DEF Inv, Base
  <1>3. call[c] \in CallIn(jobs)
    BY <1>2 DEF CallFacts
  <1>4. /\ q.answer = [what |-> what, job |-> j] /\ q.ask = call[c].ask
        /\ DuringIn(q, jobs) = DuringIn(call[c], jobs)
    BY <1>3 DEF CallIn, DuringIn
  <1>5. what \in Answers
    BY DEF Answers
  <1>6. env.prompt => TrueAnswer(q, jobs)
    <2> HIDE DEF q
    <2> QED BY <1>4 DEF TrueAnswer, Same, JobIds
  <1>7. CallFacts(q, jobs, env.prompt)
    BY <1>2, <1>5, <1>6, AnswerFacts
  <1> HIDE DEF q
  <1> QED BY <1>1, <1>7, CallOnly

\* The jobs that are active are active during every call that has begun.
LEMMA ActiveDuring ==
    ASSUME Inv, NEW c \in Calls, call[c].pc # "idle", NEW j \in ActiveJobs
    PROVE  j \in DuringIn(call[c], jobs) /\ j \in JobIds /\ j \in 0 .. Len(jobs)
  <1>1. CallFacts(call[c], jobs, env.prompt)
    BY DEF Inv
  <1>2. j \in ActiveIn(jobs) /\ j \in 1 .. Len(jobs)
    BY DEF ActiveJobs, JobIds, ActiveIn
  <1> QED BY <1>1, <1>2 DEF CallFacts, JobIds

\* A listed job exists, and with prompt indexes it is active.
LEMMA ViewsAre ==
    ASSUME Inv, NEW seen \in Views
    PROVE  /\ \A j \in seen : j \in JobIds /\ j \in 0 .. Len(jobs)
           /\ env.prompt => seen = ActiveJobs
  <1>1. Len(jobs) \in Nat
    BY DEF Inv, Base
  <1> QED BY <1>1 DEF Views, ActiveJobs, JobIds

LEMMA BeginStep ==
    ASSUME Inv, NEW c \in Calls, NEW ask \in Ask, NEW pc \in {"list", "precheck"},
           Begin(c, ask, pc)
    PROVE  Inv'
  <1> DEFINE q == [pc |-> pc, ask |-> ask, copy |-> inst, live |-> ActiveJobs,
                   since |-> Len(jobs), answer |-> NoAnswer]
  <1>1. call' = [call EXCEPT ![c] = q] /\ UNCHANGED <<env, jobs, inst, wire>>
    BY DEF Begin
  <1>2. jobs \in Seq(Job) /\ Len(jobs) \in Nat /\ MarksOK(inst, jobs)
    BY DEF Inv, Base
  <1>3. inst \in MarksIn(jobs) /\ Paired(inst, jobs)
    BY <1>2 DEF MarksOK, Paired
  <1>4. ActiveJobs = ActiveIn(jobs) /\ ActiveJobs \subseteq 1 .. Len(jobs)
    BY DEF ActiveJobs, ActiveIn, JobIds
  <1>5. q \in CallIn(jobs)
    <2>1. NoAnswer \in [what : Answers, job : 0 .. Len(jobs)]
      BY <1>2 DEF NoAnswer, Answers
    <2>2. Len(jobs) \in 0 .. Len(jobs)
      BY <1>2
    <2>3. pc \in Pcs
      BY DEF Pcs
    <2> QED BY <2>1, <2>2, <2>3, <1>3, <1>4 DEF CallIn
  <1>6. CopyLive(q)
    BY <1>2 DEF CopyLive, MarksOK, Live, ActiveJobs, JobIds
  <1>7. PlaceFacts(q, jobs, env.prompt)
    BY DEF PlaceFacts
  <1>8. ActiveIn(jobs) \subseteq DuringIn(q, jobs)
    BY <1>4 DEF DuringIn
  <1>9. TrueAnswer(q, jobs)
    BY DEF TrueAnswer, NoAnswer
  <1>10. CallFacts(q, jobs, env.prompt)
    BY <1>3, <1>5, <1>6, <1>7, <1>8, <1>9 DEF CallFacts
  <1> HIDE DEF q
  <1> QED BY <1>1, <1>10, CallOnly

\* The copy of a call, and of a call that goes on.
LEMMA CopyFacts ==
    ASSUME Inv, NEW c \in Calls
    PROVE  /\ call[c] \in CallIn(jobs) /\ call[c].ask \in Ask /\ call[c].ask.kind \in Kinds
           /\ call[c].copy \in MarksIn(jobs) /\ Paired(call[c].copy, jobs)
           /\ \A pc : LET q == [call[c] EXCEPT !.pc = pc] IN
                q.pc = pc /\ q.copy = call[c].copy /\ q.ask = call[c].ask
                /\ DuringIn(q, jobs) = DuringIn(call[c], jobs)
  <1>1. call[c] \in CallIn(jobs) /\ Paired(call[c].copy, jobs)
    BY DEF Inv, CallFacts
  <1>2. call[c].ask \in Ask /\ call[c].copy \in MarksIn(jobs)
    BY <1>1 DEF CallIn
  <1>3. call[c].ask.kind \in Kinds
    BY <1>2 DEF Ask
  <1>4. \A pc : LET q == [call[c] EXCEPT !.pc = pc] IN
          q.pc = pc /\ q.copy = call[c].copy /\ q.ask = call[c].ask
          /\ q.live = call[c].live /\ q.since = call[c].since
    BY <1>1 DEF CallIn
  <1> QED BY <1>1, <1>2, <1>3, <1>4 DEF DuringIn

\* If nothing was active when an index that is prompt was read, the job of
\* the copy has ended.
LEMMA CopyEnded ==
    ASSUME Inv, NEW c \in Calls, ActiveJobs = {}, NeedsRepair(call[c].copy)
    PROVE  jobs[call[c].copy.any.job].status = "ended"
  <1> DEFINE j == call[c].copy.any.job
  <1>1. j \in 0 .. Len(jobs) /\ j # 0 /\ jobs \in Seq(Job) /\ Len(jobs) \in Nat
    BY CopyFacts DEF MarksIn, MarkIn, NeedsRepair, Inv, Base
  <1>2. j \in 1 .. Len(jobs)
    BY <1>1
  <1>3. jobs[j] \in Job
    BY <1>1, <1>2
  <1>4. jobs[j].status \in Status /\ jobs[j].status \notin Active
    BY <1>2, <1>3 DEF ActiveJobs, JobIds, Job
  <1> QED BY <1>4 DEF Status

\* rejectActiveManagedUpdateBeforeLatestResolution.
LEMMA PrecheckStep ==
    ASSUME Inv, NEW c \in Calls, rejectActiveManagedUpdateBeforeLatestResolution(c)
    PROVE  Inv'
  <1>1. PICK seen \in Views : IF seen # {} THEN Answer(c, "refused", 0) ELSE Goto(c, "list")
    BY DEF rejectActiveManagedUpdateBeforeLatestResolution
  <1>2. call[c].pc # "idle" /\ UNCHANGED <<env, jobs, inst, wire>>
    BY DEF rejectActiveManagedUpdateBeforeLatestResolution
  <1>3. CASE seen # {}
    <2>1. env.prompt => DuringIn(call[c], jobs) # {}
      BY <1>2, <1>3, ViewsAre, ActiveDuring
    <2>2. 0 \in 0 .. Len(jobs)
      BY DEF Inv, Base
    <2> QED BY <1>1, <1>2, <1>3, <2>1, <2>2, AnswerStep
  <1>4. CASE seen = {}
    <2>1. PlaceFacts([call[c] EXCEPT !.pc = "list"], jobs, env.prompt)
      BY CopyFacts DEF PlaceFacts
    <2>2. "list" \in Pcs
      BY DEF Pcs
    <2> QED BY <1>1, <1>2, <1>4, <2>1, <2>2, GotoStep
  <1> QED BY <1>3, <1>4

\* findExistingManagedUpdateJob.
LEMMA FindStep ==
    ASSUME Inv, NEW c \in Calls, findExistingManagedUpdateJob(c)
    PROVE  Inv'
  <1>1. PICK seen \in Views :
          \/ \E j \in seen : NewestSame(j, seen, call[c].ask) /\ Answer(c, "existing", j)
          \/ seen # {} /\ Answer(c, "refused", 0)
          \/ seen = {} /\ Goto(c, AfterList(c))
    BY DEF findExistingManagedUpdateJob
  <1>2. call[c].pc # "idle" /\ UNCHANGED <<env, jobs, inst, wire>>
    BY DEF findExistingManagedUpdateJob
  <1>3. ASSUME NEW j \in seen, NewestSame(j, seen, call[c].ask), Answer(c, "existing", j)
        PROVE  Inv'
    <2>1. Same(j, call[c].ask) /\ j \in JobIds /\ j \in 0 .. Len(jobs)
      BY <1>3, ViewsAre DEF NewestSame
    <2>2. env.prompt => j \in DuringIn(call[c], jobs)
      BY <1>2, ViewsAre, ActiveDuring
    <2> QED BY <1>2, <1>3, <2>1, <2>2, AnswerStep
  <1>4. ASSUME seen # {}, Answer(c, "refused", 0)
        PROVE  Inv'
    <2>1. env.prompt => DuringIn(call[c], jobs) # {}
      BY <1>2, <1>4, ViewsAre, ActiveDuring
    <2>2. 0 \in 0 .. Len(jobs)
      BY DEF Inv, Base
    <2> QED BY <1>2, <1>4, <2>1, <2>2, AnswerStep
  <1>5. ASSUME seen = {}, Goto(c, AfterList(c))
        PROVE  Inv'
    <2>1. env.prompt /\ NeedsRepair(call[c].copy) => jobs[call[c].copy.any.job].status = "ended"
      BY <1>5, ViewsAre, CopyEnded
    <2>2. AfterList(c) \in Pcs
      BY DEF AfterList, AfterMarker, Pcs
    <2>3. /\ AfterList(c) # "relist"
          /\ AfterList(c) = "repair" => NeedsRepair(call[c].copy)
          /\ AfterList(c) = "get" =>
               LET mark == managedUpdateMarkerForRequest(call[c].copy, call[c].ask) IN
               mark.job # 0 /\ mark.status \in Active
      BY DEF AfterList, AfterMarker
    <2> DEFINE q == [call[c] EXCEPT !.pc = AfterList(c)]
    <2>4. q.pc = AfterList(c) /\ q.copy = call[c].copy /\ q.ask = call[c].ask
      BY CopyFacts
    <2>5. PlaceFacts(q, jobs, env.prompt)
      <3> HIDE DEF q
      <3> QED BY <2>1, <2>3, <2>4 DEF PlaceFacts
    <2> QED BY <1>2, <1>5, <2>2, <2>5, GotoStep
  <1> QED BY <1>1, <1>3, <1>4, <1>5

\* The job the copy's marker names exists and was active when it was read.
LEMMA MarkerJob ==
    ASSUME Inv, NEW c \in Calls, call[c].pc = "get",
           NEW j, j = managedUpdateMarkerForRequest(call[c].copy, call[c].ask).job
    PROVE  j \in JobIds /\ j \in 0 .. Len(jobs) /\ j \in DuringIn(call[c], jobs)
  <1>1. CopyLive(call[c]) /\ PlaceFacts(call[c], jobs, env.prompt)
    BY DEF Inv, CallFacts
  <1>2. j \in call[c].live
    BY <1>1, CopyFacts DEF PlaceFacts, CopyLive, managedUpdateMarkerForRequest
  <1>3. call[c].live \subseteq 1 .. Len(jobs) /\ Len(jobs) \in Nat
    BY CopyFacts DEF CallIn, Inv, Base
  <1> QED BY <1>2, <1>3 DEF DuringIn, JobIds

\* getExistingUpdateJobFromInstanceState.
LEMMA GetStep ==
    ASSUME Inv, NEW c \in Calls, getExistingUpdateJobFromInstanceState(c)
    PROVE  Inv'
  <1> DEFINE j == managedUpdateMarkerForRequest(call[c].copy, call[c].ask).job
             next == AfterMarker(c)
  <1>1. /\ call[c].pc = "get" /\ call[c].pc # "idle" /\ UNCHANGED <<env, jobs, inst, wire>>
        /\ \/ Same(j, call[c].ask) /\ Answer(c, "existing", j)
           \/ jobs[j].status \in Active /\ Answer(c, "refused", 0)
           \/ Goto(c, next)
    BY DEF getExistingUpdateJobFromInstanceState
  <1>2. j \in JobIds /\ j \in 0 .. Len(jobs) /\ j \in DuringIn(call[c], jobs)
    BY <1>1, MarkerJob
  <1>3. 0 \in 0 .. Len(jobs)
    BY DEF Inv, Base
  <1>4. next \in Pcs /\ next # "get" /\ next # "relist" /\ (next = "repair" => NeedsRepair(call[c].copy))
    BY DEF Pcs, AfterMarker
  <1>5. PlaceFacts([call[c] EXCEPT !.pc = next], jobs, env.prompt)
    <2> DEFINE q == [call[c] EXCEPT !.pc = next]
    <2>1. q.pc = next /\ q.copy = call[c].copy
      BY CopyFacts
    <2>2. PlaceFacts(call[c], jobs, env.prompt)
      BY DEF Inv, CallFacts
    <2> HIDE DEF q, next
    <2>3. PlaceFacts(q, jobs, env.prompt)
      BY <1>1, <1>4, <2>1, <2>2 DEF PlaceFacts
    <2> QED BY <2>3 DEF q
  <1> HIDE DEF j, next
  <1>6. CASE Same(j, call[c].ask) /\ Answer(c, "existing", j)
    BY <1>1, <1>2, <1>6, AnswerStep
  <1>7. CASE jobs[j].status \in Active /\ Answer(c, "refused", 0)
    BY <1>1, <1>2, <1>3, <1>7, AnswerStep
  <1>8. CASE Goto(c, next)
    BY <1>1, <1>4, <1>5, <1>8, GotoStep
  <1> QED BY <1>1, <1>6, <1>7, <1>8

\* An active common marker names an active job.
LEMMA MarkerIsActive ==
    ASSUME Inv, inst.any.status \in Active
    PROVE  inst.any.job \in ActiveJobs
  BY DEF Inv, MarksOK, Live, ActiveJobs, JobIds

\* The transaction's condition fails because a job is active.
LEMMA ConflictStep ==
    ASSUME Inv, NEW c \in Calls, CreateConflicts(c)
    PROVE  Inv'
  <1>1. /\ call[c].pc # "idle" /\ UNCHANGED <<env, jobs, inst, wire>> /\ Goto(c, "relist")
        /\ inst.any.status \in Active
    BY DEF CreateConflicts, updateInstanceNoActiveUpdateCondition
  <1>2. DuringIn(call[c], jobs) # {}
    BY <1>1, MarkerIsActive, ActiveDuring
  <1>3. PlaceFacts([call[c] EXCEPT !.pc = "relist"], jobs, env.prompt)
    BY <1>2, CopyFacts DEF PlaceFacts
  <1>4. "relist" \in Pcs
    BY DEF Pcs
  <1> QED BY <1>1, <1>3, <1>4, GotoStep

\* handleManagedUpdateCreateConflict.
LEMMA RelistStep ==
    ASSUME Inv, NEW c \in Calls, handleManagedUpdateCreateConflict(c)
    PROVE  Inv'
  <1>1. PICK seen \in Views :
          \/ \E j \in seen : NewestSame(j, seen, call[c].ask) /\ Answer(c, "existing", j)
          \/ Answer(c, "refused", 0)
    BY DEF handleManagedUpdateCreateConflict
  <1>2. call[c].pc = "relist" /\ call[c].pc # "idle" /\ UNCHANGED <<env, jobs, inst, wire>>
    BY DEF handleManagedUpdateCreateConflict
  <1>3. ASSUME NEW j \in seen, NewestSame(j, seen, call[c].ask), Answer(c, "existing", j)
        PROVE  Inv'
    <2>1. Same(j, call[c].ask) /\ j \in JobIds /\ j \in 0 .. Len(jobs)
      BY <1>3, ViewsAre DEF NewestSame
    <2>2. env.prompt => j \in DuringIn(call[c], jobs)
      BY <1>2, ViewsAre, ActiveDuring
    <2> QED BY <1>2, <1>3, <2>1, <2>2, AnswerStep
  <1>4. ASSUME Answer(c, "refused", 0)
        PROVE  Inv'
    <2>1. DuringIn(call[c], jobs) # {}
      BY <1>2 DEF Inv, CallFacts, PlaceFacts
    <2>2. 0 \in 0 .. Len(jobs)
      BY DEF Inv, Base
    <2> QED BY <1>2, <1>4, <2>1, <2>2, AnswerStep
  <1> QED BY <1>1, <1>3, <1>4

\* nudgeActiveUpdateJobIfNeeded.
LEMMA NudgeStep ==
    ASSUME Inv, NEW c \in Calls, nudgeActiveUpdateJobIfNeeded(c)
    PROVE  Inv'
  <1>1. PICK seen \in Views : IF seen = {} /\ NeedsRepair(call[c].copy)
                              THEN Goto(c, "repair") ELSE Answer(c, "listed", 0)
    BY DEF nudgeActiveUpdateJobIfNeeded
  <1>2. call[c].pc # "idle" /\ UNCHANGED <<env, jobs, inst, wire>>
    BY DEF nudgeActiveUpdateJobIfNeeded
  <1>3. CASE seen = {} /\ NeedsRepair(call[c].copy)
    <2>1. env.prompt => jobs[call[c].copy.any.job].status = "ended"
      BY <1>3, ViewsAre, CopyEnded
    <2>2. PlaceFacts([call[c] EXCEPT !.pc = "repair"], jobs, env.prompt)
      BY <1>3, <2>1, CopyFacts DEF PlaceFacts
    <2>3. "repair" \in Pcs
      BY DEF Pcs
    <2> QED BY <1>1, <1>2, <1>3, <2>2, <2>3, GotoStep
  <1>4. CASE ~(seen = {} /\ NeedsRepair(call[c].copy))
    <2>1. 0 \in 0 .. Len(jobs)
      BY DEF Inv, Base
    <2> QED BY <1>1, <1>2, <1>4, <2>1, AnswerStep
  <1> QED BY <1>3, <1>4

LEMMA FailStep ==
    ASSUME Inv, NEW c \in Calls, CallFails(c)
    PROVE  Inv'
  <1>1. 0 \in 0 .. Len(jobs)
    BY DEF Inv, Base
  <1> QED BY <1>1, AnswerStep DEF CallFails

----------------------------------------------------------------------------
(* Steps that write.                                                       *)

\* A repair, and the call it belongs to goes on as r.
LEMMA RepairKeeps ==
    ASSUME Inv, NEW c \in Calls, call[c].pc = "repair",
           repairStaleInstanceUpdateMarker(call[c].copy), UNCHANGED <<env, jobs, wire>>,
           NEW r, call' = [call EXCEPT ![c] = r], CallFacts(r, jobs, env.prompt)
    PROVE  Inv'
  <1> DEFINE copy == call[c].copy
  <1>1. jobs \in Seq(Job) /\ jobs' = jobs /\ MarksOK(inst, jobs)
    BY DEF Inv, Base
  <1>2. Ages(jobs, jobs')
    BY <1>1, SameAges
  <1>3. call' = [d \in Calls |-> call'[d]] /\ \A d \in Calls : CallFacts(call'[d], jobs', env'.prompt)
    BY <1>1, <1>2, OthersKept
  <1>4. Base'
    BY <1>3 DEF Inv, Base, Calls
  <1>5. /\ NeedsRepair(copy) /\ Paired(copy, jobs)
        /\ env.prompt => jobs[copy.any.job].status = "ended"
    BY CopyFacts DEF Inv, CallFacts, PlaceFacts
  <1>6. MarksOK(inst', jobs')
    BY <1>1, <1>5, RepairedOK DEF repairStaleInstanceUpdateMarker
  <1>7. env.prompt => inst' = inst
    <2>1. inst.any = copy.any => jobs[copy.any.job].status \in Active
      BY <1>1, <1>5 DEF MarksOK, Live, NeedsRepair
    <2>2. "ended" \notin Active
      BY DEF Active
    <2> QED BY <1>5, <2>1, <2>2 DEF repairStaleInstanceUpdateMarker
  <1>8. Excl'
    BY <1>7 DEF Inv, Excl, Exclusive, ActiveJobs, JobIds
  <1> QED BY <1>3, <1>4, <1>6, <1>8 DEF Inv

LEMMA CreateRepairStep ==
    ASSUME Inv, NEW c \in Calls, CreateRepairs(c)
    PROVE  Inv'
  <1> DEFINE q == [call[c] EXCEPT !.pc = "write"]
  <1>1. /\ call[c].pc = "repair" /\ call[c].pc # "idle" /\ UNCHANGED <<env, jobs, wire>>
        /\ repairStaleInstanceUpdateMarker(call[c].copy)
        /\ call' = [call EXCEPT ![c] = q]
    BY DEF CreateRepairs, Goto
  <1>2. jobs \in Seq(Job) /\ env.prompt \in BOOLEAN /\ CallFacts(call[c], jobs, env.prompt)
    BY DEF Inv, Base
  <1>3. PlaceFacts(q, jobs, env.prompt)
    BY CopyFacts DEF PlaceFacts
  <1>4. "write" \in Pcs
    BY DEF Pcs
  <1>5. CallFacts(q, jobs, env.prompt)
    BY <1>1, <1>2, <1>3, <1>4, GotoFacts
  <1> HIDE DEF q
  <1> QED BY <1>1, <1>5, RepairKeeps

LEMMA ListRepairStep ==
    ASSUME Inv, NEW c \in Calls, ListRepairs(c)
    PROVE  Inv'
  <1> DEFINE q == [call[c] EXCEPT !.pc = "done", !.copy = NoMarks,
                                  !.answer = [what |-> "listed", job |-> 0]]
  <1>1. /\ call[c].pc = "repair" /\ call[c].pc # "idle" /\ UNCHANGED <<env, jobs, wire>>
        /\ repairStaleInstanceUpdateMarker(call[c].copy)
        /\ call' = [call EXCEPT ![c] = q]
    BY DEF ListRepairs, Answer, Inv, Base
  <1>2. /\ jobs \in Seq(Job) /\ env.prompt \in BOOLEAN /\ CallFacts(call[c], jobs, env.prompt)
        /\ 0 \in 0 .. Len(jobs)
    BY DEF Inv, Base
  <1>3. q.answer.what = "listed"
    BY CopyFacts DEF CallIn
  <1>4. TrueAnswer(q, jobs)
    <2> HIDE DEF q
    <2> QED BY <1>3 DEF TrueAnswer
  <1>5. "listed" \in Answers
    BY DEF Answers
  <1>6. CallFacts(q, jobs, env.prompt)
    BY <1>1, <1>2, <1>4, <1>5, AnswerFacts
  <1> HIDE DEF q
  <1> QED BY <1>1, <1>6, RepairKeeps

\* While the promise is made, an inactive common marker means no active job.
LEMMA SlotEmpty ==
    ASSUME Inv, Exclusive, inst.any.status \notin Active
    PROVE  ActiveJobs = {}
  <1> SUFFICES ASSUME NEW j \in ActiveJobs PROVE FALSE
    OBVIOUS
  <1>1. inst.any = [status |-> jobs[j].status, job |-> j]
    BY DEF Inv, Excl
  <1>2. jobs[j].status \in Active
    BY DEF ActiveJobs
  <1> QED BY <1>1, <1>2

\* The transaction that creates a job.
LEMMA CreateStep ==
    ASSUME Inv, NEW c \in Calls, handlePortalCreateInstanceUpdateJob(c)
    PROVE  Inv'
  <1> DEFINE ask == call[c].ask
             j == Len(jobs) + 1
             r == call[c]
             q == [call[c] EXCEPT !.pc = "done", !.copy = NoMarks,
                                  !.answer = [what |-> "created", job |-> j]]
  <1>1. /\ r.pc # "idle" /\ UNCHANGED <<env, wire>>
        /\ inst.any.status \notin Active
        /\ jobs' = Added(jobs, ask)
        /\ inst' = Marked(inst, ask.kind, j, "queued")
        /\ call' = [call EXCEPT ![c] = q]
    BY DEF handlePortalCreateInstanceUpdateJob, Answer, NewJob, Added,
           updateInstanceNoActiveUpdateCondition, Inv, Base
  <1>2. jobs \in Seq(Job) /\ Len(jobs) \in Nat /\ env.prompt \in BOOLEAN /\ MarksOK(inst, jobs)
    BY DEF Inv, Base
  <1>3. ask \in Ask /\ r \in CallIn(jobs)
    BY CopyFacts
  <1>4. /\ Ages(jobs, jobs') /\ Len(jobs') = j
        /\ \A i \in 1 .. Len(jobs) : jobs'[i] = jobs[i]
        /\ jobs'[j] = [kind |-> ask.kind, version |-> ask.version, status |-> "queued"]
        /\ ActiveIn(jobs') = ActiveIn(jobs) \cup {j}
    <2> HIDE DEF ask
    <2> QED BY <1>1, <1>2, <1>3, AppendAges
  <1>5. jobs' \in Seq(Job) /\ j \in 1 .. Len(jobs') /\ j \in 0 .. Len(jobs')
    BY <1>2, <1>4 DEF Ages
  <1>6. CallFacts(r, jobs', env.prompt)
    BY <1>2, <1>4, CallAges DEF Inv
  <1>7. CallFacts(q, jobs', env.prompt)
    <2>1. /\ q.answer = [what |-> "created", job |-> j] /\ q.ask = ask /\ q.since = r.since
      BY <1>3 DEF CallIn
    <2>2. r.since \in 0 .. Len(jobs)
      BY <1>3 DEF CallIn
    <2>3. TrueAnswer(q, jobs')
      <3>1. j \in DuringIn(q, jobs')
        BY <1>2, <1>4, <2>1, <2>2 DEF DuringIn
      <3> HIDE DEF q
      <3> QED BY <1>4, <1>5, <2>1, <3>1 DEF TrueAnswer
    <2>4. "created" \in Answers
      BY DEF Answers
    <2> QED BY <1>1, <1>2, <1>5, <1>6, <2>3, <2>4, AnswerFacts
  <1> HIDE DEF q
  <1>8. call' = [d \in Calls |-> call'[d]] /\ \A d \in Calls : CallFacts(call'[d], jobs', env'.prompt)
    BY <1>1, <1>4, <1>7, OthersKept
  <1>9. Base'
    BY <1>1, <1>5, <1>8 DEF Inv, Base, Calls
  <1>10. MarksOK(inst', jobs')
    <2>1. "queued" \in Status
      BY DEF Status, Active
    <2>2. jobs'[j].status = "queued" /\ jobs'[j].kind = ask.kind
      BY <1>4
    <2> HIDE DEF j, ask
    <2>3. MarksOK(Marked(inst, jobs'[j].kind, j, "queued"), jobs')
      <3>1. \A i \in 1 .. Len(jobs) : i # j => jobs'[i] = jobs[i]
        BY <1>4
      <3>2. Ages(jobs, jobs')
        BY <1>4
      <3> QED BY <1>2, <1>5, <2>1, <2>2, <3>1, <3>2, MarkedOK, Zenon
    <2> QED BY <1>1, <2>2, <2>3
  <1>11. Excl'
    <2>1. Exclusive' => ActiveIn(jobs') = {j}
      <3>1. Exclusive => ActiveJobs = {}
        BY <1>1, SlotEmpty
      <3> QED BY <1>1, <1>4, <3>1 DEF Exclusive, ActiveJobs, ActiveIn, JobIds
    <2>2. ActiveJobs' = ActiveIn(jobs')
      BY DEF ActiveJobs, ActiveIn, JobIds
    <2>3. inst'.any = [status |-> jobs'[j].status, job |-> j]
      BY <1>1, <1>4 DEF Marked
    <2> HIDE DEF j
    <2> QED BY <1>1, <2>1, <2>2, <2>3 DEF Inv, Excl
  <1> QED BY <1>8, <1>9, <1>10, <1>11 DEF Inv

\* Remediation lists the active jobs.
LEMMA WireListStep ==
    ASSUME Inv, NEW m \in Remediations, ListActiveUpdateJobs(m)
    PROVE  Inv'
  <1>1. jobs \in Seq(Job) /\ UNCHANGED <<env, jobs, inst, call>> /\ env.remediate
    BY DEF Inv, Base, ListActiveUpdateJobs
  <1>2. \A d \in Calls : CallFacts(call'[d], jobs', env'.prompt)
    BY <1>1 DEF Inv
  <1>3. \E w \in {"create", "skipped"} : wire' = [wire EXCEPT ![m] = w]
    BY DEF ListActiveUpdateJobs
  <1>4. Base'
    BY <1>1, <1>3 DEF Inv, Base, Calls
  <1>5. Excl'
    BY <1>1 DEF Inv, Excl, Exclusive, ActiveJobs, JobIds
  <1> QED BY <1>1, <1>2, <1>4, <1>5 DEF Inv

\* Remediation is under way only where operators remediate.
LEMMA WireNeedsRemediate ==
    ASSUME Inv, NEW m \in Remediations, wire[m] # "idle"
    PROVE  env.remediate /\ ~Exclusive
  BY DEF Inv, Excl, Exclusive

\* A marker stays sound when rows are added.
LEMMA AppendMarks ==
    ASSUME NEW J \in Seq(Job), NEW K, Ages(J, K), NEW I, MarksOK(I, J),
           \A i \in 1 .. Len(J) : K[i] = J[i]
    PROVE  MarksOK(I, K)
  <1>1. Len(J) \in Nat /\ Len(K) \in Nat /\ Len(J) <= Len(K)
    BY DEF Ages
  <1>2. \A n \in 0 .. Len(J) : n \in 0 .. Len(K) /\ (n # 0 => n \in 1 .. Len(J) /\ n \in 1 .. Len(K))
    BY <1>1
  <1>3. I \in MarksIn(J)
    BY DEF MarksOK, Paired
  <1>4. I \in MarksIn(K)
    BY <1>2, <1>3 DEF MarksIn, MarkIn
  <1>5. I.any.job \in 0 .. Len(J) /\ \A k \in Kinds : I.of[k].job \in 0 .. Len(J)
    BY <1>3 DEF MarksIn, MarkIn
  <1>6. Paired(I, K)
    BY <1>2, <1>4, <1>5 DEF MarksOK, Paired
  <1>7. \A n \in 1 .. Len(J) : n \in 1 .. Len(K)
    BY <1>1
  <1> QED BY <1>6, <1>7 DEF MarksOK, Live

\* Remediation creates a row and leaves the markers alone.
LEMMA WireCreateStep ==
    ASSUME Inv, NEW m \in Remediations, createRemediationMCPJob(m)
    PROVE  Inv'
  <1>1. /\ wire[m] # "idle" /\ UNCHANGED <<env, inst, call>>
        /\ jobs' = Added(jobs, Wiring)
        /\ wire' = [wire EXCEPT ![m] = "created"]
    BY DEF createRemediationMCPJob, NewJob, Added
  <1>2. jobs \in Seq(Job) /\ MarksOK(inst, jobs) /\ Wiring \in Ask
    BY DEF Inv, Base
  <1>3. Ages(jobs, jobs') /\ \A i \in 1 .. Len(jobs) : jobs'[i] = jobs[i]
    BY <1>1, <1>2, AppendAges
  <1>4. call' = [d \in Calls |-> call'[d]] /\ \A d \in Calls : CallFacts(call'[d], jobs', env'.prompt)
    BY <1>1, <1>3, AllKept
  <1>5. Base'
    BY <1>1, <1>3, <1>4 DEF Inv, Base, Ages, Calls
  <1>6. MarksOK(inst', jobs')
    BY <1>1, <1>2, <1>3, AppendMarks
  <1>7. Excl'
    BY <1>1, WireNeedsRemediate DEF Excl, Exclusive
  <1> QED BY <1>4, <1>5, <1>6, <1>7 DEF Inv

\* The worker writes a job's status and both of its markers.
LEMMA WorkerStep ==
    ASSUME Inv, NEW j \in JobIds, NEW status \in {"running", "ended"},
           persistUpdateJobAndInstance(j, status)
    PROVE  Inv'
  <1>1. /\ jobs[j].status \in Active /\ UNCHANGED <<env, call, wire>>
        /\ jobs' = WithStatus(jobs, j, status)
        /\ inst' = Marked(inst, jobs[j].kind, j, status)
    BY DEF persistUpdateJobAndInstance, WithStatus
  <1>2. jobs \in Seq(Job) /\ MarksOK(inst, jobs) /\ j \in 1 .. Len(jobs)
    BY DEF Inv, Base, JobIds
  <1>3. /\ Ages(jobs, jobs') /\ Len(jobs') = Len(jobs)
        /\ \A i \in 1 .. Len(jobs) : i # j => jobs'[i] = jobs[i]
        /\ jobs'[j].status = status /\ jobs'[j].kind = jobs[j].kind
    BY <1>1, <1>2, StatusAges
  <1>4. call' = [d \in Calls |-> call'[d]] /\ \A d \in Calls : CallFacts(call'[d], jobs', env'.prompt)
    BY <1>1, <1>3, AllKept
  <1>5. Base'
    BY <1>1, <1>3, <1>4 DEF Inv, Base, Ages, Calls
  <1>6. MarksOK(inst', jobs')
    <2>1. status \in Status
      BY DEF Status, Active
    <2>2. jobs[j].kind = jobs'[j].kind /\ j \in 1 .. Len(jobs')
      BY <1>2, <1>3
    <2>3. MarksOK(Marked(inst, jobs'[j].kind, j, status), jobs')
      BY <1>2, <1>3, <2>1, <2>2, MarkedOK, Zenon
    <2> QED BY <1>1, <2>2, <2>3
  <1>7. Excl'
    <2>1. ASSUME Exclusive', NEW i \in ActiveJobs'
          PROVE  (inst.any)' = [status |-> jobs'[i].status, job |-> i]
      <3>1. Exclusive /\ i \in 1 .. Len(jobs) /\ jobs'[i].status \in Active
        BY <1>1, <1>3, <2>1 DEF Exclusive, ActiveJobs, JobIds
      <3>2. i = j
        <4> SUFFICES ASSUME i # j PROVE FALSE
          OBVIOUS
        <4>1. i \in ActiveJobs /\ j \in ActiveJobs
          BY <1>1, <1>2, <1>3, <3>1 DEF ActiveJobs, JobIds
        <4>2. inst.any = [status |-> jobs[i].status, job |-> i]
          BY <3>1, <4>1 DEF Inv, Excl
        <4>3. inst.any = [status |-> jobs[j].status, job |-> j]
          BY <3>1, <4>1 DEF Inv, Excl
        <4> QED BY <4>2, <4>3
      <3> QED BY <1>1, <1>3, <3>2 DEF Marked
    <2> QED BY <1>1, <2>1 DEF Inv, Excl
  <1> QED BY <1>4, <1>5, <1>6, <1>7 DEF Inv

----------------------------------------------------------------------------
(* The invariant.                                                          *)

LEMMA InitInv == Init => Inv
  <1> SUFFICES ASSUME Init PROVE Inv
    OBVIOUS
  <1>1. env \in Envs /\ jobs = << >> /\ inst = NoMarks /\ env.prompt \in BOOLEAN
    BY DEF Init
  <1>2. jobs \in Seq(Job) /\ Len(jobs) = 0
    BY <1>1
  <1>3. Base
    BY <1>1, <1>2 DEF Init, Base
  <1>4. MarksOK(inst, jobs)
    BY <1>1, <1>2, NoMarksPaired DEF MarksOK, Live
  <1>5. ActiveIn(jobs) = {} /\ ActiveJobs = {}
    BY <1>2 DEF ActiveIn, ActiveJobs, JobIds
  <1>6. ASSUME NEW c \in Calls PROVE CallFacts(call[c], jobs, env.prompt)
    <2>1. call[c] = [pc |-> "idle", ask |-> Wiring, copy |-> NoMarks,
                     live |-> {}, since |-> 0, answer |-> NoAnswer]
      BY <1>6 DEF Init
    <2>2. NoMarks \in MarksIn(jobs) /\ Paired(NoMarks, jobs)
      BY <1>2, NoMarksPaired DEF Paired
    <2>3. NoAnswer \in [what : Answers, job : 0 .. Len(jobs)] /\ 0 \in 0 .. Len(jobs)
      BY <1>2 DEF NoAnswer, Answers
    <2>4. call[c] \in CallIn(jobs)
      BY <2>1, <2>2, <2>3 DEF CallIn, Pcs
    <2>5. CopyLive(call[c])
      <3>1. call[c].copy = NoMarks
        BY <2>1
      <3> QED BY <3>1, <1>2, NoMarksPaired DEF CopyLive
    <2>6. PlaceFacts(call[c], jobs, env.prompt) /\ TrueAnswer(call[c], jobs)
      BY <2>1 DEF PlaceFacts, TrueAnswer, NoAnswer
    <2> QED BY <2>1, <2>2, <2>4, <2>5, <2>6 DEF CallFacts
  <1>7. Excl
    <2>1. \A m \in Remediations : wire[m] = "idle"
      BY DEF Init
    <2> QED BY <1>5, <2>1 DEF Excl
  <1> QED BY <1>3, <1>4, <1>6, <1>7 DEF Inv

LEMMA CallStepInv ==
    ASSUME Inv, NEW c \in Calls, CallStep(c)
    PROVE  Inv'
  BY PrecheckStep, FindStep, GetStep, CreateRepairStep, CreateStep, ConflictStep,
     RelistStep, NudgeStep, ListRepairStep, FailStep DEF CallStep

LEMMA StutterInv == Inv /\ UNCHANGED vars => Inv'
  BY DEF vars, Inv, Base, Excl, Exclusive, ActiveJobs, JobIds, Calls

LEMMA NextInv == Inv /\ [Next]_vars => Inv'
  <1> SUFFICES ASSUME Inv, [Next]_vars PROVE Inv'
    OBVIOUS
  <1>1. CASE \E c \in Creates, ask \in Asks : BeginCreate(c, ask)
    <2>1. PICK c \in Creates, ask \in Asks : BeginCreate(c, ask)
      BY <1>1
    <2>2. c \in Calls /\ ask \in Ask
      BY DEF Calls
    <2> QED BY <2>1, <2>2, BeginStep DEF BeginCreate
  <1>2. CASE \E c \in Lists : BeginList(c)
    <2>1. PICK c \in Lists : BeginList(c)
      BY <1>2
    <2>2. c \in Calls /\ Wiring \in Ask
      BY DEF Calls
    <2> QED BY <2>1, <2>2, BeginStep DEF BeginList
  <1>3. CASE \E c \in Calls : CallStep(c)
    BY <1>3, CallStepInv
  <1>4. CASE \E m \in Remediations : ListActiveUpdateJobs(m) \/ createRemediationMCPJob(m)
    BY <1>4, WireListStep, WireCreateStep
  <1>5. CASE \E j \in JobIds : \E status \in {"running", "ended"} : persistUpdateJobAndInstance(j, status)
    BY <1>5, WorkerStep
  <1>6. CASE UNCHANGED vars
    BY <1>6, StutterInv
  <1> QED BY <1>1, <1>2, <1>3, <1>4, <1>5, <1>6 DEF Next

LEMMA SpecInv == Spec => []Inv
  BY InitInv, NextInv, PTL DEF Spec

----------------------------------------------------------------------------
(* The theorems.                                                           *)

\* Every marker, every copy of one, and every answer names a row that
\* exists (handlePortalCreateInstanceUpdateJob writes row and marker in one
\* transaction).
THEOREM AdmissionTyped == Spec => []TypeOK
  <1>1. Inv => TypeOK
    <2> SUFFICES ASSUME Inv PROVE TypeOK
      OBVIOUS
    <2>1. inst \in MarksIn(jobs)
      BY DEF Inv, MarksOK, Paired
    <2>2. MarksIn(jobs) = Marks /\ CallIn(jobs) = Call
      BY DEF MarksIn, MarkIn, Marks, Mark, CallIn, Call, Pcs, JobIds
    <2>3. \A c \in Calls : call[c] \in CallIn(jobs)
      BY DEF Inv, CallFacts
    <2>4. call \in [Calls -> Call]
      <3>1. call = [d \in Calls |-> call[d]]
        BY DEF Inv, Base
      <3> QED BY <2>2, <2>3, <3>1
    <2> QED BY <2>1, <2>2, <2>4 DEF Inv, Base, TypeOK
  <1> QED BY <1>1, SpecInv, PTL

\* A marker that says queued or running names a job in that state, however
\* the indexes lag and whatever is repaired or remediated
\* (repairStaleInstanceUpdateMarker, persistUpdateJobAndInstance).
THEOREM MarkersAreLive == Spec => []MarkersNameLiveJobs
  <1>1. Inv => MarkersNameLiveJobs
    BY DEF Inv, MarksOK, Live, MarkersNameLiveJobs, JobIds
  <1> QED BY <1>1, SpecInv, PTL

\* The common marker and its kind's marker agree
\* (setManagedUpdateInstanceMarker, markStaleManagedUpdateMarker).
THEOREM MarkersAlwaysAgree == Spec => []MarkersAgree
  <1>1. Inv => MarkersAgree
    BY DEF Inv, MarksOK, Paired, MarkersAgree
  <1> QED BY <1>1, SpecInv, PTL

\* With prompt indexes an answer of the create handler is true of a moment
\* of the call (findExistingManagedUpdateJob,
\* handleManagedUpdateCreateConflict).
THEOREM AnswersAlwaysTrue == Spec => []AnswersAreTrue
  <1>1. Inv => AnswersAreTrue
    <2> SUFFICES ASSUME Inv, env.prompt, NEW c \in Creates
                 PROVE  /\ call[c].answer.what \in {"existing", "created"} =>
                             call[c].answer.job \in During(c) /\ Same(call[c].answer.job, call[c].ask)
                        /\ call[c].answer.what = "refused" => During(c) # {}
      BY DEF AnswersAreTrue
    <2>1. TrueAnswer(call[c], jobs)
      BY DEF Inv, CallFacts, Calls
    <2> QED BY <2>1 DEF TrueAnswer, During, DuringIn, Same
  <1> QED BY <1>1, SpecInv, PTL

\* While indexes are prompt and nobody remediates, no two update jobs of an
\* instance are active (updateInstanceNoActiveUpdateCondition).
THEOREM OneActiveJob == Spec => []OneActive
  <1>1. Inv => OneActive
    <2> SUFFICES ASSUME Inv, Exclusive, NEW i \in ActiveJobs, NEW j \in ActiveJobs PROVE i = j
      BY DEF OneActive
    <2>1. inst.any = [status |-> jobs[i].status, job |-> i]
      BY DEF Inv, Excl
    <2>2. inst.any = [status |-> jobs[j].status, job |-> j]
      BY DEF Inv, Excl
    <2> QED BY <2>1, <2>2
  <1> QED BY <1>1, SpecInv, PTL

----------------------------------------------------------------------------
(* The refinement.                                                         *)

\* Steps that leave the rows alone are stutters of the slot.
LEMMA SlotStutters ==
    ASSUME UNCHANGED <<env, jobs>>
    PROVE  UNCHANGED Slot!slotVars
  BY DEF Slot!slotVars, Exclusive, ActiveJobs, JobIds

\* A new row is admitted, if the slot is empty or not exclusive.
LEMMA SlotAdmits ==
    ASSUME Inv, NEW ask \in Ask, jobs' = Added(jobs, ask), env' = env,
           Exclusive => ActiveJobs = {}
    PROVE  Slot!Admit
  <1>1. jobs \in Seq(Job)
    BY DEF Inv, Base
  <1>2. Len(jobs') = Len(jobs) + 1 /\ ActiveIn(jobs') = ActiveIn(jobs) \cup {Len(jobs) + 1}
    BY <1>1, AppendAges
  <1>3. ActiveJobs = ActiveIn(jobs) /\ ActiveJobs' = ActiveIn(jobs')
    BY DEF ActiveJobs, ActiveIn, JobIds
  <1>4. Exclusive' = Exclusive
    BY DEF Exclusive
  <1> QED BY <1>2, <1>3, <1>4 DEF Slot!Admit

LEMMA SlotStep == Inv /\ [Next]_vars => [Slot!SlotNext]_(Slot!slotVars)
  <1> SUFFICES ASSUME Inv, [Next]_vars PROVE Slot!SlotNext \/ UNCHANGED Slot!slotVars
    OBVIOUS
  <1>1. CASE \E c \in Calls : handlePortalCreateInstanceUpdateJob(c)
    <2>1. PICK c \in Calls : handlePortalCreateInstanceUpdateJob(c)
      BY <1>1
    <2>2. jobs' = Added(jobs, call[c].ask) /\ env' = env /\ inst.any.status \notin Active
      BY <2>1 DEF handlePortalCreateInstanceUpdateJob, NewJob, Added,
                  updateInstanceNoActiveUpdateCondition
    <2>3. Slot!Admit
      BY <2>2, CopyFacts, SlotEmpty, SlotAdmits
    <2> QED BY <2>3 DEF Slot!SlotNext
  <1>2. CASE \E m \in Remediations : createRemediationMCPJob(m)
    <2>1. PICK m \in Remediations : createRemediationMCPJob(m)
      BY <1>2
    <2>2. jobs' = Added(jobs, Wiring) /\ env' = env /\ wire[m] # "idle"
      BY <2>1 DEF createRemediationMCPJob, NewJob, Added
    <2>3. Slot!Admit
      BY <2>2, WireNeedsRemediate, SlotAdmits
    <2> QED BY <2>3 DEF Slot!SlotNext
  <1>3. CASE \E j \in JobIds : \E status \in {"running", "ended"} : persistUpdateJobAndInstance(j, status)
    <2>1. PICK j \in JobIds, status \in {"running", "ended"} : persistUpdateJobAndInstance(j, status)
      BY <1>3
    <2>2. jobs' = WithStatus(jobs, j, status) /\ env' = env /\ jobs[j].status \in Active
      BY <2>1 DEF persistUpdateJobAndInstance, WithStatus
    <2>3. jobs \in Seq(Job) /\ j \in 1 .. Len(jobs)
      BY DEF Inv, Base, JobIds
    <2>4. /\ Len(jobs') = Len(jobs) /\ jobs'[j].status = status
          /\ \A i \in 1 .. Len(jobs) : i # j => jobs'[i] = jobs[i]
      BY <2>2, <2>3, StatusAges
    <2>5. Exclusive' = Exclusive /\ j \in ActiveJobs
      BY <2>2 DEF Exclusive, ActiveJobs
    <2>6. CASE status = "running"
      <3>1. status \in Active
        BY <2>6 DEF Active
      <3>2. ActiveJobs' = ActiveJobs
        BY <2>2, <2>4, <3>1 DEF ActiveJobs, JobIds
      <3> QED BY <2>4, <2>5, <3>2 DEF Slot!slotVars
    <2>7. CASE status = "ended"
      <3>1. status \notin Active
        BY <2>7 DEF Active
      <3>2. ActiveJobs' = ActiveJobs \ {j}
        BY <2>2, <2>4, <3>1 DEF ActiveJobs, JobIds
      <3>3. Slot!End(j)
        BY <2>4, <2>5, <3>2 DEF Slot!End
      <3> QED BY <2>5, <3>3 DEF Slot!SlotNext
    <2> QED BY <2>6, <2>7
  <1>4. CASE UNCHANGED <<env, jobs>>
    BY <1>4, SlotStutters
  <1>5. \/ \E c \in Calls : handlePortalCreateInstanceUpdateJob(c)
        \/ \E m \in Remediations : createRemediationMCPJob(m)
        \/ \E j \in JobIds : \E status \in {"running", "ended"} : persistUpdateJobAndInstance(j, status)
        \/ UNCHANGED <<env, jobs>>
    <2>1. ASSUME NEW c \in Calls, CallStep(c)
          PROVE  handlePortalCreateInstanceUpdateJob(c) \/ UNCHANGED <<env, jobs>>
      BY <2>1 DEF CallStep, rejectActiveManagedUpdateBeforeLatestResolution,
                  findExistingManagedUpdateJob, getExistingUpdateJobFromInstanceState,
                  CreateRepairs, CreateConflicts, handleManagedUpdateCreateConflict,
                  nudgeActiveUpdateJobIfNeeded, ListRepairs, CallFails
    <2>2. ASSUME NEW c, NEW ask, BeginCreate(c, ask) PROVE UNCHANGED <<env, jobs>>
      BY <2>2 DEF BeginCreate, Begin
    <2>3. ASSUME NEW c, BeginList(c) PROVE UNCHANGED <<env, jobs>>
      BY <2>3 DEF BeginList, Begin
    <2>4. ASSUME NEW m, ListActiveUpdateJobs(m) PROVE UNCHANGED <<env, jobs>>
      BY <2>4 DEF ListActiveUpdateJobs
    <2> QED BY <2>1, <2>2, <2>3, <2>4 DEF Next, vars
  <1> QED BY <1>1, <1>2, <1>3, <1>4, <1>5

\* Admission implements the slot: while indexes are prompt and nobody
\* remediates a job is admitted only into an empty slot, and under any
\* conditions a job that has ended is never active again (the create
\* handler's transaction and the worker's writes).
THEOREM AdmissionImplementsSlot == Spec => ImplementsSlot
  <1>1. Init => Slot!SlotInit
    BY DEF Init, Slot!SlotInit, Exclusive, ActiveJobs, JobIds
  <1> QED BY <1>1, SpecInv, SlotStep, PTL DEF Spec, ImplementsSlot, Slot!SlotSpec
=============================================================================
