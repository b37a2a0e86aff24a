------------------------- MODULE UpdatePagesProofs -------------------------
(***************************************************************************)
(* What UpdatePages promises of both pages, for any number of instances,   *)
(* tasks, moves and jobs and under all conditions env allows.              *)
(*                                                                         *)
(* OnePoll is not inductive by itself: the finally clause of the support   *)
(* page's poll leaves the flag alone when the page has moved on, so that   *)
(* the flag goes down with the controller needs that the poll the          *)
(* controller names is of the instance shown (Scoped), which needs that    *)
(* moving aborts every live poll (OnePoll).  That what is shown is of the  *)
(* instance needs that an answer is of the instance its task asked about,  *)
(* one answer to a task at most, and that a load of the newest generation  *)
(* is of the instance shown, which no older load is.                       *)
(***************************************************************************)
EXTENDS UpdatePages, SequenceTheorems, SetInduction

-----------------------------------------------------------------------------
(* Lists.                                                                  *)

(* What is left of an answer's place in the wire.                          *)
LEMMA RemoveAtFacts ==
  ASSUME NEW S, NEW s \in Seq(S), NEW i \in DOMAIN s
  PROVE  /\ RemoveAt(s, i) \in Seq(S)
         /\ \A k \in DOMAIN RemoveAt(s, i) :
              \E m \in DOMAIN s : m = (IF k < i THEN k ELSE k + 1) /\ m # i
                                  /\ RemoveAt(s, i)[k] = s[m]
  <1> DEFINE a == SubSeq(s, 1, i - 1)
             b == SubSeq(s, i + 1, Len(s))
  <1>1. Len(s) \in Nat /\ DOMAIN s = 1 .. Len(s) /\ i \in 1 .. Len(s)
    OBVIOUS
  <1>2. /\ a \in Seq(S) /\ Len(a) = i - 1
        /\ \A k \in 1 .. i - 1 : a[k] = s[k]
    BY <1>1
  <1>3. /\ b \in Seq(S) /\ Len(b) = Len(s) - i
        /\ \A k \in 1 .. Len(s) - i : b[k] = s[i + k]
    BY <1>1
  <1>4. RemoveAt(s, i) = a \o b
    BY DEF RemoveAt
  <1> HIDE DEF a, b
  <1>5. /\ a \o b \in Seq(S) /\ Len(a \o b) = Len(a) + Len(b)
        /\ \A k \in 1 .. Len(a) + Len(b) :
             (a \o b)[k] = IF k <= Len(a) THEN a[k] ELSE b[k - Len(a)]
    BY <1>2, <1>3, ConcatProperties
  <1>6. Len(a) + Len(b) = Len(s) - 1
    BY <1>1, <1>2, <1>3
  <1>7. /\ RemoveAt(s, i) \in Seq(S) /\ Len(RemoveAt(s, i)) = Len(s) - 1
        /\ \A k \in 1 .. Len(s) - 1 :
             RemoveAt(s, i)[k] = IF k <= i - 1 THEN a[k] ELSE b[k - (i - 1)]
    BY <1>2, <1>4, <1>5, <1>6
  <1>8. DOMAIN RemoveAt(s, i) = 1 .. Len(s) - 1
    BY <1>7
  <1>9. ASSUME NEW k \in 1 .. Len(s) - 1
        PROVE  \E m \in DOMAIN s : m = (IF k < i THEN k ELSE k + 1) /\ m # i
                                  /\ RemoveAt(s, i)[k] = s[m]
    <2>1. CASE k < i
      BY <1>1, <1>2, <1>7, <2>1
    <2>2. CASE ~ (k < i)
      <3>1. k - (i - 1) \in 1 .. Len(s) - i /\ i + (k - (i - 1)) = k + 1
        BY <1>1, <2>2
      <3>2. b[k - (i - 1)] = s[k + 1]
        BY <1>3, <3>1
      <3> QED
        BY <1>1, <1>7, <2>2, <3>2
    <2> QED
      BY <2>1, <2>2
  <1> QED
    BY <1>7, <1>8, <1>9

(* A filtered list has no other entries than the list: the recursion has a *)
(* solution, by induction on its length, and every value of one is such a  *)
(* list.                                                                   *)
LEMMA FilterKeeps ==
  ASSUME NEW S, NEW s \in Seq(S), NEW K
  PROVE  Filter(s, K) \in Seq(S)
  <1> DEFINE n == Len(s)
             Eq(f, m) == f = [i \in 0 .. m |->
                           IF i = 0 THEN << >>
                           ELSE IF i \in K THEN Append(f[i - 1], s[i]) ELSE f[i - 1]]
             Has == {m \in Nat : \E f : Eq(f, m)}
  <1>1. n \in Nat /\ \A i \in 1 .. n : s[i] \in S
    OBVIOUS
  <1>2. 0 \in Has
    <2>1. Eq([i \in 0 .. 0 |-> << >>], 0)
      OBVIOUS
    <2> QED
      BY <2>1
  <1>3. ASSUME NEW m \in 0 .. n - 1, m \in Has PROVE m + 1 \in Has
    <2>1. m \in Nat /\ m + 1 \in Nat
      BY <1>1
    <2>2. PICK f : Eq(f, m)
      BY <1>3
    <2>3. PICK g : g = [i \in 0 .. m + 1 |->
                         IF i <= m THEN f[i]
                         ELSE IF i \in K THEN Append(f[i - 1], s[i]) ELSE f[i - 1]]
      OBVIOUS
    <2>4. \A i \in 0 .. m : g[i] = f[i]
      BY <2>1, <2>3
    <2>5. DOMAIN g = 0 .. m + 1
      BY <2>3
    <2>6. ASSUME NEW i \in 0 .. m + 1
          PROVE  g[i] = IF i = 0 THEN << >>
                        ELSE IF i \in K THEN Append(g[i - 1], s[i]) ELSE g[i - 1]
      <3>1. CASE i = 0
        BY <2>1, <2>2, <2>4, <3>1
      <3>2. CASE i # 0 /\ i <= m
        <4>1. i \in 0 .. m /\ i - 1 \in 0 .. m
          BY <2>1, <3>2
        <4>2. f[i] = IF i \in K THEN Append(f[i - 1], s[i]) ELSE f[i - 1]
          BY <2>2, <3>2, <4>1
        <4> QED
          BY <2>4, <3>2, <4>1, <4>2
      <3>3. CASE i = m + 1
        <4>1. i - 1 \in 0 .. m /\ i # 0 /\ ~ (i <= m)
          BY <2>1, <3>3
        <4> QED
          BY <2>3, <2>4, <4>1
      <3> QED
        BY <2>1, <3>1, <3>2, <3>3
    <2>7. Eq(g, m + 1)
      BY <2>3, <2>5, <2>6
    <2> QED
      BY <2>1, <2>7
  <1>4. n \in Has
    <2> HIDE DEF Has, n
    <2>1. 0 .. n \subseteq Has
      BY <1>1, <1>2, <1>3, IntervalInduction
    <2> QED
      BY <1>1, <2>1
  <1>5. PICK f : f = CHOOSE g : Eq(g, n)
    OBVIOUS
  <1>6. Eq(f, n) /\ Filter(s, K) = f[n]
    BY <1>4, <1>5 DEF Filter
  <1> DEFINE Good == {i \in 0 .. n : f[i] \in Seq(S)}
  <1>7. 0 \in Good
    BY <1>1, <1>6
  <1>8. ASSUME NEW i \in 0 .. n - 1, i \in Good PROVE i + 1 \in Good
    <2>1. i + 1 \in 1 .. n /\ i + 1 # 0 /\ (i + 1) - 1 = i
      BY <1>1
    <2>2. f[i + 1] = IF i + 1 \in K THEN Append(f[i], s[i + 1]) ELSE f[i]
      <3>1. PICK k : k = i + 1
        OBVIOUS
      <3>2. k \in 0 .. n /\ k # 0 /\ k - 1 = i
        BY <1>1, <2>1, <3>1
      <3>3. f[k] = IF k \in K THEN Append(f[k - 1], s[k]) ELSE f[k - 1]
        BY <1>6, <3>2
      <3> QED
        BY <3>1, <3>2, <3>3
    <2>3. f[i] \in Seq(S) /\ s[i + 1] \in S
      BY <1>1, <1>8, <2>1
    <2>4. f[i + 1] \in Seq(S)
      BY <2>2, <2>3
    <2> QED
      BY <1>1, <2>1, <2>4
  <1>9. 0 .. n \subseteq Good
    <2> HIDE DEF Good, n
    <2> QED
      BY <1>1, <1>7, <1>8, IntervalInduction
  <1> QED
    BY <1>1, <1>6, <1>9
-----------------------------------------------------------------------------
(* The invariant.  Page is of what the page shows and its tasks, as a      *)
(* predicate on their values, so that it can be said of a step's result    *)
(* before the step is known to be one.                                     *)

PCs == Waiting \cup {"idle", "others", "sleep", "done"}

TaskRecord == [pc : PCs, at : Slugs, job : JobIds \cup {NoJob}, aborted : BOOLEAN,
               generation : Nat, others : BOOLEAN]

UiRecord == [jobs : Jobs, polling : BOOLEAN, loading : BOOLEAN, creating : BOOLEAN,
             error : BOOLEAN, controller : Tasks \cup {None}, generation : Nat, loaded : BOOLEAN]

(* The jobs of an instance.                                                *)
Of(s) == {row \in JobRow : row.id.slug = s}

LiveRecord(r) == r.pc \in {"poll", "sleep"} /\ ~ r.aborted

(* The polls but for that of task t, which the controller does not name.   *)
PollsBut(t, u, ts, s) ==
  /\ u.controller # t
  /\ u.polling => u.controller # None
  /\ \A r \in Tasks \ {t} :
       /\ LiveRecord(ts[r]) <=> u.controller = r
       /\ Support /\ LiveRecord(ts[r]) => ts[r].at = s

Generations(u, ts, s) ==
  /\ u.generation >= 1
  /\ \A r \in Tasks : ts[r].generation <= u.generation
  /\ \A r \in Tasks : Support /\ ts[r].pc = "load" /\ ts[r].generation = u.generation =>
                        ts[r].at = s

Shape(u, ts) == u \in UiRecord /\ ts \in [Tasks -> TaskRecord]

Page(u, ts, s) ==
  /\ Shape(u, ts)
  /\ u.polling => u.controller # None
  /\ \A r \in Tasks :
       /\ LiveRecord(ts[r]) <=> u.controller = r
       /\ Support /\ LiveRecord(ts[r]) => ts[r].at = s
  /\ Generations(u, ts, s)
  /\ Support => u.jobs \in Seq(Of(s))

Answers == [to : Tasks, jobs : Jobs]

(* An answer is of the instance its task asks about and waits for, and the *)
(* only one to it; the answer to a create is a job.                        *)
WireInv ==
  /\ wire \in Seq(Answers)
  /\ \A i, k \in DOMAIN wire : wire[i].to = wire[k].to => i = k
  /\ \A i \in DOMAIN wire :
       /\ task[wire[i].to].pc \in Waiting
       /\ wire[i].jobs \in Seq(Of(task[wire[i].to].at))
       /\ task[wire[i].to].pc = "create" => wire[i].jobs # << >>

ServerType == server \in [Slugs -> [admitted : 0 .. MaxJobs, active : SUBSET (1 .. MaxJobs)]]

PagesInv ==
  /\ env \in Envs /\ slug \in Slugs /\ moved \in 0 .. env.moves
  /\ ServerType
  /\ Page(ui, task, slug)
  /\ WireInv

LEMMA EnvFacts ==
  ASSUME env \in Envs
  PROVE  /\ env \in Env /\ env.moves \in Nat
         /\ Support \/ Detail
         /\ ~ (Support /\ Detail)
  BY PagesAssumption DEF Env, Support, Detail

LEMMA NoTaskFacts ==
  /\ NoTask \in TaskRecord
  /\ NoTask.pc = "idle" /\ NoTask.at = Home /\ NoTask.aborted = FALSE /\ NoTask.generation = 1
  BY PagesAssumption DEF NoTask, TaskRecord, PCs, NoJob

LEMMA StoppedRecord ==
  ASSUME NEW r, r = [NoTask EXCEPT !.pc = "done"]
  PROVE  r \in TaskRecord /\ r.pc = "done" /\ r.generation = 1
  BY NoTaskFacts DEF TaskRecord, PCs

(* The page, when task t alone gets another record that is not a poll's.   *)
LEMMA PageBut ==
  ASSUME NEW u, NEW ts, NEW s, NEW t \in Tasks, Shape(u, ts), PollsBut(t, u, ts, s),
         Generations(u, ts, s), Support => u.jobs \in Seq(Of(s)),
         NEW r \in TaskRecord, ~ LiveRecord(r), r.generation <= u.generation,
         Support /\ r.pc = "load" /\ r.generation = u.generation => r.at = s
  PROVE  Page(u, [ts EXCEPT ![t] = r], s)
  <1>1. PICK n : n = [ts EXCEPT ![t] = r]
    OBVIOUS
  <1>2. /\ n \in [Tasks -> TaskRecord] /\ n[t] = r
        /\ \A q \in Tasks \ {t} : n[q] = ts[q]
    BY <1>1 DEF Shape
  <1>3. \A q \in Tasks :
          /\ LiveRecord(n[q]) <=> u.controller = q
          /\ Support /\ LiveRecord(n[q]) => n[q].at = s
    BY <1>2 DEF PollsBut
  <1>4. Generations(u, n, s)
    BY <1>2 DEF Generations
  <1> QED
    BY <1>1, <1>2, <1>3, <1>4 DEF Page, Shape, PollsBut

LEMMA PageGivesBut ==
  ASSUME NEW u, NEW ts, NEW s, NEW t \in Tasks, Page(u, ts, s), ~ LiveRecord(ts[t])
  PROVE  /\ Shape(u, ts) /\ PollsBut(t, u, ts, s) /\ Generations(u, ts, s)
         /\ Support => u.jobs \in Seq(Of(s))
         /\ u.controller # t
  BY DEF Page, PollsBut

(* A task ends.                                                            *)
LEMMA StoppedPage ==
  ASSUME NEW u, NEW ts, NEW s, NEW t \in Tasks, Shape(u, ts), PollsBut(t, u, ts, s),
         Generations(u, ts, s), Support => u.jobs \in Seq(Of(s))
  PROVE  Page(u, Stopped(ts, t), s)
  <1>1. PICK r : r = [NoTask EXCEPT !.pc = "done"]
    OBVIOUS
  <1>2. r \in TaskRecord /\ r.pc = "done" /\ r.generation = 1
    BY <1>1, StoppedRecord
  <1>3. ~ LiveRecord(r) /\ r.generation <= u.generation /\ r.pc # "load"
    BY <1>2 DEF LiveRecord, Generations, Shape, UiRecord
  <1>4. Page(u, [ts EXCEPT ![t] = r], s)
    BY <1>2, <1>3, PageBut
  <1> QED
    BY <1>1, <1>4 DEF Stopped

(* A step of t that the answers under way to the other tasks do not see.   *)
Kept(t, ts, n) ==
  \A r \in Tasks \ {t} : ts[r].pc \in Waiting => n[r].pc = ts[r].pc /\ n[r].at = ts[r].at

(* abortUpdatesPolling, on the tasks: nothing is left that polls.          *)
LEMMA AbortedFacts ==
  ASSUME NEW u, NEW ts, NEW s, Page(u, ts, s), NEW a, a = Aborted(u, ts)
  PROVE  /\ a \in [Tasks -> TaskRecord]
         /\ \A r \in Tasks :
              /\ ~ LiveRecord(a[r])
              /\ a[r].generation <= u.generation
              /\ ts[r].pc \in Waiting => a[r].pc = ts[r].pc /\ a[r].at = ts[r].at
              /\ a[r].pc = "load" => a[r] = ts[r]
              /\ ts[r].pc \notin {"poll", "sleep"} => a[r] = ts[r]
  <1>1. /\ u \in UiRecord /\ ts \in [Tasks -> TaskRecord] /\ u.generation \in Nat
        /\ u.controller \in Tasks \cup {None} /\ u.generation >= 1
        /\ \A r \in Tasks : ts[r].generation <= u.generation /\ ts[r] \in TaskRecord
        /\ \A r \in Tasks : LiveRecord(ts[r]) <=> u.controller = r
    BY DEF Page, Shape, Generations, UiRecord
  <1>2. None \notin Tasks
    BY DEF None, Tasks
  <1>3. CASE u.controller = None
    BY <1>1, <1>2, <1>3 DEF Aborted
  <1>4. CASE u.controller # None
    <2>1. PICK c \in Tasks : c = u.controller
      BY <1>1, <1>4
    <2>2. LiveRecord(ts[c]) /\ ts[c].pc \in {"poll", "sleep"}
      BY <1>1, <2>1 DEF LiveRecord
    <2>3. \A r \in Tasks \ {c} : ~ LiveRecord(ts[r])
      BY <1>1, <2>1
    <2>4. CASE ts[c].pc = "sleep"
      <3>1. PICK d : d = [NoTask EXCEPT !.pc = "done"]
        OBVIOUS
      <3>2. d \in TaskRecord /\ d.pc = "done" /\ d.generation = 1
        BY <3>1, StoppedRecord
      <3>3. a = [ts EXCEPT ![c] = d]
        BY <1>4, <2>1, <2>4, <3>1 DEF Aborted, Stopped
      <3>4. a[c] = d /\ \A r \in Tasks \ {c} : a[r] = ts[r]
        BY <1>1, <3>3
      <3> QED
        BY <1>1, <2>3, <2>4, <3>2, <3>3, <3>4 DEF LiveRecord, Waiting
    <2>5. CASE ts[c].pc # "sleep"
      <3>1. PICK d : d = [ts[c] EXCEPT !.aborted = TRUE]
        OBVIOUS
      <3>2. /\ d \in TaskRecord /\ d.pc = ts[c].pc /\ d.at = ts[c].at /\ d.aborted = TRUE
            /\ d.generation = ts[c].generation
        BY <1>1, <3>1 DEF TaskRecord
      <3>3. a = [ts EXCEPT ![c] = d]
        BY <1>4, <2>1, <2>5, <3>1 DEF Aborted
      <3>4. a[c] = d /\ \A r \in Tasks \ {c} : a[r] = ts[r]
        BY <1>1, <3>3
      <3> QED
        BY <1>1, <2>2, <2>3, <3>2, <3>3, <3>4 DEF LiveRecord
    <2> QED
      BY <2>4, <2>5
  <1> QED
    BY <1>3, <1>4

LEMMA AbortedUi ==
  ASSUME NEW u \in UiRecord, NEW a, a = abortUpdatesPolling(u)
  PROVE  /\ a \in UiRecord /\ a.controller = None /\ a.polling = FALSE
         /\ a.generation = u.generation /\ a.jobs = u.jobs
  BY DEF abortUpdatesPolling, UiRecord

(* With the polls aborted the page is in order, also on another instance.  *)
LEMMA AbortedPolls ==
  ASSUME NEW u, NEW ts, NEW s, Page(u, ts, s), NEW t \in Tasks, NEW z,
         NEW v \in UiRecord, v.controller = None, v.polling = FALSE
  PROVE  PollsBut(t, v, Aborted(u, ts), z)
  <1>1. PICK a : a = Aborted(u, ts)
    OBVIOUS
  <1>2. \A r \in Tasks : ~ LiveRecord(a[r])
    BY <1>1, AbortedFacts
  <1>3. None \notin Tasks
    BY DEF None, Tasks
  <1> QED
    BY <1>1, <1>2, <1>3 DEF PollsBut

(* loadAll starts: the page is of s from now on.                           *)
LEMMA ReloadPage ==
  ASSUME NEW u, NEW ts, NEW s \in Slugs, NEW t \in Tasks, Shape(u, ts), PollsBut(t, u, ts, s),
         u.generation >= 1, \A r \in Tasks : ts[r].generation <= u.generation,
         Reload(t, s, u, ts)
  PROVE  \E v, n : ui' = v /\ task' = n /\ Page(v, n, s) /\ Kept(t, ts, n)
  <1>1. u \in UiRecord /\ ts \in [Tasks -> TaskRecord] /\ ts[t] \in TaskRecord
        /\ u.generation \in Nat
    BY DEF Shape, UiRecord
  <1>2. PICK g \in Nat : g = u.generation + 1
    BY <1>1
  <1>3. PICK e : e = << >>
    OBVIOUS
  <1>4. e \in Jobs /\ e \in Seq(Of(s))
    BY <1>3 DEF Jobs
  <1>5. PICK v : v = [u EXCEPT !.jobs = e, !.error = FALSE, !.loaded = FALSE, !.generation = g]
    OBVIOUS
  <1>6. PICK r : r = [ts[t] EXCEPT !.pc = "load", !.at = s, !.generation = g]
    OBVIOUS
  <1>7. ui' = v
    BY <1>1, <1>2, <1>3, <1>5 DEF Reload, Reloading
  <1>8. task' = [ts EXCEPT ![t] = r]
    BY <1>1, <1>2, <1>6 DEF Reload
  <1>9. /\ v \in UiRecord /\ v.controller = u.controller /\ v.polling = u.polling
        /\ v.generation = g /\ v.jobs = e
    BY <1>1, <1>4, <1>5 DEF UiRecord
  <1>10. r \in TaskRecord /\ r.pc = "load" /\ r.at = s /\ r.generation = g
    BY <1>1, <1>6 DEF TaskRecord, PCs, Waiting
  <1>11. \A q \in Tasks : ts[q].generation \in Nat
    BY <1>1 DEF TaskRecord
  <1>12. Generations(v, ts, s)
    BY <1>1, <1>2, <1>9, <1>11 DEF Generations
  <1>13. PollsBut(t, v, ts, s)
    BY <1>9 DEF PollsBut
  <1>14. ~ LiveRecord(r) /\ r.generation <= v.generation
    BY <1>9, <1>10 DEF LiveRecord
  <1>15. Page(v, [ts EXCEPT ![t] = r], s)
    BY <1>1, <1>4, <1>9, <1>10, <1>12, <1>13, <1>14, PageBut DEF Shape
  <1>16. Kept(t, ts, [ts EXCEPT ![t] = r])
    BY <1>1 DEF Kept
  <1> QED
    BY <1>7, <1>8, <1>15, <1>16

(* pollUpdateJob of a task that has the instance shown.                    *)
LEMMA PollPage ==
  ASSUME NEW u, NEW ts, NEW s, NEW t \in Tasks, Page(u, ts, s), ~ LiveRecord(ts[t]),
         Support => ts[t].at = s, NEW j \in JobIds, ts[t].pc \notin {"poll", "sleep"},
         pollUpdateJob(t, j, u, ts)
  PROVE  \E v, n : ui' = v /\ task' = n /\ Page(v, n, s) /\ Kept(t, ts, n)
  <1>1. PICK a : a = Aborted(u, ts)
    OBVIOUS
  <1>2. /\ u \in UiRecord /\ ts \in [Tasks -> TaskRecord] /\ u.generation \in Nat
        /\ Generations(u, ts, s) /\ (Support => u.jobs \in Seq(Of(s)))
    BY DEF Page, Shape, UiRecord
  <1>3. /\ a \in [Tasks -> TaskRecord]
        /\ \A r \in Tasks : ~ LiveRecord(a[r]) /\ a[r].generation <= u.generation
        /\ \A r \in Tasks : ts[r].pc \in Waiting => a[r].pc = ts[r].pc /\ a[r].at = ts[r].at
        /\ \A r \in Tasks : a[r].pc = "load" => a[r] = ts[r]
        /\ a[t] = ts[t]
    BY <1>1, AbortedFacts
  <1>4. Generations(u, a, s)
    BY <1>2, <1>3 DEF Generations
  <1>5. CASE isUpdateTerminal(u.jobs, j)
    <2>1. PICK v : v = abortUpdatesPolling(u)
      OBVIOUS
    <2>2. /\ v \in UiRecord /\ v.controller = None /\ v.polling = FALSE
          /\ v.generation = u.generation /\ v.jobs = u.jobs
      BY <1>2, <2>1, AbortedUi
    <2>3. PollsBut(t, v, a, s)
      BY <1>1, <2>2, AbortedPolls
    <2>4. Generations(v, a, s)
      BY <1>4, <2>2 DEF Generations
    <2>5. Page(v, Stopped(a, t), s)
      BY <1>2, <1>3, <2>2, <2>3, <2>4, StoppedPage DEF Shape
    <2>6. Kept(t, ts, Stopped(a, t))
      BY <1>3 DEF Kept, Stopped
    <2>7. ui' = v /\ task' = Stopped(a, t)
      BY <1>1, <1>5, <2>1 DEF pollUpdateJob
    <2> QED
      BY <2>5, <2>6, <2>7
  <1>6. CASE ~ isUpdateTerminal(u.jobs, j)
    <2>1. PICK b \in BOOLEAN : ui' = [u EXCEPT !.polling = b, !.controller = t]
      BY <1>6 DEF pollUpdateJob
    <2>2. PICK v : v = [u EXCEPT !.polling = b, !.controller = t]
      OBVIOUS
    <2>3. /\ v \in UiRecord /\ v.controller = t
          /\ v.generation = u.generation /\ v.jobs = u.jobs
      BY <1>2, <2>1, <2>2 DEF UiRecord
    <2>4. PICK r : r = [ts[t] EXCEPT !.pc = "poll", !.job = j, !.aborted = FALSE]
      OBVIOUS
    <2>5. /\ r \in TaskRecord /\ r.pc = "poll" /\ r.at = ts[t].at /\ r.aborted = FALSE
          /\ r.generation = ts[t].generation
      BY <1>2, <2>4 DEF TaskRecord, PCs, Waiting
    <2>6. PICK n : n = [a EXCEPT ![t] = r]
      OBVIOUS
    <2>7. task' = n
      BY <1>1, <1>3, <1>6, <2>4, <2>6 DEF pollUpdateJob
    <2>8. n \in [Tasks -> TaskRecord] /\ n[t] = r /\ \A q \in Tasks \ {t} : n[q] = a[q]
      BY <1>3, <2>5, <2>6
    <2>9. \A q \in Tasks :
            /\ LiveRecord(n[q]) <=> v.controller = q
            /\ Support /\ LiveRecord(n[q]) => n[q].at = s
      BY <1>3, <2>3, <2>5, <2>8 DEF LiveRecord
    <2>10. Generations(v, n, s)
      BY <1>2, <1>4, <2>3, <2>5, <2>8 DEF Generations
    <2>11. v.controller # None
      BY <2>3 DEF None, Tasks
    <2>12. Page(v, n, s)
      BY <1>2, <2>3, <2>8, <2>9, <2>10, <2>11 DEF Page, Shape
    <2>13. Kept(t, ts, n)
      BY <1>3, <2>8 DEF Kept
    <2> QED
      BY <2>1, <2>2, <2>7, <2>12, <2>13
  <1> QED
    BY <1>5, <1>6

-----------------------------------------------------------------------------
(* Steps.                                                                  *)

LEMMA OfIsJobs == ASSUME NEW s PROVE Seq(Of(s)) \subseteq Jobs
  <1>1. Of(s) \subseteq JobRow
    BY DEF Of
  <1> QED
    BY <1>1 DEF Jobs

(* What a step leaves of the answers under way: t's, which it takes or     *)
(* which its request has lost, is gone, or t goes on waiting for it.       *)
WireStep(t, n) ==
  \/ wire' = wire /\ ~ Answered(t)
  \/ wire' = wire /\ n[t].pc = task[t].pc /\ n[t].at = task[t].at
  \/ \E i \in DOMAIN wire : wire[i].to = t /\ wire' = RemoveAt(wire, i)

LEMMA WireStays ==
  ASSUME WireInv, NEW t \in Tasks, NEW n, task' = n, Kept(t, task, n), WireStep(t, n)
  PROVE  WireInv'
  <1>1. wire \in Seq(Answers) /\ \A i \in DOMAIN wire : wire[i].to \in Tasks
    <2>1. wire \in Seq(Answers) /\ \A i \in DOMAIN wire : wire[i] \in Answers
      BY DEF WireInv
    <2> QED
      BY <2>1 DEF Answers
  <1>2. CASE wire' = wire /\ (~ Answered(t) \/ (n[t].pc = task[t].pc /\ n[t].at = task[t].at))
    <2>1. ASSUME NEW i \in DOMAIN wire
          PROVE  n[wire[i].to].pc = task[wire[i].to].pc /\ n[wire[i].to].at = task[wire[i].to].at
      <3>1. CASE wire[i].to = t
        BY <1>2, <3>1 DEF Answered
      <3>2. CASE wire[i].to # t
        BY <1>1, <3>2 DEF WireInv, Kept
      <3> QED
        BY <3>1, <3>2
    <2> QED
      BY <1>2, <2>1 DEF WireInv
  <1>3. ASSUME NEW i \in DOMAIN wire, wire[i].to = t, wire' = RemoveAt(wire, i)
        PROVE  WireInv'
    <2>1. PICK x : x = RemoveAt(wire, i)
      OBVIOUS
    <2>2. /\ x \in Seq(Answers)
          /\ \A k \in DOMAIN x : \E m \in DOMAIN wire :
               m = (IF k < i THEN k ELSE k + 1) /\ m # i /\ x[k] = wire[m]
      BY <1>1, <2>1, RemoveAtFacts
    <2>3. DOMAIN x \subseteq Nat /\ i \in Nat
      BY <1>1, <2>2
    <2>4. ASSUME NEW k \in DOMAIN x
          PROVE  /\ n[x[k].to].pc \in Waiting
                 /\ x[k].jobs \in Seq(Of(n[x[k].to].at))
                 /\ n[x[k].to].pc = "create" => x[k].jobs # << >>
      <3>1. PICK m \in DOMAIN wire : m # i /\ x[k] = wire[m]
        BY <2>2
      <3>2. wire[m].to # t
        BY <1>3, <3>1 DEF WireInv
      <3> QED
        BY <1>1, <3>1, <3>2 DEF WireInv, Kept
    <2>5. ASSUME NEW k \in DOMAIN x, NEW l \in DOMAIN x, x[k].to = x[l].to PROVE k = l
      <3>1. PICK m \in DOMAIN wire : m = (IF k < i THEN k ELSE k + 1) /\ x[k] = wire[m]
        BY <2>2
      <3>2. PICK p \in DOMAIN wire : p = (IF l < i THEN l ELSE l + 1) /\ x[l] = wire[p]
        BY <2>2
      <3>3. m = p
        BY <2>5, <3>1, <3>2 DEF WireInv
      <3> QED
        BY <2>3, <3>1, <3>2, <3>3
    <2> QED
      BY <1>3, <2>1, <2>2, <2>4, <2>5 DEF WireInv
  <1> QED
    BY <1>2, <1>3 DEF WireStep

(* A step of one task.                                                     *)
PageStep(t) ==
  /\ UNCHANGED <<env, server, slug, moved>>
  /\ \E v, n : ui' = v /\ task' = n /\ Page(v, n, slug) /\ Kept(t, task, n) /\ WireStep(t, n)

LEMMA PageStepPreserves ==
  ASSUME PagesInv, NEW t \in Tasks, PageStep(t)
  PROVE  PagesInv'
  <1>1. PICK v, n : ui' = v /\ task' = n /\ Page(v, n, slug) /\ Kept(t, task, n) /\ WireStep(t, n)
    BY DEF PageStep
  <1>2. PICK s : s = slug
    OBVIOUS
  <1>3. Page(v, n, s)'
    BY <1>1, <1>2 DEF PageStep, Page, Generations, Support
  <1>4. Page(ui, task, slug)'
    BY <1>1, <1>2, <1>3 DEF PageStep
  <1>5. WireInv'
    BY <1>1, WireStays DEF PagesInv
  <1> QED
    BY <1>4, <1>5 DEF PageStep, PagesInv, ServerType

(* Fields that neither the poll nor the generation depends on.             *)
LEMMA SamePolls ==
  ASSUME NEW u, NEW ts, NEW s, Page(u, ts, s), NEW v \in UiRecord,
         v.polling = u.polling, v.controller = u.controller, v.generation = u.generation,
         Support => v.jobs \in Seq(Of(s))
  PROVE  Page(v, ts, s)
  BY DEF Page, Shape, Generations

LEMMA NotAnswered ==
  ASSUME WireInv, NEW t \in Tasks, task[t].pc \notin Waiting
  PROVE  ~ Answered(t)
  BY DEF WireInv, Answered

LEMMA ReceivedFacts ==
  ASSUME PagesInv, NEW t \in Tasks, NEW jobs, Receives(t, jobs)
  PROVE  /\ jobs \in Jobs /\ jobs \in Seq(Of(task[t].at))
         /\ \E i \in DOMAIN wire : wire[i].to = t /\ wire' = RemoveAt(wire, i)
         /\ task[t].pc = "create" => jobs # << >>
  <1>1. PICK i \in DOMAIN wire : wire[i].to = t /\ wire[i].jobs = jobs /\ wire' = RemoveAt(wire, i)
    BY DEF Receives
  <1>2. wire \in Seq(Answers) /\ wire[i] \in Answers
    BY DEF PagesInv, WireInv
  <1>3. wire[i].jobs \in Jobs
    BY <1>2 DEF Answers
  <1> QED
    BY <1>1, <1>3 DEF PagesInv, WireInv

LEMMA TaskFacts ==
  ASSUME PagesInv, NEW t \in Tasks
  PROVE  /\ task[t] \in TaskRecord /\ task \in [Tasks -> TaskRecord] /\ ui \in UiRecord
         /\ slug \in Slugs /\ ui.generation \in Nat /\ task[t].generation \in Nat
         /\ task[t].generation <= ui.generation
         /\ ui.jobs \in Jobs /\ (Support => ui.jobs \in Seq(Of(slug)))
         /\ task[t].at \in Slugs
  BY DEF PagesInv, Page, Shape, Generations, UiRecord, TaskRecord

(* A task begins, or goes on as something else than a poll, on its own     *)
(* record r, while the page changes nothing that a poll depends on.        *)
LEMMA PlainStep ==
  ASSUME PagesInv, NEW t \in Tasks, ~ LiveRecord(task[t]), NEW v \in UiRecord,
         v.polling = ui.polling, v.controller = ui.controller, v.generation = ui.generation,
         Support => v.jobs \in Seq(Of(slug)),
         NEW r \in TaskRecord, ~ LiveRecord(r), r.generation = task[t].generation \/ r.generation = 1,
         Support /\ r.pc = "load" /\ r.generation = ui.generation => r.at = slug,
         ui' = v, task' = [task EXCEPT ![t] = r], UNCHANGED <<env, server, slug, moved>>,
         WireStep(t, [task EXCEPT ![t] = r])
  PROVE  PageStep(t)
  <1>1. Page(v, task, slug)
    BY SamePolls DEF PagesInv
  <1>2. /\ Shape(v, task) /\ PollsBut(t, v, task, slug) /\ Generations(v, task, slug)
    BY <1>1, PageGivesBut
  <1>3. r.generation <= v.generation
    BY <1>2, TaskFacts DEF Generations
  <1>4. Page(v, [task EXCEPT ![t] = r], slug)
    BY <1>2, <1>3, PageBut
  <1>5. Kept(t, task, [task EXCEPT ![t] = r])
    BY TaskFacts DEF Kept
  <1> QED
    BY <1>4, <1>5 DEF PageStep

LEMMA FailsWire ==
  ASSUME NEW t \in Tasks, RequestFails(t), NEW n
  PROVE  WireStep(t, n)
  BY DEF RequestFails, WireStep

(* A task that ends without having polled.                                 *)
LEMMA StopStep ==
  ASSUME PagesInv, NEW t \in Tasks, task[t].pc \notin {"poll", "sleep"}, NEW v \in UiRecord,
         v.polling = ui.polling, v.controller = ui.controller, v.generation = ui.generation,
         Support => v.jobs \in Seq(Of(slug)),
         ui' = v, task' = Stopped(task, t), UNCHANGED <<env, server, slug, moved>>,
         RequestFails(t) \/ \E jobs : Receives(t, jobs)
  PROVE  PageStep(t)
  <1>1. PICK r : r = [NoTask EXCEPT !.pc = "done"]
    OBVIOUS
  <1>2. r \in TaskRecord /\ r.pc = "done" /\ r.generation = 1
    BY <1>1, StoppedRecord
  <1>3. task' = [task EXCEPT ![t] = r]
    BY <1>1 DEF Stopped
  <1>4. ~ LiveRecord(r) /\ ~ LiveRecord(task[t])
    BY <1>2 DEF LiveRecord
  <1>5. WireStep(t, [task EXCEPT ![t] = r])
    BY FailsWire, ReceivedFacts DEF WireStep
  <1> QED
    BY <1>2, <1>3, <1>4, <1>5, PlainStep

LEMMA SupportAnswers ==
  ASSUME PagesInv, NEW t \in Tasks,
         \/ LoadFailsSupport(t) \/ ListFailsSupport(t) \/ CreateFails(t)
         \/ \E jobs : LoadedSupport(t, jobs) \/ ListedSupport(t, jobs)
  PROVE  PageStep(t)
  <1>1. /\ ui \in UiRecord /\ ui.jobs \in Jobs /\ (Support => ui.jobs \in Seq(Of(slug)))
    BY TaskFacts
  <1>2. CASE LoadFailsSupport(t)
    BY <1>1, <1>2, StopStep DEF LoadFailsSupport
  <1>3. CASE ListFailsSupport(t) \/ CreateFails(t)
    <2>1. /\ task[t].pc \in {"list", "create"} /\ RequestFails(t)
          /\ task' = Stopped(task, t) /\ UNCHANGED <<env, server, slug, moved>>
      BY <1>3 DEF ListFailsSupport, CreateFails
    <2>2. PICK v : v = ui'
      OBVIOUS
    <2>3. /\ v \in UiRecord /\ v.polling = ui.polling /\ v.controller = ui.controller
          /\ v.generation = ui.generation /\ v.jobs = ui.jobs
      BY <1>1, <1>3, <2>2 DEF ListFailsSupport, CreateFails, UiRecord
    <2> QED
      BY <1>1, <2>1, <2>2, <2>3, StopStep
  <1>4. ASSUME NEW jobs, LoadedSupport(t, jobs) PROVE PageStep(t)
    <2>1. /\ task[t].pc = "load" /\ Receives(t, jobs) /\ Support
          /\ task' = Stopped(task, t) /\ UNCHANGED <<env, server, slug, moved>>
      BY <1>4 DEF LoadedSupport
    <2>2. jobs \in Jobs /\ jobs \in Seq(Of(task[t].at))
      BY <2>1, ReceivedFacts
    <2>3. PICK v : v = ui'
      OBVIOUS
    <2>4. /\ v \in UiRecord /\ v.polling = ui.polling /\ v.controller = ui.controller
          /\ v.generation = ui.generation
          /\ v.jobs = IF task[t].generation = ui.generation THEN jobs ELSE ui.jobs
      BY <1>1, <1>4, <2>2, <2>3 DEF LoadedSupport, UiRecord
    <2>5. task[t].generation = ui.generation => task[t].at = slug
      BY <2>1 DEF PagesInv, Page, Generations
    <2>6. v.jobs \in Seq(Of(slug))
      BY <1>1, <2>1, <2>2, <2>4, <2>5
    <2> QED
      BY <2>1, <2>3, <2>4, <2>6, StopStep
  <1>5. ASSUME NEW jobs, ListedSupport(t, jobs) PROVE PageStep(t)
    <2>1. /\ task[t].pc = "list" /\ Receives(t, jobs)
          /\ task' = Stopped(task, t) /\ UNCHANGED <<env, server, slug, moved>>
      BY <1>5 DEF ListedSupport
    <2>2. jobs \in Jobs /\ jobs \in Seq(Of(task[t].at))
      BY <2>1, ReceivedFacts
    <2>3. PICK v : v = ui'
      OBVIOUS
    <2>4. /\ v \in UiRecord /\ v.polling = ui.polling /\ v.controller = ui.controller
          /\ v.generation = ui.generation
          /\ v.jobs = IF slug = task[t].at THEN jobs ELSE ui.jobs
      BY <1>1, <1>5, <2>2, <2>3 DEF ListedSupport, UiRecord
    <2>5. Support => v.jobs \in Seq(Of(slug))
      BY <1>1, <2>2, <2>4
    <2> QED
      BY <2>1, <2>3, <2>4, <2>5, StopStep
  <1> QED
    BY <1>2, <1>3, <1>4, <1>5

(* The clicks that load a list or start an update.                         *)
LEMMA PlainClicks ==
  ASSUME PagesInv, NEW t \in Tasks, RefreshUpdates(t) \/ startUpdateJob(t)
  PROVE  PageStep(t)
  <1>1. /\ ui \in UiRecord /\ (Support => ui.jobs \in Seq(Of(slug)))
        /\ task[t] \in TaskRecord /\ task \in [Tasks -> TaskRecord] /\ slug \in Slugs
    BY TaskFacts
  <1>2. task[t].pc = "idle" /\ UNCHANGED <<env, server, wire, slug, moved>>
    BY DEF RefreshUpdates, startUpdateJob, Starts
  <1>3. PICK c \in {"list", "create"} : task' = [task EXCEPT ![t].pc = c, ![t].at = slug]
    BY DEF RefreshUpdates, startUpdateJob
  <1>4. PICK r : r = [task[t] EXCEPT !.pc = c, !.at = slug]
    OBVIOUS
  <1>5. /\ r \in TaskRecord /\ r.pc = c /\ r.generation = task[t].generation
    BY <1>1, <1>4 DEF TaskRecord, PCs, Waiting
  <1>6. task' = [task EXCEPT ![t] = r]
    BY <1>1, <1>3, <1>4
  <1>7. PICK v : v = ui'
    OBVIOUS
  <1>8. /\ v \in UiRecord /\ v.polling = ui.polling /\ v.controller = ui.controller
        /\ v.generation = ui.generation /\ v.jobs = ui.jobs
    BY <1>1, <1>7 DEF RefreshUpdates, startUpdateJob, UiRecord
  <1>9. ~ LiveRecord(r) /\ ~ LiveRecord(task[t]) /\ r.pc # "load"
    BY <1>2, <1>5 DEF LiveRecord
  <1>10. WireStep(t, [task EXCEPT ![t] = r])
    BY <1>2, NotAnswered DEF WireStep, Waiting, PagesInv
  <1> QED
    BY <1>1, <1>2, <1>5, <1>6, <1>7, <1>8, <1>9, <1>10, PlainStep

(* refreshAll: the polls are aborted, and the task loads.                  *)
LEMMA DetailRefreshes ==
  ASSUME PagesInv, NEW t \in Tasks, RefreshDetail(t)
  PROVE  PageStep(t)
  <1>1. /\ ui \in UiRecord /\ task[t] \in TaskRecord /\ task \in [Tasks -> TaskRecord]
        /\ slug \in Slugs /\ Page(ui, task, slug) /\ ui.generation \in Nat
    BY TaskFacts DEF PagesInv
  <1>2. /\ task[t].pc = "idle" /\ UNCHANGED <<env, server, wire, slug, moved>> /\ ~ Support
    BY EnvFacts DEF RefreshDetail, Starts, PagesInv
  <1>3. PICK a : a = Aborted(ui, task)
    OBVIOUS
  <1>4. /\ a \in [Tasks -> TaskRecord] /\ a[t] = task[t]
        /\ \A r \in Tasks : a[r].generation <= ui.generation
        /\ \A r \in Tasks : task[r].pc \in Waiting => a[r].pc = task[r].pc /\ a[r].at = task[r].at
    BY <1>1, <1>2, <1>3, AbortedFacts
  <1>5. PICK b : b = abortUpdatesPolling(ui)
    OBVIOUS
  <1>6. /\ b \in UiRecord /\ b.controller = None /\ b.polling = FALSE
        /\ b.generation = ui.generation
    BY <1>1, <1>5, AbortedUi
  <1>7. PICK e : e = << >>
    OBVIOUS
  <1>8. e \in Jobs
    BY <1>7 DEF Jobs
  <1>9. PICK v : v = [b EXCEPT !.jobs = e, !.loading = TRUE, !.error = FALSE]
    OBVIOUS
  <1>10. /\ v \in UiRecord /\ v.controller = None /\ v.polling = FALSE
         /\ v.generation = ui.generation
    BY <1>6, <1>8, <1>9 DEF UiRecord
  <1>11. PICK r : r = [task[t] EXCEPT !.pc = "load", !.at = slug, !.others = TRUE]
    OBVIOUS
  <1>12. r \in TaskRecord /\ r.pc = "load" /\ r.generation = task[t].generation
    BY <1>1, <1>11 DEF TaskRecord, PCs, Waiting
  <1>13. PICK n : n = [a EXCEPT ![t] = r]
    OBVIOUS
  <1>14. ui' = v /\ task' = n
    BY <1>3, <1>4, <1>5, <1>7, <1>9, <1>11, <1>13 DEF RefreshDetail
  <1>15. PollsBut(t, v, a, slug)
    BY <1>1, <1>3, <1>10, AbortedPolls
  <1>16. Generations(v, a, slug)
    BY <1>1, <1>2, <1>4, <1>10 DEF Generations, Page
  <1>17. ~ LiveRecord(r) /\ r.generation <= v.generation
    BY <1>4, <1>10, <1>12 DEF LiveRecord
  <1>18. Page(v, n, slug)
    BY <1>2, <1>4, <1>10, <1>12, <1>13, <1>15, <1>16, <1>17, PageBut DEF Shape
  <1>19. Kept(t, task, n)
    BY <1>4, <1>13 DEF Kept
  <1>20. WireStep(t, n)
    BY <1>2, NotAnswered DEF WireStep, Waiting, PagesInv
  <1> QED
    BY <1>2, <1>14, <1>18, <1>19, <1>20 DEF PageStep

LEMMA SupportRefreshes ==
  ASSUME PagesInv, NEW t \in Tasks, RefreshSupport(t)
  PROVE  PageStep(t)
  <1>1. /\ slug \in Slugs /\ Page(ui, task, slug) /\ task[t].pc = "idle"
        /\ UNCHANGED <<env, server, wire, slug, moved>> /\ Reload(t, slug, ui, task)
    BY DEF PagesInv, RefreshSupport, Starts
  <1>2. ~ LiveRecord(task[t])
    BY <1>1 DEF LiveRecord
  <1>3. /\ Shape(ui, task) /\ PollsBut(t, ui, task, slug) /\ Generations(ui, task, slug)
    BY <1>1, <1>2, PageGivesBut
  <1>4. PICK v, n : ui' = v /\ task' = n /\ Page(v, n, slug) /\ Kept(t, task, n)
    BY <1>1, <1>3, ReloadPage DEF Generations
  <1>5. WireStep(t, n)
    BY <1>1, NotAnswered DEF WireStep, Waiting, PagesInv
  <1> QED
    BY <1>1, <1>4, <1>5 DEF PageStep

(* What follows refreshAll: a poll of the first active job, or nothing.    *)
LEMMA AfterLoadsPage ==
  ASSUME NEW u, NEW ts, NEW t \in Tasks, slug \in Slugs, Page(u, ts, slug),
         ts[t].pc \notin {"poll", "sleep"}, AfterLoads(t, u, ts)
  PROVE  \E v, n : ui' = v /\ task' = n /\ Page(v, n, slug) /\ Kept(t, ts, n)
  <1>1. ~ LiveRecord(ts[t])
    BY DEF LiveRecord
  <1>2. /\ Shape(u, ts) /\ PollsBut(t, u, ts, slug) /\ Generations(u, ts, slug)
        /\ (Support => u.jobs \in Seq(Of(slug)))
    BY <1>1, PageGivesBut
  <1>3. /\ u \in UiRecord /\ ts \in [Tasks -> TaskRecord] /\ ts[t] \in TaskRecord
        /\ u.jobs \in Jobs
    BY <1>2 DEF Shape, UiRecord
  <1>4. PICK a : a = activeUpdateJobs(u.jobs)
    OBVIOUS
  <1>5. a \in Seq(JobRow)
    BY <1>3, <1>4, FilterKeeps DEF activeUpdateJobs, Jobs
  <1>6. CASE a = << >>
    <2>1. ui' = u /\ task' = Stopped(ts, t)
      BY <1>4, <1>6 DEF AfterLoads
    <2>2. Page(u, Stopped(ts, t), slug)
      BY <1>2, StoppedPage
    <2>3. Kept(t, ts, Stopped(ts, t))
      BY <1>3 DEF Kept, Stopped
    <2> QED
      BY <2>1, <2>2, <2>3
  <1>7. CASE a # << >>
    <2>1. a[1] \in JobRow
      BY <1>5, <1>7
    <2>2. a[1].id \in JobIds
      BY <2>1 DEF JobRow
    <2>3. PICK r : r = [ts[t] EXCEPT !.at = slug]
      OBVIOUS
    <2>4. /\ r \in TaskRecord /\ r.pc = ts[t].pc /\ r.at = slug
          /\ r.generation = ts[t].generation
      BY <1>3, <2>3 DEF TaskRecord
    <2>5. PICK m : m = [ts EXCEPT ![t] = r]
      OBVIOUS
    <2>6. m[t] = r /\ \A q \in Tasks \ {t} : m[q] = ts[q]
      BY <1>3, <2>5
    <2>7. ~ LiveRecord(r) /\ r.generation <= u.generation
      BY <1>2, <2>4 DEF LiveRecord, Generations
    <2>8. Page(u, m, slug)
      BY <1>2, <2>4, <2>5, <2>7, PageBut
    <2>9. pollUpdateJob(t, a[1].id, u, [ts EXCEPT ![t].at = slug])
      BY <1>4, <1>7 DEF AfterLoads
    <2>10. [ts EXCEPT ![t].at = slug] = m
      BY <1>3, <2>3, <2>5
    <2>11. pollUpdateJob(t, a[1].id, u, m)
      BY <2>9, <2>10
    <2>12. PICK v, n : ui' = v /\ task' = n /\ Page(v, n, slug) /\ Kept(t, m, n)
      BY <2>2, <2>4, <2>6, <2>7, <2>8, <2>11, PollPage
    <2>13. Kept(t, ts, n)
      BY <2>6, <2>12 DEF Kept
    <2> QED
      BY <2>12, <2>13
  <1> QED
    BY <1>6, <1>7

LEMMA OthersArrive ==
  ASSUME PagesInv, NEW t \in Tasks, OthersLoaded(t)
  PROVE  PageStep(t)
  <1>1. /\ ui \in UiRecord /\ task[t] \in TaskRecord /\ task \in [Tasks -> TaskRecord]
        /\ slug \in Slugs /\ Page(ui, task, slug)
    BY TaskFacts DEF PagesInv
  <1>2. PICK r : r = [task[t] EXCEPT !.others = FALSE]
    OBVIOUS
  <1>3. /\ r \in TaskRecord /\ r.pc = task[t].pc /\ r.at = task[t].at
        /\ r.aborted = task[t].aborted /\ r.generation = task[t].generation
    BY <1>1, <1>2 DEF TaskRecord
  <1>4. PICK m : m = [task EXCEPT ![t] = r]
    OBVIOUS
  <1>5. /\ m = [task EXCEPT ![t].others = FALSE] /\ m \in [Tasks -> TaskRecord]
        /\ m[t] = r /\ \A q \in Tasks \ {t} : m[q] = task[q]
    BY <1>1, <1>2, <1>3, <1>4
  <1>6. Page(ui, m, slug)
    <2>1. \A q \in Tasks : /\ m[q].pc = task[q].pc /\ m[q].at = task[q].at
                           /\ m[q].aborted = task[q].aborted
                           /\ m[q].generation = task[q].generation
      BY <1>3, <1>5
    <2>2. \A q \in Tasks : LiveRecord(m[q]) <=> LiveRecord(task[q])
      BY <2>1 DEF LiveRecord
    <2>3. Generations(ui, m, slug)
      BY <1>1, <2>1 DEF Page, Generations
    <2> QED
      BY <1>1, <1>5, <2>1, <2>2, <2>3 DEF Page, Shape
  <1>7. UNCHANGED <<env, server, wire, slug, moved>>
    BY DEF OthersLoaded
  <1>8. CASE task[t].pc = "others"
    <2>1. AfterLoads(t, ui, m)
      BY <1>5, <1>8 DEF OthersLoaded
    <2>2. PICK v, n : ui' = v /\ task' = n /\ Page(v, n, slug) /\ Kept(t, m, n)
      BY <1>1, <1>3, <1>5, <1>6, <1>8, <2>1, AfterLoadsPage
    <2>3. Kept(t, task, n)
      BY <1>5, <2>2 DEF Kept
    <2>4. WireStep(t, n)
      BY <1>7, <1>8, NotAnswered DEF WireStep, Waiting, PagesInv
    <2> QED
      BY <1>7, <2>2, <2>3, <2>4 DEF PageStep
  <1>9. CASE task[t].pc # "others"
    <2>1. ui' = ui /\ task' = m
      BY <1>5, <1>9 DEF OthersLoaded
    <2>2. Kept(t, task, m) /\ WireStep(t, m)
      BY <1>3, <1>5, <1>7 DEF Kept, WireStep
    <2> QED
      BY <1>6, <1>7, <2>1, <2>2 DEF PageStep
  <1> QED
    BY <1>8, <1>9

(* The detail page's list arrives, or does not.                            *)
LEMMA DetailAnswers ==
  ASSUME PagesInv, NEW t \in Tasks,
         LoadFailsDetail(t) \/ \E jobs : LoadedDetail(t, jobs)
  PROVE  PageStep(t)
  <1>1. /\ ui \in UiRecord /\ task[t] \in TaskRecord /\ task \in [Tasks -> TaskRecord]
        /\ slug \in Slugs /\ Page(ui, task, slug) /\ ui.jobs \in Jobs
    BY TaskFacts DEF PagesInv
  <1>2. PICK u : /\ ListLoaded(t, u)
                 /\ \/ u = [ui EXCEPT !.error = TRUE, !.loading = FALSE] /\ RequestFails(t)
                    \/ \E jobs : u = [ui EXCEPT !.jobs = jobs, !.loading = FALSE] /\ Receives(t, jobs)
    BY DEF LoadFailsDetail, LoadedDetail
  <1>3. /\ task[t].pc = "load" /\ ~ Support /\ UNCHANGED <<env, server, slug, moved>>
    BY EnvFacts DEF LoadFailsDetail, LoadedDetail, PagesInv
  <1>4. \/ RequestFails(t)
        \/ \E i \in DOMAIN wire : wire[i].to = t /\ wire' = RemoveAt(wire, i)
    BY <1>2, ReceivedFacts
  <1>5. \A n : WireStep(t, n)
    BY <1>4, FailsWire DEF WireStep
  <1>6. /\ u \in UiRecord /\ u.polling = ui.polling /\ u.controller = ui.controller
        /\ u.generation = ui.generation
    <2>1. CASE u = [ui EXCEPT !.error = TRUE, !.loading = FALSE]
      BY <1>1, <2>1 DEF UiRecord
    <2>2. ASSUME NEW jobs, u = [ui EXCEPT !.jobs = jobs, !.loading = FALSE], Receives(t, jobs)
          PROVE  /\ u \in UiRecord /\ u.polling = ui.polling /\ u.controller = ui.controller
                 /\ u.generation = ui.generation
      <3>1. jobs \in Jobs
        BY <2>2, ReceivedFacts
      <3> QED
        BY <1>1, <2>2, <3>1 DEF UiRecord
    <2> QED
      BY <1>2, <2>1, <2>2
  <1>7. Page(u, task, slug)
    BY <1>1, <1>3, <1>6, SamePolls
  <1>8. CASE task[t].others
    <2>1. PICK r : r = [task[t] EXCEPT !.pc = "others"]
      OBVIOUS
    <2>2. r \in TaskRecord /\ r.pc = "others" /\ r.generation = task[t].generation
      BY <1>1, <2>1 DEF TaskRecord, PCs
    <2>3. ui' = u /\ task' = [task EXCEPT ![t] = r]
      BY <1>1, <1>2, <1>8, <2>1 DEF ListLoaded
    <2>4. ~ LiveRecord(task[t]) /\ ~ LiveRecord(r)
      BY <1>3, <2>2 DEF LiveRecord
    <2> QED
      BY <1>3, <1>5, <1>6, <2>2, <2>3, <2>4, PlainStep
  <1>9. CASE ~ task[t].others
    <2>1. AfterLoads(t, u, task)
      BY <1>2, <1>9 DEF ListLoaded
    <2>2. PICK v, n : ui' = v /\ task' = n /\ Page(v, n, slug) /\ Kept(t, task, n)
      BY <1>1, <1>3, <1>7, <2>1, AfterLoadsPage
    <2> QED
      BY <1>3, <1>5, <2>2 DEF PageStep
  <1> QED
    BY <1>8, <1>9

(* The answer to a create: the job goes in front and is polled.            *)
LEMMA CreateAnswered ==
  ASSUME PagesInv, NEW t \in Tasks, NEW jobs, Created(t, jobs)
  PROVE  PageStep(t)
  <1>1. /\ ui \in UiRecord /\ task[t] \in TaskRecord /\ task \in [Tasks -> TaskRecord]
        /\ slug \in Slugs /\ Page(ui, task, slug) /\ ui.jobs \in Jobs
        /\ (Support => ui.jobs \in Seq(Of(slug)))
    BY TaskFacts DEF PagesInv
  <1>2. /\ task[t].pc = "create" /\ Receives(t, jobs) /\ UNCHANGED <<env, server, slug, moved>>
    BY DEF Created
  <1>3. /\ jobs \in Jobs /\ jobs \in Seq(Of(task[t].at)) /\ jobs # << >>
        /\ \E i \in DOMAIN wire : wire[i].to = t /\ wire' = RemoveAt(wire, i)
    BY <1>2, ReceivedFacts
  <1>4. \A n : WireStep(t, n)
    BY <1>3 DEF WireStep
  <1>5. CASE ~ (Detail \/ slug = task[t].at)
    <2>1. ui' = ui /\ task' = Stopped(task, t)
      BY <1>5 DEF Created
    <2> QED
      BY <1>1, <1>2, <2>1, StopStep
  <1>6. CASE Detail \/ slug = task[t].at
    <2>1. PICK job : job = jobs[1]
      OBVIOUS
    <2>2. job \in Of(task[t].at) /\ job \in JobRow
      BY <1>3, <2>1 DEF Jobs
    <2>3. job.id \in JobIds
      BY <2>2 DEF JobRow
    <2>4. Support => slug = task[t].at
      BY <1>6, EnvFacts DEF PagesInv
    <2>5. PICK shown : shown = <<job>> \o Without(ui.jobs, job.id)
      OBVIOUS
    <2>6. shown \in Jobs /\ (Support => shown \in Seq(Of(slug)))
      <3>1. ASSUME NEW S, ui.jobs \in Seq(S), job \in S PROVE shown \in Seq(S)
        <4>1. Without(ui.jobs, job.id) \in Seq(S)
          BY <3>1, FilterKeeps DEF Without
        <4>2. <<job>> \in Seq(S)
          BY <3>1
        <4> QED
          BY <2>5, <4>1, <4>2, ConcatProperties
      <3> QED
        BY <1>1, <2>2, <2>4, <3>1 DEF Jobs
    <2>7. PICK u : u = [ui EXCEPT !.creating = FALSE, !.jobs = shown]
      OBVIOUS
    <2>8. /\ u \in UiRecord /\ u.polling = ui.polling /\ u.controller = ui.controller
          /\ u.generation = ui.generation /\ u.jobs = shown
      BY <1>1, <2>6, <2>7 DEF UiRecord
    <2>9. Page(u, task, slug)
      BY <1>1, <2>6, <2>8, SamePolls
    <2>10. PICK r : r = [task[t] EXCEPT !.at = slug]
      OBVIOUS
    <2>11. /\ r \in TaskRecord /\ r.pc = task[t].pc /\ r.at = slug
           /\ r.generation = task[t].generation
      BY <1>1, <2>10 DEF TaskRecord
    <2>12. PICK m : m = [task EXCEPT ![t] = r]
      OBVIOUS
    <2>13. m[t] = r /\ \A q \in Tasks \ {t} : m[q] = task[q]
      BY <1>1, <2>12
    <2>14. ~ LiveRecord(r) /\ ~ LiveRecord(task[t])
      BY <1>2, <2>11 DEF LiveRecord
    <2>15. /\ Shape(u, task) /\ PollsBut(t, u, task, slug) /\ Generations(u, task, slug)
           /\ (Support => u.jobs \in Seq(Of(slug)))
      BY <2>9, <2>14, PageGivesBut
    <2>16. r.generation <= u.generation
      BY <2>11, <2>15 DEF Generations
    <2>17. Page(u, m, slug)
      BY <2>11, <2>12, <2>14, <2>15, <2>16, PageBut
    <2>18. pollUpdateJob(t, job.id, u, m)
      <3>1. m = [task EXCEPT ![t].at = slug]
        BY <1>1, <2>10, <2>12
      <3>2. u = [ui EXCEPT !.creating = FALSE, !.jobs = <<jobs[1]>> \o Without(@, jobs[1].id)]
        BY <1>1, <2>1, <2>5, <2>7 DEF UiRecord
      <3> QED
        BY <1>6, <2>1, <3>1, <3>2 DEF Created
    <2>19. PICK v, n : ui' = v /\ task' = n /\ Page(v, n, slug) /\ Kept(t, m, n)
      BY <1>2, <2>3, <2>11, <2>13, <2>14, <2>17, <2>18, PollPage
    <2>20. Kept(t, task, n)
      BY <2>13, <2>19 DEF Kept
    <2> QED
      BY <1>2, <1>4, <2>19, <2>20 DEF PageStep
  <1> QED
    BY <1>5, <1>6

(* The finally clause.  The flag may stay up only if another poll runs:    *)
(* the poll the controller names is of the instance shown.                 *)
LEMMA PollEndedFacts ==
  ASSUME PagesInv, NEW t \in Tasks, NEW u \in UiRecord,
         u.polling = ui.polling, u.controller = ui.controller, u.generation = ui.generation,
         NEW v, v = PollEnded(u, t)
  PROVE  /\ v \in UiRecord /\ v.generation = u.generation /\ v.jobs = u.jobs
         /\ PollsBut(t, v, task, slug)
  <1>1. PICK p : p = IF Detail \/ slug = task[t].at THEN FALSE ELSE u.polling
    OBVIOUS
  <1>2. PICK c : c = IF u.controller = t THEN None ELSE u.controller
    OBVIOUS
  <1>3. p \in BOOLEAN /\ c \in Tasks \cup {None}
    BY <1>1, <1>2 DEF UiRecord
  <1>4. v = [u EXCEPT !.polling = p, !.controller = c]
    BY <1>1, <1>2 DEF PollEnded, UiRecord
  <1>5. /\ v \in UiRecord /\ v.generation = u.generation /\ v.jobs = u.jobs
        /\ v.polling = p /\ v.controller = c
    BY <1>3, <1>4 DEF UiRecord
  <1>6. /\ ui.polling => ui.controller # None
        /\ \A r \in Tasks :
             /\ LiveRecord(task[r]) <=> ui.controller = r
             /\ Support /\ LiveRecord(task[r]) => task[r].at = slug
    BY DEF PagesInv, Page
  <1>7. None \notin Tasks
    BY DEF None, Tasks
  <1>8. c # t /\ \A r \in Tasks \ {t} : c = r <=> ui.controller = r
    BY <1>2, <1>7
  <1>9. p => c # None
    BY <1>1, <1>2, <1>6, EnvFacts DEF PagesInv
  <1> QED
    BY <1>5, <1>6, <1>8, <1>9 DEF PollsBut

LEMMA PollFailed ==
  ASSUME PagesInv, NEW t \in Tasks, PollFails(t)
  PROVE  PageStep(t)
  <1>1. /\ ui \in UiRecord /\ task \in [Tasks -> TaskRecord]
        /\ (Support => ui.jobs \in Seq(Of(slug))) /\ Generations(ui, task, slug)
    BY TaskFacts DEF PagesInv, Page
  <1>2. PICK w : w = PollEnded(ui, t)
    OBVIOUS
  <1>3. /\ w \in UiRecord /\ w.generation = ui.generation /\ w.jobs = ui.jobs
        /\ PollsBut(t, w, task, slug)
    BY <1>1, <1>2, PollEndedFacts
  <1>4. PICK v : v = ui'
    OBVIOUS
  <1>5. /\ v \in UiRecord /\ v.generation = w.generation /\ v.jobs = w.jobs
        /\ v.controller = w.controller /\ v.polling = w.polling
    BY <1>2, <1>3, <1>4 DEF PollFails, UiRecord
  <1>6. PollsBut(t, v, task, slug) /\ Generations(v, task, slug) /\ Shape(v, task)
    BY <1>1, <1>3, <1>5 DEF PollsBut, Generations, Shape
  <1>7. Page(v, Stopped(task, t), slug)
    BY <1>1, <1>3, <1>5, <1>6, StoppedPage
  <1>8. Kept(t, task, Stopped(task, t))
    BY <1>1 DEF Kept, Stopped
  <1>9. /\ task' = Stopped(task, t) /\ RequestFails(t) /\ UNCHANGED <<env, server, slug, moved>>
    BY DEF PollFails
  <1>10. WireStep(t, Stopped(task, t))
    BY <1>9, FailsWire
  <1> QED
    BY <1>4, <1>7, <1>8, <1>9, <1>10 DEF PageStep

(* The answer to a poll.                                                   *)
LEMMA PollAnswered ==
  ASSUME PagesInv, NEW t \in Tasks, NEW jobs, Polled(t, jobs)
  PROVE  PageStep(t)
  <1>1. /\ ui \in UiRecord /\ task[t] \in TaskRecord /\ task \in [Tasks -> TaskRecord]
        /\ slug \in Slugs /\ Page(ui, task, slug) /\ ui.jobs \in Jobs
        /\ (Support => ui.jobs \in Seq(Of(slug))) /\ Generations(ui, task, slug)
    BY TaskFacts DEF PagesInv, Page
  <1>2. /\ task[t].pc = "poll" /\ Receives(t, jobs) /\ UNCHANGED <<env, server, slug, moved>>
    BY DEF Polled
  <1>3. /\ jobs \in Jobs /\ jobs \in Seq(Of(task[t].at))
        /\ \E i \in DOMAIN wire : wire[i].to = t /\ wire' = RemoveAt(wire, i)
    BY <1>2, ReceivedFacts
  <1>4. \A n : WireStep(t, n)
    BY <1>3 DEF WireStep
  <1>5. PICK here \in BOOLEAN : here = (Detail \/ slug = task[t].at)
    OBVIOUS
  <1>6. PICK shown : shown = InFront(jobs, task[t].job)
    OBVIOUS
  <1>7. shown \in Jobs /\ shown \in Seq(Of(task[t].at))
    <2>1. ASSUME NEW S, jobs \in Seq(S) PROVE shown \in Seq(S)
      <3>1. PICK j : j = task[t].job
        OBVIOUS
      <3>2. PICK a : a = Filter(jobs, {i \in DOMAIN jobs : jobs[i].id = j})
        OBVIOUS
      <3>3. PICK b : b = Without(jobs, j)
        OBVIOUS
      <3>4. a \in Seq(S) /\ b \in Seq(S)
        BY <2>1, <3>2, <3>3, FilterKeeps DEF Without
      <3>5. shown = a \o b
        BY <1>6, <3>1, <3>2, <3>3 DEF InFront
      <3> QED
        BY <3>4, <3>5, ConcatProperties
    <2> QED
      BY <1>3, <2>1 DEF Jobs
  <1>8. PICK u : u = IF here THEN [ui EXCEPT !.jobs = shown] ELSE ui
    OBVIOUS
  <1>9. /\ u \in UiRecord /\ u.polling = ui.polling /\ u.controller = ui.controller
        /\ u.generation = ui.generation /\ u.jobs = IF here THEN shown ELSE ui.jobs
    BY <1>1, <1>7, <1>8 DEF UiRecord
  <1>10. Support => (here => slug = task[t].at) /\ u.jobs \in Seq(Of(slug))
    BY <1>1, <1>5, <1>7, <1>9, EnvFacts DEF PagesInv
  <1>11. PICK w : w = PollEnded(u, t)
    OBVIOUS
  <1>12. /\ w \in UiRecord /\ w.generation = u.generation /\ w.jobs = u.jobs
         /\ PollsBut(t, w, task, slug)
    BY <1>9, <1>11, PollEndedFacts
  <1>13. Shape(w, task) /\ Generations(w, task, slug)
    BY <1>1, <1>9, <1>12 DEF Shape, Generations
  <1>14. \/ ui' = w /\ task' = Stopped(task, t)
         \/ here /\ Support /\ Reload(t, task[t].at, w, task)
         \/ ~ task[t].aborted /\ ui' = u /\ task' = [task EXCEPT ![t].pc = "sleep"]
    BY <1>5, <1>6, <1>8, <1>11 DEF Polled
  <1>15. CASE ui' = w /\ task' = Stopped(task, t)
    <2>1. Page(w, Stopped(task, t), slug)
      BY <1>10, <1>12, <1>13, StoppedPage
    <2>2. Kept(t, task, Stopped(task, t))
      BY <1>1 DEF Kept, Stopped
    <2> QED
      BY <1>2, <1>4, <1>15, <2>1, <2>2 DEF PageStep
  <1>16. CASE here /\ Support /\ Reload(t, task[t].at, w, task)
    <2>1. Reload(t, slug, w, task)
      BY <1>10, <1>16
    <2>2. PICK v, n : ui' = v /\ task' = n /\ Page(v, n, slug) /\ Kept(t, task, n)
      BY <1>1, <1>12, <1>13, <2>1, ReloadPage DEF Generations
    <2> QED
      BY <1>2, <1>4, <2>2 DEF PageStep
  <1>17. CASE ~ task[t].aborted /\ ui' = u /\ task' = [task EXCEPT ![t].pc = "sleep"]
    <2>1. PICK r : r = [task[t] EXCEPT !.pc = "sleep"]
      OBVIOUS
    <2>2. /\ r \in TaskRecord /\ r.pc = "sleep" /\ r.at = task[t].at
          /\ r.aborted = task[t].aborted /\ r.generation = task[t].generation
      BY <1>1, <2>1 DEF TaskRecord, PCs
    <2>3. PICK n : n = [task EXCEPT ![t] = r]
      OBVIOUS
    <2>4. /\ task' = n /\ n \in [Tasks -> TaskRecord]
          /\ n[t] = r /\ \A q \in Tasks \ {t} : n[q] = task[q]
      BY <1>1, <1>17, <2>1, <2>2, <2>3
    <2>5. Page(u, task, slug)
      BY <1>1, <1>9, <1>10, SamePolls
    <2>6. LiveRecord(r) /\ LiveRecord(task[t])
      BY <1>2, <1>17, <2>2 DEF LiveRecord
    <2>7. Generations(u, n, slug)
      BY <2>2, <2>4, <2>5 DEF Page, Generations
    <2>8. Page(u, n, slug)
      BY <2>2, <2>4, <2>5, <2>6, <2>7 DEF Page, Shape
    <2>9. Kept(t, task, n)
      BY <2>4 DEF Kept
    <2> QED
      BY <1>2, <1>4, <1>17, <2>4, <2>8, <2>9 DEF PageStep
  <1> QED
    BY <1>14, <1>15, <1>16, <1>17

(* The backoff is over.                                                    *)
LEMMA PollWakes ==
  ASSUME PagesInv, NEW t \in Tasks, WakeUp(t)
  PROVE  PageStep(t)
  <1>1. /\ ui \in UiRecord /\ task[t] \in TaskRecord /\ task \in [Tasks -> TaskRecord]
        /\ slug \in Slugs /\ Page(ui, task, slug)
    BY TaskFacts DEF PagesInv
  <1>2. /\ task[t].pc = "sleep" /\ UNCHANGED <<env, server, wire, slug, moved, ui>>
    BY DEF WakeUp
  <1>3. PICK s : s = IF Detail THEN slug ELSE task[t].at
    OBVIOUS
  <1>4. s \in Slugs /\ (Support => s = task[t].at)
    BY <1>1, <1>3, EnvFacts DEF TaskRecord, PagesInv
  <1>5. PICK r : r = [task[t] EXCEPT !.pc = "poll", !.at = s]
    OBVIOUS
  <1>6. /\ r \in TaskRecord /\ r.pc = "poll" /\ r.at = s
        /\ r.aborted = task[t].aborted /\ r.generation = task[t].generation
    BY <1>1, <1>4, <1>5 DEF TaskRecord, PCs, Waiting
  <1>7. PICK n : n = [task EXCEPT ![t] = r]
    OBVIOUS
  <1>8. /\ task' = n /\ n \in [Tasks -> TaskRecord]
        /\ n[t] = r /\ \A q \in Tasks \ {t} : n[q] = task[q]
    BY <1>1, <1>3, <1>5, <1>6, <1>7 DEF WakeUp
  <1>9. LiveRecord(r) <=> LiveRecord(task[t])
    BY <1>2, <1>6 DEF LiveRecord
  <1>10. Generations(ui, n, slug)
    BY <1>1, <1>6, <1>8 DEF Page, Generations
  <1>11. Page(ui, n, slug)
    BY <1>1, <1>4, <1>6, <1>8, <1>9, <1>10 DEF Page, Shape
  <1>12. Kept(t, task, n)
    BY <1>8 DEF Kept
  <1>13. WireStep(t, n)
    BY <1>2, NotAnswered DEF WireStep, Waiting, PagesInv
  <1> QED
    BY <1>2, <1>8, <1>11, <1>12, <1>13 DEF PageStep

(* The user goes to another instance: the detail page does not notice, the *)
(* support page aborts its poll and loads.                                 *)
LEMMA MovePreserves ==
  ASSUME PagesInv, NEW t \in Tasks, NEW s \in Slugs, Move(t, s)
  PROVE  PagesInv'
  <1>1. /\ ui \in UiRecord /\ task \in [Tasks -> TaskRecord] /\ Page(ui, task, slug)
        /\ WireInv /\ ServerType /\ env \in Envs /\ moved \in 0 .. env.moves /\ env.moves \in Nat
    BY TaskFacts, EnvFacts DEF PagesInv
  <1>2. /\ slug' = s /\ moved' \in 0 .. env.moves /\ UNCHANGED <<env, server, wire>>
    BY <1>1 DEF Move
  <1>3. CASE Detail /\ UNCHANGED <<ui, task>>
    <2>1. ~ Support
      BY <1>1, <1>3, EnvFacts
    <2>2. Page(ui, task, s)
      BY <1>1, <2>1 DEF Page, Generations
    <2>3. Page(ui, task, slug)'
      BY <1>2, <1>3, <2>2 DEF Page, Generations, Support
    <2>4. WireInv'
      BY <1>1, <1>2, <1>3 DEF WireInv
    <2> QED
      BY <1>1, <1>2, <2>3, <2>4 DEF PagesInv, ServerType
  <1>4. CASE Starts(t) /\ Reload(t, s, abortUpdatesPolling(ui), Aborted(ui, task))
    <2>1. PICK a : a = Aborted(ui, task)
      OBVIOUS
    <2>2. PICK u : u = abortUpdatesPolling(ui)
      OBVIOUS
    <2>3. task[t].pc = "idle"
      BY <1>4 DEF Starts
    <2>4. /\ a \in [Tasks -> TaskRecord]
          /\ \A r \in Tasks : a[r].generation <= ui.generation
          /\ \A r \in Tasks : task[r].pc \in Waiting => a[r].pc = task[r].pc /\ a[r].at = task[r].at
      BY <1>1, <2>1, AbortedFacts
    <2>5. /\ u \in UiRecord /\ u.controller = None /\ u.polling = FALSE
          /\ u.generation = ui.generation
      BY <1>1, <2>2, AbortedUi
    <2>6. PollsBut(t, u, a, s)
      BY <1>1, <2>1, <2>5, AbortedPolls
    <2>7. u.generation >= 1
      BY <1>1, <2>5 DEF Page, Generations
    <2>8. Reload(t, s, u, a)
      BY <1>4, <2>1, <2>2
    <2>9. PICK v, n : ui' = v /\ task' = n /\ Page(v, n, s) /\ Kept(t, a, n)
      BY <2>4, <2>5, <2>6, <2>7, <2>8, ReloadPage DEF Shape
    <2>10. Kept(t, task, n)
      BY <2>4, <2>9 DEF Kept
    <2>11. WireStep(t, n)
      BY <1>1, <1>2, <2>3, NotAnswered DEF WireStep, Waiting
    <2>12. WireInv'
      BY <1>1, <2>9, <2>10, <2>11, WireStays
    <2>13. Page(v, n, s)'
      BY <1>2, <2>9 DEF Page, Generations, Support
    <2>14. Page(ui, task, slug)'
      BY <1>2, <2>9, <2>13
    <2> QED
      BY <1>1, <1>2, <2>12, <2>14 DEF PagesInv, ServerType
  <1> QED
    BY <1>3, <1>4 DEF Move

(* The server answers a task that waits, about the instance it asked for.  *)
LEMMA ReplyPreserves ==
  ASSUME PagesInv, NEW t \in Tasks, task[t].pc \in Waiting, ~ Answered(t), NEW jobs,
         jobs \in Seq(Of(task[t].at)), task[t].pc = "create" => jobs # << >>,
         Reply(t, jobs), UNCHANGED <<env, slug, moved, ui, task>>, ServerType'
  PROVE  PagesInv'
  <1>1. PICK x : x = [to |-> t, jobs |-> jobs]
    OBVIOUS
  <1>2. jobs \in Jobs
    BY OfIsJobs
  <1>3. x \in Answers /\ x.to = t /\ x.jobs = jobs
    BY <1>1, <1>2 DEF Answers
  <1>4. PICK w : w = Append(wire, x)
    OBVIOUS
  <1>5. wire \in Seq(Answers) /\ Len(wire) \in Nat /\ DOMAIN wire = 1 .. Len(wire)
    BY DEF PagesInv, WireInv
  <1>6. /\ w \in Seq(Answers) /\ DOMAIN w = 1 .. Len(wire) + 1
        /\ w[Len(wire) + 1] = x /\ \A i \in 1 .. Len(wire) : w[i] = wire[i]
    BY <1>3, <1>4, <1>5
  <1>7. wire' = w
    BY <1>1, <1>4 DEF Reply
  <1>8. \A i \in 1 .. Len(wire) : wire[i].to # t
    BY <1>5 DEF Answered
  <1>9. ASSUME NEW i \in DOMAIN w, NEW k \in DOMAIN w, w[i].to = w[k].to PROVE i = k
    <2>1. CASE i \in 1 .. Len(wire) /\ k \in 1 .. Len(wire)
      BY <1>5, <1>6, <1>9, <2>1 DEF PagesInv, WireInv
    <2>2. CASE i = Len(wire) + 1 \/ k = Len(wire) + 1
      BY <1>3, <1>5, <1>6, <1>8, <1>9, <2>2
    <2> QED
      BY <1>5, <1>6, <2>1, <2>2
  <1>10. ASSUME NEW i \in DOMAIN w
         PROVE  /\ task[w[i].to].pc \in Waiting
                /\ w[i].jobs \in Seq(Of(task[w[i].to].at))
                /\ task[w[i].to].pc = "create" => w[i].jobs # << >>
    <2>1. CASE i \in 1 .. Len(wire)
      BY <1>5, <1>6, <2>1 DEF PagesInv, WireInv
    <2>2. CASE i = Len(wire) + 1
      BY <1>3, <1>6, <2>2
    <2> QED
      BY <1>5, <1>6, <2>1, <2>2
  <1>11. WireInv'
    BY <1>6, <1>7, <1>9, <1>10 DEF WireInv
  <1>12. Page(ui, task, slug)'
    BY DEF PagesInv, Page, Generations, Support
  <1> QED
    BY <1>11, <1>12 DEF PagesInv

LEMMA ServerFacts ==
  ASSUME ServerType, NEW s \in Slugs
  PROVE  /\ server[s].admitted \in 0 .. MaxJobs /\ server[s].active \subseteq 1 .. MaxJobs
         /\ server[s] \in [admitted : 0 .. MaxJobs, active : SUBSET (1 .. MaxJobs)]
  BY DEF ServerType

LEMMA ServesPreserve ==
  ASSUME PagesInv, NEW t \in Tasks, ServeList(t) \/ ServeCreate(t)
  PROVE  PagesInv'
  <1>1. PICK s : s = task[t].at
    OBVIOUS
  <1>2. s \in Slugs /\ ServerType /\ MaxJobs \in Nat
    BY <1>1, TaskFacts, PagesAssumption DEF PagesInv
  <1>3. /\ server[s].admitted \in 0 .. MaxJobs /\ server[s].active \subseteq 1 .. MaxJobs
        /\ server[s] \in [admitted : 0 .. MaxJobs, active : SUBSET (1 .. MaxJobs)]
    BY <1>2, ServerFacts
  <1>4. \A n \in 1 .. MaxJobs, b \in BOOLEAN : [id |-> [slug |-> s, n |-> n], active |-> b] \in Of(s)
    BY <1>2 DEF Of, JobRow, JobIds
  <1>5. CASE ServeList(t)
    <2>1. PICK N \in 0 .. MaxJobs : N = server[s].admitted
      BY <1>3
    <2>2. PICK A : A = server[s].active
      OBVIOUS
    <2>3. PICK jobs : jobs = ListUpdateJobs(s)
      OBVIOUS
    <2>4. jobs = [i \in 1 .. N |-> [id |-> [slug |-> s, n |-> N + 1 - i], active |-> N + 1 - i \in A]]
      BY <2>1, <2>2, <2>3 DEF ListUpdateJobs
    <2>5. ASSUME NEW i \in 1 .. N
          PROVE  [id |-> [slug |-> s, n |-> N + 1 - i], active |-> N + 1 - i \in A] \in Of(s)
      <3>1. N + 1 - i \in 1 .. MaxJobs
        BY <1>2
      <3>2. PICK n \in 1 .. MaxJobs : n = N + 1 - i
        BY <3>1
      <3>3. CASE n \in A
        <4>1. (n \in A) = TRUE
          BY <3>3
        <4>2. [id |-> [slug |-> s, n |-> n], active |-> TRUE] \in Of(s)
          BY <1>4
        <4> QED
          BY <3>2, <4>1, <4>2
      <3>4. CASE n \notin A
        <4>1. (n \in A) = FALSE
          BY <3>4
        <4>2. [id |-> [slug |-> s, n |-> n], active |-> FALSE] \in Of(s)
          BY <1>4
        <4> QED
          BY <3>2, <4>1, <4>2
      <3> QED
        BY <3>3, <3>4
    <2>6. jobs \in [1 .. N -> Of(s)]
      BY <2>4, <2>5
    <2>7. jobs \in Seq(Of(s))
      BY <1>2, <2>1, <2>6
    <2>8. /\ task[t].pc \in Waiting \ {"create"} /\ ~ Answered(t) /\ Reply(t, jobs)
          /\ UNCHANGED <<env, server, slug, moved, ui, task>>
      BY <1>1, <1>5, <2>3 DEF ServeList
    <2>9. ServerType'
      BY <1>2, <2>8 DEF ServerType
    <2> QED
      BY <1>1, <2>7, <2>8, <2>9, ReplyPreserves
  <1>6. CASE ServeCreate(t)
    <2>1. /\ task[t].pc = "create" /\ ~ Answered(t) /\ UNCHANGED <<env, slug, moved, ui, task>>
      BY <1>6 DEF ServeCreate
    <2>2. PICK N \in Nat : N = server[s].admitted + 1
      BY <1>2, <1>3
    <2>3. PICK k \in 1 .. MaxJobs :
            /\ Reply(t, <<[id |-> [slug |-> s, n |-> k], active |-> TRUE]>>)
            /\ \/ k = N /\ server' = [server EXCEPT ![s].admitted = k, ![s].active = {k}]
               \/ UNCHANGED server
      <3>1. CASE /\ N <= MaxJobs
                 /\ server' = [server EXCEPT ![s].admitted = N, ![s].active = {N}]
                 /\ Reply(t, <<[id |-> [slug |-> s, n |-> N], active |-> TRUE]>>)
        <4>1. N \in 1 .. MaxJobs
          BY <1>2, <1>3, <2>2, <3>1
        <4> QED
          BY <3>1, <4>1
      <3>2. CASE \E k \in server[s].active :
                   /\ Reply(t, <<[id |-> [slug |-> s, n |-> k], active |-> TRUE]>>)
                   /\ UNCHANGED server
        BY <1>3, <3>2
      <3> QED
        BY <1>1, <1>6, <2>2, <3>1, <3>2 DEF ServeCreate
    <2>4. PICK row : row = [id |-> [slug |-> s, n |-> k], active |-> TRUE]
      OBVIOUS
    <2>5. row \in Of(s)
      BY <1>4, <2>4
    <2>6. PICK jobs : jobs = <<row>>
      OBVIOUS
    <2>7. jobs \in Seq(Of(s)) /\ jobs # << >>
      BY <2>5, <2>6
    <2>8. Reply(t, jobs)
      BY <2>3, <2>4, <2>6
    <2>9. ServerType'
      BY <1>2, <2>3 DEF ServerType
    <2> QED
      BY <1>1, <2>1, <2>7, <2>8, <2>9, ReplyPreserves DEF Waiting
  <1> QED
    BY <1>5, <1>6

(* A job is admitted for somebody else, or ends.                           *)
LEMMA ServerPreserves ==
  ASSUME PagesInv, NEW s \in Slugs, AdmitElsewhere(s) \/ \E n \in server[s].active : End(s, n)
  PROVE  PagesInv'
  <1>1. UNCHANGED <<env, wire, slug, moved, ui, task>>
    BY DEF AdmitElsewhere, End
  <1>2. /\ server[s].admitted \in 0 .. MaxJobs /\ server[s].active \subseteq 1 .. MaxJobs
        /\ ServerType /\ MaxJobs \in Nat
    BY ServerFacts, PagesAssumption DEF PagesInv
  <1>3. ServerType'
    <2>1. CASE AdmitElsewhere(s)
      <3>1. PICK k \in 1 .. MaxJobs : server' = [server EXCEPT ![s].admitted = k, ![s].active = {k}]
        <4>1. PICK k : k = server[s].admitted + 1
          OBVIOUS
        <4>2. k \in 1 .. MaxJobs
          BY <1>2, <2>1, <4>1 DEF AdmitElsewhere
        <4> QED
          BY <1>2, <2>1, <4>1, <4>2 DEF AdmitElsewhere, ServerType
      <3> QED
        <4>1. PICK x : x = [server[s] EXCEPT !.admitted = k, !.active = {k}]
          OBVIOUS
        <4>2. x \in [admitted : 0 .. MaxJobs, active : SUBSET (1 .. MaxJobs)]
          <5>1. k \in 0 .. MaxJobs /\ {k} \in SUBSET (1 .. MaxJobs)
            BY <1>2
          <5>2. server[s] \in [admitted : 0 .. MaxJobs, active : SUBSET (1 .. MaxJobs)]
            BY <1>2, ServerFacts
          <5> QED
            BY <4>1, <5>1, <5>2
        <4>3. server' = [server EXCEPT ![s] = x]
          BY <1>2, <3>1, <4>1 DEF ServerType
        <4> QED
          BY <1>2, <4>2, <4>3 DEF ServerType
    <2>2. CASE \E n \in server[s].active : End(s, n)
      BY <1>2, <2>2 DEF End, ServerType
    <2> QED
      BY <2>1, <2>2
  <1>4. Page(ui, task, slug)'
    BY <1>1 DEF PagesInv, Page, Generations, Support
  <1>5. WireInv'
    BY <1>1 DEF PagesInv, WireInv
  <1> QED
    BY <1>1, <1>3, <1>4, <1>5 DEF PagesInv

-----------------------------------------------------------------------------
(* The theorems.                                                           *)

LEMMA InitPages ==
  ASSUME Init
  PROVE  PagesInv
  <1>1. env \in Envs /\ env.moves \in Nat
    BY EnvFacts DEF Init
  <1>2. slug = Home /\ slug \in Slugs /\ moved = 0 /\ wire = << >>
    BY PagesAssumption DEF Init
  <1>3. ServerType
    <2>1. \A s \in Slugs : server[s] \in {NoJobs, OneJob}
      BY DEF Init
    <2>2. NoJobs \in [admitted : 0 .. MaxJobs, active : SUBSET (1 .. MaxJobs)]
      BY PagesAssumption DEF NoJobs
    <2>3. OneJob \in [admitted : 0 .. MaxJobs, active : SUBSET (1 .. MaxJobs)]
      BY PagesAssumption DEF OneJob
    <2>4. server \in [Slugs -> {NoJobs, OneJob}]
      BY DEF Init
    <2> QED
      BY <2>2, <2>3, <2>4 DEF ServerType
  <1>4. PICK e : e = << >>
    OBVIOUS
  <1>5. e \in Jobs /\ \A s : e \in Seq(Of(s))
    BY <1>4 DEF Jobs
  <1>6. PICK b \in BOOLEAN : b = (env.page = "detail")
    OBVIOUS
  <1>7. ui = [jobs |-> e, polling |-> FALSE, loading |-> b, creating |-> FALSE, error |-> FALSE,
              controller |-> None, generation |-> 1, loaded |-> b]
    BY <1>4, <1>6 DEF Init
  <1>8. /\ ui \in UiRecord /\ ui.jobs = e /\ ui.polling = FALSE /\ ui.controller = None
        /\ ui.generation = 1
    BY <1>5, <1>7 DEF UiRecord
  <1>9. PICK r : r = [NoTask EXCEPT !.pc = "load", !.others = b]
    OBVIOUS
  <1>10. /\ r \in TaskRecord /\ r.pc = "load" /\ r.at = Home /\ r.generation = 1
    BY <1>9, NoTaskFacts DEF TaskRecord, PCs, Waiting
  <1>11. 1 \in Tasks /\ None \notin Tasks
    BY PagesAssumption DEF Tasks, None
  <1>12. /\ task \in [Tasks -> TaskRecord]
         /\ task[1] = r /\ \A t \in Tasks \ {1} : task[t] = NoTask
    <2>1. PICK z : z = [t \in Tasks |-> NoTask]
      OBVIOUS
    <2>2. z \in [Tasks -> TaskRecord] /\ \A t \in Tasks : z[t] = NoTask
      BY <2>1, NoTaskFacts
    <2>3. task = [z EXCEPT ![1] = r]
      BY <1>6, <1>9, <2>1 DEF Init
    <2> QED
      BY <1>10, <1>11, <2>2, <2>3
  <1>13. \A t \in Tasks : /\ ~ LiveRecord(task[t]) /\ task[t].at = Home
                          /\ task[t].generation = 1
    BY <1>10, <1>12, NoTaskFacts DEF LiveRecord
  <1>14. Generations(ui, task, slug)
    BY <1>2, <1>8, <1>13 DEF Generations
  <1>15. Page(ui, task, slug)
    BY <1>5, <1>8, <1>11, <1>12, <1>13, <1>14 DEF Page, Shape
  <1>16. WireInv
    <2>1. wire \in Seq(Answers) /\ DOMAIN wire = {}
      BY <1>2
    <2> QED
      BY <2>1 DEF WireInv
  <1> QED
    BY <1>1, <1>2, <1>3, <1>15, <1>16 DEF PagesInv

(* The inductive invariant holds in every reachable state.                 *)
THEOREM PagesInvariant == Spec => []PagesInv
  <1>1. Init => PagesInv
    BY InitPages
  <1>2. PagesInv /\ [Next]_vars => PagesInv'
    <2> SUFFICES ASSUME PagesInv, [Next]_vars PROVE PagesInv'
      OBVIOUS
    <2>1. ASSUME NEW t \in Tasks, Click(t) PROVE PagesInv'
      BY <2>1, DetailRefreshes, SupportRefreshes, PlainClicks, PageStepPreserves DEF Click
    <2>2. ASSUME NEW t \in Tasks, TaskStep(t) PROVE PagesInv'
      <3>1. CASE ServeList(t) \/ ServeCreate(t)
        BY <3>1, ServesPreserve
      <3>2. CASE OthersLoaded(t) \/ WakeUp(t)
        BY <3>2, OthersArrive, PollWakes, PageStepPreserves
      <3>3. CASE Answer(t)
        <4>1. PICK i \in DOMAIN wire :
                \/ LoadedDetail(t, wire[i].jobs) \/ LoadedSupport(t, wire[i].jobs)
                \/ ListedSupport(t, wire[i].jobs)
                \/ Created(t, wire[i].jobs) \/ Polled(t, wire[i].jobs)
          BY <3>3 DEF Answer
        <4>2. PICK jobs : jobs = wire[i].jobs
          OBVIOUS
        <4>3. CASE LoadedDetail(t, jobs)
          BY <4>3, DetailAnswers, PageStepPreserves
        <4>4. CASE LoadedSupport(t, jobs) \/ ListedSupport(t, jobs)
          BY <4>4, SupportAnswers, PageStepPreserves
        <4>5. CASE Created(t, jobs)
          BY <4>5, CreateAnswered, PageStepPreserves
        <4>6. CASE Polled(t, jobs)
          BY <4>6, PollAnswered, PageStepPreserves
        <4> QED
          BY <4>1, <4>2, <4>3, <4>4, <4>5, <4>6
      <3>4. CASE Fails(t)
        BY <3>4, DetailAnswers, SupportAnswers, PollFailed, PageStepPreserves DEF Fails
      <3> QED
        BY <2>2, <3>1, <3>2, <3>3, <3>4 DEF TaskStep
    <2>3. ASSUME NEW t \in Tasks, NEW s \in Slugs, Move(t, s) PROVE PagesInv'
      BY <2>3, MovePreserves
    <2>4. ASSUME NEW s \in Slugs, AdmitElsewhere(s) \/ \E n \in server[s].active : End(s, n)
          PROVE  PagesInv'
      BY <2>4, ServerPreserves
    <2>5. CASE UNCHANGED vars
      <3>1. Page(ui, task, slug)'
        BY <2>5 DEF PagesInv, Page, Generations, Support, vars
      <3>2. WireInv' /\ ServerType'
        BY <2>5 DEF PagesInv, WireInv, ServerType, vars
      <3> QED
        BY <2>5, <3>1, <3>2 DEF PagesInv, vars
    <2> QED
      BY <2>1, <2>2, <2>3, <2>4, <2>5 DEF Next
  <1> QED
    BY <1>1, <1>2, PTL DEF Spec

(* Every answer under way is for a task that waits for it, and everything  *)
(* the pages hold has its type, whatever arrives when.                     *)
THEOREM PagesTypes == Spec => []TypeOK
  <1>1. PagesInv => TypeOK
    BY DEF PagesInv, Page, Shape, UiRecord, TaskRecord, PCs, WireInv, Answers, ServerType, TypeOK
  <1> QED
    BY <1>1, PagesInvariant, PTL

(* A page has at most one poll that has not been aborted, the one its      *)
(* controller can abort (updatesPollController), and while updatesPolling  *)
(* is set there is one: on both pages, however many refreshes, updates and *)
(* moves overlap and in whatever order requests are answered or fail.      *)
THEOREM AtMostOnePoll == Spec => []OnePoll
  <1>1. PagesInv => OnePoll
    BY DEF PagesInv, Page, LiveRecord, Live, OnePoll
  <1> QED
    BY <1>1, PagesInvariant, PTL

(* The operator's page shows and polls the jobs of the instance it is      *)
(* about only, however late the answers about another arrive: the          *)
(* generation of loadAll and the slug comparisons after each await are     *)
(* enough.                                                                 *)
THEOREM SupportIsolatesInstances == Spec => []SupportShowsItsInstance
  <1>1. PagesInv => SupportShowsItsInstance
    <2> SUFFICES ASSUME PagesInv, Support PROVE ShowsItsInstance
      BY DEF SupportShowsItsInstance
    <2>1. ui.jobs \in Seq(Of(slug))
      BY DEF PagesInv, Page
    <2>2. \A i \in DOMAIN ui.jobs : ui.jobs[i] \in Of(slug)
      BY <2>1
    <2>3. \A i \in DOMAIN ui.jobs : ui.jobs[i].id.slug = slug
      BY <2>2 DEF Of
    <2>4. \A t \in Tasks : Live(t) => task[t].at = slug
      BY DEF PagesInv, Page, LiveRecord, Live
    <2> QED
      BY <2>3, <2>4 DEF ShowsItsInstance
  <1> QED
    BY <1>1, PagesInvariant, PTL

=============================================================================
