---------------------------- MODULE UpdatePages ----------------------------
(***************************************************************************)
(* The update section of the two pages that show a managed instance: the   *)
(* portal's InstanceDetail.svelte ("detail") and the operator's            *)
(* InstanceSupport.svelte ("support"), with pollUntil of polling.ts.       *)
(*                                                                         *)
(* A page runs one piece of JavaScript at a time, up to the next await, so *)
(* an action is what happens between two awaits.  Each click, and the      *)
(* opening of the page, starts a task, which goes on as the poll or the    *)
(* reload it leads to.  Several tasks may wait for answers.  A request is  *)
(* never cancelled: pollUntil looks at its AbortSignal only before a       *)
(* request and while it sleeps.                                            *)
(*                                                                         *)
(* env says under which conditions a behaviour runs: which page it is,     *)
(* whether answers arrive in the order the server gave them, whether       *)
(* others start updates too, and how much the user does.                   *)
(*                                                                         *)
(* Both pages stay mounted when the user moves to another instance: only   *)
(* the slug changes.  The server is what UpdateSlot promises, per          *)
(* instance; lists are current when they are served.  Left out: a session  *)
(* that expires, which leaves the page, and on the detail page the rest of *)
(* what it loads (others stands for it) and loads again after a poll.      *)
(***************************************************************************)
EXTENDS Integers, Sequences, SequencesExt

CONSTANTS
  Slugs,     \* the instances the user may look at
  Home,      \* the instance the page is opened on
  MaxTasks,  \* bound: the tasks a page starts, its opening the first
  MaxJobs,   \* bound: update jobs of an instance
  Envs       \* the conditions that are tried, with bounds on tasks and moves

Env == [page : {"detail", "support"}, ordered : BOOLEAN, shared : BOOLEAN,
        tasks : 1 .. MaxTasks, moves : Nat]

ASSUME PagesAssumption ==
  /\ Home \in Slugs /\ Envs \subseteq Env
  /\ MaxTasks \in Nat \ {0} /\ MaxJobs \in Nat \ {0}

VARIABLES
  env,      \* the conditions of this behaviour
  server,   \* per instance: the jobs admitted and those that are active
  wire,     \* the answers under way, in the order the server gave them
  slug,     \* the instance the page is about
  moved,    \* how often the user has moved
  ui,       \* what the page shows and remembers
  task      \* per task: where it waits, and for what

vars == <<env, server, wire, slug, moved, ui, task>>

Tasks == 1 .. MaxTasks
None == 0

JobIds == [slug : Slugs, n : 1 .. MaxJobs]
NoJob == [slug |-> Home, n |-> 0]

(* A task before it starts; one that is over is as good as new but for pc. *)
NoTask == [pc |-> "idle", at |-> Home, job |-> NoJob, aborted |-> FALSE,
           generation |-> 1, others |-> FALSE]

Detail == env.page = "detail"
Support == env.page = "support"

(* GET .../updates lists the newest job first.                             *)
ListUpdateJobs(s) ==
  [i \in 1 .. server[s].admitted |->
     LET n == server[s].admitted + 1 - i
     IN  [id |-> [slug |-> s, n |-> n], active |-> n \in server[s].active]]

MutUnlistedIsDone(jobs, j) == \A i \in DOMAIN jobs : jobs[i].id # j

(* isUpdateTerminal, of the job with this id.                              *)
isUpdateTerminal(jobs, j) == \E i \in DOMAIN jobs : jobs[i] = [id |-> j, active |-> FALSE]

(* filter, on an array: what is at these positions stays.                  *)
Filter(jobs, kept) ==
  LET F[i \in 0 .. Len(jobs)] ==
        IF i = 0 THEN << >>
        ELSE IF i \in kept THEN Append(F[i - 1], jobs[i]) ELSE F[i - 1]
  IN  F[Len(jobs)]

activeUpdateJobs(jobs) == Filter(jobs, {i \in DOMAIN jobs : jobs[i].active})

(* The other jobs.                                                         *)
Without(jobs, j) == Filter(jobs, {i \in DOMAIN jobs : jobs[i].id # j})

updateInProgress == activeUpdateJobs(ui.jobs) # << >>

(* The job the answer is about goes to the front.                          *)
InFront(jobs, j) == Filter(jobs, {i \in DOMAIN jobs : jobs[i].id = j}) \o Without(jobs, j)

(* An instance the user never moves to makes no difference.                *)
Matters(s) == s = Home \/ env.moves > 0

NoJobs == [admitted |-> 0, active |-> {}]
OneJob == [admitted |-> 1, active |-> {1}]

Init ==
  /\ env \in Envs
  /\ server \in [Slugs -> {NoJobs, OneJob}]
  /\ \A s \in Slugs : ~Matters(s) => server[s] = NoJobs
  /\ wire = << >>
  /\ slug = Home /\ moved = 0
  /\ ui = [jobs |-> << >>, polling |-> FALSE, loading |-> env.page = "detail", creating |-> FALSE,
           error |-> FALSE, controller |-> None, generation |-> 1, loaded |-> env.page = "detail"]
  /\ task = [[t \in Tasks |-> NoTask] EXCEPT
                 ![1] = [NoTask EXCEPT !.pc = "load", !.others = env.page = "detail"]]

----------------------------------------------------------------------------
(* The server, and the network.                                            *)

Waiting == {"load", "list", "create", "poll"}

Answered(t) == \E i \in DOMAIN wire : wire[i].to = t

(* A job is admitted for somebody else, or ends.                           *)
AdmitElsewhere(s) ==
  /\ env.shared /\ Matters(s) /\ server[s].active = {} /\ server[s].admitted < MaxJobs
  /\ server' = [server EXCEPT ![s].admitted = @ + 1, ![s].active = {server[s].admitted + 1}]
  /\ UNCHANGED <<env, wire, slug, moved, ui, task>>

End(s, n) ==
  /\ n \in server[s].active
  /\ server' = [server EXCEPT ![s].active = @ \ {n}]
  /\ UNCHANGED <<env, wire, slug, moved, ui, task>>

Reply(t, jobs) == wire' = Append(wire, [to |-> t, jobs |-> jobs])

ServeList(t) ==
  /\ task[t].pc \in Waiting \ {"create"} /\ ~Answered(t)
  /\ Reply(t, ListUpdateJobs(task[t].at))
  /\ UNCHANGED <<env, server, slug, moved, ui, task>>

(* The answer to a create is the job, new or already active.               *)
ServeCreate(t) ==
  LET s == task[t].at
      n == server[s].admitted + 1
      Active(k) == <<[id |-> [slug |-> s, n |-> k], active |-> TRUE]>>
  IN
  /\ task[t].pc = "create" /\ ~Answered(t)
  /\ \/ /\ server[s].active = {} /\ n <= MaxJobs
        /\ server' = [server EXCEPT ![s].admitted = n, ![s].active = {n}]
        /\ Reply(t, Active(n))
     \/ \E k \in server[s].active : Reply(t, Active(k)) /\ UNCHANGED server
  /\ UNCHANGED <<env, slug, moved, ui, task>>

(* The task gets its answer: any one that is under way, or the first.      *)
Receives(t, jobs) ==
  \E i \in DOMAIN wire :
    /\ wire[i].to = t /\ wire[i].jobs = jobs
    /\ env.ordered => i = 1
    /\ wire' = RemoveAt(wire, i)

(* Or the request fails, whether the server has answered or not.           *)
RequestFails(t) ==
  /\ task[t].pc \in Waiting
  /\ \/ ~Answered(t) /\ UNCHANGED wire
     \/ \E i \in DOMAIN wire : wire[i].to = t /\ wire' = RemoveAt(wire, i)

----------------------------------------------------------------------------
(* What both pages do within a step.  u is the page and ts the tasks as    *)
(* the step has left them so far.                                          *)

Stopped(ts, t) == [ts EXCEPT ![t] = [NoTask EXCEPT !.pc = "done"]]

(* Tasks are numbered in the order they start.                             *)
Starts(t) == t <= env.tasks /\ task[t].pc = "idle" /\ \A r \in 1 .. t - 1 : task[r].pc # "idle"

(* abortUpdatesPolling, on the tasks: a sleeping poll ends at once, one    *)
(* that waits for an answer will find its signal aborted.                  *)
Aborted(u, ts) ==
  IF u.controller = None THEN ts
  ELSE IF ts[u.controller].pc = "sleep" THEN Stopped(ts, u.controller)
  ELSE [ts EXCEPT ![u.controller].aborted = TRUE]

abortUpdatesPolling(u) == [u EXCEPT !.controller = None, !.polling = FALSE]

(* The finally clause of pollUpdateJob; the support page leaves the flag   *)
(* alone when it has moved on.                                             *)
PollEnded(u, t) ==
  [u EXCEPT !.polling = IF Detail \/ slug = task[t].at THEN FALSE ELSE @,
            !.controller = IF @ = t THEN None ELSE @]

MutPollWithoutAbort(t, j, u, ts) ==
  /\ ui' = [u EXCEPT !.polling = TRUE, !.controller = t]
  /\ task' = [ts EXCEPT ![t].pc = "poll", ![t].job = j, ![t].aborted = FALSE]

(* pollUpdateJob: the poll that runs is aborted; its finally clause comes  *)
(* after the new poll has set the flag if it was asleep, and clears it.    *)
pollUpdateJob(t, j, u, ts) ==
  LET asleep == u.controller # None /\ ts[u.controller].pc = "sleep" IN
  IF isUpdateTerminal(u.jobs, j)
  THEN /\ ui' = abortUpdatesPolling(u)
       /\ task' = Stopped(Aborted(u, ts), t)
  ELSE /\ ui' = [u EXCEPT !.polling = ~asleep, !.controller = t]
       /\ task' = [Aborted(u, ts) EXCEPT ![t].pc = "poll", ![t].job = j, ![t].aborted = FALSE]

MutLoadsWithoutPoll(t, u, ts) == ui' = u /\ task' = Stopped(ts, t)

(* What the detail page does when everything refreshAll waits for has      *)
(* arrived: it polls the first active job.                                 *)
AfterLoads(t, u, ts) ==
  LET active == activeUpdateJobs(u.jobs) IN
  IF active = << >> THEN ui' = u /\ task' = Stopped(ts, t)
  ELSE pollUpdateJob(t, active[1].id, u, [ts EXCEPT ![t].at = slug])

(* The start of loadAll, on the support page.                              *)
Reloading(u) ==
  [u EXCEPT !.jobs = << >>, !.error = FALSE, !.loaded = FALSE, !.generation = @ + 1]

Reload(t, s, u, ts) ==
  /\ ui' = Reloading(u)
  /\ task' = [ts EXCEPT ![t].pc = "load", ![t].at = s, ![t].generation = u.generation + 1]

----------------------------------------------------------------------------
(* The user.                                                               *)

(* refreshAll; its button waits for everything but the list of updates.    *)
RefreshDetail(t) ==
  LET aborted == Aborted(ui, task) IN
  /\ Detail /\ Starts(t)
  /\ \A r \in Tasks : ~task[r].others
  /\ ui' = [abortUpdatesPolling(ui) EXCEPT !.jobs = << >>, !.loading = TRUE, !.error = FALSE]
  /\ task' = [aborted EXCEPT ![t].pc = "load", ![t].at = slug, ![t].others = TRUE]
  /\ UNCHANGED <<env, server, wire, slug, moved>>

(* loadAll again, which leaves the poll alone.                             *)
RefreshSupport(t) ==
  /\ Support /\ Starts(t)
  /\ \A r \in Tasks : task[r].pc = "load" => task[r].generation # ui.generation
  /\ Reload(t, slug, ui, task)
  /\ UNCHANGED <<env, server, wire, slug, moved>>

(* The support page's loadUpdates.                                         *)
RefreshUpdates(t) ==
  /\ Support /\ Starts(t) /\ ui.loaded /\ ~ui.loading
  /\ ui' = [ui EXCEPT !.error = FALSE, !.loading = TRUE]
  /\ task' = [task EXCEPT ![t].pc = "list", ![t].at = slug]
  /\ UNCHANGED <<env, server, wire, slug, moved>>

(* The update buttons.  On the detail page they also wait for the          *)
(* instance, which is not modelled there.                                  *)
StartEnabled ==
  ui.loaded /\ ~ui.creating /\ ~ui.polling /\ ~ui.loading /\ ~updateInProgress

startUpdateJob(t) ==
  /\ Starts(t) /\ StartEnabled
  /\ ui' = [ui EXCEPT !.error = FALSE, !.creating = TRUE]
  /\ task' = [task EXCEPT ![t].pc = "create", ![t].at = slug]
  /\ UNCHANGED <<env, server, wire, slug, moved>>

(* The user follows a link to another instance.  The detail page does      *)
(* nothing; the support page aborts its poll and loads the new instance.   *)
Move(t, s) ==
  /\ moved < env.moves /\ s # slug
  /\ slug' = s /\ moved' = moved + 1
  /\ \/ Detail /\ UNCHANGED <<ui, task>>
     \/ /\ Support /\ Starts(t)
        /\ Reload(t, s, abortUpdatesPolling(ui), Aborted(ui, task))
  /\ UNCHANGED <<env, server, wire>>

----------------------------------------------------------------------------
(* Answers.                                                                *)

(* refreshAll: the other loads are there.                                  *)
OthersLoaded(t) ==
  LET rest == [task EXCEPT ![t].others = FALSE] IN
  /\ task[t].others
  /\ IF task[t].pc = "others" THEN AfterLoads(t, ui, rest)
     ELSE ui' = ui /\ task' = rest
  /\ UNCHANGED <<env, server, wire, slug, moved>>

(* loadUpdates of the detail page, and what follows if it came last.       *)
ListLoaded(t, u) ==
  IF task[t].others THEN ui' = u /\ task' = [task EXCEPT ![t].pc = "others"]
  ELSE AfterLoads(t, u, task)

LoadedDetail(t, jobs) ==
  /\ Detail /\ task[t].pc = "load" /\ Receives(t, jobs)
  /\ ListLoaded(t, [ui EXCEPT !.jobs = jobs, !.loading = FALSE])
  /\ UNCHANGED <<env, server, slug, moved>>

LoadFailsDetail(t) ==
  /\ Detail /\ task[t].pc = "load" /\ RequestFails(t)
  /\ ListLoaded(t, [ui EXCEPT !.error = TRUE, !.loading = FALSE])
  /\ UNCHANGED <<env, server, slug, moved>>

MutLoadedSupportAnyGeneration(t, jobs) ==
  /\ Support /\ task[t].pc = "load" /\ Receives(t, jobs)
  /\ ui' = [ui EXCEPT !.jobs = jobs, !.loaded = TRUE]
  /\ task' = Stopped(task, t)
  /\ UNCHANGED <<env, server, slug, moved>>

(* loadAll: only the newest generation is shown.                           *)
LoadedSupport(t, jobs) ==
  /\ Support /\ task[t].pc = "load" /\ Receives(t, jobs)
  /\ ui' = IF task[t].generation = ui.generation
           THEN [ui EXCEPT !.jobs = jobs, !.loaded = TRUE] ELSE ui
  /\ task' = Stopped(task, t)
  /\ UNCHANGED <<env, server, slug, moved>>

LoadFailsSupport(t) ==
  /\ Support /\ task[t].pc = "load" /\ RequestFails(t)
  /\ task' = Stopped(task, t)
  /\ UNCHANGED <<env, server, slug, moved, ui>>

ListedSupport(t, jobs) ==
  /\ task[t].pc = "list" /\ Receives(t, jobs)
  /\ ui' = IF slug = task[t].at THEN [ui EXCEPT !.jobs = jobs, !.loading = FALSE] ELSE ui
  /\ task' = Stopped(task, t)
  /\ UNCHANGED <<env, server, slug, moved>>

ListFailsSupport(t) ==
  /\ task[t].pc = "list" /\ RequestFails(t)
  /\ ui' = IF slug = task[t].at THEN [ui EXCEPT !.error = TRUE, !.loading = FALSE] ELSE ui
  /\ task' = Stopped(task, t)
  /\ UNCHANGED <<env, server, slug, moved>>

(* The job goes in front, and is polled.  The detail page polls the        *)
(* instance it is about by now.                                            *)
Created(t, jobs) ==
  LET job == jobs[1]
      u == [ui EXCEPT !.creating = FALSE,
                      !.jobs = <<job>> \o Without(@, job.id)]
  IN
  /\ task[t].pc = "create" /\ Receives(t, jobs)
  /\ IF Detail \/ slug = task[t].at
     THEN pollUpdateJob(t, job.id, u, [task EXCEPT ![t].at = slug])
     ELSE ui' = ui /\ task' = Stopped(task, t)
  /\ UNCHANGED <<env, server, slug, moved>>

CreateFails(t) ==
  /\ task[t].pc = "create" /\ RequestFails(t)
  /\ ui' = IF Detail \/ slug = task[t].at
           THEN [ui EXCEPT !.error = TRUE, !.creating = FALSE] ELSE ui
  /\ task' = Stopped(task, t)
  /\ UNCHANGED <<env, server, slug, moved>>

(* A poll's answer is shown, also by a poll that has been aborted, which   *)
(* then ends.  A poll of a job that has ended stops, and the support page  *)
(* loads everything again.                                                 *)
Polled(t, jobs) ==
  LET j == task[t].job
      here == Detail \/ slug = task[t].at
      u == IF here THEN [ui EXCEPT !.jobs = InFront(jobs, j)] ELSE ui
  IN
  /\ task[t].pc = "poll" /\ Receives(t, jobs)
  /\ \/ /\ here /\ isUpdateTerminal(jobs, j) /\ Detail
        /\ ui' = PollEnded(u, t) /\ task' = Stopped(task, t)
     \/ /\ here /\ isUpdateTerminal(jobs, j) /\ Support
        /\ Reload(t, task[t].at, PollEnded(u, t), task)
     \/ /\ ~(here /\ isUpdateTerminal(jobs, j)) /\ task[t].aborted
        /\ ui' = PollEnded(u, t) /\ task' = Stopped(task, t)
     \/ /\ ~(here /\ isUpdateTerminal(jobs, j)) /\ ~task[t].aborted
        /\ ui' = u /\ task' = [task EXCEPT ![t].pc = "sleep"]
  /\ UNCHANGED <<env, server, slug, moved>>

(* Any failed request ends the poll.                                       *)
PollFails(t) ==
  /\ task[t].pc = "poll" /\ RequestFails(t)
  /\ ui' = [PollEnded(ui, t) EXCEPT !.error = @ \/ Detail \/ slug = task[t].at]
  /\ task' = Stopped(task, t)
  /\ UNCHANGED <<env, server, slug, moved>>

(* The backoff is over: the next request.                                  *)
WakeUp(t) ==
  /\ task[t].pc = "sleep"
  /\ task' = [task EXCEPT ![t].pc = "poll", ![t].at = IF Detail THEN slug ELSE @]
  /\ UNCHANGED <<env, server, wire, slug, moved, ui>>

----------------------------------------------------------------------------
Fails(t) ==
  \/ LoadFailsDetail(t) \/ LoadFailsSupport(t) \/ ListFailsSupport(t)
  \/ CreateFails(t) \/ PollFails(t)

Answer(t) ==
  \E i \in DOMAIN wire :
    LET jobs == wire[i].jobs IN
    \/ LoadedDetail(t, jobs) \/ LoadedSupport(t, jobs) \/ ListedSupport(t, jobs)
    \/ Created(t, jobs) \/ Polled(t, jobs)

Click(t) == RefreshDetail(t) \/ RefreshSupport(t) \/ RefreshUpdates(t) \/ startUpdateJob(t)

TaskStep(t) ==
  ServeList(t) \/ ServeCreate(t) \/ OthersLoaded(t) \/ Answer(t) \/ Fails(t) \/ WakeUp(t)

Next ==
  \/ \E t \in Tasks : Click(t) \/ TaskStep(t)
  \/ \E t \in Tasks, s \in Slugs : Move(t, s)
  \/ \E s \in Slugs : AdmitElsewhere(s)
  \/ \E s \in Slugs : \E n \in server[s].active : End(s, n)

Spec == Init /\ [][Next]_vars

(* A request is answered or fails, an answer arrives, a timer goes off: a  *)
(* task that can go on does.  A job ends (EventuallySettled of UpdateJobs). *)
Fairness ==
  /\ \A t \in Tasks : WF_vars(TaskStep(t))
  /\ \A s \in Slugs : WF_vars(\E n \in server[s].active : End(s, n))

FairSpec == Spec /\ Fairness

----------------------------------------------------------------------------
(* Properties.                                                             *)

JobRow == [id : JobIds, active : BOOLEAN]
Jobs == Seq(JobRow)

(* Every answer under way is for a task that waits for it.                 *)
TypeOK ==
  /\ env \in Envs
  /\ server \in [Slugs -> [admitted : 0 .. MaxJobs, active : SUBSET (1 .. MaxJobs)]]
  /\ wire \in Seq([to : Tasks, jobs : Jobs])
  /\ slug \in Slugs /\ moved \in 0 .. env.moves
  /\ ui \in [jobs : Jobs, polling : BOOLEAN, loading : BOOLEAN, creating : BOOLEAN,
             error : BOOLEAN, controller : Tasks \cup {None}, generation : Nat, loaded : BOOLEAN]
  /\ task \in [Tasks -> [pc : Waiting \cup {"idle", "others", "sleep", "done"}, at : Slugs,
                         job : JobIds \cup {NoJob}, aborted : BOOLEAN, generation : Nat,
                         others : BOOLEAN]]
  /\ \A i \in DOMAIN wire : task[wire[i].to].pc \in Waiting

Live(t) == task[t].pc \in {"poll", "sleep"} /\ ~task[t].aborted

(* A page has at most one poll that has not been aborted, and it is the    *)
(* one its controller can abort; while it says it polls, there is one.     *)
OnePoll ==
  /\ \A t \in Tasks : Live(t) <=> ui.controller = t
  /\ ui.polling => ui.controller # None

(* The support page shows and polls the jobs of its own instance only,     *)
(* whatever arrives after the operator has moved on ("Multi-tenant         *)
(* isolation: scoped per slug").                                           *)
ShowsItsInstance ==
  /\ \A i \in DOMAIN ui.jobs : ui.jobs[i].id.slug = slug
  /\ \A t \in Tasks : Live(t) => task[t].at = slug

SupportShowsItsInstance == Support => ShowsItsInstance

(* The conditions under which the detail page keeps up with the server.    *)
Undisturbed == Detail /\ env.ordered /\ ~env.shared /\ env.moves = 0

(* A poll does not go on for ever (pollUpdateJob stops on terminal         *)
(* states) unless the detail page has moved to another instance.           *)
PollStops == Support \/ env.moves = 0 => []<>(ui.controller = None)

(* The update buttons are enabled, or an error is shown.                   *)
Settled == ui.error \/ ~(ui.creating \/ ui.polling \/ ui.loading \/ updateInProgress)

(* Nobody else starts updates, the user stays on one instance and answers  *)
(* keep their order: then whatever requests fail, the detail page finds    *)
(* out that an update has ended and gives the buttons back, or shows an    *)
(* error.                                                                  *)
ButtonsComeBack == Undisturbed => []<>Settled

(* The same on every page, whatever others and the network do ("no stuck   *)
(* spinners"); it does not hold.                                           *)
NoStuckSpinner == []<>Settled
=============================================================================
