# Formal verification of lesser-host

TLA+ models of the parts of lesser-host that hold money, identity and
deployment state, TLC configurations that check them on small instances, and
TLAPS proofs for every instance. Paths below are relative to the repository
root. `PROJECT.json` maps every definition to the source lines it stands for.

To check: `tlc -workers 2 -config <cfg> <MC module>`, `tlapm <Proofs module>`.

## 1. The system and its parts

lesser-host runs hosted Lesser instances. Its Go services run as Lambda
functions over one DynamoDB table, joined by SQS queues and EventBridge
schedules; its contracts run on an EVM chain; Stripe, CodeBuild and the
communication providers are outside.

| Part | State | Operations | Interacts with | What is hard |
|---|---|---|---|---|
| TipSplitter (`contracts/contracts/TipSplitter.sol`) | pull-payment ledgers, host registry, token allowlist, limits, pauses | tip in ETH or token, to a host's actor or to an agent, single or batch; withdraw; owner calls; sweep | SoulRegistry or another ERC-8004 registry for an agent's wallet; receivers of ETH | control handed to receivers, hand-kept counts and indices, rounding, order of owner calls |
| SoulRegistry (`contracts/contracts/SoulRegistry.sol`) | ERC-721 holders, agent wallets, nonces, permits, fees | three mint routes, transfers, approvals, rotations, burn, fees, pause | TipSplitter; the control plane prepares its transactions | inherited entry points, claim-window edge, replay of signed messages |
| Update worker (`internal/provisionworker/update_jobs*.go`) | UpdateJob row, lease, instance marker | load, lease, one handler per step, release; sweep | CodeBuild, S3 receipts, the instance's endpoints | overlapping invocations, crashes between a side effect and its record, retries, deadlines |
| Credits (`internal/trust`, `internal/ai`, `internal/billing`, `internal/controlplane`) | InstanceBudgetMonth, ledger entries, dedup rows, CreditPurchase | debits of four kinds, budget sets, checkout, webhook | Stripe, voice and SMS providers | stale reads, duplicate and lost deliveries, month boundary, failures in a webhook |
| Update admission (`internal/controlplane/handlers_portal_updates.go`, `handlers_operator_remediate_mcp.go`) | UpdateJob rows, instance markers (one common, one per kind) | create or return the active update, list, repair a stale marker, remediate | update worker, the two pages | lagging indexes, reads one after the other, a path without the marker |
| Update pages (`web/src/pages/portal/InstanceDetail.svelte`, `web/src/pages/operator/InstanceSupport.svelte`, `web/src/lib/polling.ts`) | the list shown, the poll's controller, flags that disable buttons | open, refresh, start an update, poll, move to another instance | update admission | late and reordered answers, a poll superseded while it waits, a page that outlives its instance |
| Provisioning worker (`internal/provisionworker/server.go`, `advance_body_mcp.go`) | ProvisionJob row, ten-second lease, instance status | steps from account creation to MCP wiring; sweep; operator's retry and adoption | AWS Organizations, CodeBuild | lease shorter than an invocation, row loaded before the lease and written back whole, retries that resume from what was recorded |
| Hosted genesis (`internal/hostedgenesis`, `internal/store/hosted_genesis_sessions.go`) | versioned session row, microVM executions | begin, turn, dispatch, fail, repair, complete | AI worker, microVM controller | version races, redelivered turns |
| Soul operations (`internal/controlplane/handlers_soul_*.go`) | identity, operation and receipt rows | prepare, record execution, rotate, suspend, recover | SoulRegistry | rows that follow a chain |
| AI worker, communication worker, trust API, render and reputation workers | result, mailbox and artifact rows | queue consumers | providers, S3 | redelivery |
| Portal, operator console, authentication, domains | single rows | create, read, update, delete | | |
| Web application, CDK stack, scripts | none | | | |

`PROJECT.json` lists every component with its status and, for those left out,
the reason; its "hazards" list names each hard behaviour at its line.

## 2. Modules and how they correspond to the code

Each component has a specification (`X.tla`), its instances for TLC
(`MCX.tla`, `MCX_*.cfg`) and its proofs (`XProofs.tla`). The operators named
`Mut...` are deliberately wrong variants of the definition that follows them;
no specification uses them. They show that each property notices a plausible
mistake in the code.

**TipSplitter.** A transaction is one action, and a revert a false guard.
Where the contract sends ETH (`withdraw`, `sweepStray`) it hands control
to the receiver: `lock = "call"` keeps the transaction open until
`CallReturns`, and the owner functions that carry no `nonReentrant` may run
nested in it. A batch is a loop with one step per item (`lock = "loop"`), so
that an invariant sees its intermediate states. ETH and tokens share one
ledger indexed by asset, with `address(0)` for ETH, as the contract does for
its limits. The split keeps the contract's integer division. The identity
registry is external: it answers with any wallet or with none, in which case
the tip reverts. Donations (forced ETH,
direct token transfers) raise the balance only. Left out: events, content
hashes, the uint256 range (checked arithmetic reverts).

**SoulRegistry.** The contract together with the ERC-721 functions it inherits:
approvals and transfers reach the token through `_update`, where the pause and
the claim window are enforced. `sigs` holds every rotation signature that
exists; a signature never disappears, so replays are always tried. `executed`
is a history of performed rotations. Left out: metadata, avatars, renderers.

**UpdateJobs.** One UpdateJob row and any number of invocations. Each
invocation is load, conditional lease write, handlers on the in-memory copy
with a conditional write of the whole row each, release. `pc` says where an
invocation is, `mem`/`memAt` are its copy and the version it carries. The
side effect of StartBuild and the write that records it are separate actions
with a possible crash, a store error or a lost reply in between. CodeBuild
honours an idempotency token for `TokenTTL` only. UpdatedAt is a time and an
identity: all the writes of one invocation store one instant. The three
kinds of job (full, body, MCP) share their steps; only the full kind verifies.
Message delivery and the sweep come to the same thing: an idle worker may load
an active job at any time. The worker's release preflight, receipt parsing and
endpoint probes are nondeterministic outcomes.

**UpdateSlot** and **UpdateAdmission.** UpdateSlot is the promise: at most one
update of an instance is active, and jobs are admitted and end one by one.
UpdateAdmission is the code: the portal's create and list handlers and the
operator's remediation, one DynamoDB access per step, with the worker reduced
to what it does to a job's status and the markers. `env` fixes for a behaviour
whether the indexes are prompt and whether operators remediate; the
refinement mapping makes the slot exclusive in exactly the behaviours where
the code can promise it (a prompt index, no remediation). "live" and
"since" of a call are auxiliary and only say what was true during it.

**UpdatePages.** The update sections of the portal's and the operator's
instance pages. An action is the JavaScript between two awaits; a click or the
opening of a page starts a task, and tasks wait for answers, timers and each
other's effects. The server is what UpdateSlot promises, per instance. `env`
says which page it is, whether answers keep their order, whether somebody else
starts updates, and how often the user moves to another instance, which leaves
the page mounted. `pollUntil` looks at its AbortSignal before a request and
while it sleeps, never while a request is under way. `Filter` is the arrays'
`filter`, as a recursive function over positions: the two facts the proofs need
of it are by induction over the prefix.

**ProvisionJobs.** One ProvisionJob from creation to its end. The ten-second
lease has no state: it is neither renewed nor checked by a write, so an
invocation it turns away has no effect and any other may load the row at any
time and go on beside the first. What an invocation holds is its copy of the
row, the instant it read the clock, and how many of its six transitions are
left; a handler (`AccountCreate`, ..., `DeployMcpWait`) works on the copy and
calls AWS, and `Put` writes the whole copy, with the instance's status where
the handler sets it. An invocation can die between the two (`Dies`), and
CreateAccount or StartBuild can take effect and still be answered with an error
or without an identifier (`Unheard`), which the handler takes for a failure and
repeats. While CodeBuild's idempotency token is honoured a repeated StartBuild may
return the build it started before. Requests to Organizations and builds end when a poll first finds them
ended. A job is created with the owner's consent or without.
`entered` remembers accounts that failed validation and were moved, assumed or
deployed into all the same; `mishaps`, `unheard`, `retries` and `overlapped`
count what the properties allow for. The sweep's scan is an action and its write
a later one; a scan that returns an old row is one that began earlier, beside
the writer it misses, and counts as an overlap with it. DNS, instance configuration and the contents of
receipts are done-or-failed.

**CreditBudget.** One instance's months. Every operation is a read and a later
conditional write, so that every stale read is possible. A debit's transaction
(budget update, ledger entry, dedup or job row) is one action guarded by the
conditions of its kind. The Stripe side is external: a session opens, is
processed, settles in full or short, or lapses; its events are delivered any
number of times and to concurrent invocations until one is answered with 2xx.
Prices are given by `Cost`; request parsing is left out. The row that answers
a repeated request lasts for ever for a metered call and has a TTL for an AI job
or a link-safety result: `RowExpires` takes such a row away, once the TTL, which
may be shorter than a month, is over, and `lapsed` remembers it.

**SetInduction.** What the proofs need and the prover cannot get from the
library, whose induction theorems take an operator as a parameter: induction over
an interval for a *set* of naturals; `SumsTo`, a partial-sum witness for "the
values of f on W add up to n"; and, from both, that such a sum is the one
`MapThenSumSet` computes (`SumIsFold`), so that properties TLC evaluates with a
fold are proved as they stand.

## 3. Runs

Bounds are in the cfg files and named in the modules.

| Run | Instance | Shows |
|---|---|---|
| `tips` | two wallets, ETH and one token, one host, amounts 10001 and 20002, inflow capped at 20002 per asset, batches of up to two | The balance covers the total owed (`Solvent`), the total is the sum of the entries (`TotalIsSumOfPending`) and money leaves only as owed or as stray (`OutflowIsOwedOrStray`), with owner calls nested in open payments. The amounts are odd so that every share rounds; a fee of 501 exceeds the maximum. |
| `tip_registry` | three wallets, two tokens, two hosts, limits 99, 100 and 20000 (below, at and above the boundaries) | Allowlist consistency under swap-and-pop, exact separation of the Lesser wallet and host wallets, limits that always admit a tip. Two tokens make the moved entry differ from the removed one; three wallets are the least that let two hosts and the Lesser wallet differ. |
| `soul_custody` | one soul, two wallets, window 1, clock to 3, nonces 0 and 1 | `WalletIsHolder`, `NoReplay`, `SoulboundByConsent`, `PauseFreezesSouls`. The clock passes through the second in which the window ends; the soul can be rotated away and back. |
| `soul_mint` | two souls, one wallet, fees 0 to 2, balance up to 4 | `FeesBacked` and `BurnIsFinal` over all three mint routes. |
| `update_safety` | two invocations of the full kind, lease 2, function 1, faults until time 1, lost StartBuild replies | `LeaseExclusive`, `HolderIsCurrent`, `SettledMarker`, `VersionNeedsReceipt`. |
| `update_liveness` | one invocation, all kinds, faults until time 1, token life 2 | `NoDuplicateRunner` and, under fairness, `EventuallySettled`. |
| `update_settled` | as `update_safety`, faults throughout | A violation of `SettledIsFinal`, see section 6. |
| `credits_strict` | a plain debit and two requests for one AI job, a portal set, a purchase, two webhook invocations, up to two of which die | `WithinBudget`, `CreditsNeedPayment` with overage not allowed, and `PaidIsCredited` under fairness. The grant covers the job or the plain debit, never both (71,395 states). |
| `credits_metered` | two deliveries of a voice call, two requests for one AI job whose row may expire, an SMS, both policies, two months, a purchase | `ChargedOnce`, `UsedIsLedger`, `IncludedIsPurchased` (819,218 states). |
| `admission` | two creates, a list and a remediation, two versions, three different requests, all four environments | The markers name jobs that are live or ended as they say (`MarkersNameLiveJobs`), the common and the per-kind marker agree (`MarkersAgree`), an answer was true at some moment of its call (`AnswersAreTrue`), and the whole implements UpdateSlot (`ImplementsSlot`). |
| `pages` | two instances, four tasks of a page, two jobs each; each page in the worst environment its properties allow | `OnePoll`, `SupportShowsItsInstance`, and under fairness `PollStops`, `ButtonsComeBack`. |
| `provision` | two invocations, six transitions, two attempts, each age passed or not, one retry or adoption, one fault (a death, an overlap, or a call that takes effect and reports an error), with and without body, from a new job with or without consent, with no account or one the instance already knows | `PhasesInOrder`, `EntersOnlyValidated`, `NothingTwice`, `ConsentSpent`, `InstanceAgrees` (2,169,016 states). |

Further configurations answer a question once and are kept for reference:

| Configuration | Result |
|---|---|
| `MCProvisionJobs_settles.cfg` | `ProvisionSettles` holds: one invocation, four distinct ages, one retry, one fault; a job that is queued or running ends in ok or error (944,302 states). |
| `MCProvisionJobs_failed.cfg` | `FailedStops` is violated, see section 6. |
| `MCUpdateAdmission_wire.cfg` | `OneWiring` is violated by two remediations at once. |
| `MCUpdatePages_stuck.cfg` | `NoStuckSpinner` is violated on the detail page when somebody else starts updates. |
| `MCCreditBudget_lost.cfg` | `PaidIsCredited` is violated when the store may fail. |

Why small bounds suffice: the interesting cases need two of something (two
invocations, two deliveries, two tokens, two hosts) and time enough to pass each
age limit once; each run's mutants confirm that the case is reached. The limits
of time in UpdateJobs keep only the order of the real durations (120 s
function, 120 s claim age, 150 s lease, 10 min missing runner, the deploy age,
the idempotency token). In `update_liveness` the token is shorter-lived
than in the other runs so that a retry after its expiry happens; replies are
not lost there, since a StartBuild that took effect, reported an error and is
retried after the token's expiry does start a second build.

In ProvisionJobs a second fault repeats what one can do (a request or a runner
more); `NothingTwice` itself counts them, and the proofs hold for any number. The
ages are all passed at once in `provision`, where each only decides between
waiting and failing, and one after the other in the liveness configuration. In
UpdatePages four tasks are the opening of the page and three clicks: enough to
supersede a poll while its request is under way, and its successor too.

Deadlock is checked for TipSplitter only: its owner can always act. The other
systems really stop: jobs settle, clocks reach their bounds, calls are used up.

### Fairness

- `UpdateJobs!FairSpec`: weak fairness of loading (the sweep loads every active
  job every five minutes, `cdk/lib/lesser-host-stack.ts:1330-1334`), of a live
  invocation's next step (Lambda runs it until it ends or dies), of time, and
  of CodeBuild ending its builds (they have a timeout). Neither faults nor a
  runner's success are fair; faults stop at `FaultHorizon`, as without that
  no retrying system settles.
- `CreditBudget!LiveSpec`: weak fairness of Stripe's delivery until a payment
  event is answered with 2xx, and of the write of an invocation that does not die.
- `UpdatePages!FairSpec`: weak fairness of each task (a request is answered or
  fails, an answer arrives, a timer goes off) and of the server's jobs ending,
  which is `EventuallySettled` of UpdateJobs.
- `ProvisionJobs!LiveSpec`: weak fairness of an invocation's next step, of
  loading (the queue redelivers and the sweep enqueues a job not touched for two
  minutes, `server.go:338-347`; a lease that turns an invocation away runs out)
  and of time. Nothing is asked of Organizations, CodeBuild or the operator.

## 4. Proofs

All theorems hold for every value of the constants that satisfies the
assumptions named in the modules.

**TipSplitter.** `Solvent` is not inductive: a withdrawal subtracts one entry
from the total, and only if the total is the sum of all entries does the rest
stay covered. The invariant is `IndInv`, a conjunction of
- `HostInv`: `hostWalletRefCount` is the number of hosts with that wallet
  (`RefCountExact`), hence no host has the Lesser wallet;
- `ListInv`: list, index and flags agree; the swap is a lemma about sequences;
- `LimitInv`: what each of the two limit setters leaves to the other (`LimitRange`);
- `LedgerInv`: the total of an asset is the sum of its entries (`LedgerSum`),
  the balance covers the total plus what the open batch still has to
  credit (`Covered`), and the open batch is well formed (`LoopOK`);
- `AdminTypeOK`.

Each part is proved from frame lemmas that say which actions touch which
variables. `SplitExact` (the three shares add up and none is negative) and
`BatchTotalsGrow` (the running totals of a batch) carry the arithmetic. `TotalIsSumOfPending` follows from `LedgerSum` by `SumIsFold`. `OutflowIsOwedOrStray`
is an action property of `withdraw` and `sweepStray` under `IndInv`: elsewhere no
balance falls. The only assumptions: `address(0)` is no wallet, token or
registry, the numbers are natural, and host ids and wallets are finitely many.

**SoulRegistry.** `Shape` reduces every action to what it does to custody;
`Custody` (agent wallet = holder, with their types) gives `WalletIsHolder` and,
together with the shapes, the three action properties. `NoReplay` needs `ReplayInv`:
every executed nonce is below the agent's current one. `FeesBacked` is
inductive with its types.

**UpdateJobs.** `LeaseInv`: a working invocation's lease is the stored one, ends
`LeaseTTL` after an instant not before its birth, its copy carries the stored
version, and the clock has not passed its deadline. With
`FnTimeout < LeaseTTL`, the ordering the comments in
`update_jobs.go:47-52` and the CDK stack ask for, the stored lease cannot have
expired while its owner runs, so nobody else gets it, for any number
of invocations.

The lease does not keep a holder from writing a copy older than the row (section
6), so what holds of the row must hold of every copy. `DataInv` adds to
`SettledMarker` and `VersionNeedsReceipt` that the copy of an invocation at work
is of an active job, and that a row or a copy at the verification step is one with
a receipt. `NoDuplicateRunner` is proved for invocations one at a time
(`OneAtATime`) and without lost StartBuild replies; both are needed (section 3 and
5). `RunnerInv` says where no build can exist yet: while row and copy are at a
step before the claim, between claim and StartBuild, and after a StartBuild that
failed. The token's life plays no part in the argument. Under `OneAtATime` alone,
`SettledStaysSettled` proves `SettledIsFinal`, which two invocations violate: by
`RowOpen` the row is active whenever somebody works on it.

**ProvisionJobs.** No write is conditional, so any copy may become the row. The
invariant `ProvisionInv` is therefore mostly a predicate on one copy, `Sound`,
asserted of the row and of every invocation's copy: an account that failed
validation came from no request and is not past the move (`AccountSound`), consent
goes with an active job before its runner (`ConsentSound`), and what the copy's
step, flags and RunID say of the runners has happened (`PhaseSound`). Each handler
preserves it whatever the others do, since builds are only added and end. Hence
`EntersOnlyValidated` and `PhasesInOrder`, for any number of invocations.
`Accord` relates instance, row and copies until two writers meet: the instance
shows the row's status (`InstanceAgrees`), and a copy holds the consent only if
the row does. `NothingTwice` counts, and needs `CountInv`: the requests (or
runners of one mode) made, plus the invocations whose copy can still ask for
one, plus one if only the row can, are at most 1, plus the mishaps and the
unanswered calls (plus, for runners, the retries). An invocation that loads such
a row takes over the row's one or is itself a mishap. `ConsentSpent` uses all
three parts: a row with the consent is one that can still ask for its runner, so
with no invocation under way the count leaves the runners made before it one
less than the bound; and by `Accord` no write before an overlap
brings the consent back. Assumed: the numbers are natural, the ages ordered as
in the code, and the invocations finitely many.

**UpdatePages.** `OnePoll` and `SupportShowsItsInstance` need one another. The
`finally` of the support page's poll leaves the flag alone when the page has
moved on; that the flag still goes down with the controller needs the controller's
poll to be of the instance shown, which needs that a move aborts every live poll.
`PagesInv` has that (`Page`), that an answer is about the instance its task asked
for and that a task has one answer at most (`WireInv`), and that a load of the
newest generation is of the instance shown, which no older load is. It
holds on both pages, for any number of instances, tasks, moves and jobs and in
every environment, and gives `TypeOK` as well.

**CreditBudget.** `Typed` adds that outstanding reads name real months. `OnceInv`
adds `RowsLeft`: each charged call has left its row, which is there until it
expires (`lapsed`), so a second call for the same target fails its condition
until then; a metered call's row never expires. `PayInv` adds `HooksAgree`: an
invocation about to apply or expire a purchase agrees with Stripe's final
state; final states exclude each other, so an expiry never meets a payment.
`CapInv` adds `ReadsSound` and holds under `Capped`: overage is never
allowed, there are no voice calls (they always commit), budgets are set
through the portal only (which refuses less than was used) and are not set at all
where SMS or mint-conversation debits run. The last condition is needed because
those debits, unlike the others, do not check that the included credits are
still the ones they read. `LedgerSums` holds without administrators' sets
(`Sets = {}`), which is necessary: with one, a debit can be forgotten (section 6).
Under the same condition `PurchaseSums` says that a month includes its grant and
the sum of its paid purchases: a purchase is added in the write that marks it
paid, and that write needs it unpaid. Both sums are proved with the
witness and turned into the folds of `UsedIsLedger` and `IncludedIsPurchased`;
debits and purchases are finitely many.

**UpdateAdmission.** The promise to one-slot clients rests on a copy of the
markers that each call read long before it writes. `Inv` is the conjunction
of `Base` (types, and that the jobs named by markers and calls exist), `MarksOK`
(every marker that says active names the job that is, and the common marker
agrees with the kind's), `CallFacts` for each call (what its copy, its
`live` and its `since` say of the jobs that existed when it began: a marker of
the copy that differs from the stored one names a job that has since ended or
been superseded) and `Excl` (in the exclusive environments at most one job is
active and, if one is, the common marker names it). `CallFacts` is what makes the
conditional repair and the conditional create harmless: if the stored
common marker still equals the copy's, nothing was admitted in between. From
`Inv` follow the three invariants, `OneActive` and, step by step, the
refinement of UpdateSlot (`AdmissionImplementsSlot`), for any number of calls,
remediations and versions.

**Only model-checked.** Liveness (`EventuallySettled`, `PaidIsCredited`,
`PollStops`, `ButtonsComeBack`, `ProvisionSettles`), which is beyond the prover.
Every invariant and action property of a passing run has a theorem; the listed
conditions (`Capped`, `Sets = {}`, `OneAtATime`, no lost replies) are those of the
runs or weaker, and the text above says why each is needed. The type invariants of
SoulRegistry and UpdateJobs are stated in their modules and hold in their runs'
instances, but are neither listed nor proved: the proofs use the parts of them
they need.

## 5. Not modelled, and limits of what is

- The components of `PROJECT.json` marked not_modelled, with their reasons.
- Conversions of addresses, hashes and signatures: a signature is a fact that
  its signer signed the content.
- Tokens that charge a fee or call back during transfer: the owner decides
  the allowlist, and a short transfer reverts.
- DynamoDB is a store of conditional single-row and multi-row writes; its
  failures are an action of their own where the code handles them.
- Most of the repository's lines are TypeScript and Svelte, and most of those
  are generated API clients and a vendored component library under
  `web/src/lib/greater`. The state and the concurrency are in the Go services and
  the contracts, which is where the modules are; of the web application
  only the two pages with a state machine of their own are modelled.
- The account identifier a receipt carries (`server.go:1764`) is taken to be that
  of the account its runner deployed into, which is the job's.
- ProvisionJobs follows one job. The portal may create another one after an
  error, from what the instance remembers; that is an initial state here.
- `NoDuplicateRunner` is claimed for one invocation at a time. With two, the
  stale writer of `update_settled` can also restart a step whose runner is running.

## 6. Where code and intent disagree

1. `update_settled`. All writes of one invocation store one UpdatedAt. A second
   invocation that loads the row between two of them still satisfies the lease
   write's condition after the first has settled the job and released the
   lease; its next write restores a stale copy. The version check excludes
   older invocations' copies but not a copy from the middle of the last one.
Observed while modelling. The first four have a configuration that shows them:
- When applying a payment fails for another reason than its condition, the
  webhook answers 200 (`handlers_portal_billing.go:679`; the comment at line 557
  says "only fail on signature/parse issues"), Stripe does not redeliver, and
  nothing else applies the credits (`MCCreditBudget_lost.cfg`), although
  `docs/portal.md:203-205` says the webhook marks the purchase paid and adds them.
- A failed OU move is answered like a successful one
  (`server.go:1038-1046`): the handler goes on with a job it has just marked as
  error, which the comment at lines 1030-1034 sets out to prevent
  (`MCProvisionJobs_failed.cfg`). Such a job proceeds as far as a runner started
  without consent, its attempts pass the maximum, and a retry the operator makes
  meanwhile is overwritten. An account that failed validation is not entered on
  this path (`EntersOnlyValidated`).
- Two remediations at once create two wiring jobs
  (`MCUpdateAdmission_wire.cfg`); `docs/roadmap-web-ui-rework-2026-05-24.md:184`
  says "idempotent on re-click (no duplicate job)". The end of a remediation
  job also overwrites the marker of a portal job that is still active.
- The detail page can stay in its polling state
  (`MCUpdatePages_stuck.cfg`; `docs/frontend-roadmap.md:374`: "no “stuck
  spinners”"): a late answer of a superseded poll replaces a newer list, and
  nothing polls the job it brings back.
- A budget set preserves the used credits it read
  (`handlers_portal_instances.go:641`, "Preserve used credits") and forgets a
  debit that commits before its unconditional write (line 669).
- The repair of a stale marker never finds one that is stale: wherever the
  marker says active, a job is. It only ever acts when an index lags, and
  then on a live job.
- On the pages: the `finally` of a superseded poll clears the polling flag of
  its successor; the detail page reloads nothing when the user moves to another
  instance; requests under way when a page is left start polls nobody sees; the
  support page does not resume polling an active job it loads, and its creating
  and loading flags stay set when the operator moves on during the request.
- A provisioning retry keeps the RunID, so a job whose runner failed polls the
  same build and fails again, and a retry after a body or MCP failure takes that
  build for the Lesser one (`docs/managed-instance-provisioning.md:113`: "MUST be
  retry-safe"; `docs/provisioning-web-ui-rework-2026-05-24.md:21`: "Each step gets
  its own `RunID`"). It also
  keeps a failed CreateAccount request, so only adoption gets such a job further;
  a wrongly adopted account cannot be replaced; the consent is gone, so the
  retried job deploys without it.
- The provisioning lease (ten seconds) is shorter than the function (120 s);
  the comment in `cdk/lib/lesser-host-stack.ts:240-247` states the ordering for
  update jobs only. Its writes are unconditional: a stale one reopens a
  finished job or one the sweep has failed, brings a spent consent back (the
  disjunct `overlapped` of `ConsentSpent` is needed), and the sweep can overwrite a
  RunID recorded a moment before.
- A CreateAccount or StartBuild that took effect and reports an error, or no
  identifier, is repeated (`server.go:844-862`, `server_helpers.go:136-140`): a
  second request needs neither a death nor an overlap. The token of
  `codebuild_idempotency.go` catches the second build within five minutes, and
  Organizations refuses the second account's e-mail address.
- `codebuild_idempotency.go:10` calls a token life of five minutes "enough to
  dedupe at-least-once SQS deliveries"; the queue's visibility timeout is six.
- Adoption sets the step `account.move`, which the start of a queued job resets.
  `docs/provisioning-recovery-plan.md` resumes on EMAIL_ALREADY_EXISTS; the
  code asks for an explicit adoption.
- A voice call whose end is redelivered after the month has turned is
  metered again, as the dedup key contains the month (`ChargedOnce` says so).
- The rows that answer a repeated AI or link-safety request expire: an AIJob after
  24 hours by default (`models/ai_job.go:22`; the trust API asks for 30 days), an
  AIResult after 7 or 30 days, a LinkSafetyBasicResult after 7
  (`models/link_safety_basic_result.go:45`). A repeat after that is charged again,
  within the same month if the TTL is shorter; `ChargedOnce` allows for it and for
  nothing else. The dedup row of metered usage has no TTL.
- The included and overage parts of concurrent debits under an allowing policy
  are computed from stale reads; the recorded included parts can add up to
  more than the month's credits while the used total is right.
- SoulRegistry's transfer count advances on rotations too, although its
  comment says "during claim window".

## 7. Plan

1. Proofs: the type invariants of UpdateJobs and SoulRegistry; a bound on
   runners for overlapping invocations of UpdateJobs.
2. **HostedGenesis**: the session row's versions, turns, failure and repair.
3. **SoulOperations**: prepared operations and receipts following SoulRegistry.
4. **Comm and AI deliveries**: redelivery against result and mailbox rows.
5. **Setup and sessions**: wallet challenges, the bootstrap of the first operator.

A question that a later module answers better replaces an existing run rather
than adding to the list.
