# TLA+ models of the ORA orchestrator

This directory holds the TLA+ specifications of OPA-AI-Orchestrator (`src/`),
the Go service that reviews GitHub pull requests with AI agents. The modules
model the parts of the service where goroutines, webhooks, GitHub calls and
restarts meet over shared job rows. TLC checks them on small instances, and
TLAPS proves all their safety properties for every instance.

- `PROJECT.json` lists the components, the runs, the source lines of every
  modelled definition, the mutants, the hazards, the findings and the theorems.
- `X.tla` is a component, `MC_X.tla` gives its constants values for TLC,
  `X_<run>.cfg` is one run, `XProofs.tla` holds the theorems of a component. Three
  smaller components share a proof module with a neighbour: IssueRun is in
  `WebhooksProofs`, ReviewThread in `InstallProofs`, Checkup in `ApprovalProofs`. Since a proof
  module extends both, their operators of a common name carry a prefix (`IssueNext`,
  `ThreadSpec`, `checkupVars`), and so do the invariants and lemmas about them.

Run a check with `tlc -config RunGraph_core.cfg MC_RunGraph`, the proofs of a component with
`tlapm RunGraphProofs.tla`.

## 1. The system and its components

All Go code is one package in one process. State is in memory, guarded by a few
mutexes, and written through to JSON files and to ClickHouse. There is no transaction over more than one row, and every handler
spawns goroutines that read and write shared `*scmJob` rows without a lock.

| Component | State it keeps | Operations | What must hold |
|---|---|---|---|
| **Pull-request run graph** (`run_graph.go`, `agents_run.go`, `agents_kinds.go`, `run_semaphores.go`, `run_skip.go`) | one parent row and one child row per agent kind; `scmProcessing`; one semaphore per kind; the reviewed-commit index | plan, ensure children, barrier loop, child processor, fold, cancel cascade, COMMENT fallback, finalize, supersede, boot and admin resume | a child works only when what it depends on is terminal; semaphores are bounds; the decision is made on finished input; the parent's status tells the truth about the children; every run ends |
| **SCM job orchestrator** (`scm_orchestrator.go`, `scm_persist.go`) | `scmJobsLive`, job files, the processor pool | enqueue, dedupe, supersede, cancel, retry, boot dispatch | one notification per run, only the head commit is worked on, nothing is lost at a crash |
| **Review stacks** (`scm_review_stack.go`) | `reviewStackLive`, item rows, one semaphore per drain | create, refresh, assign slots, drain, cancel, resume at boot | the concurrency bound, the backlog waits, the stack ends and its status is true |
| **Cloud agent and automatic fixes** (`agent_cloud.go`, `agents_authz.go`, `scm_auto_fix.go`) | fix rows (memory only), attempt ledger, branches and pull requests on GitHub | authorise, patch, gate, verify, gate again, land, open a pull request, close comments | only gated patches land, one pull request per job, rate limits, no push for a superseded commit |
| **AppSec gate and approval** (`gate_verdict.go`, `peer_osa.go`, `security_link.go`, `approval_policy.go`, `risk_score.go`) | verdict in the child's summary | hand a scan to OSA, poll, evaluate, weigh evidence | APPROVE only on evidence; "could not evaluate" is never "failed" |
| **Webhook ingress** (`scm_webhooks.go`, `scm_webhook_ingress.go`, `scm_event_envelope.go`, `scm_peer_fanout.go`, `scm_repo_hooks.go`) | delivery receipts | verify, dedupe, route, reconcile receipts with jobs, backfill | a delivery acts once, a receipt ends as its job does |
| **PR state** (`scm_pr_state.go`, `incremental.go`) | reviewed commits, analysed commits per pull request | record, look up | no commit reviewed twice unless asked |
| **Issue runs** (`scm_issue_run.go`, `scm_github_issues.go`) | issue run rows and children, `issueRunIndex` | investigate, publish, approve, implement | nothing is implemented without the approval the policy asks for; an approval is carried out |
| **AI review** (`scm_ai_review.go`, `scm_review_brief.go`, `scm_review_lifecycle.go`, `findings_ledger.go`, ...) | review units, comments on GitHub | plan units, run, aggregate, plan and sync comments | what is reported stays open, what is carried is not closed |
| **Push pipeline and checkers** (`processContinuousSCMJob`, `scm_checker.go`, `scm_peer_fanout.go`) | `CheckRunIDs` of a job, check runs on GitHub | ask peers, open check runs, scan, publish the verdict, close on cancel | a check run is answered, and says what the row says |
| **Checkup and sandbox** (`checkup_*.go`, `job_*.go`) | plan, result, containers, networks, the checked-out tree | clamp a plan to policy, prepare, run steps, judge, tear down, reap | a success is earned, what is dropped is named, nothing it can remove stays behind |
| **Live output, evidence, ClickHouse** (`job_live.go`, `job_evidence.go`, `clickhouse.go`, `ch_*.go`) | `summary.live`, `summary.evidence`, rows of `opa.scm_jobs` | append, snapshot, finalize, insert, read back at boot | the row tells all that was done; the newest copy is the current one |
| **Connectors and installations** (`scm_connectors*.go`, `scm_install_*.go`, ...) | connector rows, signed states, install intents, claim tokens | connect, callback, webhook, claim, finish, delete, hydrate | one tenant holds an installation; a claim token binds once |
| **Credentials** (`cred_*.go`, `agents_token.go`, `ai_*.go`, ...) | sealed secrets, scoped tokens | resolve scope, lease, mint | the narrowest scope wins |
| **Preferences, peers, HTTP** | configuration; no control state | CRUD, forwarding | - |

### How they interact

A webhook or the dashboard enqueues a parent row. `processSCMJob` calls
`processPRRun`, which plans the children and looks at them every 400 ms, starting a goroutine for each child that became ready. A child
takes a slot of its kind's semaphore and calls its agent. The security agent
hands a scan to the OSA peer and polls for it. The approval agent reads the rows
of its siblings and posts to GitHub. The cloud agent patches, gates and pushes.
When all children are terminal the parent folds their statuses. A review stack
is a list of such parents with a bound on how many are worked on. A new commit
supersedes the runs of the old one through the cancel code. An issue run is a
parent of the same kind with other children. A push makes a job without
children, which opens check runs for itself while the webhook handler opens
those of the peers. The checkup child of a run starts containers, which a
cancel, the end of the attempt and the boot remove. Connectors decide which
tenant a webhook belongs to. At boot all rows come back as they were last
persisted and the goroutines are spawned anew, while the server answers already.

### What is hard

- *Interleaving*: status checks and writes on shared rows are separate steps, so
  a cancel that falls between them is overwritten.
- *Stale reads*: the skip gate, the abort flag and the rate limit are read
  before a network call and used after it.
- *Crash and restart*: rows survive and goroutines do not; the boot pass has to
  guess from rows what was going on.
- *Ordering*: webhooks for commit, close and merge come in any order; so do the
  inserts into ClickHouse, and the calls of two reviews to one thread.
- *Two copies*: a row read from its file becomes a new object, and two handlers
  that read at once work on two objects for one job.
- *Bounds*: per-kind semaphores, stack slots, rate limits, iteration caps.
- *Liveness*: the barrier loop polls until all children are terminal, with a
  two-hour deadline behind it.

Each is listed with its line in `PROJECT.json` under `hazards`.

### Conventions

External events (a crash, a cancel, a retry, a call that fails, ...) are the
elements of `Events`; `Budget` says how often each may happen and `Mixes` which
of them may meet in one behaviour. Each set in `Mixes` is a scenario of its own in the
same run, so rare events are combined two or three at a time rather than all at
once. A history variable is marked as such where it is declared and is never read
by a guard. A definition whose comment starts with "Mutant" is a plausible bug: a
property is worth its run only if it finds the bug named for it in
`PROJECT.json`.

Type correctness is a theorem of every component (`TypeCorrect`; for the three that share a module it is a part of the
inductive invariant, and Checkup needs no types but those of its constants). The definitions that follow a module's properties are
its inductive invariants (those of the three are in the proof module): what holds at every step and makes the next step keep the property. Each was an
invariant of a TLC run on the component's instance before it was proved. The proofs assume
nothing but the named assumption on the constants in the module itself.

## 2. RunGraph

`RunGraph.tla` models one pull request with `NumRuns` parent rows. `run`, `child`
are the persisted rows; `rpc`, `cpc` are the places of the goroutines (a place
other than `idle` is an entry of `scmProcessing`, a place in `HoldsSlot` holds a
semaphore slot). An action is the code between two points where another
goroutine can come in: a GitHub call, a semaphore, a sleep, or a bare
check-then-write pair on a shared row. The agents' answers, whether GitHub can
be reached, and the watch policy are chosen nondeterministically.

| Run | Question | Instance |
|---|---|---|
| `run_graph_core` | One notification, honest fold, no goroutine left behind, every run ends | 2 commits under the default watch policy, reviewers that may fail, one slot per kind, a merge and a cancel |
| `run_graph_boot` | Order of the children, a decision after the reviewers, and that it comes to rest, across restarts and calls of users | 1 commit, all kinds planned, or cloud without bugbot; all may fail, the deadline fires; 2 boots with a merge, or two of retry, resume, retry and cancel of a child |

*Bounds.* Two runs suffice for supersede, dedupe and races between an old and a
new head; one slot per kind makes the semaphores contended; one event of each
kind can already fall between any two steps. The boot run has one commit: with a
boot *and* a second commit or a cancel, `NoOrphanedRun` and `FoldHonest` fail through two
overwrites in a row (the parent's and the child's `running` each written over a
cancel), which the hazard list has at its lines.

*Fairness.* Weak fairness of each run's own steps and each child's own steps: the
Go scheduler runs every runnable goroutine, GitHub and agent calls have
timeouts. Nothing is assumed of users, of crashes or of the semaphores (a slot
is taken only when there is one).

*Proved* (`RunGraphProofs.tla`), from `ConstantsAssumption` only:

- `TypeCorrect`: `Spec => []TypeOK`.
- `NoRunIsOrphaned`, `FoldIsHonest`, `NotifiedOnce`: `NoOrphanedRun`, `FoldHonest` and `SingleNotification`, by
  `LifecycleInv`, which says where the parent's processor is when its row says what it says (`PlaceAgrees`) and
  what a run leaves behind (`EndAgrees`). In the loop a child at work is on a row that says so, or the run was cancelled;
  from `final` on either the run was cancelled or nothing of it moves any more (`Frozen`). The three
  properties speak of behaviours in which runs are enqueued, superseded, merged and cancelled (`NeverRequeued`): after
  a boot, a resume, a retry or a cancel of one child, a `running` may be written over a cancel, and they do fail.
- `DecisionHolds`: `Spec => []DecisionAfterReviewers`. From the moment the approval agent weighs the evidence
  the children it weighs are terminal without a processor that could write them again (`DecisionKept`); that needs the barrier.
- `BarrierHolds`: `Spec => []DependencyBarrier`. The property speaks of behaviours until
  somebody cancels or retries a single child (`ChildrenLeftAlone`); the theorem has no
  condition of its own. `WaitsForDependencies` is not inductive. A parent that was cancelled
  writes `cancelled` over queued and running dependencies, and a boot restarts queued
  children; the strengthening `BarrierInv` adds that a plan is made once and in
  one of the shapes of `planRunChildren` (`PlannedOnce`), that a processor whose own row was
  cancelled under it writes no dependency back to work (`CancelledHolderBlocks`), and that the
  budgets only shrink (`WithinBudget`), so that `ChildrenLeftAlone` does not come back once lost.
  After a call on a single child the barrier does not hold: a retry of a
  dependency makes it queued again under a dependent that runs.

*Left out.* The texts of comments; inline comments of a bugbot that was cancelled
while it posted; the crash between persisting the children and the parent;
more than one pull request (they share only the semaphores).

## 3. ReviewStack

`ReviewStack.tla` models stacks of pull requests over the same job rows: the
request handler that builds a stack item by item, the drain and its workers, the
refresh that computes a stack's status from its items, cancels, the boot and the admin
resume. The run of an item is reduced to the processor that executes it, which
ends in any of the terminal statuses a run can have.

| Run | Question | Instance |
|---|---|---|
| `review_stack_boot` | Bound, backlog, a true status, and that the stack ends | 2 items either of which may be refused, 1 slot, 2 drains, all four ends of a run; a crash with cancels of a job and of the stack, or a resume, or a webhook |

The request handler makes an item in two steps, as the code does in two writes: the row (`StackEnqueue`), then its tag and whether it
waits (`StackTag`); `held` is the row in between.

The instance has more items than slots, which is what every property is about.
The bound is on the runs that carry the stack's id; a row that lost its stack in a crash between the two writes is not
among them (section 7), but `StackDrains` asks that it is worked off too.
The bound and the status are stated while one drain works alone on the
stack (`DrainAlone`): an admin resume starts a second drain with a semaphore of its own,
and a webhook a processor that no drain counts. `StackSettles` excepts a stack with an item whose run
ended in `skipped` or `completed_with_errors` (`Unfolded`): the refresh counts such an item as
open and the stack stays `running` for good (section 7). The same
pull request twice in one stack is not modelled. Fairness: each worker, processor and
handler step; the semaphore is weakly fair only while a slot is free.

`DoneMeansDone` says of a stack without a drain that `completed` and `failed` mean that no run is left, and that
`completed` means that none failed. The second half is stated while nothing was cancelled or the process has not
died (`AnswersFolded`): a processor that writes `failed` over a cancel, and dies with the process before its worker is back,
leaves a stack that says `completed`, and the boot folds no stack that has ended.

*Proved* (`ReviewStackProofs.tla`), for any items, jobs, slots and budgets: `TypeCorrect`;
`ProcessorsAreBounded` by `DrainInv`: the workers past a drain's semaphore are at most its size, no two drains are at work, and each
processor of a tagged row has a worker that waits for it; these processors thus map into the slots one to one. That a row is tagged
before anybody works on it needs that nothing at all runs until the stack is stored (`NothingRunsYet`).
`DoneIsDone` by `DoneInv`, which adds what holds while nothing was cancelled.

## 4. Autofix

`Autofix.tla` models the two users of the fix code: the cloud child of a run and
the fixes a user asks for on the dashboard. A patch is the set of paths it
changes, and `Denied` stands for what `gateCloudDiff` refuses (protected paths,
executable bits, submodules, size). Findings have a severity and belong to
the review or to the scan; the ledger of the scan may be unreadable. Every
external call may fail.

| Run | Question | Instance |
|---|---|---|
| `autofix_cloud` | What the jobs may land, and that they end | a cloud child with 2 iterations beside a fix of its run, a cloud child that only suggests, or two fixes behind one slot; a supersede and the passing of an hour, or a crash |

`LandedIsGated` says that what is on a fix branch went through both gates and touches only what it
was asked for; `OnePullRequest` relates the ledger and GitHub's side effects; `DrainStopsPushes` is
stated over the job's further life. Two iterations show the loop going round with a reset
worktree; three paths separate allowed, protected and the note file. Fixes live
in memory only, so a crash ends them (`dead`). Fairness: each job's own step. The
push is refused when the branch exists on the remote, and may fail otherwise.

*Proved* (`AutofixProofs.tla`), for any jobs, paths, findings, limits and failures: `TypeCorrect`;
`GatedHolds` by `GatedInv`: a job works on findings that count from its authorization on, and from the first gate to the push
it holds a patch that may be landed, whatever the tests rewrite in between, since the second gate
judges the tree anew. What may be landed (`Landable`) includes the note file alone, and any path the gate does not
deny when tests run for a finding without a file: the allow-list is then empty, and an empty list allows all
(`gateCloudDiff`). `OpensOnePullRequest` by `OpenedInv`: a job that has opened one only closes comments.
`DrainedPushesNothing`, a temporal property, by `StoppedAt`: a drained job stays at its number of pushes
up to the place where it looks for the drain, and ends there.

## 5. Approval

`Approval.tla` models one run from the moment its prepare child is done: the
security agent (`spc`), bugbot (`bpc`) and approval (`apc`) with their rows
(`sec`, `bug`, `app`), the scan on the OSA peer (`scan`), and what they leave for
each other (`gate`, `ai`). `given` is the case, a record: configuration, preferences,
policy, which children were planned to work, what the review and the scan may find, the deadlines, and
the external events of this case. A severity is a number from 1
(low) to 5 (blocker), the unit of time is two seconds, the step of the poll's
back-off. The peer may lose a request or an answer, be slow, or never finish. Approval
looks at the rows of its siblings, calls the peer and GitHub, and looks again:
each look is a step of its own.

| Run | Question | Instance |
|---|---|---|
| `approval` | Is a verdict about a scan that ended, is an APPROVE borne out, has a refusal a cause, and does a decision come when the peer does not answer? | one case with deadlines of 2 and 1, a call of 1 and a retry of bugbot; 13 cases of policy, preferences and plan with a cancel of bugbot |

The two deadlines of the waiting case differ, so that a call can straddle either. Two
units of review in the first case tell no fallback, some and all apart. `ApproveOnEvidence` and `RefusalHasCause`
except a bugbot that was retried alone: the row is then not the one that was
read (section 7).
*Fairness*: each agent's goroutine goes on, since every call it
makes has a timeout; nothing is assumed of the peer.

*Left out.* The text of a review and whether it updates an earlier one on
GitHub, the routing of reviewers, the cancel of the whole run (RunGraph), a retry
of approval itself.

*Proved* (`ApprovalProofs.tla`), for any set of cases: `TypeCorrect`; `GateHolds` by `ScanInv`: the gate is asked when the scan has
ended on the peer, a scan that has ended does not change, and so a verdict stays true.
`ApproveHolds` and `RefusalHolds` by `RowsInv` and `DecisionInv`: once approval has started, the rows it reads stand
still unless bugbot is retried; so what it has read (`Grounded`) and what the policy
requires of the rows (`Required`) still holds when the decision is posted two calls later. Every sum
of the risk score is covered, since the evidence is a variable of the theorem and not a list of cases.

## 6. The other components

### Webhooks

`Webhooks.tla` models deliveries from GitHub on one pull request and one default
branch. `hpc` is the place of a request's handler:

| Place | What was done | Code |
|---|---|---|
| `unsent` | nothing | before `ingressGitHubWebhook` |
| `route` | signature and duplicate check passed | up to `handlePRWebhookIngress` |
| `enqueue` | watch and checks read | `enqueuePRRun`, `enqueueSCMJob` |
| `finish` | a job made or found | `finishWebhookReceipt` |
| `fanout` | receipt stored, peers called for up to 45 s | `finishSCMIngressPipeline` |
| `done` | answered, processor started | |

`job` and `receipt` are rows in memory and on file, `loaded` and `seen` those in
memory. A receipt follows its job when the job is persisted or the list is shown. The
actions from `Crash` on are the boot: the server listens, and a goroutine loads watches, jobs and receipts
(`cold`, `jobs`, `hooks`), requeues what ran (`recover`), prunes and dispatches (`dispatch`, `up`),
while requests come in. `StartedAt` is kept as a rank among the runs in flight. A run is reduced to
a processor that looks at its row, admits it, and ends.

| Run | Question | Instance |
|---|---|---|
| `webhooks_boot` | Is one run of a pull request queued, does a job have a receipt that ends as it does, is every accepted job worked off? | 3 requests in 4 cases (two commits and a redelivery, two commits and the merge, a push delivered twice beside a commit, an event that is not admitted and an edit), a crash anywhere |

Three requests are the least in which a third arrives between the steps of two.
`ReceiptsSettle` holds only without a crash: the job's file and the receipt's are written one after
the other, and after a boot a receipt in between is settled only by the list. It excepts
`completed_with_errors`, which has no outcome. *Fairness*: handlers, processors and the
boot go on, each call having a timeout.

*Left out.* Tenants, the automatic watch of App installations, loading from ClickHouse, and
events that only leave a receipt (ping, push to another branch, peer checks only).

*Proved* (`WebhooksProofs.tla`), for any finite set of requests and any number of crashes: `TypeCorrect`, and
`OneQueuedHolds`, `SettleHolds` and `ReceiptHolds` from `WebhooksInv`. Its parts: what has been loaded
is all there is (`MemoryInv`); a handler has no receipt before it finishes and then one about its job (`HandlerInv`); a backfilled
receipt is about the job it is named after (`BackfillInv`), and a queued one about some row (`ReceiptInv`); from the backfill on
every row is covered by a receipt in memory or a handler about to store one (`CoverInv`); before the first crash all
receipts are in memory and settle with their jobs (`SettledInv`); two queued runs after the prune are one (`QueueInv`). The
requests are finite, as what one process has received is; the prune needs it to find the newest run.

### Install and Binding

`Install.tla` models GitHub App installations and the connectors that bind them. `live` is
`connectorLive`, `disk` the rows of an id that share the latest `updated_at` in the file (a hydration may
pick any of them), `states` and `intent` what Connect leaves behind for a
browser that may come back without it. A row is pending, active for a tenant, or
deleted. Callback, claim, webhook and console are the actions `Callback...`, `Claim`, `Webhook`,
`Finish...`; they hold `connectorClaimMu`, so each is one step. The delete handler and the hydration are outside
it and take two. `HydrateReads` is the query of a lookup that finds no row in memory; what it read stays in
`reading`, and `HydrateStores` puts it into memory whatever is there by then (`storeHydratedConnector`). A row is not taken out
of `reading`: any number of lookups may have read the same one. A restart empties the memory; the
boot comes later, reads all rows at once into `snapshot` (`BootReads`) and then looks row by row whether memory has
the id by now (`BootTakes`), and stores those it has not, a step later still.

`Binding.tla` is the abstract specification: who holds an installation in memory, who may
be read from the file, and who has been read and may come back. A tenant takes it only when nobody holds it in memory or it
waits to be claimed, and then holds it alone. `KeepsBinding` is `Abstract!Spec`, an instance of it with `held`, `file`
and `read` computed from the rows: TLC checks that every step of Install is one of
Binding's or a stutter.

| Run | Question | Instance |
|---|---|---|
| `install_bind` | Does a claim token bind once, and do the connectors implement the binding? | 2 installations, 2 tenants, 2 tokens; a connect, a deletion or a restart; for one of the installations alone, a restart with a connect, a deletion or a second restart |

Two tenants are the least that can take an installation from each other, two installations the
least whose intents can be confused; both are symmetric, and there is no liveness, so symmetry is sound. What is done before the boot
has read the rows is about one installation at a time, so a second is spared there: `involved` (of `MC_Install`) tells the cases apart.
`TokenBindsOnce` excepts the tokens in `revived`, a history of the rows that were stored after the file had lost them;
without the exception it does not hold (section 7).

*Proved* (`InstallProofs.tla`), for any installations, tenants and tokens: `TypeCorrect`; `TokenHolds` by `TokenInv`: a token is minted for
one id, no row on file waits for a token that was used, and memory waits for what the file waits for unless the row was
revived. `BindingKept`, that Install implements Binding: the initial states are mapped, and each action is one of
Binding's or a stutter. It needs the types only, since Binding says itself what lookups may bring back.

*Left out.* Connectors as objects: a patch or a deletion whose lookup got another object than the one in memory. The backfill of
a legacy database.

### IssueRun

`IssueRun.tla` has the parent loop and the child processor of RunGraph over the children of an issue run: prepare,
investigate, publish, and implement rows that planning or an approval adds (`manual`). `policy` are the preferences
the run was planned with; `index` is `issueRunIndex`, which a restart empties.

| Run | Question | Instance |
|---|---|---|
| `issue_run` | Is code written only with leave, and is an approval carried out? | one run, 2 implement rows, three policies, every agent but investigate may fail, 2 approvals, one call of a user, one restart |

Two approvals are the least at which the second finds a row of the first.
`ApprovedIsCoded` speaks of approvals the parent can still hear (`heard`): one that arrives while the parent
folds for the last time waits for a resume (section 7). Fairness: parent, children and agents go on.

*Proved* (`WebhooksProofs.tla`), for any runs, policies and budgets and any finite set of implement rows: `CodingHolds` by
`IssueSanctionInv`. The property alone is not inductive, since a retry, a resume or a boot starts what is in the rows without
asking again. The invariant says that every implement row was sanctioned when it was made (`IssueRowInv`); that a pull request,
a processor and an agent each belong to a row (`IssueCodeInv`, `IssuePlaceInv`, `IssueAtInv`); and that a delivery not yet worked off
has none (`IssueAskedInv`), so the policy a run is planned with meets no older row. Everything after that only moves rows about.

### Checks

`Checks.tla` models the job of a push or a cron tick and the check runs on its commit. `gh` is GitHub's list of
check runs by name in order, of which the newest is shown; `ids` is `CheckRunIDs`. The webhook handler
(`FanOut`, `PublishPeer`, `Ingested`) merges the ids of the peers; the processor (`Begin` to `Leave`) opens
the AppSec check, saves its id, scans, publishes and finishes; a cancel starts a closer that
visits the ids the row had then.

| Run | Question | Instance |
|---|---|---|
| `checks_push` | Is the check run of a job at rest closed, and does it say what the row says? | a push and a tick, one peer, one slot, one cancel, one retry or resume, one call that fails or a restart |

Two jobs make the slot contended; a job at rest (`Quiet`) has no goroutine at work. `excused` are checks a
call failed for and jobs that a restart or a retry hit where the code has no answer (section 7).

*Proved* (`ChecksProofs.tla`), for any jobs, peers, slots and budgets: `TypeCorrect`; `AppSecAnswered`, `RowAgrees` and `PeersAreClosed` from
`ChecksInv`, which is stated job by job: the row has the id of the newest check run, but for the one that is on the
wire (`KnownInv`); who is past the start works on a row that says so (`PlaceInv`); the check run says what the row says, or
somebody is about to write it (`StoryInv`), which is either the closer or the processor, whichever saw the other's
write; and the check run of a peer that is open after a cancel is on a closer's list (`PeerInv`). The jobs share only the
slots, so a step of one leaves the invariant of the others alone (`ApartKeeps`).

### ReviewThread

`ReviewThread.tla` models the inline comments of one pull request. `thread` is the list on GitHub, oldest first, of
keys, lines and whether the comment is still open. A review notes the commit, asks the agent, computes the keys it
carries over because their files did not change, lists, plans (`planOPAReviewCommentActions`), and carries out the plan one
call at a time: it closes, then rewrites in the order of the findings, then creates. A report is a list of findings, with
repetitions: the key of a finding leaves its line out. A superseded review goes on. `disturbed` are reviews that were not
alone or for which a call failed.

| Run | Question | Instance |
|---|---|---|
| `review_thread` | Is every reported finding open after a sync, and is nothing closed without cause? | 3 reviews, 2 commits, 2 keys in 2 files of which one may move or be found at two lines, in either order; 4 comments at most, a call that fails or an automatic fix |

Three reviews let a finding appear, move or vanish, and come back; overlapping pairs and the review after them need three as
well. `MaxComments` bounds the thread. When a review finds one key at two lines, the comment it had at one of them is closed for
the sake of the other. So `ReportedIsOpen` says that a finding is open at its line, or all those are that have its key and
another line; `ClosedForCause` takes a finding at another line for a cause. That every finding has an open comment at its line does
not hold (section 7).

*Proved* (`InstallProofs.tla`), for any lists of findings, keys, files, lines, pushes, reviews and budgets: `ReportHolds` by
`ThreadSyncInv`, which speaks of a review nobody has disturbed. From the plan on, each finding has an open comment at its line
that the plan leaves alone, or one it will reopen, or one it will create (`ThreadComing`), or all findings of its key at other
lines do (`ThreadCovers`); a call of the sync takes none of this away (`ThreadStillCovers`). That the plan covers every finding is a
fact about `planOPAReviewCommentActions` for any list and any thread (`ThreadPlanFacts`): the first comment of a key exists because the
indices of a key have a smallest one (`ThreadSmallest`), and when a comment is closed for the sake of findings at other lines,
each of those gets one of its own. `ClosingHolds`, an action property, by the same invariant's other part: until
the thread is listed, a review carries every comment whose file has not changed since its base (`ThreadCarries`), and so what is on its
plan to be closed is neither found nor carried (`ThreadCauses`).

### Checkup

`Checkup.tla` models the checkup child: `setup` is what is found (a plan, preferences, the host), `policeSteps` and `policeServices` cut the plan down
and note what they drop, and an attempt goes through network, services, workspace and steps to
a conclusion. `files` and `modules` are the tree an earlier attempt may have left; `cleaning` and `reaping` are the goroutines that remove
containers: those of a cancel, and that of the boot. A docker command is one step, and each may fail,
those that remove something too: `RemoveAll` and `Reap` then leave any part of what there was, and
`spared` (no state of the code) notes that containers or the network may be left, until a removal comes through.

| Run | Question | Instance |
|---|---|---|
| `checkup` | Is a success earned, are drops shown, is anything left behind? | 24 plans (19 that are about the policy, 5 that are run), caps of 2 steps and 2 services, one replaced module; cancel, retry and a fault (of a removal too) or a new checkout, or a crash with one of them |

The caps are small so that plans exceed them. `NothingLeftBehind` excepts what a removal that failed has left, as long as none has
come through since, and a network that a crash left or a `docker network create` that failed after all made. That is what
the code gives: nothing tries a removal again, and the reaper takes no networks.

*Proved* (`ApprovalProofs.tla`), for any plans, modules, caps and budgets:

- `PassHolds` by `CheckupRunning` and `CheckupPublished`: the steps that have exited 0 are exactly those before `next`, for as long as the attempt
  passes, and what a check run shows was published with all of them, whatever is retried or torn down afterwards.
- `DropsHold`. `policeSteps` is a fold over the steps; its result is followed step by step (`CheckupProgress`): each step up to the
  `n`th is kept, or noted, or comes after the cap, or has the id of one before it. That is an induction over the length of the
  plan, done as an argument about the least number that fails, since the library's induction theorems take an
  operator; the function the fold defines is shown to exist on the sets `1..n` (`CheckupFoldingTo`).
  The one assumption is that the steps of a plan are a list.
- `NothingLeftHolds` by `CheckupStopped`: when the attempt holds nothing and no teardown is to come, there is no network
  unless `spared` has it, and no container unless `spared` has them or the reaper has yet to run.

### JobStore

`JobStore.tla` models the row of one child job in its three places: `objs` and `live` are the objects in memory and the one
`scmJobLive` points to, `file` its file, `table` the rows of `opa.scm_jobs` and `inserts` those on their way. Three goroutines
touch it: a request, the processor and the boot; `pc` and `at` say where each is and on which object it works. `persistSCMJob` is
two steps (file, copy), each of which writes the object as it is then (the code
builds the copy just before it waits for a place). Every copy has a time of its own: ties within a millisecond are not seen. The boot reads file and ClickHouse, recovers
and dispatches while requests come in. The row carries posts, evidence and the tail of the output.

| Run | Question | Instance |
|---|---|---|
| `job_store` | Does an end stay, is the newest copy current, does the row tell all, is a known job worked off? | one job, 2 inserts in flight; a crash with a cancel or a failed write; the loss of the state directory with a retry or a lost insert or query; a retry with a look or a lost insert |

Two inserts in flight are the least that can overtake each other. A process that has made two objects of the job (`twins`), and a retry that met a processor about
to leave (`missed`), are excepted: section 7. *Fairness*: goroutines go on; an
insert ends after three attempts, so the place it takes comes free again and again (strong
fairness of the writes).

*Proved* (`JobStoreProofs.tla`), for any number of inserts in flight and any budgets: `TypeCorrect`, with `ObjectInv`, that whoever works on
the row has an object of this process; `EndHolds` with `ReadInv`: while memory has no row, what a
reader holds is what is on file. `RowHolds` by `EvidenceInv`: a completed row has the evidence of all its posts wherever it
is kept, and no agent works on one. `NewestHolds` by `CopyInv`: an object that is still to be copied has an end newer than every
copy sent (`Fresh`), and one that was copied has some copy that says what it says and is not older than any other
(`Mirrored`), which `newest` then finds, whichever insert arrives first.

*Left out.* Rows of stacks and connectors; throttling and redaction of the output (only the snapshot at the close
counts); artifacts on disk.

## 7. Where the code does other than its words

Reading and checking met the following differences. The properties above are stated so that they hold beside them.

RunGraph:
- A run of an old commit can go on after the supersede, when its `running` is written
  over the cancel.
- After a cancel the finalizer waits thirty seconds, not until the approval child is through.
- The COMMENT fallback that keeps inline findings from being "silently orphaned" can fail, and
  the run is closed all the same.
- A retry of a run whose children are terminal folds the old statuses again.
- A run that was queued when its pull request was merged can still start.
- `run_graph.go` says "restart mid-run re-enters safely". After a crash between bugbot and approval the skip
  gate takes the review of the run's own bugbot child for a finished one, and the run is skipped
  without a decision.

ReviewStack:
- "jobs run with OPA_REVIEW_STACK_CONCURRENCY" (the honesty note of a stack): the request handler stores the row of an item
  first, queued, and tags it with the stack in a second write. A crash in between leaves a row of no stack, which the
  boot starts beside the drain of the stack it puts together: one run more than the bound, and one that no stack shows. A cancel in between is
  overwritten by `waiting` when the slots are taken.
- The bound counts the rows a drain assigned; a resume or a webhook works beside it, and a run that somebody else's
  goroutine works on may leave the stack `running` after the drain has ended.
- A stack with an item that ended `skipped` or `completed_with_errors` stays `running`,
  and no later refresh changes it.

Autofix:
- The rate limit is read before and counted after a network call, so two fixes can
  pass it together.
- The abort flag is read before a push and not again, and a comment is closed for a finding the
  patch may not address.
- A cancel of a fix is overwritten by its next step.
- After a crash a cloud child starts over, and may open a second pull request.

Approval:
- The raise of an unexplained confidence (`calibrateConfidenceForVeto`) seldom comes: the
  rules that complete a review always give it a rationale, so a clean one is refused for its
  confidence.
- A security child that did not scan leaves an approval with nothing against it, as a clean scan does, and so does a bugbot
  that ended without a review, although a comment has "(after we know bugbot produced a real review)".
- Bugbot's answer of an earlier round stays in its row, and after a retry that fails the decision can
  be read from it.
- A review all of whose agent calls failed is completed by rules with the verdict `needs_context`, which alone requests changes:
  that nobody could be asked weighs as a doubt of somebody who was. `gate_verdict.go` tells the two apart for scans.
  `RefusalHasCause` counts it among the causes.
- The review of a draft is skipped, its approval is not.
- `pending_autofix` is never deleted, so every later retry of an approval child ends in COMMENT.

Webhooks:
- `recoverStuckRunningSCMJobs` says that nothing is processing yet; the server has
  been listening for two seconds, and a row a new request started is requeued.
- The prune at boot keeps the newest by `StartedAt`, which `recoverStuckRunningSCMJobs` has just
  set on what ran: an old commit can win over a newer one that was queued.
- Of two handlers that overtake each other, the later one supersedes, be its commit the
  older one; an event for a reviewed commit supersedes the run of a newer one.
- A delivery refused in the cold window counts as processed: its redelivery is
  answered as a duplicate.

Install:
- "one-time claim_token" (`handleConnectorClaim`): a lookup that read the pending row before it was claimed may store it
  afterwards, token hash and all, and the token binds again, for whoever has it.
- "enforces one live binder" (`softDeleteOtherInstallConnectors`): in memory only. Before the boot has read the rows an
  installation that is bound looks unknown, and a callback binds it to another tenant; the boot or a lookup then
  brings the first one back beside the second. Binding allows just this (`Recall`).
- `persistConnectorOrgMove` calls its tombstone "Slightly older than the live row", and gives both the
  same time: a hydration may pick either.
- A pending row without a hash never gets one, since `fmt.Sprint(nil)` is not empty.
- The delete handler removes the row from memory in a second step; one that was made again in
  between goes with it.

IssueRun:
- The finalizer waits because "Cascade already cancelled children"; the cascade is only for
  runs of pull requests. After thirty seconds the fold writes `running` or `queued` over the cancel of an issue
  run, and no processor is left.
- "Leave queued; parent loop will retry when deps complete": an implement row that is approved while the
  parent folds has no parent loop.
- Opened and labeled arrive together and both pass the check of `maybeEnqueueIssueRun`, which two requests may do at once; the index
  is empty after a restart, and the boot prune then cancels the older run while its queued children go on.
- A third approval looks at the first implement row only. A coder that was cancelled still opens its pull request.
- The number of the issue is handed to `prepareSCMWorktree` as that of a pull request.

Checks:
- "Snapshot ids — processors may still race a late update with the same fields": the update is the conclusion of
  the gate, published over `cancelled`.
- A cancel while the handler asks the peers leaves their check runs queued: their ids are merged after the
  closer has gone. A closer may also overwrite a result that was published before.
- A crash with the id of a check run on the wire leaves it open.

ReviewThread:
- Nobody rids a report of repetitions, and two findings at two lines may have one key. The plan takes the one that is not at
  the line of the comment for the other one moved, and closes the comment: the first is reported and has no open comment, while
  docs/repo-watch.md:140 says "findings = inline line comments only".
- "callers should pass unique keys" (`planOPAReviewCommentActions`): the only caller passes the comments as listed. A finding
  that moved has two with its key; the plan goes by the older, closed one and takes the finding for moved again,
  so every later review closes the old comment once more and posts another.
- A review that was skipped or failed has no findings, and closes every comment that is not carried as "Fixed in later
  commits". So does one whose compare call failed, which carries nothing.
- A cancelled run's review is refused by `publishPRReview`, and its comments are then posted one by one.
- The commit counts as analyzed when it is checked out, whether or not the review is finished.
- `pending_inline_creates` is written and never read; `upsertPRSummary` replaces what a person edited.

Checkup:
- The boot takes up queued jobs before it reaps what the last process left, and the reaper takes the new
  containers too. A cancel's teardown comes up to fifteen seconds later, and takes those of a retry.
- A cancelled attempt publishes `failure` over `cancelled`.
- A failure of a service or a network is published as `failure`, though "an unprepared runner is not a bad
  commit"; a module that was copied in part counts as ready in the next attempt.
- Reports and artifacts outside `.opa-checkup` survive into a retry, whose steps are judged by them.
- A plan file that cannot be parsed is replaced by the default without a note; `WorkingDir` is not used; a plan with services has
  a network without the egress proxy.
- `stopCheckupServices` drops the errors of its removals, the teardown of a cancel has fifteen seconds and the reaper
  of a boot thirty, and none is tried again: what they leave stays until the next attempt, cancel or boot.
- Networks leak in a crash, and when a `docker network create` is cut off after it made one. Old worktrees are removed by age, in use or not; the retry of
  prepare removes the tree under its siblings.

JobStore:
- `getSCMJob` and the hydration load and then store: two at once make two objects of a job. A cancel
  that was answered with 200 can be on the object nobody reads any more, and a row be left `running`.
- When the state directory is lost, an active row that ClickHouse has not merged away brings a job back
  that had ended.
- "Each child finalizes a versioned summary.evidence object" (`docs/agent-taxonomy.md`): a cancelled
  child does not, so a request that looked while it ran has frozen its evidence at `running`. A parent run of a pull request
  never does; its evidence is what the first look found. `loadEvidencePosts` as a fallback finds nothing.
- Posts are in memory until the row is next persisted; a crash forgets them.
- A retry that meets a processor about to leave is left queued until the next boot or resume.

Elsewhere: docs/repo-watch.md:243 has a scan that was never dispatched fail the check, where lines 144 to 164 of the same
page and the code have it `neutral`; `formatCheckupCheckSummary` cuts the text of a check at 60000 characters, and with it
the steps of a huge plan; `run_graph.go` computes the risk score without a diff; the push into the mirror clone
of `scm_worktree.go` is one git refuses; `scm_ai_review.go` cuts a diff over the unit limit
without a word.

## 8. What is proved, what is checked, what is not modelled

Proved for every value of the constants:

| Module | Theorems, with the property each states |
|---|---|
| `RunGraphProofs` | types; `DependencyBarrier`, `DecisionAfterReviewers`, `NoOrphanedRun`, `FoldHonest`, `SingleNotification` |
| `ReviewStackProofs` | types; `ProcessorsBounded`, `DoneMeansDone` |
| `AutofixProofs` | types; `LandedIsGated`, `OnePullRequest`, `DrainStopsPushes` |
| `ApprovalProofs` | of Approval: types; `GateIsAboutAScan`, `ApproveOnEvidence`, `RefusalHasCause`; of Checkup: `PassIsEarned`, `DropsAreShown`, `NothingLeftBehind` |
| `WebhooksProofs` | of Webhooks: types; `OneQueued`, `ReceiptsSettle`, `JobHasReceipt`; of IssueRun: types; `CodingIsSanctioned` |
| `InstallProofs` | of Install: types; `TokenBindsOnce`, `KeepsBinding` (Install implements Binding); of ReviewThread: types; `ReportedIsOpen`, `ClosedForCause` |
| `JobStoreProofs` | types; `EndIsFinal`, `NewestIsCurrent`, `RowTellsAll` |
| `ChecksProofs` | types; `AppSecIsAnswered`, `RowAndCheckAgree`, `CancelClosesPeers` |

These are all the safety properties and action properties that the runs check. Only model-checked:

- Liveness (`RunEnds`, `Quiesces`, `StackDrains`, `StackSettles`, `EveryJobEnds`, `DecisionComes`, `AcceptedIsWorkedOff`,
  `ApprovedIsCoded`, `StoredIsWorkedOff`): fairness speaks of `ENABLED`, which the prover does not reach.
- What the risk score's rules say on concrete numbers: the theorems hold for whatever they compute.

No module declares a RECURSIVE operator, so each can be proved about.

Not modelled:

- Credentials, the peer SCM API and the HTTP surface: functions of a request and of stored settings, with no
  state that changes over several steps.
- Of connectors: those with a personal token, watches, the sync from the account manager and its
  write guard.
- The AI part of the push pipeline, which no event without a pull request reaches; prompts and the parsing of answers; the
  summary comment; follow-up reviews after a fix (`enqueueAutoFixFollowUpReviews`).
- Environment, secrets and annotations of a checkup; arguments, mounts and limits of containers; the
  egress proxy; mirror refresh and locking.
- Stacks, connectors and preferences in ClickHouse, and the backfill of a legacy database.
- The mock GitHub API used in development.

Outside JobStore, persisting a row is atomic (a JSON file is written and renamed), and a row has one object.

## 9. Plan

1. *Done*: RunGraph with its proofs, ReviewStack, Autofix, Approval, Webhooks, Install with
   the refinement of Binding, IssueRun, Checks, ReviewThread, Checkup, JobStore.
2. *Done*: a theorem for every safety and action property of the runs (section 8), in eight proof modules.
3. *Abstract specifications* still worth stating: the execution of a dependency graph (each child
   starts once its dependencies ended and ends once), which RunGraph and IssueRun
   implement with the parent's loop hidden; a bounded worker pool, which RunGraph's
   semaphores, ReviewStack's slots and Autofix's `autoFixSem` each implement.
4. *Models* left: scope resolution of credentials and the merge of preferences, as pure rules; the mirror
   and its lock.
