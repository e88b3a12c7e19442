# Evidence Arena in TLA+

Evidence Arena is a Host plugin that gives one coding task to several model-driven
Builders, each in a detached Git worktree, judges each candidate with deterministic
gates and independent reviewers, ranks the approved ones, and lets a human promote one
of them into the original checkout. This directory specifies the parts of it whose
correctness depends on order, interleaving, failure and restart, checks them with TLC,
and proves the invariants that matter most with TLAPS.

Paths below are relative to the repository's own `src/`.

## The system

| Component | State | Operations | Talks to |
| --- | --- | --- | --- |
| Run record and event log (`store.ts`) | per run: `current`, `nextSeq`, the promise chain `tail`; on disk `events.jsonl`, `state.json` | `create`, `update`, `initialize`/`load` | everything that changes a run |
| Run execution (`service.ts` `execute` ... `scheduleRecovery`) | `controllers`, one root and one branch signal per contender, `budgetPublished`; the durable run state | start, Builder, capture, gates, reviews, decision, early stop, cancel, dispose, recovery | store, Git, child runtimes, budget |
| Approval decision (`decideApproval`, `selectWinner`) | none | a function of checks, reviews and policy | run execution |
| Budget (`budget.ts`) | `budget.consumed`, `status`, `exhausted` | refresh, first exhausted limit | every node that reports progress |
| Promotion (`service.ts` `previewPromotion` ... `recoverPromotion`, `git.ts`) | grants, per-run lock, durable transaction; the user's checkout | preview, confirm, rollback, recover | Git, store, the user |
| Admission, retry, cleanup, shutdown (`service.ts`) | `controllers`, `disposed` | start, retry, cleanup, dispose | run execution |
| Candidate preview (`service.ts`, `preview.ts`) | `candidatePreviews` | start, stop, finish, human evaluation | Git worktrees, processes |
| Setup and policy (`policy.ts`, `service.ts`) | setup reports, the policy file | preflight, setup, write policy | store, Git |
| Child runtime (`runtime.ts`) | progress, its promise chain | run, abort, close | the harness process |
| Managed processes (`process-runner.ts`) | one subprocess each | run, start, stop | gates, Git, previews |
| RPC surface (`index.ts`, `client/rpc.ts`) | none | one request per operation, validation of each answer in the client | service, Web client |
| Web client (`client/`) | store: `workspaceId`, `view`, `runId`; local run history; the shown run; the policy editor | select, poll, edit, save, start, cancel, promote | RPC surface |

Everything runs in one Node process: interleaving happens at `await`, between the actors
of one run (main task, one task per contender, deadline timer, RPC calls), and with actors
outside the process (child runtimes, gate commands, the user in the checkout, the end of
the process).

### What is hard, and what correct means

* **Durability.** An update is authoritative once its line is in `events.jsonl`. Lines can
  be torn by a crash or by a failing append, and `state.json` may lag. Correct: nothing
  acknowledged is lost, a restart continues exactly where the live record stood, and the
  projection never runs ahead.
* **Writing into the user's checkout.** Checks, gates and writes are minutes apart and the
  user shares the checkout. Correct: the write-ahead record covers every byte Arena writes,
  a commit is whole, a transaction is always resolved, the user's bytes are kept.
* **A run as concurrent actors over one record.** Signals, queued updates and restarts race.
  Correct: approvals rest on complete evidence for the sealed bytes, progress is never
  undone, completion means that nobody works, every run ends.
* **Previews of a candidate.** Starts, stops, exits and shutdown overlap, each with several
  awaits. Correct: a session that is over leaves no process and no worktree, a live process
  can always be reached, every call returns.
* **One Host, many runs.** Admission, executors, cleanup, promotions, shutdown and reload
  share one service and one checkout. Correct: one executor and one log writer per run, the
  limit holds, removed worktrees stay removed, the edits of two candidates never mix in the
  checkout, an active run can be cancelled, runs and services come to an end. The code keeps
  these promises only in a discipline of its callers, which the models make exact.
* **Policy and admission.** The policy file is read, compared, written and read again while
  people edit and commit it. Correct: a save replaces no revision that the Host has not
  reported, and a run is admitted under the policy of the commit it is based on, each but
  for windows that are named.
* **A client behind late answers.** Selection, polls, saves and starts overlap. Correct: the
  editor's text belongs to the selected workspace (late answers of the card's own buttons
  excepted), a started run stays selected, the run on display becomes what the Host has.
* **Judging.** Skipped, cancelled and failing nodes meet in five stages. Correct: approval
  is unanimity; a rejection is conclusive unless an unavailable node shares its stage.

`PROJECT.json` lists these hazards one by one, each at its line, with the properties that
watch it or the reason why none does.

## Modules

| Module | Models |
| --- | --- |
| `RunStore` | one `ArenaRunRecord`, its log and projection, crashes, failing appends, load and repair |
| `DurableRun` | the abstract promise of a run record: one state, extended in the order of submission |
| `RunStoreProofs` | type, no silent loss, exact restart, readability and projection of `RunStore`, and that it implements `DurableRun`, proved |
| `Promotion` | preview, confirm, copy, verify, commit, rollback and recovery, with the user and crashes |
| `PromotionProofs` | type, write-ahead and commit invariants of `Promotion`, and that it keeps the user's bytes, proved |
| `Approval` | `decideApproval`, `requiredChecksPassed` |
| `ApprovalProofs` | when `decideApproval` approves, and when a rejection is conclusive, proved |
| `ArenaRun` | `execute`, `runContender`, `runReview`, `judge`, budget, early stop, cancel, dispose, recovery |
| `ArenaRunProofs` | type and the six safety properties of `ArenaRun`, and when its terminal status is final, proved |
| `CandidatePreview` | preview sessions: start, stop, unexpected exit, the stops of cleanup, dispose |
| `CandidatePreviewProofs` | type and the three safety invariants of `CandidatePreview`, proved |
| `ArenaHost` | several runs of one Host: admission, executors, cancel, cleanup, promotion, dispose, reload, recovery, crash |
| `ArenaHostProofs` | type and the five safety invariants of `ArenaHost`, proved |
| `SetupPolicy` | the policy file, setup reports, the policy write and the looks of an admission, with people who edit and commit |
| `Workbench` | composes the Web client with `SetupPolicy`: selection, polls, editor, start, controls |
| `WorkbenchProofs` | type and the four safety properties of `Workbench`, proved |
| `MCRunStore`, `MCPromotion`, `MCArenaRun`, `MCCandidatePreview`, `MCArenaHost`, `MCWorkbench` | the values the runs give to the constants |

### RunStore

A run state is the sequence of updates it results from, so its length is the revision. A
line of the log is `[ok, seq, state]`; `ended` says that the text ends with a newline.
`Submit` is the call of `update`, `Begin`/`Refuse` the operation reaching the head of
`tail`, `AppendOk`/`AppendFails`/`Project` its two writes. `Crash` may leave nothing, a
part, the line without its newline, or all of it. `Load` truncates a torn last line and
completes an unterminated one; `LoadRefused` is the `catch` in `initialize`. `LiveFault`
says what a failing append may leave in a live process: a clean log in `RunStore.cfg`,
anything in the other two runs.

The abstract `DurableRun` knows only the durable state, the submitted updates and the
answers. `RunStore` implements it under the mapping `applied <- what a load would recover`:
an update becomes durable when its line is complete, not when it is acknowledged.

### Promotion

`pc` is the `await` at which the promotion in progress stands, `by` whether
`confirmPromotion` or `recoverPromotion` runs it. A tracked path holds the base, the
candidate's bytes, a user's edit that still lets the patch apply (`aside`, `asideCand`) or
one that does not (`clash`). An untracked target is absent, exact, sealed without its mode
yet (`unmoded`), torn, or the user's. Every Git command reads and writes in one step; a
crash inside one leaves any part of its writes; any step may throw. `User` edits at every
step that `QuietPc` does not exclude, and may damage the artifact store. `Publish` is a
durable state event or its failure.

### ArenaRun

`run` is the durable state, `tail` the record's promise chain with the actors that wait in
it, `pc[a]` what actor `a` waits for. An update is two steps, `Await` (the call) and the
action named for what its closure does, at the head of the tail; a signal, a crash or
another actor's update can come in between, which is where the races of this code are.
Signals keep their first reason. A worktree is the number of writes it has seen and an
artifact the number at which it was captured, so "these bytes" is a comparison of numbers.
`Checks` says which check nodes each outcome of the gates leaves behind, and `Approval`
turns them and the reviews into the decision. A crash forgets everything but `run`, the
worktrees and the artifacts; `Restart` is `scheduleRecovery`.

Each contender has one required reviewer per stage; only Builders report usage; state
updates succeed here, because `RunStore` has the ones that fail.

### CandidatePreview

A session is the `CandidatePreviewSession` that one call of `startCandidatePreview` makes,
so calls and sessions share their numbers. `pc[s]` is what start call `s` awaits, `stop[k]`
what stop call `k` awaits, `dispose[s]` what shutdown awaits of session `s`; `previews` is
the map, which names one session per candidate. `Register` is the step from `readCandidate`
to the next await, where the map entry is written; `Spawn` ends with a live process and a
handle; `Fails` is the `catch` clause, whatever threw; `Publish` continues after the probe
was answered and leaves the callback `Finish` on `handle.done`. A process may exit at any
time. Cleanup is one more caller of stop.

Two starts can overlap between the look at the map and `Register`, and a stop can overlap a
start that has no process yet; both lead to a live process that the map does not name. The
workbench does not do this (one call at a time per panel, `busy` in `client/ArenaCard.tsx`),
but a reloaded or second page can, and the service does not refuse it. The history variable
`overlapped` records for which candidates it has happened, and the properties that need the
discipline say so; `SettledIsReclaimed` and `CallsReturn` do not need it.

### ArenaHost

What `ArenaRun` and `Promotion` describe in detail is coarse here: an executor prepares, adds
worktrees, works and ends in one of three ways. In exchange there are several runs on one
checkout and several generations of the service. A *job* is a run in a generation: a
disposed service leaves calls in flight and executors it did not await, which go on beside
the next service; `Owns` says which of the two writes to the log may be a second writer, and
`broken` which logs have had one. `exec[j]` is the state of an executor, and also the presence
of its controller; `tree` the runs with a worktree on disk.

* A **start** is checked, then `StartStatus` and `StartDiscover` are the two Git commands of
  `inspect`, then `StartCreate` writes the record, whatever became of checkout and service.
* A **promotion** goes through checked, open, patched, applied and verified: `git apply` and
  the copies are two steps (`PromoteApply`, `PromoteCopy`). The checkout is `commits`, what
  people committed, and `bytes`, what lies on top of it: tracked edits or added files, each
  with its author. `Exact` is what `assertAppliedPatch`, `assertUntracked` and
  `promotionState` look at: the tracked diff from the base is this candidate's, and its own
  added files are there. Added files of others are seen by none of them. `TakenBack` is
  what a rollback undoes and `Restored` the last look after it: the run can need attention
  although its bytes are already gone. `Edits` and `Adds` say which candidates edit tracked
  files and which add files.
* `aside` holds what a run that has ended, or nobody, waits for: a **cleanup**, in three steps
  (`CleanupBegin` looks at the status and not at the controller, `CleanupRemoves` is Git,
  `CleanupRecords` the event), a human evaluation, and the event of a deadline that strikes
  while the last update is written.
* `strays` are executors that ended, or went on, while a contender of theirs was still at
  work, because the event that would have ended it could not be written. `ExecWrites` lets
  them write their worktree and `StrayRecords` record as before.
* `todo` is the list of runs that a booting service has read as active and has still to
  recover; it is read once, before any recovery begins.

Requests come only while the service is up: `index.ts` registers the service's disposal
before the RPC handlers, and these are taken down first. One budget, `trouble`, pays for
disposals, crashes, lost events and what the user does to the checkout.

Some of the promises hold only for calls made in a discipline that the code does not
enforce, and the history variables name the exceptions exactly:

* `overlapped`: two starts were between their check and their controller together; the limit
  can then be exceeded (`service.ts:956`).
* `late`: the run had a start, cancel, promotion, cleanup, evaluation or deadline event in
  flight when a dispose began, or a contender astray when it was done. Dispose waits for none
  of them. They go on in a service that is gone: they can create a run that the next service
  does not know, append to a log that the next service has loaded, or write into the checkout
  later than anybody expects. `OneWriter` says that this is the only way to a second writer.
* `hasty`: the cleanup began before the executor and the contenders astray had ended, as
  after a published cancellation; a Builder still at work writes its directory anew.
* `lost`: the last state event could not be written, and the run stays as it was.

### SetupPolicy and Workbench

`SetupPolicy` has the Host's side. A policy is a document, absent, or broken (it does not
parse, or cannot be read safely); `Untrusted` and `Unmet` are the documents that the
signature mode refuses and that ask for a test command or reviewer that is not configured.
`calls[c]` is a request of the launch form, the setup card, a start or a save for one
workspace, at the await where it stands. `Prepare` and `Publish` are the two reads of
`prepareSetup`, of which the report keeps the first and the readiness comes from the second;
`Compare`, `Write`, `Reload` are `writeArenaPolicy`; `Check`, `InspectStatus`, `Discover` and
`Resolve` are the looks of `start`: the preflight, `git status`, `git rev-parse HEAD` and the
second read of the policy. `raced` records that somebody wrote the file between two looks of
the call, and between which. A checkout is clean here when the policy file is as in HEAD,
which takes Git not to ignore that file.

`Workbench` adds one client. `ws`, `view`, `sel` are the shared store; `listed` the local run
history, `lists` the answers to `list` on their way; `shown` is the state `run` of the card;
`polls` and `act` are a read and a control in flight; `flow` is `startRun` at its awaits.
The effects of the components are part of the actions that trigger them: `Settle` is the
fallback-selection effect, `Unmounted` the cleanup of a card that goes. The setup card keeps
its state across a change of workspace, and so does `editor` here; three answers fill it: the
one its effect has asked for (`CardAnswered`, which drops the answer for an earlier target)
and those of a save and of `refreshSetup` (`ButtonAnswered`, which take it whatever is
selected by then). `pending` says which buttons wait for an answer while the card is mounted,
and `CardFails` is a first load that fails, after which there is a retry button. A run card that is shown
for another run keeps the old one until the first answer. A status of `voided` is a run with
a decision that `rpc.ts` does not accept. Reads that the Host answers in one go come back in
the order of their requests (one connection, handlers without an await); everything else may
be overtaken.

## Runs

| Run | Shows |
| --- | --- |
| `RunStore` | types; `RestartSeesCurrent`, `AckedReadable`, `ProjectionBehindLog`, `UpdatesSettle`; refinement of `DurableRun` |
| `RunStoreFaults` | `NoSilentLoss` with failing appends that leave anything |
| `RunStoreTornLive` (violated) | a live failing append can make the run unloadable |
| `Promotion` | types; `WriteAheadCovers`, `CommittedWhole`, `TransactionsResolve` |
| `PromotionQuiet` | `UserBytesKept` when the user pauses in the check-to-write windows |
| `PromotionWindow` (violated) | undoing a failed copy deletes the user's file |
| `ArenaRunOne` | types; `ApprovalSound`, `CheckpointsAdvance`, `FinishedUsageStays`, `ConcludedStays`, `RunSettles` |
| `ArenaRunTwo` | `CompletedIsOver`, `StoppedStayStopped` with an early stop; approvals of several contenders are left to the theorem `ApprovalIsSound` |
| `ArenaRunCancel` (violated) | a published cancellation is overwritten by a late update |
| `CandidatePreview` | types; `SettledIsReclaimed`, `LiveIsReachable`, `DisposeMissesOnlyUnspawned`, `CallsReturn`, `ExitIsNoticed` |
| `ArenaHost` | types; `LimitKept`, `OneWriter`, `CleanedIsGone`, `CommitsApart`, `ActiveIsOwned`, `RunsSettle`, `ServiceSettles` |
| `Workbench` | types; `AdmittedUnderBase`, `EditorIsOfTarget`, `StartedStaysSelected`, `OverwritesOnlyReported`, `ShownSettles` |

The violated runs state what a comment, a test or the documentation says and show what the
code does instead; `PROJECT.json` quotes both under `findings`.

Behaviour of the code that a reader may not expect, seen in the models and not given a run
of its own:

* Usage is a projection of the latest progress. A Builder that is started again after a
  restart reports from zero (`runtime.ts:223`, `service.ts:2044`), so the aggregate on which
  the budget is checked falls, although `README.md:224` speaks of whole-run limits.
  `FinishedUsageStays` is what remains true.
* A failed security preflight skips the reviews of its own stage; the stage is then
  unavailable, not rejected, and the decision is `unavailable`, although the comment at
  `service.ts:513` calls a rejection conclusive. `RejectionConclusiveInItsStage` is the exact
  condition.
* `rpc.ts:80` accepts `approved` and `rejected` decisions only, so a run with an
  `unavailable` one (`types.ts:164`) is never shown: each poll of it ends in an error.
  `ShownSettles` leaves these runs out.
* `git status` and `git rev-parse HEAD` are two commands (`git.ts:163-164`), and `start` reads
  the policy again after them and looks only at the blockers of the policy itself. An edit
  between the two commands, or after HEAD is read, is the policy of the run, though it is
  neither in its base commit nor checked against the configured gates. `AdmittedUnderBase`
  names the two windows. A policy file that Git ignores is outside the model: it never makes
  the checkout unclean, and it is in no base commit.
* `writeArenaPolicy` compares the file (`policy.ts:316-320`) and replaces it later
  (`policy.ts:327`), after `mkdir` and a containment check: a revision written in between is
  lost, although the comment at `policy.ts:301` excludes an unseen one. `OverwritesOnlyReported`
  leaves that window out.
* A save is compared with the Host's latest report of the workspace (`service.ts:1245-1247`),
  not with the text the editor shows, and it sends that text for the workspace that is
  selected by then: a revision that another card or the launch form has caused to be reported
  is replaced without having been shown in this editor, also by the text of the workspace
  that was selected before, until the setup of the new one has been read.
* An answer to a save (`ArenaCard.tsx:735`) or to `refreshSetup` (`ArenaCard.tsx:634-639`, after
  a credential was saved, `746-762`, and by the retry button, `803`) that arrives after a switch of
  the workspace fills the editor with the other workspace's text, until the setup is loaded
  again. `EditorIsOfTarget` names this exception, `strayed`.
* A promotion compares the tracked diff and its own added files (`git.ts:415-438`, `504-532`).
  Two candidates that only add files and are promoted, or recovered, at the same time are
  both committed; `CommitsApart` is about candidates that edit tracked files.
* `recoverPromotionRollback` takes its own bytes back (`git.ts:584-586`) before it asserts that
  the checkout is the clean base (`git.ts:620`): a promotion that needs attention because of
  somebody else's files may have nothing left in the checkout.
* A cleanup, an evaluation, the event of a deadline and the records of a contender astray are
  not awaited by a disposal (`service.ts:1723`): after a reload in the same process they are a
  second writer of a log that the new service has loaded.
* `startRun` selects its run after a refresh of the list that swallows errors
  (`ArenaWorkbench.tsx:109`): after a failing one the fallback effect reverts the selection.
* A restart between an approval and the evaluation of the early stop resumes every sibling
  (`service.ts:2167`); no document promises otherwise.

### Bounds, and why they are enough

* `RunStore`: three updates. Two can be in flight with a third after a restart; the
  log is then long enough for a torn line to be the first, a middle or the last event.
* `Promotion`: two tracked and two untracked paths (partial writes and a failure after the
  first file), two tokens (a second confirm races the first), two user edits, one crash,
  one failing state event. `PromotionQuiet` has three edits and two crashes, so that an
  edit between two recoveries is reached; the paths are symmetric there, which is sound
  because it has no liveness property.
* `ArenaRunOne`: one contender, two model calls per attempt against a limit of two (the
  limit is met exactly, by one attempt or across two), one crash, and every disturbance:
  user, wall time, and gate commands that change the worktree.
* `ArenaRunTwo`: two contenders and an early stop after one approval, one crash, a user.
  No usage: the budget is covered with one contender.
* `CandidatePreview`: one candidate (candidates share nothing but shutdown), two starts and
  two stops: a start can race another start, a stop race a start or another stop, and a
  session can be stopped and replaced, each with shutdown in between. The proofs have any
  number of all of them.
* `ArenaHost` (0.4 million states): a limit of one, candidates with tracked edits and added
  files, and one of two scopes (`MCArenaHost`). As long as one run is alone, everything may
  happen to it, with two troubles and two calls at a time: a contender goes astray and the
  service is disposed, a disposal leaves a cleanup and the next service crashes, an event is
  lost and a recovery refused. With a second run there are starts and promotions, one trouble
  and two calls before it: starts that overlap, a start when the first run is over, two
  promotions at any of their steps, with a crash or disposal and their recovery, or a user who
  edits, commits or discards. What else is done with a run does not touch another one; the
  proofs have any number of everything at once. No request is made for a run in `late`: its
  record may be one that no service knows.
* `Workbench` (0.7 million states): three inputs (user steps, edits and commits in all), one
  failing answer and, by the initial state, one of two scopes (`MCWorkbench`). Two runs in one
  workspace, of which one is on record in the beginning, for lists, polls, controls and
  selection; or one new run and two workspaces, with a policy that can be met and one that
  cannot, for the setup, its card and admission. A mistake takes a request, a switch or an
  edit, and the answer: two inputs; the third lets an effect of it be used. No load of a
  workspace is repeated while one of the same kind is in flight. The proofs have any numbers
  of all of these, in one scope.
* `Nat`-valued parts (sequence numbers, worktree writes) are bounded by these constants.

### Deadlock

`RunStore` is checked for deadlock. The other configurations say `CHECK_DEADLOCK FALSE`,
because those systems really stop: a committed run cannot be promoted again, a run that has
ended, with no crash left, has nothing more to do, the bounded preview calls are used up, and
a Host or a workbench of which nobody asks anything rests.

### Fairness, and why the code justifies it

* `RunStore`: a chained operation runs and a file system call returns, one way or the
  other. Callers, crashes and restarts are not fair.
* `Promotion`: the steps of an `async` function whose awaited commands have timeouts are
  fair, and a stopped Host is started again. The user and faults are not fair.
* `ArenaRun`: the Host's own steps are fair for each actor, the clock advances, the Host is
  restarted. `Child` steps are *not* fair: a model may never answer. `RunSettles` therefore
  rests on the deadline, whose timer is always armed with a positive wall-time limit.
* `CandidatePreview`: calls continue, since their commands and the wait for an answer have
  time limits, and a terminated process exits. That the candidate's server answers or exits
  by itself, and that anyone calls, is not assumed. One weak fairness condition covers all
  calls, because they are bounded and each is finite.
* `ArenaHost`: an executor and the calls of a job go on (`ArenaRun` shows that a run ends; its
  deadline is why), dispose and recovery go on. Nobody has to ask, dispose, reload or crash,
  and writes of a stray process are not owed either.
* `Workbench`: the timer of a mounted run card fires (its effect re-arms it after an answer
  and after an error) and its reads are answered. Nothing is assumed of the Host's slower
  calls, of the list or of people.

## Proofs

TLAPS checks the seven `*Proofs` modules for every value of the constants. Every safety
invariant, every action property and the refinement that the passing runs check is stated by
a theorem there. TLC has also checked the inductive invariants `RInv`, `Concluded`, `HInv`,
`Pending`, `LimitInv`, `RefInv`, `QuietInv` and `IInv` on the constants of their component's
runs.

* **Run store, types and loss.** `RunStoreType` and `RunStoreNoSilentLoss` assume nothing
  beyond `LiveFaultAssumption`. The inductive invariant says that the complete lines of the
  log carry increasing sequence numbers and states that extend each other, that the record
  stands at the last of them, and that each acknowledged update is in the state of every line
  from some point on. No silent loss alone is not inductive: whether an append keeps it
  depends on what the record's `current` reflects.
* **Run store on a clean disk.** `RunStoreRestartExact`, `RunStoreAckedReadable`,
  `RunStoreProjectionBehind` and `RunStoreImplements` add the assumption `CleanDisk`, that a
  failing append in a live process leaves the log as it was. It is needed: the run
  `RunStoreTornLive` is what happens without it. A crash may still tear the last line. The
  projection needs that complete lines are never rewritten (`LogGrows`).
* **Refinement.** `RunStoreImplements` maps `applied` to what a load would recover. An append
  that ends is `DurableCommit`; a projection, a refusal and a failing append are
  `DurableAnswer`; a crash is a `DurableCrash`, which first commits when the torn write had
  left a whole line; a call is `Submit`; load, repair and the rest stutter. `RefInv` adds to
  the invariant that the queue holds each update that waits, once and in the order of
  submission (`QueueIsQueued`), and that what the log reflects has been answered or is at the
  head of the queue (`StoredIsAnswered`). Without the second an update could be rejected whose
  event is in the log.
* **Promotion.** `PromotionType`, `PromotionWriteAhead` and `PromotionCommitsWhole` hold for
  any candidate, any number of edits, crashes and faults, and any `QuietPc`. The inductive
  invariant adds which phase of the transaction each program counter stands for (`PhaseOf`),
  what has been verified when a commit is near (`Verified`), and that the rollback's last
  steps stand on a checkout swept of Arena's bytes (`Swept`).
* **The user's bytes.** `PromotionKeepsUserBytes` assumes `QuietWindows`: nobody edits while
  untracked files are copied or removed again, nor between a rollback's comparison and its
  last write. Edits at every other step, crashes and failures are free. `PromotionWindow` is
  what happens in a window. The invariant says that what the promotion has copied is still
  Arena's (`CopiedIsArenas`) and that what it has compared is still so (`SeenIsThere`).
* **Approval.** `ApprovedIsUnanimous` and `RejectionConclusiveInItsStage` hold for every set
  of check and review nodes and every policy.
* **A run.** `RunTypeOK`, `ApprovalIsSound`, `CompletionIsOver`, `CheckpointsOnlyAdvance`,
  `UsageOfFinishedStays` and `StoppedIsNotRestarted` hold for any list of distinct contenders,
  any limits, and any number of calls and crashes. `OrderAssumption` and `BoundAssumption` say
  no more than that. None of the properties is inductive: an approval is recorded long after
  its evidence was collected, with detours, crashes and other actors in between. `RInv` says,
  for each contender on its own (`Local`), which checkpoint its position stands on
  (`Progress`), which reviews and gate results belong to the sealed bytes and that a list of
  checks that an abort cut off cannot become an approval (`Evidence`), and when its state has
  left the active ones (`Outcome`); `Phases` ties the contenders to the main task, which waits
  for them. `stand` is where an actor goes on after `enforceBudget`, so that the detour, which
  may happen almost anywhere, leaves the invariant alone. A contender's step is proved to keep
  its own part (`TaskStep`) and to leave the others' alone (`Frame`).
* **When over is over.** `ConcludedIsFinal` proves that a run that completed, failed or
  exhausted its budget never becomes active again; `FinalUnlessCancelled` that every terminal
  status is final if nobody cancels. Together they are the exact extent of the violation that
  `ArenaRunCancel` finds. `Concluded` adds to `RInv` that a run that has ended has no main
  task, unless a cancellation ended it.
* **Previews.** `CandidatePreviewType`, `CandidatePreviewReclaims`,
  `CandidatePreviewReachable` and `CandidatePreviewDisposes` hold for any candidates and any
  number of calls. The inductive invariant `Safe` adds what exists at each point of a start
  call (`Unmade`, `Shown`), that a live process always has its handle (`Handled`), and, for
  candidates without overlapping calls, that a start in flight is alone with its process
  (`Alone`): without it the next `Register` could hide a live session.
* **The Host.** `HostType`, `HostOneWriter`, `HostCleanedIsGone`, `HostCommitsApart` and
  `HostActiveIsOwned` hold for any runs, limit and number of troubles. The invariant `HInv`
  speaks of the runs that are not in `late`. It adds that their calls, executors and contenders
  astray belong to the service that is there (`Calls`, `Executors`, `Astray`), which holds
  because dispose aborts and awaits the executors it knows and everything else it leaves
  behind makes its run late; that a cleanup that was not hasty meets nobody (`Cleaning`); that
  of the candidates that are committed or verified at most one has tracked edits in the
  checkout (`Committed`); and that a run is owned by an executor or still waits for its
  recovery, untouched (`Owned`, `Pending`).
* **The limit.** `HostLimitKept` counts the runs that are active, executed or being started,
  not the controllers: those of a crash come back without a look at the limit. As long as
  nothing irregular has happened these runs are at most `MaxRuns` (`LimitInv`), and each has a
  record that the service knows, so a start counts them all. `RunAssumption` (finitely many
  runs) is what a count needs.
* **The workbench.** `WorkbenchType`, `WorkbenchAdmits`, `WorkbenchEdits`, `WorkbenchSelects`
  and `WorkbenchOverwrites` hold for any workspaces, runs, policies and numbers of inputs and
  failures. The invariant `IInv` has a part for each side: what a call has read and what its
  position implies of the file, which after `InspectStatus` is the file of HEAD and after
  `Discover` that of the base, as long as nobody has written it since (`HostInv`,
  `Admissions`), and which calls, lists and polls
  can be on their way for what the client has selected (`Client`, `Cards`, `Forms`). That a
  started run stays selected, for example, needs that its list is the last one on its way
  and contains it.

What stays model-checked only is liveness (`UpdatesSettle`, `TransactionsResolve`,
`RunSettles`, `RunsSettle`, `ServiceSettles`, `CallsReturn`, `ExitIsNoticed`,
`ShownSettles`): its proofs need `ENABLED` and well-founded arguments that the installed
provers do not reach. The refinement theorem is about steps and not about fairness, of which
`DurableRun` states none.

## Not modelled

* What a human evaluation says: one guarded update that changes neither approval nor a
  preview. `ArenaHost` has its event.
* The loss of written data by the operating system (no `fsync`): a crash is one of the
  process.
* Text and layout: JSON, Git output parsing, prompts, reports, diff rendering, path
  strings, secret patterns.
* `createDemoProject`: a directory under a fresh name that is filled or removed, which no
  other operation knows until the user registers it.
* `selectWinner`: a sort of the approved candidates by facts of their patches; `ArenaRun`
  lets it choose any approved one.
* The checks of `resolveConfig`, the acknowledgement of unlimited budgets and the blockers
  that come from credentials, routes and reviewer identities: static facts of one
  configuration that no step changes.
* The inside of `runtime.run`: whether the model answers, fails, reports or hangs is what the
  other modules need, and they have all four.
* In the client: opening and closing the workbench, adding workspaces, the promotion panel
  (it survives a switch of the run, but its token is bound to a run and a candidate in the
  Host), the diff review (whose cache key has no run id) and previews.
* `PROJECT.json` lists every component with what is left out of it.

## What could follow

Models: a refinement of the executor and the promotion of `ArenaHost` by `ArenaRun` and
`Promotion`; the client's promotion panel. Theorems: the promises of `DurableRun` itself, and
lemmas of `SetupPolicy` apart from the client.
