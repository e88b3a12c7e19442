------------------------------ MODULE ArenaRun ------------------------------
(***************************************************************************)
(* One comparison run (service.ts execute, runContender, runReview, judge, *)
(* enforceBudget, maybeEarlyStop, cancel, dispose, scheduleRecovery).      *)
(*                                                                         *)
(* The actors are the run's main task, one task per contender, the         *)
(* deadline timer and a user who cancels.  They share the durable run      *)
(* state, and each changes it only through record.update: a call joins the *)
(* tail of the record, its mutate runs when it reaches the head, and the   *)
(* caller continues some time later.  pc[a] names what an actor waits for. *)
(*                                                                         *)
(* Abstractions.  Each stage has one required reviewer, whose one bounded  *)
(* repair turn is part of its answer.  A worktree is the number of writes  *)
(* it has seen, an artifact the number at which it was captured.  Only     *)
(* Builders report model calls; late says that the wall-time limit has     *)
(* passed.  There is one required test command; Checks says what each      *)
(* outcome of the gates leaves in the list of checks.  State updates       *)
(* succeed: RunStore has those that fail.                                  *)
(***************************************************************************)
EXTENDS Naturals, Sequences, FiniteSets, Functions, Approval

CONSTANTS
  Order,       \* the contenders in declared order
  Limit,       \* budget.limits.modelCalls, 0 for none
  StopAfter,   \* budget.stopAfterApproved, 0 for off
  MaxCall,     \* bound on the model calls of one Builder attempt
  MaxCrash,    \* bound on Host crashes
  Trouble      \* what interferes: the user, the wall-time limit, the gates
               \* that change the worktree

Contender == {Order[i] : i \in DOMAIN Order}

(* contenderIds are distinct, and none is another actor of the model *)
ASSUME OrderAssumption ==
  /\ Order \in Seq(Contender)
  /\ \A i, j \in DOMAIN Order : Order[i] = Order[j] => i = j
  /\ Contender \cap {"main", "deadline", "user"} = {}

ASSUME BoundAssumption == {Limit, StopAfter, MaxCall, MaxCrash} \subseteq Nat

Actor == Contender \cup {"main", "deadline", "user"}

Stage == {"logic", "security"}

VARIABLES
  run,        \* the durable ArenaRunState
  tree,       \* each contender's worktree: writes so far
  files,      \* each contender's artifact directory: the worktree captured
  up, resumed,  \* the Host runs; this execution recovers the run
  root, branch, \* abort reasons of the run's and the contenders' signals
  published,  \* RunControl.budgetPublished
  pc, tail,   \* where each actor stands; who waits in the record's tail
  ret,        \* where an actor continues after enforceBudget
  at,         \* the contender whose worktree main prepares
  made,       \* model calls of the current Builder attempt
  gates,      \* what judge returned to the contender's task
  stage,      \* the review stage of the contender's task
  targets,    \* the siblings that its early stop names
  late, crashes

local == <<at, made, gates, stage, targets>>
control == <<up, resumed, root, branch, published>>
disk == <<tree, files>>
vars == <<run, disk, control, pc, tail, ret, local, late, crashes>>

Active == {"queued", "preparing", "recovering", "running", "judging", "reviewing"}

(* CHECKPOINT_ORDER *)
Admitted == 0
WorktreeReady == 1
BuilderComplete == 2
ArtifactSealed == 3
DecisionComplete == 4

Decided(c) == run.checkpoint[c] >= DecisionComplete
Approved == {c \in Contender : run.decision[c] = "approved"}

-----------------------------------------------------------------------------
(* record.update and the budget *)

Await(a, label) == pc' = [pc EXCEPT ![a] = label] /\ tail' = Append(tail, a)
Resume(a, label) == pc' = [pc EXCEPT ![a] = label] /\ UNCHANGED tail
Turn(a, label) == up /\ tail # <<>> /\ Head(tail) = a /\ pc[a] = label

(* The update at the head is applied and its caller continues at label *)
Applied(a, label) == pc' = [pc EXCEPT ![a] = label] /\ tail' = Tail(tail)

Exhausted == late \/ (Limit > 0 /\ SumFunction(run.used) >= Limit)

(* enforceBudget, called by a, which goes on at label *)
EnforceBudget(a, label) ==
  IF published \/ root # "none" \/ ~Exhausted
  THEN Resume(a, label) /\ UNCHANGED <<published, ret>>
  ELSE /\ published' = TRUE
       /\ ret' = [ret EXCEPT ![a] = label]
       /\ Await(a, "budget")

BudgetPublished(a) ==
  /\ Turn(a, "budget")
  /\ run' = [run EXCEPT !.exhausted = TRUE]
  /\ Applied(a, "abort")
  /\ UNCHANGED <<disk, control, ret, local, late, crashes>>

(* A signal keeps its first reason; the root's abort reaches every branch *)
Abort(reason) ==
  LET first == IF root = "none" THEN reason ELSE root IN
  /\ root' = first
  /\ branch' = [c \in Contender |-> IF branch[c] = "none" THEN first ELSE branch[c]]

MutantBudgetNeverAborts(a) ==
  /\ up /\ pc[a] = "abort"
  /\ Resume(a, ret[a]) /\ ret' = [ret EXCEPT ![a] = "off"]
  /\ UNCHANGED <<run, disk, control, local, late, crashes>>

BudgetAborts(a) ==
  /\ up /\ pc[a] = "abort"
  /\ Abort("budget")
  /\ Resume(a, ret[a]) /\ ret' = [ret EXCEPT ![a] = "off"]
  /\ UNCHANGED <<run, disk, up, resumed, published, local, late, crashes>>

(* Every contender at work and every open review ends with the run *)
Swept(status, contenderStatus) ==
  [run EXCEPT
    !.status = status,
    !.state = [c \in Contender |-> IF @[c] \in Active THEN contenderStatus ELSE @[c]]]

Stopped(status) ==
  [Swept(status, "cancelled") EXCEPT
    !.review = [c \in Contender |-> [s \in Stage |->
      IF @[c][s].status \in {"queued", "running"} THEN [@[c][s] EXCEPT !.status = "cancelled"]
                                                  ELSE @[c][s]]]]

-----------------------------------------------------------------------------
(* execute *)

MainOnly == <<disk, control, ret, made, gates, stage, targets, late, crashes>>

MainBegins ==
  /\ up /\ pc["main"] = "begin"
  /\ EnforceBudget("main", "context")
  /\ UNCHANGED <<run, disk, up, resumed, root, branch, local, late, crashes>>

(* finishBudgetExhausted or finishCancelled: only a run still active changes *)
Finish ==
  IF run.status \in Active
  THEN Await("main", IF root = "budget" THEN "budgetOut" ELSE "cancelOut")
  ELSE Resume("main", "over")

(* The catch of execute *)
MainCatches == IF root # "none" THEN Finish ELSE Await("main", "fail")

MainChecks ==
  /\ up /\ pc["main"] = "context"
  /\ IF root # "none" THEN MainCatches ELSE Resume("main", "shared")
  /\ UNCHANGED <<run, at, MainOnly>>

(* loadOrBuildSharedContext: it is built by commands that an abort ends, or
   read back from its file; either may fail *)
MainContext ==
  /\ up /\ pc["main"] = "shared"
  /\ \/ ~run.context /\ root = "none" /\ Await("main", "context!")
     \/ run.context /\ Await("main", "prepare")
     \/ MainCatches
  /\ UNCHANGED <<run, at, MainOnly>>

MainContextBuilt ==
  /\ Turn("main", "context!")
  /\ run' = [run EXCEPT !.context = TRUE]
  /\ Applied("main", "shared")
  /\ UNCHANGED <<at, MainOnly>>

MainPrepares ==
  /\ Turn("main", "prepare")
  /\ run' = [run EXCEPT !.status = IF resumed THEN "recovering" ELSE "preparing"]
  /\ at' = 1
  /\ Applied("main", "loop")
  /\ UNCHANGED MainOnly

Skipped(c) == Decided(c) \/ c \in run.stopped

MainLoops ==
  /\ up /\ pc["main"] = "loop"
  /\ IF at > Len(Order) THEN Await("main", "start") /\ at' = at
     ELSE IF Skipped(Order[at]) THEN Resume("main", "loop") /\ at' = at + 1
     ELSE /\ at' = at
          /\ IF root # "none" THEN MainCatches ELSE Await("main", "contender")
  /\ UNCHANGED <<run, MainOnly>>

MainTakesContender ==
  /\ Turn("main", "contender")
  /\ run' = [run EXCEPT !.state[Order[at]] = IF resumed THEN "recovering" ELSE "preparing"]
  /\ Applied("main", "worktree")
  /\ UNCHANGED <<at, MainOnly>>

(* ensureWorktree *)
MainWorktree ==
  /\ up /\ pc["main"] = "worktree"
  /\ \/ root = "none" /\ Await("main", "ready")
     \/ MainCatches
  /\ UNCHANGED <<run, at, MainOnly>>

ReadyCheckpoint(k) == IF k >= WorktreeReady THEN k ELSE WorktreeReady

MainReady ==
  /\ Turn("main", "ready")
  /\ run' = [run EXCEPT !.state[Order[at]] = "queued",
                        !.checkpoint[Order[at]] = ReadyCheckpoint(@)]
  /\ at' = at + 1
  /\ Applied("main", "loop")
  /\ UNCHANGED MainOnly

MainStarts ==
  /\ Turn("main", "start")
  /\ run' = [run EXCEPT !.status = "running"]
  /\ Applied("main", "spawn")
  /\ UNCHANGED <<at, MainOnly>>

MutantWorkAll(c) == ~Decided(c)
Work(c) == ~Decided(c) /\ c \notin run.stopped

(* A Builder that has finished is not started again *)
MutantBuildsAgain(c) == IF run.checkpoint[c] > BuilderComplete THEN "reuse" ELSE "attempt"
FirstUpdate(c) == IF run.checkpoint[c] >= BuilderComplete THEN "reuse" ELSE "attempt"

(* The sequence of the contenders of S in declared order *)
Before(c, d) == \E i, j \in DOMAIN Order : i < j /\ Order[i] = c /\ Order[j] = d

InOrder(S) ==
  {s \in UNION {[1..n -> S] : n \in 0..Len(Order)} :
     Range(s) = S /\ \A i, j \in DOMAIN s : i < j => Before(s[i], s[j])}

(* runContender starts for each, in order, and reaches its first update *)
MainSpawns ==
  /\ up /\ pc["main"] = "spawn"
  /\ pc' = [a \in Actor |->
       IF a = "main" THEN "join"
       ELSE IF a \in Contender /\ Work(a) THEN FirstUpdate(a)
       ELSE pc[a]]
  /\ \E started \in InOrder({c \in Contender : Work(c)}) : tail' = tail \o started
  /\ UNCHANGED <<run, at, MainOnly>>

(* Promise.all left at the abort, with branches still on their way *)
MutantJoinsAborted ==
  /\ up /\ pc["main"] = "join"
  /\ IF root # "none" THEN Finish
     ELSE /\ \A c \in Contender : pc[c] \in {"idle", "done"}
          /\ Await("main", IF Approved = {} THEN "noWinner" ELSE "winner")
  /\ UNCHANGED <<run, at, MainOnly>>

MainJoins ==
  /\ up /\ pc["main"] = "join"
  /\ \A c \in Contender : pc[c] \in {"idle", "done"}
  /\ IF root # "none" THEN Finish
     ELSE Await("main", IF Approved = {} THEN "noWinner" ELSE "winner")
  /\ UNCHANGED <<run, at, MainOnly>>

(* selectWinner ranks by facts of the patches: any approved contender *)
MutantAnyWinner == Contender
Eligible == Approved

MainEnds ==
  /\ \/ /\ Turn("main", "budgetOut")
        /\ run' = [Stopped("budget-exhausted") EXCEPT !.exhausted = TRUE]
     \/ Turn("main", "cancelOut") /\ run' = Stopped("cancelled")
     \/ Turn("main", "fail") /\ run' = Swept("failed", "failed")
     \/ Turn("main", "noWinner") /\ run' = [run EXCEPT !.status = "completed"]
     \/ /\ Turn("main", "winner")
        /\ \E c \in Eligible : run' = [run EXCEPT !.status = "completed", !.winner = {c}]
  /\ Applied("main", "over")
  /\ UNCHANGED <<at, MainOnly>>

(* The timer is cleared and the controller deleted *)
MainOver ==
  /\ up /\ pc["main"] = "over"
  /\ pc' = [pc EXCEPT !["main"] = "off", !["deadline"] = IF @ = "armed" THEN "off" ELSE @]
  /\ UNCHANGED <<run, tail, at, MainOnly>>

Main ==
  \/ MainBegins \/ MainChecks \/ MainContext \/ MainContextBuilt \/ MainPrepares \/ MainLoops
  \/ MainTakesContender \/ MainWorktree \/ MainReady \/ MainStarts \/ MainSpawns \/ MainJoins \/ MainEnds \/ MainOver

-----------------------------------------------------------------------------
(* runContender *)

TaskOnly == <<up, resumed, root, branch, published, ret, at, late, crashes>>

BuilderStarts(c) ==
  /\ Turn(c, "attempt")
  /\ run' = [run EXCEPT !.state[c] = "running"]
  /\ made' = [made EXCEPT ![c] = 0]
  /\ Applied(c, "build")
  /\ UNCHANGED <<disk, gates, stage, targets, TaskOnly>>

CheckpointReused(c) ==
  /\ Turn(c, "reuse")
  /\ run' = [run EXCEPT !.state[c] = "judging"]
  /\ Applied(c, "seal")
  /\ UNCHANGED <<disk, made, gates, stage, targets, TaskOnly>>

(* The Builder edits its worktree and reports a model call *)
BuilderWorks(c) ==
  /\ up /\ pc[c] = "build" /\ branch[c] = "none"
  /\ made[c] < MaxCall
  /\ made' = [made EXCEPT ![c] = @ + 1]
  /\ tree' = [tree EXCEPT ![c] = @ + 1]
  /\ Await(c, "progress")
  /\ UNCHANGED <<run, files, gates, stage, targets, TaskOnly>>

(* The result is there; a last report precedes it *)
BuilderAnswers(c) ==
  /\ up /\ pc[c] = "build" /\ branch[c] = "none"
  /\ Await(c, "answer")
  /\ UNCHANGED <<run, disk, made, gates, stage, targets, TaskOnly>>

(* A report replaces what an earlier attempt had used *)
BuilderReported(c) ==
  /\ \/ Turn(c, "progress") /\ Applied(c, "reported")
     \/ Turn(c, "answer") /\ Applied(c, "answered")
  /\ run' = [run EXCEPT !.used[c] = made[c]]
  /\ UNCHANGED <<disk, made, gates, stage, targets, TaskOnly>>

BuilderReturns(c) ==
  /\ up /\ pc[c] = "return"
  /\ Await(c, "built")
  /\ UNCHANGED <<run, disk, made, gates, stage, targets, TaskOnly>>

BuilderFinished(c) ==
  /\ Turn(c, "built")
  /\ run' = [run EXCEPT !.status = IF @ = "running" THEN "judging" ELSE @,
                        !.state[c] = "judging",
                        !.used[c] = made[c],
                        !.checkpoint[c] = BuilderComplete]
  /\ Applied(c, "finished")
  /\ UNCHANGED <<disk, made, gates, stage, targets, TaskOnly>>

(* Where a contender's task calls enforceBudget *)
Enforced == [reported |-> "build", answered |-> "return", finished |-> "proceed",
             heard |-> "parse", reviewed |-> "next"]

TaskEnforces(c) ==
  /\ up /\ pc[c] \in DOMAIN Enforced
  /\ EnforceBudget(c, Enforced[pc[c]])
  /\ UNCHANGED <<run, disk, up, resumed, root, branch, local, late, crashes>>

Proceeds(c) ==
  /\ up /\ pc[c] = "proceed" /\ branch[c] = "none"
  /\ Resume(c, "seal")
  /\ UNCHANGED <<run, disk, made, gates, stage, targets, TaskOnly>>

MutantSealedNever(c) == FALSE
Sealed(c) == run.checkpoint[c] >= ArtifactSealed

(* readCapturedCandidate: the artifact directory still holds what was sealed; a
   directory that does not makes the task fail *)
Intact(c) == files[c] = run.seal[c]

(* ArenaGit.capture: the worktree's changes replace what the artifact directory
   held; an abort kills its git commands *)
Capture(c) == branch[c] = "none" /\ files' = [files EXCEPT ![c] = tree[c]]

(* A resumed contender reads its sealed artifact; any other one captures, and then
   seals by an update *)
Seals(c) ==
  /\ up /\ pc[c] = "seal"
  /\ \/ Sealed(c) /\ Intact(c) /\ Resume(c, "gates") /\ UNCHANGED files
     \/ ~Sealed(c) /\ Capture(c) /\ Await(c, "sealed")
  /\ UNCHANGED <<run, tree, made, gates, stage, targets, TaskOnly>>

ArtifactIsSealed(c) ==
  /\ Turn(c, "sealed")
  /\ run' = [run EXCEPT !.seal[c] = files[c], !.checkpoint[c] = ArtifactSealed]
  /\ Applied(c, "gates")
  /\ UNCHANGED <<disk, made, gates, stage, targets, TaskOnly>>

JudgeStarts(c) ==
  /\ up /\ pc[c] = "gates" /\ branch[c] = "none"
  /\ Resume(c, "judge")
  /\ UNCHANGED <<run, disk, made, gates, stage, targets, TaskOnly>>

(* What judge and the review bundle leave in the list of checks.  The security
   preflight blocks execution; a command fails, is cancelled or in error, or is
   cut off by an abort before it starts; the bundle is too large, or is not
   built when a check did not pass. *)
Check(s, status) == [stage |-> s, required |-> TRUE, status |-> status]

Checks(outcome) ==
  {Check("integrity", "passed"), Check("quality", "passed"), Check("test", "passed"),
   Check("security", IF outcome = "blocked" THEN "failed" ELSE "passed"),
   Check("logic", IF outcome \in {"passed", "cut"} THEN "passed"
                  ELSE IF outcome = "oversize" THEN "failed" ELSE "skipped")}
  \cup (CASE outcome = "blocked" -> {Check("test", "skipped")}
          [] outcome = "failed"  -> {Check("test", "failed")}
          [] outcome = "error"   -> {Check("test", "error")}
          [] OTHER               -> {})

(* The commands run in the worktree and may change it.  An abort cancels the
   command at work, or comes between two and cuts the rest off. *)
JudgeEnds(c) ==
  /\ up /\ pc[c] = "judge"
  /\ gates' \in {[gates EXCEPT ![c] = outcome] : outcome \in {"failed", "blocked", "error"} \cup
       (IF branch[c] = "none" THEN {"passed", "oversize"} ELSE {"cut"})}
  /\ tree' \in {tree} \cup {[tree EXCEPT ![c] = @ + 1] : t \in Trouble \cap {"gates"}}
  /\ stage' = [stage EXCEPT ![c] = "logic"]
  /\ Await(c, IF RequiredChecksPassed(Checks(gates'[c])) THEN "reviewing" ELSE "skip")
  /\ UNCHANGED <<run, files, made, targets, TaskOnly>>

ReviewsStart(c) ==
  /\ Turn(c, "reviewing")
  /\ run' = [run EXCEPT !.status = "reviewing", !.state[c] = "reviewing"]
  /\ Applied(c, "review")
  /\ UNCHANGED <<disk, made, gates, stage, targets, TaskOnly>>

(* runReview *)
Review(c) == run.review[c][stage[c]]
WithReview(c, status) == [run EXCEPT !.review[c][stage[c]].status = status]

Reusable(c) == Review(c).status \in {"approved", "rejected"} /\ Review(c).of = run.seal[c]

ReviewOpens(c) ==
  /\ up /\ pc[c] = "review"
  /\ IF Reusable(c) THEN Resume(c, "next") ELSE Await(c, "open")
  /\ UNCHANGED <<run, disk, made, gates, stage, targets, TaskOnly>>

ReviewRuns(c) ==
  /\ Turn(c, "open")
  /\ run' = [run EXCEPT !.review[c][stage[c]] = [status |-> "running", of |-> run.seal[c]]]
  /\ Applied(c, "reviewer")
  /\ UNCHANGED <<disk, made, gates, stage, targets, TaskOnly>>

ReviewerAnswers(c) ==
  /\ up /\ pc[c] = "reviewer" /\ branch[c] = "none"
  /\ Await(c, "told")
  /\ UNCHANGED <<run, disk, made, gates, stage, targets, TaskOnly>>

(* The last progress report, which changes counts the model leaves out *)
ReviewReported(c) ==
  /\ Turn(c, "told")
  /\ Applied(c, "heard")
  /\ UNCHANGED <<run, disk, made, gates, stage, targets, TaskOnly>>

ReviewParsed(c) ==
  /\ up /\ pc[c] = "parse"
  /\ Await(c, "approve") \/ Await(c, "reject")
  /\ UNCHANGED <<run, disk, made, gates, stage, targets, TaskOnly>>

ReviewerBreaks(c) ==
  /\ up /\ pc[c] \in {"reviewer", "parse"}
  /\ Await(c, "broken")
  /\ UNCHANGED <<run, disk, made, gates, stage, targets, TaskOnly>>

ReviewCloses(c) ==
  /\ \/ Turn(c, "approve") /\ run' = WithReview(c, "approved") /\ Applied(c, "reviewed")
     \/ Turn(c, "reject") /\ run' = WithReview(c, "rejected") /\ Applied(c, "reviewed")
     \/ /\ Turn(c, "broken")
        /\ run' = WithReview(c, IF branch[c] = "none" THEN "failed" ELSE "cancelled")
        /\ Applied(c, "next")
  /\ UNCHANGED <<disk, made, gates, stage, targets, TaskOnly>>

(* Security reviewers start once the logic stage approved *)
ReviewNext(c) ==
  /\ up /\ pc[c] = "next"
  /\ IF stage[c] = "security" THEN Resume(c, "decide") /\ UNCHANGED stage
     ELSE /\ stage' = [stage EXCEPT ![c] = "security"]
          /\ IF Review(c).status = "approved" THEN Resume(c, "review") ELSE Await(c, "skip")
  /\ UNCHANGED <<run, disk, made, gates, targets, TaskOnly>>

(* skipReviews: of the stages that are left, the queued ones *)
ReviewsSkipped(c) ==
  /\ Turn(c, "skip")
  /\ run' = [run EXCEPT !.review[c] = [s \in Stage |->
       IF @[s].status = "queued" /\ (stage[c] = "logic" \/ s = "security")
       THEN [@[s] EXCEPT !.status = "skipped"] ELSE @[s]]]
  /\ Applied(c, "decide")
  /\ UNCHANGED <<disk, made, gates, stage, targets, TaskOnly>>

(* decideApproval, of the task's checks and the recorded reviews *)
Reviews(c) ==
  {[stage |-> s, required |-> TRUE, status |-> run.review[c][s].status] : s \in Stage}

Decision(c) == decideApproval(Checks(gates[c]), Reviews(c), {"test", "logic", "security"})

MutantStableIgnoresAbort(c) == tree[c] = run.seal[c]

(* assertCandidateStable captures again, which an abort prevents *)
Stable(c) == branch[c] = "none" /\ tree[c] = run.seal[c]

Decides(c) ==
  /\ up /\ pc[c] = "decide"
  /\ Decision(c) = "approved" => Stable(c)
  /\ Await(c, "decided")
  /\ UNCHANGED <<run, disk, made, gates, stage, targets, TaskOnly>>

DecisionRecorded(c) ==
  /\ Turn(c, "decided")
  /\ run' = [run EXCEPT
       !.state[c] = CASE Decision(c) = "approved"    -> "passed"
                      [] Decision(c) = "unavailable" -> "evaluation-unavailable"
                      [] OTHER                       -> "rejected",
       !.decision[c] = Decision(c),
       !.checks[c] = gates[c],
       !.checkpoint[c] = DecisionComplete]
  /\ Applied(c, "early")
  /\ UNCHANGED <<disk, made, gates, stage, targets, TaskOnly>>

(* maybeEarlyStop *)
Unfinished(c) == {d \in Contender \ {c} : ~Decided(d) /\ run.state[d] \in Active}

StopsEarly(c) ==
  /\ up /\ pc[c] = "early"
  /\ IF StopAfter > 0 /\ Cardinality(Approved) >= StopAfter /\ Unfinished(c) # {}
     THEN targets' = [targets EXCEPT ![c] = Unfinished(c)] /\ Await(c, "stop")
     ELSE targets' = targets /\ Resume(c, "done")
  /\ UNCHANGED <<run, disk, made, gates, stage, TaskOnly>>

EarlyStopRecorded(c) ==
  /\ Turn(c, "stop")
  /\ run' = [run EXCEPT !.stopped = @ \cup targets[c]]
  /\ Applied(c, "stopped")
  /\ UNCHANGED <<disk, made, gates, stage, targets, TaskOnly>>

EarlyStopAborts(c) ==
  /\ up /\ pc[c] = "stopped"
  /\ branch' = [d \in Contender |->
       IF d \in targets[c] /\ branch[d] = "none" THEN "early" ELSE branch[d]]
  /\ targets' = [targets EXCEPT ![c] = {}]
  /\ Resume(c, "done")
  /\ UNCHANGED <<run, disk, up, resumed, root, published, ret, at, made, gates, stage, late, crashes>>

(* What the task awaits fails, or sees the abort *)
Throws(c) ==
  /\ up /\ pc[c] \in {"build", "proceed", "seal", "gates", "judge", "decide"}
  /\ pc[c] = "proceed" => branch[c] # "none"
  /\ pc[c] = "decide" => Decision(c) = "approved"
  /\ Await(c, "catch")
  /\ UNCHANGED <<run, disk, made, gates, stage, targets, TaskOnly>>

Caught(c) ==
  /\ Turn(c, "catch")
  /\ run' = [run EXCEPT !.state[c] = IF branch[c] = "none" THEN "failed" ELSE "cancelled"]
  /\ Applied(c, "done")
  /\ UNCHANGED <<disk, made, gates, stage, targets, TaskOnly>>

(* A child runtime takes its own time *)
Child(c) ==
  \/ BuilderWorks(c) \/ BuilderAnswers(c) \/ ReviewerAnswers(c)
  \/ branch[c] = "none" /\ pc[c] = "build" /\ Throws(c)
  \/ branch[c] = "none" /\ pc[c] = "reviewer" /\ ReviewerBreaks(c)

(* The task itself goes on, and ends a child once it is aborted *)
Task(c) ==
  \/ BuilderStarts(c) \/ CheckpointReused(c) \/ BuilderReported(c) \/ BuilderReturns(c)
  \/ BuilderFinished(c) \/ TaskEnforces(c) \/ Proceeds(c) \/ Seals(c) \/ ArtifactIsSealed(c)
  \/ JudgeStarts(c) \/ JudgeEnds(c) \/ ReviewsStart(c) \/ ReviewOpens(c) \/ ReviewRuns(c)
  \/ ReviewReported(c) \/ ReviewParsed(c) \/ ReviewCloses(c) \/ ReviewNext(c) \/ ReviewsSkipped(c)
  \/ Decides(c) \/ DecisionRecorded(c) \/ StopsEarly(c) \/ EarlyStopRecorded(c) \/ EarlyStopAborts(c)
  \/ (branch[c] # "none" \/ pc[c] # "build") /\ Throws(c)
  \/ (branch[c] # "none" \/ pc[c] # "reviewer") /\ ReviewerBreaks(c)
  \/ Caught(c)

-----------------------------------------------------------------------------
(* The deadline timer, the user, the Host *)

TimePasses ==
  /\ "time" \in Trouble /\ ~late
  /\ late' = TRUE
  /\ UNCHANGED <<run, disk, control, pc, tail, ret, local, crashes>>

DeadlineFires ==
  /\ up /\ pc["deadline"] = "armed" /\ late
  /\ EnforceBudget("deadline", "off")
  /\ UNCHANGED <<run, disk, up, resumed, root, branch, local, late, crashes>>

Live == up /\ pc["main"] # "off"

(* cancel: the abort, then the update *)
Cancel ==
  /\ "user" \in Trouble /\ Live
  /\ pc["user"] = "idle"
  /\ run.status \in Active
  /\ Abort("cancel")
  /\ Await("user", "cancel")
  /\ UNCHANGED <<run, disk, up, resumed, published, ret, local, late, crashes>>

Cancelled ==
  /\ Turn("user", "cancel")
  /\ run' = Stopped("cancelled")
  /\ Applied("user", "idle")
  /\ UNCHANGED <<disk, control, ret, local, late, crashes>>

(* dispose aborts the run and waits for its end *)
Dispose ==
  /\ "user" \in Trouble /\ Live
  /\ root = "none"
  /\ Abort("dispose")
  /\ UNCHANGED <<run, disk, up, resumed, published, pc, tail, ret, local, late, crashes>>

Idle == [a \in Actor |-> IF a \in Contender \cup {"user"} THEN "idle" ELSE "off"]

(* A new process has a new, empty tail *)
MutantTailSurvives == tail
TailAfterCrash == <<>>

Crash ==
  /\ up /\ crashes < MaxCrash
  /\ crashes' = crashes + 1
  /\ up' = FALSE /\ resumed' = FALSE /\ published' = FALSE
  /\ root' = "none" /\ branch' = [c \in Contender |-> "none"]
  /\ pc' = Idle /\ tail' = TailAfterCrash /\ ret' = [a \in Actor |-> "off"]
  /\ at' = 1 /\ made' = [c \in Contender |-> 0] /\ gates' = [c \in Contender |-> "none"]
  /\ stage' = [c \in Contender |-> "logic"] /\ targets' = [c \in Contender |-> {}]
  /\ UNCHANGED <<run, disk, late>>

(* scheduleRecovery: the update it makes of an active run *)
RecoveredState(c) ==
  IF Decided(c) THEN run.state[c]
  ELSE IF c \in run.stopped THEN "cancelled" ELSE "recovering"

RecoveredReview(c, r) ==
  IF Decided(c) THEN r
  ELSE IF c \in run.stopped
       THEN IF r.status \in {"queued", "running"} THEN [r EXCEPT !.status = "cancelled"] ELSE r
  ELSE IF r.status = "running" THEN [r EXCEPT !.status = "queued"] ELSE r

Restart ==
  /\ ~up
  /\ up' = TRUE
  /\ \/ /\ run.status \in Active
        /\ run' = [run EXCEPT
             !.status = "recovering",
             !.state = [c \in Contender |-> RecoveredState(c)],
             !.review = [c \in Contender |-> [s \in Stage |-> RecoveredReview(c, @[c][s])]]]
        /\ resumed' = TRUE
        /\ pc' = [pc EXCEPT !["main"] = "begin", !["deadline"] = "armed"]
     \/ run.status \in Active /\ run' = [run EXCEPT !.status = "failed"] /\ UNCHANGED <<resumed, pc>>
     \/ run.status \notin Active /\ UNCHANGED <<run, resumed, pc>>
  /\ UNCHANGED <<disk, root, branch, published, tail, ret, local, late, crashes>>

-----------------------------------------------------------------------------
(* The run is created, and execute scheduled *)
Init ==
  /\ run = [status |-> "queued", winner |-> {}, exhausted |-> FALSE, stopped |-> {},
            context |-> FALSE,
            checkpoint |-> [c \in Contender |-> Admitted],
            state |-> [c \in Contender |-> "queued"],
            review |-> [c \in Contender |-> [s \in Stage |-> [status |-> "queued", of |-> 0]]],
            used |-> [c \in Contender |-> 0],
            seal |-> [c \in Contender |-> 0],
            decision |-> [c \in Contender |-> "none"],
            checks |-> [c \in Contender |-> "none"]]
  /\ tree = [c \in Contender |-> 0] /\ files = [c \in Contender |-> 0]
  /\ up = TRUE /\ resumed = FALSE /\ published = FALSE
  /\ root = "none" /\ branch = [c \in Contender |-> "none"]
  /\ pc = [Idle EXCEPT !["main"] = "begin", !["deadline"] = "armed"]
  /\ tail = <<>> /\ ret = [a \in Actor |-> "off"]
  /\ at = 1 /\ made = [c \in Contender |-> 0] /\ gates = [c \in Contender |-> "none"]
  /\ stage = [c \in Contender |-> "logic"] /\ targets = [c \in Contender |-> {}]
  /\ late = FALSE /\ crashes = 0

Host ==
  \/ Main
  \/ \E c \in Contender : Task(c)
  \/ \E a \in Actor : BudgetPublished(a) \/ BudgetAborts(a)
  \/ DeadlineFires
  \/ Cancelled

Next ==
  \/ Host
  \/ \E c \in Contender : Child(c)
  \/ TimePasses
  \/ Cancel
  \/ Dispose
  \/ Crash
  \/ Restart

Spec == Init /\ [][Next]_vars

(* The Host's own steps are taken, by every actor; commands have timeouts.  A
   child runtime may never answer: only time and an abort end it. *)
Fairness ==
  /\ WF_vars(Main)
  /\ \A c \in Contender : WF_vars(Task(c))
  /\ \A a \in Actor : WF_vars(BudgetPublished(a) \/ BudgetAborts(a))
  /\ WF_vars(DeadlineFires) /\ WF_vars(Cancelled) /\ WF_vars(TimePasses) /\ WF_vars(Restart)

FairSpec == Spec /\ Fairness

-----------------------------------------------------------------------------
(* Properties *)

MainPc == {"off", "begin", "context", "shared", "context!", "prepare", "loop", "contender",
           "worktree", "ready", "start", "spawn", "join", "winner", "noWinner", "fail",
           "budgetOut", "cancelOut", "over"}
TaskPc == {"idle", "attempt", "reuse", "build", "progress", "answer", "return", "built",
           "proceed", "seal", "sealed", "gates", "judge", "reviewing", "review", "open",
           "reviewer", "told", "parse", "approve", "reject", "broken", "next", "skip",
           "decide", "decided", "early", "stop", "stopped", "catch", "done"} \cup DOMAIN Enforced
PcOf(a) == {"budget", "abort"} \cup
  (IF a \in Contender THEN TaskPc ELSE IF a = "main" THEN MainPc
   ELSE IF a = "deadline" THEN {"off", "armed"} ELSE {"idle", "cancel"})

Reason == {"none", "cancel", "budget", "dispose"}
Finished == {"completed", "failed", "cancelled", "budget-exhausted"}
GateOutcome == {"none", "passed", "failed", "blocked", "error", "oversize", "cut"}

RunType ==
  [status : Active \cup Finished, winner : SUBSET Contender, exhausted : BOOLEAN,
   stopped : SUBSET Contender, context : BOOLEAN,
   checkpoint : [Contender -> Admitted .. DecisionComplete],
   state : [Contender -> Active \cup {"passed", "rejected", "evaluation-unavailable",
                                      "failed", "cancelled"}],
   review : [Contender -> [Stage -> [status : ReviewStatus, of : Nat]]],
   used : [Contender -> Nat], seal : [Contender -> Nat],
   decision : [Contender -> {"none", "approved", "rejected", "unavailable"}],
   checks : [Contender -> GateOutcome]]

(* Every variable has its type, and nobody waits twice in the record's tail. *)
TypeOK ==
  /\ run \in RunType
  /\ tree \in [Contender -> Nat] /\ files \in [Contender -> Nat]
  /\ up \in BOOLEAN /\ resumed \in BOOLEAN /\ published \in BOOLEAN
  /\ root \in Reason /\ branch \in [Contender -> Reason \cup {"early"}]
  /\ DOMAIN pc = Actor /\ \A a \in Actor : pc[a] \in PcOf(a)
  /\ tail \in Seq(Actor) /\ \A i, j \in DOMAIN tail : tail[i] = tail[j] => i = j
  /\ DOMAIN ret = Actor /\ \A a \in Actor : ret[a] \in PcOf(a) \cup {"off"}
  /\ at \in 1 .. Len(Order) + 1 /\ made \in [Contender -> 0 .. MaxCall]
  /\ gates \in [Contender -> GateOutcome]
  /\ stage \in [Contender -> Stage] /\ targets \in [Contender -> SUBSET Contender]
  /\ late \in BOOLEAN /\ crashes \in 0 .. MaxCrash

(* An approval rests on evidence that was all collected for the sealed bytes:
   every required gate ran to its end and passed, although an abort leaves a
   list of checks without a failure, and every required review approved this
   very artifact, although reviews are reused after a restart. *)
ApprovalSound ==
  \A c \in Approved :
    /\ run.checks[c] = "passed"
    /\ \A s \in Stage : run.review[c][s] = [status |-> "approved", of |-> run.seal[c]]
    /\ files[c] = run.seal[c]

(* Progress is never undone, whoever writes and however often the Host
   restarts: checkpoints only advance, what is sealed and decided stays. *)
CheckpointsAdvance ==
  [][\A c \in Contender :
       /\ run'.checkpoint[c] >= run.checkpoint[c]
       /\ run.checkpoint[c] >= ArtifactSealed => run'.seal[c] = run.seal[c]
       /\ Decided(c) => run'.decision[c] = run.decision[c]]_vars

Resting(c) == pc[c] \in {"idle", "done"}

(* A comparison completes over contenders that all have ended, its winner is
   approved, and the main task outlives the contenders' tasks. *)
CompletedIsOver ==
  /\ run.winner \subseteq Approved
  /\ run.status = "completed" => \A c \in Contender : run.state[c] \notin Active
  /\ run.status = "completed" \/ pc["main"] \in {"over", "off"} => \A c \in Contender : Resting(c)

(* A contender that an early stop ended is not started again by a restart. *)
StoppedStayStopped ==
  [][\A c \in run.stopped : pc[c] = "idle" => pc'[c] = "idle"]_vars

(* Every run ends for good: whatever the children do, time, the budget, a
   cancellation or a shutdown ends it, and restarts do not keep it alive. *)
RunSettles == <>[](run.status \notin Active)

(* A status that says the run is over is final. *)
TerminalIsFinal ==
  [][run.status \notin Active => run'.status \notin Active]_vars

(* Only a cancellation, which is published while tasks still work, can be
   followed by updates that make the run active again: a run that completed,
   failed or exhausted its budget is over for every task (service.ts execute). *)
ConcludedStays ==
  [][run.status \in Finished \ {"cancelled"} => run'.status \notin Active]_vars

(* What a finished Builder has used stays counted against the limit, whatever
   crashes and restarts follow; the report of a later attempt, which begins at
   zero, discards only the usage of an attempt that never finished (service.ts
   runContender). *)
FinishedUsageStays ==
  [][\A c \in Contender :
       run.checkpoint[c] >= BuilderComplete => run'.used[c] = run.used[c]]_vars
=============================================================================
