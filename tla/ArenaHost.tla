------------------------------ MODULE ArenaHost -----------------------------
(***************************************************************************)
(* The runs of one Host together (service.ts start, retry, cancel,         *)
(* cleanup, confirmPromotion, dispose, initialize, scheduleRun,            *)
(* scheduleRecovery): admission under the limit on concurrent runs, one    *)
(* executor per run, removal of the worktrees, promotion of several runs   *)
(* into the checkout they share, a plugin that is disposed and loaded      *)
(* again in the same process, and a Host that crashes.                     *)
(*                                                                         *)
(* Abstractions.  What an executor does is ArenaRun's subject and what a   *)
(* promotion writes, byte for byte, is Promotion's: here a run is active   *)
(* or has one of the ways to end (a budget-exhausted run counts as         *)
(* failed), an executor prepares, adds worktrees, works and ends, and a    *)
(* candidate edits tracked files, adds files, or both; the candidates of   *)
(* two runs are different and add different files.  The checkout is what   *)
(* was committed to it and what lies on top of HEAD; nobody stages without *)
(* committing.  All runs are of one repository, and one worktree stands    *)
(* for those of all contenders.  Executors and calls are indexed by the    *)
(* run and by the generation of the service they belong to: nothing stops  *)
(* the calls of a disposed one.                                            *)
(***************************************************************************)
EXTENDS Naturals, Sequences, FiniteSets

CONSTANTS
  Run,        \* runs
  User,       \* the user, as the author of bytes in the checkout
  Edits, Adds, \* runs whose candidates edit tracked files, and add files
  MaxRuns,    \* maxConcurrentRuns
  MaxCalls,   \* bound on the calls in flight together
  MaxTrouble  \* bound on disposals, crashes, state events that cannot be
              \* written and what the user does to the checkout, in all

ASSUME RunAssumption == IsFiniteSet(Run) /\ User \notin Run
ASSUME CandidateAssumption == Edits \subseteq Run /\ Adds \subseteq Run /\ Edits \cup Adds = Run
ASSUME LimitAssumption == MaxRuns \in Nat \ {0}
ASSUME BoundAssumption == MaxTrouble \in Nat /\ MaxCalls \in Nat

VARIABLES
  service,     \* the service: up, closing, draining, down or booting
  gen,         \* its generation
  known,       \* its records
  todo,        \* those it has still to recover
  status,      \* status of a run on record
  cleaned,     \* runs with cleanedAt
  txn,         \* promotionTransaction of a run: none, open, committed or attention
  broken,      \* event logs that two services have appended to
  base,        \* baseCommit of a run
  exec,        \* executors
  strays,      \* executors that ended while a contender's process was still at work
  aborted,     \* executors whose controller has been aborted
  awaited,     \* executors dispose waits for
  starting, cancelling, promoting,   \* calls in flight
  aside,       \* those on a run that has ended, and events nobody waits for
  tree,        \* runs with a worktree, or with what was written after it was removed
  commits, bytes, \* what was committed to the checkout, and what lies on top of it
  overlapped,  \* history: a start was checked while another was in flight
  late,        \* history: runs with a call in flight when a dispose began, or
               \* with a contender astray when it was done
  hasty,       \* history: cleanups that began before the executor had ended
  lost,        \* history: runs whose last state event could not be written
  trouble      \* how much of MaxTrouble has happened

record == <<status, cleaned, txn, broken>>
calls == <<starting, cancelling, promoting, aside>>
control == <<exec, aborted, strays>>
lifecycle == <<service, gen, known, todo, awaited>>
checkout == <<commits, bytes>>
history == <<overlapped, late, hasty, lost>>
vars == <<record, calls, control, lifecycle, checkout, history, trouble, base, tree>>

-----------------------------------------------------------------------------
Generation == 0..MaxTrouble
Job == Run \X Generation

Of(r) == <<r, gen>>

(* The keys of the service's map of controllers *)
Controllers == {r \in Run : exec[Of(r)] # "none"}

Active(r) == status[r] = "active"

OwnJobs == {Of(r) : r \in Controllers}

(* A call on a run, or an event that nobody waits for, is in flight *)
Called(j) ==
  \/ starting[j] # "none" \/ j \in cancelling \/ promoting[j] # "none"
  \/ aside[j] # "none"

(* start and create, before the controller is added *)
InFlight == {"checked", "clean", "frozen"}

(* How a candidate changes a file, or the user *)
Kind == {"tracked", "added"}

HEAD == Len(commits)

(* git.ts inspect: nothing lies in the checkout on top of HEAD.  HEAD itself is
   read by a command of its own, later; who compares it with a base that is
   older than the first command finds what one look would have found. *)
Clean == bytes = {}

OwnTracked(r) == {<<q, "tracked">> : q \in {r} \cap Edits}
OwnAdded(r) == {<<q, "added">> : q \in {r} \cap Adds}
Own(r) == OwnTracked(r) \cup OwnAdded(r)

(* git diff base: edits of tracked files, and all that was committed since *)
Tracked == {b \in bytes : b[2] = "tracked"}
Since(r) == UNION {commits[i] : i \in (base[r] + 1)..HEAD}
Diff(r) == Tracked \cup Since(r)

(* A job records in the record of its own service.  The log is one: it gets a
   second writer when a later service has loaded it. *)
Owns(j) == j[2] = gen \/ j[1] \notin known

SetStatus(j, s) ==
  IF Owns(j)
  THEN status' = [status EXCEPT ![j[1]] = s] /\ UNCHANGED broken
  ELSE broken' = broken \cup {j[1]} /\ UNCHANGED status

SetTxn(j, t) ==
  IF Owns(j)
  THEN txn' = [txn EXCEPT ![j[1]] = t] /\ UNCHANGED broken
  ELSE broken' = broken \cup {j[1]} /\ UNCHANGED txn

SetCleaned(j) ==
  IF Owns(j)
  THEN cleaned' = cleaned \cup {j[1]} /\ UNCHANGED broken
  ELSE broken' = broken \cup {j[1]} /\ UNCHANGED cleaned

(* An event that changes nothing the model knows of *)
Appends(j) == broken' = IF Owns(j) THEN broken ELSE broken \cup {j[1]}

-----------------------------------------------------------------------------
Init ==
  /\ service = "up" /\ gen = 0 /\ known = {} /\ todo = {} /\ awaited = {}
  /\ status = [r \in Run |-> "none"]
  /\ cleaned = {} /\ broken = {}
  /\ txn = [r \in Run |-> "none"]
  /\ base = [r \in Run |-> 0]
  /\ exec = [j \in Job |-> "none"]
  /\ aborted = {} /\ strays = {} /\ cancelling = {}
  /\ starting = [j \in Job |-> "none"]
  /\ promoting = [j \in Job |-> "none"]
  /\ aside = [j \in Job |-> "none"]
  /\ tree = {}
  /\ commits = <<>> /\ bytes = {}
  /\ overlapped = FALSE /\ late = {} /\ hasty = {} /\ lost = {}
  /\ trouble = 0

-----------------------------------------------------------------------------
(* Admission *)

MutantLimitInclusive == Cardinality(Controllers) <= MaxRuns
BelowLimit == Cardinality(Controllers) < MaxRuns

(* start looks at the disposed flag and at the number of controllers *)
StartCheck(r) ==
  /\ service = "up"
  /\ status[r] = "none"
  /\ \A j \in Job : j[1] = r => starting[j] = "none"   \* r is not minted twice
  /\ BelowLimit
  /\ starting' = [starting EXCEPT ![Of(r)] = "checked"]
  /\ overlapped' = (overlapped \/ \E q \in Run : starting[Of(q)] \in InFlight)
  /\ UNCHANGED <<record, cancelling, promoting, aside, control, lifecycle, checkout,
                 late, hasty, lost, trouble, base, tree>>

(* retry is a start with the task of a run on record *)
Retry(r) ==
  /\ known # {}
  /\ StartCheck(r)

(* preflight and discover both refuse a checkout that is not clean *)
StartStatus(j) ==
  /\ starting[j] = "checked"
  /\ Clean
  /\ starting' = [starting EXCEPT ![j] = "clean"]
  /\ UNCHANGED <<record, cancelling, promoting, aside, control, lifecycle, checkout,
                 history, trouble, base, tree>>

(* ... and discover freezes HEAD, whatever it is by then *)
StartDiscover(j) ==
  /\ starting[j] = "clean"
  /\ starting' = [starting EXCEPT ![j] = "frozen"]
  /\ base' = [base EXCEPT ![j[1]] = HEAD]
  /\ UNCHANGED <<record, cancelling, promoting, aside, control, lifecycle, checkout,
                 history, trouble, tree>>

(* ... as do preflight for its other blockers, the policy and a failing create *)
StartRefused(j) ==
  /\ starting[j] \in InFlight
  /\ starting' = [starting EXCEPT ![j] = "none"]
  /\ UNCHANGED <<record, cancelling, promoting, aside, control, lifecycle, checkout,
                 history, trouble, base, tree>>

(* create writes the record, scheduleRun adds the controller: in the service
   that was asked, disposed or not, whatever the checkout is by now *)
StartCreate(j) ==
  /\ starting[j] = "frozen"
  /\ starting' = [starting EXCEPT ![j] = "none"]
  /\ status' = [status EXCEPT ![j[1]] = "active"]
  /\ exec' = [exec EXCEPT ![j] = "prepare"]
  /\ known' = IF j[2] = gen THEN known \cup {j[1]} ELSE known
  /\ UNCHANGED <<cleaned, txn, broken, cancelling, promoting, aside, aborted, strays, service,
                 gen, todo, awaited, checkout, history, trouble, base, tree>>

-----------------------------------------------------------------------------
(* The executor of a run *)

(* The record says preparing or recovering, git worktree add begins *)
ExecAdd(j) ==
  /\ exec[j] = "prepare" /\ j \notin aborted
  /\ exec' = [exec EXCEPT ![j] = "adding"]
  /\ SetStatus(j, "active")
  /\ UNCHANGED <<cleaned, txn, calls, aborted, strays, lifecycle, checkout, history, trouble, base, tree>>

(* The worktree is there; running is recorded without a look at the signal *)
ExecAdded(j) ==
  /\ exec[j] = "adding"
  /\ exec' = [exec EXCEPT ![j] = "work"]
  /\ tree' = tree \cup {j[1]}
  /\ SetStatus(j, "active")
  /\ UNCHANGED <<cleaned, txn, calls, aborted, strays, lifecycle, checkout, history, trouble, base>>

(* Builders, gates and reviewers write in the worktree, removed or not *)
ExecWrites(j) ==
  /\ exec[j] \in {"work", "stopping"} \/ j \in strays
  /\ j[1] \notin tree
  /\ tree' = tree \cup {j[1]}
  /\ UNCHANGED <<record, calls, control, lifecycle, checkout, history, trouble, base>>

MutantSignalIgnored == {"work"}
SignalSeen == {"prepare", "work"}

(* An abort, or git worktree add that fails, may leave the worktree behind *)
ExecStops(j) ==
  /\ \/ exec[j] \in SignalSeen /\ j \in aborted /\ UNCHANGED tree
     \/ exec[j] = "adding" /\ (tree' = tree \/ tree' = tree \cup {j[1]})
  /\ exec' = [exec EXCEPT ![j] = IF j \in aborted THEN "stopping" ELSE "failing"]
  /\ UNCHANGED <<record, calls, aborted, strays, lifecycle, checkout, history, trouble, base>>

(* The last look at the signal, with which the last update is queued.  A run
   that was recovered with every decision made has nothing to prepare. *)
ExecDecides(j) ==
  /\ exec[j] \in {"prepare", "work"} /\ j \notin aborted
  /\ exec' = [exec EXCEPT ![j] = "deciding"]
  /\ UNCHANGED <<record, calls, aborted, strays, lifecycle, checkout, history, trouble, base, tree>>

(* An event cannot be written in the catch that ends a contender, or a review:
   Promise.all rejects, and the run fails, or the contender does and the run
   goes on; the siblings are neither aborted nor awaited *)
ExecStrays(j) ==
  /\ exec[j] = "work"
  /\ trouble < MaxTrouble
  /\ trouble' = trouble + 1
  /\ \E s \in {"failing", "work"} : exec' = [exec EXCEPT ![j] = s]
  /\ strays' = strays \cup {j}
  /\ lost' = lost \cup {j[1]}
  /\ UNCHANGED <<record, calls, aborted, lifecycle, checkout, overlapped, late, hasty,
                 base, tree>>

(* They record as before: the status of a contender, which only appends, or
   that its reviews begin, which makes the run reviewing, ended or not *)
StrayRecords(j) ==
  /\ j \in strays
  /\ \/ Appends(j) /\ UNCHANGED status
     \/ status[j[1]] \in {"active", "failed"} /\ SetStatus(j, "active")
  /\ UNCHANGED <<cleaned, txn, calls, control, lifecycle, checkout, history, trouble, base, tree>>

StrayEnds(j) ==
  /\ j \in strays
  /\ strays' = strays \ {j}
  /\ UNCHANGED <<record, calls, exec, aborted, lifecycle, checkout, history, trouble, base, tree>>

(* The executor's promise settles: the controller goes *)
Settle(j) == exec' = [exec EXCEPT ![j] = "none"] /\ aborted' = aborted \ {j}

MutantErrorOnlyLogged(j) == IF exec[j] = "deciding" THEN {"completed"} ELSE {"active"}
EndsAs(j) == IF exec[j] = "deciding" THEN {"completed", "failed"} ELSE {"failed"}

(* The run completes, or fails or exhausts its budget *)
ExecEnds(j) ==
  /\ exec[j] \in {"deciding", "failing"}
  /\ Settle(j)
  /\ \E s \in EndsAs(j) : SetStatus(j, s)
  /\ UNCHANGED <<cleaned, txn, calls, strays, lifecycle, checkout, history, trouble, base, tree>>

(* finishCancelled leaves a run alone that is not active any more *)
ExecStopped(j) ==
  /\ exec[j] = "stopping"
  /\ Settle(j)
  /\ IF Active(j[1]) THEN SetStatus(j, "cancelled") ELSE UNCHANGED <<status, broken>>
  /\ UNCHANGED <<cleaned, txn, calls, strays, lifecycle, checkout, history, trouble, base, tree>>

(* The last update and the one of the error path are refused: the background
   promise is rejected and logged, the record stays as it was *)
ExecLost(j) ==
  /\ exec[j] \in {"deciding", "failing", "stopping"}
  /\ trouble < MaxTrouble
  /\ trouble' = trouble + 1
  /\ Settle(j)
  /\ lost' = lost \cup {j[1]}
  /\ UNCHANGED <<record, calls, strays, lifecycle, checkout, overlapped, late, hasty, base, tree>>

(* The deadline strikes while the last update is written: its event is queued
   behind it, and nobody waits for it *)
ExecDeadline(j) ==
  /\ exec[j] = "deciding" /\ j \notin aborted
  /\ aside[j] = "none"
  /\ aside' = [aside EXCEPT ![j] = "event"]
  /\ UNCHANGED <<record, starting, cancelling, promoting, control, lifecycle, checkout, history,
                 trouble, base, tree>>

-----------------------------------------------------------------------------
(* Cancel, and what is done with a run that has ended *)

(* cancel needs an active run and its controller *)
Cancel(r) ==
  /\ service = "up" /\ r \in known /\ Active(r)
  /\ r \in Controllers
  /\ aborted' = aborted \cup {Of(r)}
  /\ cancelling' = cancelling \cup {Of(r)}
  /\ UNCHANGED <<record, starting, promoting, aside, exec, strays, lifecycle, checkout, history,
                 trouble, base, tree>>

(* Its update follows the ones already queued, whatever they said *)
CancelPublish(j) ==
  /\ j \in cancelling /\ exec[j] \notin {"deciding", "failing"}
  /\ cancelling' = cancelling \ {j}
  /\ SetStatus(j, "cancelled")
  /\ UNCHANGED <<cleaned, txn, starting, promoting, aside, control, lifecycle, checkout,
                 history, trouble, base, tree>>

(* cleanup looks at the status, not at the controller.  Bound: a run has one
   call of this section at a time. *)
CleanupBegin(r) ==
  /\ service = "up" /\ r \in known /\ ~Active(r)
  /\ r \notin cleaned
  /\ aside[Of(r)] = "none"
  /\ aside' = [aside EXCEPT ![Of(r)] = "cleanup"]
  /\ hasty' = hasty \cup {q \in {r} : \E j \in Job : j[1] = q /\ (exec[j] # "none" \/ j \in strays)}
  /\ UNCHANGED <<record, starting, cancelling, promoting, control, lifecycle, checkout,
                 overlapped, late, lost, trouble, base, tree>>

(* git worktree unlock, remove --force and prune, or one of them fails *)
CleanupRemoves(j) ==
  /\ aside[j] = "cleanup"
  /\ \/ aside' = [aside EXCEPT ![j] = "removed"] /\ tree' = tree \ {j[1]}
     \/ aside' = [aside EXCEPT ![j] = "none"] /\ UNCHANGED tree
  /\ UNCHANGED <<record, starting, cancelling, promoting, control, lifecycle, checkout,
                 history, trouble, base>>

(* cleanedAt is recorded, whatever became of the service in the meantime *)
CleanupRecords(j) ==
  /\ aside[j] = "removed"
  /\ aside' = [aside EXCEPT ![j] = "none"]
  /\ SetCleaned(j)
  /\ UNCHANGED <<status, txn, starting, cancelling, promoting, control, lifecycle, checkout,
                 history, trouble, base, tree>>

(* A human evaluation, and a cleanup of what is cleaned, queue one event *)
Evaluate(r) ==
  /\ service = "up" /\ r \in known /\ ~Active(r)
  /\ aside[Of(r)] = "none"
  /\ aside' = [aside EXCEPT ![Of(r)] = "event"]
  /\ UNCHANGED <<record, starting, cancelling, promoting, control, lifecycle, checkout, history,
                 trouble, base, tree>>

EventRecorded(j) ==
  /\ aside[j] = "event"
  /\ aside' = [aside EXCEPT ![j] = "none"]
  /\ Appends(j)
  /\ UNCHANGED <<status, cleaned, txn, starting, cancelling, promoting, control, lifecycle,
                 checkout, history, trouble, base, tree>>

-----------------------------------------------------------------------------
(* Promotion: the lock is per run, the checkout is shared *)

(* The token is spent, the lock taken; assertOriginalUnchanged holds *)
PromoteCheck(r) ==
  /\ service = "up" /\ r \in known
  /\ status[r] = "completed" /\ txn[r] = "none"
  /\ promoting[Of(r)] = "none"
  /\ Clean /\ HEAD = base[r]
  /\ promoting' = [promoting EXCEPT ![Of(r)] = "checked"]
  /\ UNCHANGED <<record, starting, cancelling, aside, control, lifecycle, checkout,
                 history, trouble, base, tree>>

(* The gates are run again, and the write-ahead transaction is recorded; or one
   of the checks fails, and nothing was begun *)
PromoteOpen(j) ==
  /\ promoting[j] = "checked"
  /\ \/ promoting' = [promoting EXCEPT ![j] = "open"] /\ SetTxn(j, "open")
     \/ promoting' = [promoting EXCEPT ![j] = "none"] /\ UNCHANGED <<txn, broken>>
  /\ UNCHANGED <<status, cleaned, starting, cancelling, aside, control, lifecycle, checkout,
                 history, trouble, base, tree>>

(* git apply writes the tracked files *)
PromoteApply(j) ==
  /\ promoting[j] = "open"
  /\ promoting' = [promoting EXCEPT ![j] = "patched"]
  /\ bytes' = bytes \cup OwnTracked(j[1])
  /\ UNCHANGED <<record, starting, cancelling, aside, control, lifecycle, commits,
                 history, trouble, base, tree>>

(* ... and copyUntracked the others *)
PromoteCopy(j) ==
  /\ promoting[j] = "patched"
  /\ promoting' = [promoting EXCEPT ![j] = "applied"]
  /\ bytes' = bytes \cup Own(j[1])
  /\ UNCHANGED <<record, starting, cancelling, aside, control, lifecycle, commits,
                 history, trouble, base, tree>>

MutantOwnBytesOnly(r) == Own(r) \subseteq bytes

(* assertAppliedPatch and assertUntracked, and what promotionState calls exact:
   the tracked files differ from the base as the candidate says, and its own
   added files are there.  HEAD and the other added files are not looked at. *)
Exact(r) ==
  /\ Diff(r) = OwnTracked(r)
  /\ OwnAdded(r) \subseteq bytes

PromoteVerify(j) ==
  /\ promoting[j] = "applied"
  /\ Exact(j[1])
  /\ promoting' = [promoting EXCEPT ![j] = "verified"]
  /\ UNCHANGED <<record, starting, cancelling, aside, control, lifecycle, checkout,
                 history, trouble, base, tree>>

PromoteCommit(j) ==
  /\ promoting[j] = "verified"
  /\ promoting' = [promoting EXCEPT ![j] = "none"]
  /\ SetTxn(j, "committed")
  /\ UNCHANGED <<status, cleaned, starting, cancelling, aside, control, lifecycle, checkout,
                 history, trouble, base, tree>>

(* recoverPromotionRollback refuses to touch a checkout whose tracked files hold
   anything else, or whose index is not the base; else it takes its own back *)
TakenBack(r) == IF Tracked \subseteq OwnTracked(r) /\ Since(r) = {} THEN bytes \ Own(r) ELSE bytes

(* ... and only then asks whether the checkout is the clean base again *)
Restored(r) == TakenBack(r) = {} /\ HEAD = base[r]

(* A step failed, or the bytes are not the expected ones *)
PromoteRollback(j) ==
  /\ promoting[j] \in {"open", "patched", "applied", "verified"}
  /\ promoting' = [promoting EXCEPT ![j] = "none"]
  /\ bytes' = TakenBack(j[1])
  /\ SetTxn(j, IF Restored(j[1]) THEN "none" ELSE "attention")
  /\ UNCHANGED <<status, cleaned, starting, cancelling, aside, control, lifecycle, commits,
                 history, trouble, base, tree>>

-----------------------------------------------------------------------------
(* The service ends and begins *)

(* dispose refuses new starts and aborts every controller it has; it neither
   aborts nor awaits a call *)
DisposeBegin ==
  /\ service = "up" /\ trouble < MaxTrouble
  /\ trouble' = trouble + 1
  /\ service' = "closing"
  /\ aborted' = aborted \cup OwnJobs
  /\ late' = late \cup {r \in Run : Called(Of(r))}
  /\ UNCHANGED <<record, calls, exec, strays, gen, known, todo, awaited, checkout,
                 overlapped, hasty, lost, base, tree>>

MutantAwaitNothing == {}
Backgrounds == OwnJobs

(* After the previews, the executors of that moment are awaited *)
DisposeAwait ==
  /\ service = "closing"
  /\ service' = "draining"
  /\ awaited' = Backgrounds
  /\ UNCHANGED <<record, calls, control, gen, known, todo, checkout, history, trouble, base, tree>>

(* The service is gone; calls in flight, contenders astray and other executors
   are not *)
DisposeDone ==
  /\ service = "draining"
  /\ \A j \in awaited : exec[j] = "none"
  /\ service' = "down" /\ gen' = gen + 1 /\ known' = {} /\ awaited' = {}
  /\ UNCHANGED todo
  /\ late' = late \cup {r \in Run : \E j \in strays : j[1] = r}
  /\ UNCHANGED <<record, calls, control, checkout, overlapped, hasty, lost, trouble, base, tree>>

(* The process ends at any point *)
Crash ==
  /\ trouble < MaxTrouble
  /\ trouble' = trouble + 1
  /\ service' = "down" /\ gen' = gen + 1 /\ known' = {} /\ todo' = {} /\ awaited' = {}
  /\ exec' = [j \in Job |-> "none"]
  /\ aborted' = {} /\ strays' = {} /\ cancelling' = {}
  /\ starting' = [j \in Job |-> "none"]
  /\ promoting' = [j \in Job |-> "none"]
  /\ aside' = [j \in Job |-> "none"]
  /\ UNCHANGED <<record, checkout, history, base, tree>>

Loaded == {r \in Run : status[r] # "none"} \ broken

MutantInterruptedAll == {r \in Loaded : status[r] \in {"active", "cancelled"}}
Interrupted == {r \in Loaded : Active(r)}

MutantBootCounts ==
  /\ service = "down"
  /\ service' = "booting" /\ gen' = gen + 1
  /\ known' = Loaded /\ todo' = Interrupted
  /\ UNCHANGED <<record, calls, control, awaited, checkout, history, trouble, base, tree>>

(* store.initialize loads every log that parses; the runs to be recovered are
   those that were active in it *)
Boot ==
  /\ service = "down"
  /\ service' = "booting"
  /\ known' = Loaded /\ todo' = Interrupted
  /\ UNCHANGED <<record, calls, control, gen, awaited, checkout, history, trouble, base, tree>>

(* recoverPromotion, for every transaction left open: what is whole is
   committed, the rest is taken back *)
RecoverPromotion(r) ==
  /\ service = "booting" /\ r \in known /\ txn[r] = "open"
  /\ IF Exact(r)
     THEN txn' = [txn EXCEPT ![r] = "committed"] /\ UNCHANGED bytes
     ELSE /\ txn' = [txn EXCEPT ![r] = IF Restored(r) THEN "none" ELSE "attention"]
          /\ bytes' = TakenBack(r)
  /\ UNCHANGED <<status, cleaned, broken, calls, control, lifecycle, commits, history,
                 trouble, base, tree>>

(* store.recoverable, after the promotions of store.incompletePromotions *)
Recoverable(r) == r \in todo /\ \A q \in known : txn[q] # "open"

Recovering(r) ==
  /\ todo' = todo \ {r}
  /\ UNCHANGED <<service, gen, known, awaited>>

(* scheduleRecovery, after the promotions: the run goes on from its clean base *)
Recover(r) ==
  /\ service = "booting" /\ Recoverable(r)
  /\ Clean /\ HEAD = base[r]
  /\ exec' = [exec EXCEPT ![Of(r)] = "prepare"]
  /\ Recovering(r)
  /\ UNCHANGED <<record, calls, aborted, strays, checkout, history, trouble, base, tree>>

(* ... or fails when the checkout is not that base *)
RecoverRefused(r) ==
  /\ service = "booting" /\ Recoverable(r)
  /\ (~Clean \/ HEAD # base[r])
  /\ status' = [status EXCEPT ![r] = "failed"]
  /\ Recovering(r)
  /\ UNCHANGED <<cleaned, txn, broken, calls, control, checkout, history, trouble, base, tree>>

MutantPromotionsOnly == \A r \in known : txn[r] # "open"
Initialized == todo = {} /\ \A r \in known : txn[r] # "open"

BootDone ==
  /\ service = "booting"
  /\ Initialized
  /\ service' = "up"
  /\ UNCHANGED <<record, calls, control, gen, known, todo, awaited, checkout, history, trouble, base,
                 tree>>

-----------------------------------------------------------------------------
(* The user edits the checkout, commits some of what lies in it, or throws it
   away *)
UserEdits ==
  /\ trouble < MaxTrouble
  /\ trouble' = trouble + 1
  /\ \/ \E k \in Kind : bytes' = bytes \cup {<<User, k>>} /\ UNCHANGED commits
     \/ \E some \in SUBSET bytes : bytes' = bytes \ some /\ commits' = Append(commits, some)
     \/ \E some \in SUBSET bytes : bytes' = bytes \ some /\ UNCHANGED commits
  /\ UNCHANGED <<record, calls, control, lifecycle, history, base, tree>>

-----------------------------------------------------------------------------
ExecGoesOn(j) ==
  \/ ExecAdd(j) \/ ExecAdded(j) \/ ExecStops(j) \/ ExecDecides(j)
  \/ ExecEnds(j) \/ ExecStopped(j)

ExecStep(j) ==
  \/ ExecGoesOn(j)
  \/ ExecWrites(j) \/ ExecLost(j) \/ ExecDeadline(j)
  \/ ExecStrays(j) \/ StrayRecords(j) \/ StrayEnds(j)

CallStep(j) ==
  \/ StartStatus(j) \/ StartDiscover(j) \/ StartRefused(j) \/ StartCreate(j)
  \/ CancelPublish(j)
  \/ CleanupRemoves(j) \/ CleanupRecords(j) \/ EventRecorded(j)
  \/ PromoteOpen(j) \/ PromoteApply(j) \/ PromoteCopy(j) \/ PromoteVerify(j) \/ PromoteCommit(j)
  \/ PromoteRollback(j)

(* Bounds: no request for a late run, and few calls at a time *)
Request(r) ==
  /\ r \notin late
  /\ Cardinality({j \in Job : Called(j)}) < MaxCalls
  /\ StartCheck(r) \/ Retry(r) \/ Cancel(r) \/ CleanupBegin(r) \/ Evaluate(r)
     \/ PromoteCheck(r)

Recovery(r) == RecoverPromotion(r) \/ Recover(r) \/ RecoverRefused(r)

ServiceStep ==
  \/ DisposeBegin \/ DisposeAwait \/ DisposeDone \/ Crash \/ Boot \/ BootDone
  \/ \E r \in Run : Recovery(r)

Next ==
  \/ \E j \in Job : ExecStep(j) \/ CallStep(j)
  \/ \E r \in Run : Request(r)
  \/ ServiceStep
  \/ UserEdits

Spec == Init /\ [][Next]_vars

(* Executors, calls and the service itself go on; the deadline of a run ends
   its work.  No request, crash, disposal, reload or user step is owed. *)
Fairness ==
  /\ \A j \in Job : WF_vars(ExecGoesOn(j)) /\ WF_vars(CallStep(j))
  /\ WF_vars(DisposeAwait \/ DisposeDone \/ BootDone \/ \E r \in Run : Recovery(r))

FairSpec == Spec /\ Fairness

-----------------------------------------------------------------------------
TypeOK ==
  /\ service \in {"up", "closing", "draining", "down", "booting"}
  /\ gen \in Generation /\ gen <= trouble /\ trouble \in 0..MaxTrouble
  /\ known \subseteq Run /\ todo \subseteq known /\ cleaned \subseteq Run /\ broken \subseteq Run
  /\ status \in [Run -> {"none", "active", "completed", "failed", "cancelled"}]
  /\ txn \in [Run -> {"none", "open", "committed", "attention"}]
  /\ base \in [Run -> Nat]
  /\ exec \in [Job -> {"none", "prepare", "adding", "work", "deciding", "failing", "stopping"}]
  /\ aborted \subseteq Job /\ strays \subseteq Job /\ awaited \subseteq Job /\ cancelling \subseteq Job
  /\ starting \in [Job -> {"none"} \cup InFlight]
  /\ promoting \in [Job -> {"none", "checked", "open", "patched", "applied", "verified"}]
  /\ aside \in [Job -> {"none", "cleanup", "removed", "event"}]
  /\ tree \subseteq Run
  /\ commits \in Seq(SUBSET ((Run \cup {User}) \X Kind))
  /\ bytes \subseteq (Run \cup {User}) \X Kind
  /\ overlapped \in BOOLEAN
  /\ late \subseteq Run /\ hasty \subseteq Run /\ lost \subseteq Run

(* maxConcurrentRuns bounds the executors of the service, as long as no two
   starts overlap, no final event is refused and no start outlives a service. *)
LimitKept ==
  ~overlapped /\ lost = {} /\ late = {} => Cardinality(Controllers) <= MaxRuns

(* One run has one executor and its log one writer, however services come and
   go: but for the calls that were in flight when a dispose began and for the
   contenders astray when it was done, everything that writes is waited for. *)
OneWriter ==
  /\ broken \subseteq late
  /\ \A r \in Run \ late : \A i, j \in Job :
       i[1] = r /\ j[1] = r /\ exec[i] # "none" /\ exec[j] # "none" => i = j

(* cleanedAt means that nothing of the worktrees is left, for a cleanup that
   began after the executor had ended. *)
CleanedIsGone ==
  \A r \in cleaned \ (hasty \cup late) : r \notin tree

(* Two committed candidates that edit tracked files never lie in the checkout
   together, although promotions of different runs are not locked against each
   other and the recovery of one does not know of the other; candidates that
   only add files may, and a promotion that outlives its service is left out. *)
CommitsApart ==
  \A q, r \in Run \ late :
    /\ txn[q] = "committed" /\ <<q, "tracked">> \in bytes
    /\ txn[r] = "committed" /\ <<r, "tracked">> \in bytes
    => q = r

(* A run the service shows as active has a controller, so that it can be
   cancelled, unless the end of it could not be written. *)
ActiveIsOwned ==
  service = "up" =>
    \A r \in known \ (lost \cup late) : Active(r) => r \in Controllers

(* A run on record does not stay active, and cancellation and recovery do not
   change that: it ends, unless its last event is lost or the Host goes down. *)
RunsSettle ==
  \A r \in Run :
    (r \in known /\ Active(r)) ~> (~Active(r) \/ r \in lost \cup late \/ service = "down")

(* dispose comes to an end, and so does the recovery of the next service *)
ServiceSettles ==
  (service \in {"closing", "draining", "booting"}) ~> (service \in {"up", "down"})
=============================================================================
