--------------------------- MODULE CandidatePreview ---------------------------
(***************************************************************************)
(* The candidate previews of one run (service.ts startCandidatePreview,    *)
(* stopCandidatePreview, finishCandidatePreview, what cleanup and dispose  *)
(* do with previews; preview.ts waitForCandidatePreview).                  *)
(*                                                                         *)
(* A session is made by one call of startCandidatePreview and named by the *)
(* number of that call.  It owns a disposable worktree and a managed       *)
(* process, and the map candidatePreviews names the latest session of each *)
(* candidate.  Every call awaits several times; in between, any other call *)
(* runs.                                                                   *)
(*                                                                         *)
(* Abstractions.  The candidates are those the guards on evidence and      *)
(* preflight let through; a call that is refused changes nothing and has   *)
(* no action.  Applying the patch, copying, capturing and choosing a       *)
(* launch are one step.  Removing a worktree and terminating a process     *)
(* succeed in the end.                                                     *)
(***************************************************************************)
EXTENDS Naturals

CONSTANTS
  Candidates,  \* the contenders whose evidence may be previewed
  MaxStarts,   \* bound on the calls of startCandidatePreview
  MaxStops,    \* bound on the calls of stopCandidatePreview
  None

ASSUME BoundAssumption == MaxStarts \in Nat /\ MaxStops \in Nat

ASSUME NoneAssumption == None \notin Nat \cup Candidates

Starts == 1..MaxStarts
Stops == 1..MaxStops

VARIABLES
  active,      \* isActiveArenaStatus(run.status)
  previews,    \* candidatePreviews: the session of each candidate
  of, pc,      \* the candidate of each start call, and what the call awaits
  status, stopping,  \* the CandidatePreviewSession of each start call: the
  handle, worktree,  \* last two say whether it has them
  process,     \* process[s]: the managed process of session s
  watch,       \* watch[s]: the callback that Publish leaves on handle.done
  on, stop,    \* the session of each stop call, and what the call awaits
  dispose,     \* dispose[s]: what dispose awaits of session s
  disposed,    \* dispose was called
  unspawned,   \* history: sessions without a process when it was called
  overlapped   \* history: candidates for which two calls overlapped

history == <<unspawned, overlapped>>
shutdown == <<dispose, disposed>>
call == <<of, pc>>
session == <<status, stopping, handle, worktree>>
stops == <<on, stop>>
vars == <<active, previews, call, session, process, watch, stops,
          shutdown, history>>

Settled == {"stopped", "failed", "unavailable"}

TypeOK ==
  /\ active \in BOOLEAN
  /\ previews \in [Candidates -> Starts \cup {None}]
  /\ of \in [Starts -> Candidates \cup {None}]
  /\ pc \in [Starts -> {"idle", "reading", "creating", "materializing",
       "waiting", "answered", "catching", "removing", "returned"}]
  /\ status \in [Starts -> {"none", "starting", "running"} \cup Settled]
  /\ stopping \in [Starts -> BOOLEAN]
  /\ handle \in [Starts -> BOOLEAN]
  /\ worktree \in [Starts -> BOOLEAN]
  /\ process \in [Starts -> {"none", "live", "ending", "dead"}]
  /\ watch \in [Starts -> BOOLEAN]
  /\ on \in [Stops -> Starts \cup {None}]
  /\ stop \in [Stops -> {"idle", "exiting", "removing", "returned"}]
  /\ dispose \in [Starts -> {"no", "exiting", "removing"}]
  /\ disposed \in BOOLEAN
  /\ unspawned \subseteq Starts
  /\ overlapped \subseteq Candidates

Alive(s) == process[s] \in {"live", "ending"}

(* handle.stop() asks for termination; the caller then awaits handle.done. *)
Terminating(S) == [s \in Starts |->
  IF s \in S /\ process[s] = "live" THEN "ending" ELSE process[s]]

(* A start or stop call of candidate c is in flight. *)
InFlight(c) ==
  \/ \E s \in Starts : of[s] = c /\ pc[s] # "returned"
  \/ \E k \in Stops : /\ stop[k] \in {"exiting", "removing"}
                      /\ of[on[k]] = c

Overlapping(c) ==
  overlapped' = IF InFlight(c) THEN overlapped \cup {c} ELSE overlapped

Init ==
  /\ active = TRUE
  /\ previews = [c \in Candidates |-> None]
  /\ of = [s \in Starts |-> None] /\ pc = [s \in Starts |-> "idle"]
  /\ status = [s \in Starts |-> "none"]
  /\ stopping = [s \in Starts |-> FALSE]
  /\ handle = [s \in Starts |-> FALSE]
  /\ worktree = [s \in Starts |-> FALSE]
  /\ process = [s \in Starts |-> "none"]
  /\ watch = [s \in Starts |-> FALSE]
  /\ on = [k \in Stops |-> None] /\ stop = [k \in Stops |-> "idle"]
  /\ dispose = [s \in Starts |-> "no"]
  /\ disposed = FALSE
  /\ unspawned = {}
  /\ overlapped = {}

(* The run, modelled by ArenaRun, becomes terminal. *)
RunSettles ==
  /\ active /\ active' = FALSE
  /\ UNCHANGED <<previews, call, session, process, watch, stops,
                 shutdown, history>>

-----------------------------------------------------------------------------
(* Mutant of Start: a running preview does not refuse another start. *)
StartTwice(c) ==
  /\ ~active
  /\ \E s \in Starts :
       /\ pc[s] = "idle" /\ \A r \in Starts : r < s => pc[r] # "idle"
       /\ of' = [of EXCEPT ![s] = c] /\ pc' = [pc EXCEPT ![s] = "reading"]
  /\ Overlapping(c)
  /\ UNCHANGED <<active, previews, session, process, watch, stops,
                 shutdown, unspawned>>

(* startCandidatePreview.  Everything up to the first await. *)
Start(c) ==
  /\ ~active
  /\ \A s \in Starts :
       previews[c] = s => status[s] \notin {"starting", "running"}
  /\ \E s \in Starts :
       /\ pc[s] = "idle" /\ \A r \in Starts : r < s => pc[r] # "idle"
       /\ of' = [of EXCEPT ![s] = c] /\ pc' = [pc EXCEPT ![s] = "reading"]
  /\ Overlapping(c)
  /\ UNCHANGED <<active, previews, session, process, watch, stops,
                 shutdown, unspawned>>

Go(s, there) == pc' = [pc EXCEPT ![s] = there] /\ UNCHANGED of

Show(s, what) ==
  /\ status' = [status EXCEPT ![s] = what]
  /\ UNCHANGED <<stopping, handle, worktree>>

RemoveWorktree(s) ==
  /\ worktree' = [worktree EXCEPT ![s] = FALSE]
  /\ UNCHANGED <<status, stopping, handle>>

(* The artifact cannot be read or its hash differs: nothing was made yet. *)
ReadFails(s) ==
  /\ pc[s] = "reading" /\ Go(s, "returned")
  /\ UNCHANGED <<active, previews, session, process, watch, stops,
                 shutdown, history>>

Register(s) ==
  /\ pc[s] = "reading" /\ Go(s, "creating")
  /\ Show(s, "starting")
  /\ previews' = [previews EXCEPT ![of[s]] = s]
  /\ UNCHANGED <<active, process, watch, stops, shutdown, history>>

CreateWorktree(s) ==
  /\ pc[s] = "creating" /\ Go(s, "materializing")
  /\ worktree' = [worktree EXCEPT ![s] = TRUE]
  /\ UNCHANGED <<status, stopping, handle, active, previews, process, watch,
                 stops, shutdown, history>>

(* The patch is applied, the files are copied, the capture has the sealed *)
(* hash and a launch is found: the process is spawned without another     *)
(* await.  A worktree that a stop has removed meanwhile prevents it.      *)
Spawn(s) ==
  /\ pc[s] = "materializing" /\ worktree[s] /\ Go(s, "waiting")
  /\ handle' = [handle EXCEPT ![s] = TRUE]
  /\ process' = [process EXCEPT ![s] = "live"]
  /\ UNCHANGED <<status, stopping, worktree, active, previews, watch, stops,
                 shutdown, history>>

NoLaunch(s) ==
  /\ pc[s] = "materializing" /\ worktree[s] /\ Go(s, "removing")
  /\ Show(s, "unavailable")
  /\ UNCHANGED <<active, previews, process, watch, stops, shutdown, history>>

(* waitForCandidatePreview: an answer. *)
Answer(s) ==
  /\ pc[s] = "waiting" /\ Alive(s) /\ Go(s, "answered")
  /\ UNCHANGED <<active, previews, session, process, watch, stops,
                 shutdown, history>>

(* Mutant of Fails: the process of a failed start is left alone. *)
FailsAbandoning(s) ==
  /\ pc[s] \in {"creating", "materializing", "waiting"}
  /\ Go(s, "removing") /\ Show(s, "failed")
  /\ UNCHANGED <<active, previews, process, watch, stops, shutdown, history>>

(* Mutant of Fails: the wait for an answer has no deadline. *)
FailsLate(s) ==
  /\ pc[s] \in {"creating", "materializing", "waiting"}
  /\ pc[s] = "waiting" => ~Alive(s)
  /\ IF handle[s]
       THEN Go(s, "catching") /\ process' = Terminating({s}) /\ UNCHANGED session
       ELSE Go(s, "removing") /\ Show(s, "failed") /\ UNCHANGED process
  /\ UNCHANGED <<active, previews, watch, stops, shutdown, history>>

(* The catch clause, reached by an error of any step, by the exit of the  *)
(* process or by the deadline of waitForCandidatePreview.  A process that *)
(* was spawned is stopped, and its exit awaited, before the status is set.*)
Fails(s) ==
  /\ pc[s] \in {"creating", "materializing", "waiting"}
  /\ IF handle[s]
       THEN Go(s, "catching") /\ process' = Terminating({s}) /\ UNCHANGED session
       ELSE Go(s, "removing") /\ Show(s, "failed") /\ UNCHANGED process
  /\ UNCHANGED <<active, previews, watch, stops, shutdown, history>>

FailedExited(s) ==
  /\ pc[s] = "catching" /\ ~Alive(s) /\ Go(s, "removing")
  /\ Show(s, "failed")
  /\ UNCHANGED <<active, previews, process, watch, stops, shutdown, history>>

(* Mutant of Publish: nothing is registered on handle.done. *)
PublishUnwatched(s) ==
  /\ pc[s] = "answered" /\ Go(s, "returned")
  /\ Show(s, "running")
  /\ UNCHANGED <<active, previews, process, watch, stops, shutdown, history>>

(* The call continues after the answer, whatever has happened since. *)
Publish(s) ==
  /\ pc[s] = "answered" /\ Go(s, "returned")
  /\ Show(s, "running")
  /\ watch' = [watch EXCEPT ![s] = TRUE]
  /\ UNCHANGED <<active, previews, process, stops, shutdown, history>>

StartRemoved(s) ==
  /\ pc[s] = "removing" /\ Go(s, "returned")
  /\ RemoveWorktree(s)
  /\ UNCHANGED <<active, previews, process, watch, stops, shutdown, history>>

StartStep(s) ==
  \/ ReadFails(s) \/ Register(s) \/ CreateWorktree(s) \/ Spawn(s) \/ NoLaunch(s)
  \/ Fails(s) \/ FailedExited(s) \/ Publish(s) \/ StartRemoved(s)

-----------------------------------------------------------------------------
(* The managed process: it may exit at any time, and does once terminated. *)
Exit(s) ==
  /\ process[s] = "live"
  /\ process' = [process EXCEPT ![s] = "dead"]
  /\ UNCHANGED <<active, previews, call, session, watch, stops,
                 shutdown, history>>

Terminated(s) ==
  /\ process[s] = "ending"
  /\ process' = [process EXCEPT ![s] = "dead"]
  /\ UNCHANGED <<active, previews, call, session, watch, stops,
                 shutdown, history>>

(* Mutant of Finish: the status is the exit of the process. *)
FinishExited(s) ==
  /\ watch[s] /\ ~Alive(s)
  /\ watch' = [watch EXCEPT ![s] = FALSE]
  /\ status' = [status EXCEPT ![s] = "exited"]
  /\ handle' = [handle EXCEPT ![s] = FALSE]
  /\ worktree' = [worktree EXCEPT ![s] = FALSE]
  /\ UNCHANGED <<stopping, active, previews, call, process, stops,
                 shutdown, history>>

(* finishCandidatePreview, called back when handle.done settles.  Nobody   *)
(* else uses the worktree of a session that is over.                       *)
Finish(s) ==
  /\ watch[s] /\ ~Alive(s)
  /\ watch' = [watch EXCEPT ![s] = FALSE]
  /\ IF previews[of[s]] # s \/ ~handle[s] THEN UNCHANGED session
     ELSE /\ status' = [status EXCEPT
               ![s] = IF stopping[s] THEN "stopped" ELSE "failed"]
          /\ handle' = [handle EXCEPT ![s] = FALSE]
          /\ worktree' = [worktree EXCEPT ![s] = FALSE]
          /\ UNCHANGED stopping
  /\ UNCHANGED <<active, previews, call, process, stops, shutdown, history>>

-----------------------------------------------------------------------------
(* stopCandidatePreview, for a candidate that has a session.  A client or *)
(* cleanup makes the call; cleanup makes one for each contender.          *)
Stop(k, c) ==
  /\ stop[k] = "idle" /\ \A j \in Stops : j < k => stop[j] # "idle"
  /\ previews[c] # None
  /\ on' = [on EXCEPT ![k] = previews[c]]
  /\ stopping' = [stopping EXCEPT ![previews[c]] = TRUE]
  /\ IF handle[previews[c]]
       THEN /\ stop' = [stop EXCEPT ![k] = "exiting"]
            /\ process' = Terminating({previews[c]})
            /\ UNCHANGED status
       ELSE /\ stop' = [stop EXCEPT ![k] = "removing"]
            /\ status' = [status EXCEPT ![previews[c]] = "stopped"]
            /\ UNCHANGED process
  /\ UNCHANGED <<handle, worktree>>
  /\ Overlapping(c)
  /\ UNCHANGED <<active, previews, call, watch, shutdown, unspawned>>

StopExited(k) ==
  /\ stop[k] = "exiting" /\ ~Alive(on[k])
  /\ stop' = [stop EXCEPT ![k] = "removing"]
  /\ status' = [status EXCEPT ![on[k]] = "stopped"]
  /\ handle' = [handle EXCEPT ![on[k]] = FALSE]
  /\ UNCHANGED <<stopping, worktree, on, active, previews, call, process, watch,
                 shutdown, history>>

StopRemoved(k) ==
  /\ stop[k] = "removing"
  /\ stop' = [stop EXCEPT ![k] = "returned"]
  /\ RemoveWorktree(on[k])
  /\ UNCHANGED <<on, active, previews, call, process, watch, shutdown, history>>

(* Mutant of Dispose: worktrees are removed and processes left alone. *)
DisposeRemoves ==
  /\ ~disposed /\ disposed' = TRUE
  /\ dispose' = [s \in Starts |->
       IF \E c \in Candidates : previews[c] = s THEN "removing" ELSE "no"]
  /\ unspawned' = {s \in Starts : process[s] = "none"}
  /\ UNCHANGED <<active, previews, call, session, process, watch, stops,
                 overlapped>>

(* dispose stops the sessions that the map holds at the call. *)
Dispose ==
  /\ ~disposed /\ disposed' = TRUE
  /\ LET held == {s \in Starts : \E c \in Candidates : previews[c] = s} IN
       /\ dispose' = [s \in Starts |->
            IF s \notin held THEN "no"
            ELSE IF handle[s] THEN "exiting" ELSE "removing"]
       /\ stopping' = [s \in Starts |-> stopping[s] \/ s \in held]
       /\ process' = Terminating({s \in held : handle[s]})
  /\ unspawned' = {s \in Starts : process[s] = "none"}
  /\ UNCHANGED <<status, handle, worktree, active, previews, call, watch, stops,
                 overlapped>>

DisposeExited(s) ==
  /\ dispose[s] = "exiting" /\ ~Alive(s)
  /\ dispose' = [dispose EXCEPT ![s] = "removing"]
  /\ UNCHANGED <<active, previews, call, session, process, watch, stops,
                 disposed, history>>

DisposeRemoved(s) ==
  /\ dispose[s] = "removing"
  /\ dispose' = [dispose EXCEPT ![s] = "no"]
  /\ RemoveWorktree(s)
  /\ UNCHANGED <<active, previews, call, process, watch, stops,
                 disposed, history>>

-----------------------------------------------------------------------------
StopStep(k) == StopExited(k) \/ StopRemoved(k)

DisposeStep(s) == DisposeExited(s) \/ DisposeRemoved(s)

Next ==
  \/ RunSettles \/ Dispose
  \/ \E c \in Candidates : Start(c) \/ \E k \in Stops : Stop(k, c)
  \/ \E k \in Stops : StopStep(k)
  \/ \E s \in Starts : \/ StartStep(s) \/ Answer(s) \/ Exit(s)
                       \/ Terminated(s) \/ Finish(s) \/ DisposeStep(s)

Spec == Init /\ [][Next]_vars

(* The event loop continues what it can; Git commands and the wait for an *)
(* answer have time limits; a terminated process exits.  The calls are    *)
(* bounded and each makes finitely many steps, so that fairness of the    *)
(* whole is fairness of every call.                                       *)
Continues ==
  \/ \E k \in Stops : StopStep(k)
  \/ \E s \in Starts : \/ StartStep(s) \/ Terminated(s) \/ Finish(s)
                       \/ DisposeStep(s)

FairSpec == Spec /\ WF_vars(Continues)

-----------------------------------------------------------------------------
Attended(s) ==
  \/ dispose[s] # "no"
  \/ \E k \in Stops : on[k] = s /\ stop[k] \in {"exiting", "removing"}

(* A session that is over, with no call still working on it, leaves        *)
(* nothing behind: its process has exited and its worktree is removed.     *)
(* It holds for every interleaving of starts, stops, cleanup, dispose and  *)
(* exits: each failure path of startCandidatePreview ends the process it   *)
(* spawned before the session is called failed (service.ts:1446).          *)
SettledIsReclaimed ==
  \A s \in Starts :
    status[s] \in Settled /\ pc[s] = "returned" /\ ~Attended(s)
      => ~Alive(s) /\ ~worktree[s]

(* Unless two calls for its candidate overlapped, a live process belongs   *)
(* to the session in the map, so that a stop, cleanup or dispose can reach *)
(* it; the map entry is overwritten only when the earlier process has      *)
(* exited (service.ts:1370, 1399).                                         *)
LiveIsReachable ==
  \A s \in Starts :
    Alive(s) /\ of[s] \notin overlapped
      => /\ previews[of[s]] = s
         /\ status[s] = "running" => handle[s]

(* Once dispose has returned, a process is live only if it was spawned     *)
(* after dispose was called, by a start then in flight, or if calls for    *)
(* its candidate overlapped (service.ts:1725).                             *)
DisposeMissesOnlyUnspawned ==
  disposed /\ (\A s \in Starts : dispose[s] = "no") =>
    \A s \in Starts :
      Alive(s) => s \in unspawned \/ of[s] \in overlapped

(* Every start, stop and dispose call returns: the wait for an answer has  *)
(* a deadline and a stopped process exits (preview.ts:116).                *)
CallsReturn ==
  /\ \A c \in Candidates : InFlight(c) ~> ~InFlight(c)
  /\ disposed ~> \A s \in Starts : dispose[s] = "no"

(* A preview that is shown as running and whose process has exited stops   *)
(* being shown so, unless calls for its candidate overlapped.              *)
ExitIsNoticed ==
  \A s \in Starts :
    status[s] = "running" /\ process[s] = "dead"
      ~> status[s] # "running" \/ of[s] \in overlapped
=============================================================================
