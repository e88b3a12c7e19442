------------------------ MODULE CandidatePreviewProofs ------------------------
(***************************************************************************)
(* The safety of CandidatePreview, for all candidates and bounds.          *)
(*                                                                         *)
(* Safe is the inductive invariant.  Its parts speak of one session each,  *)
(* except Alone and Reachable, which relate the sessions of one candidate  *)
(* and hold as long as no two of its calls overlapped.                     *)
(***************************************************************************)
EXTENDS CandidatePreview, TLAPS

(* Before the worktree is there, and before the process is spawned. *)
Unmade ==
  \A s \in Starts :
    /\ pc[s] = "idle" => of[s] = None
    /\ pc[s] # "idle" => of[s] \in Candidates
    /\ pc[s] \in {"idle", "reading", "creating"} =>
         process[s] = "none" /\ ~worktree[s]
    /\ pc[s] = "materializing" => process[s] = "none"

(* A live process can be stopped through its session. *)
Handled == \A s \in Starts : Alive(s) => handle[s]

(* What is still there after the start call is shown as running. *)
Shown ==
  \A s \in Starts :
    /\ pc[s] = "removing" => ~Alive(s)
    /\ pc[s] = "returned" /\ Alive(s) => status[s] = "running"
    /\ pc[s] = "returned" /\ worktree[s] /\ ~Attended(s)
         => status[s] = "running"

Named ==
  \A c \in Candidates, s \in Starts : previews[c] = s => of[s] = c

(* While a start is in flight, its candidate has no other live session. *)
Alone ==
  \A s, r \in Starts :
    /\ of[s] \in Candidates \ overlapped /\ of[r] = of[s]
    /\ s # r /\ pc[s] # "returned"
    => pc[r] = "returned" /\ ~Alive(r)

Reachable ==
  \A s \in Starts :
    /\ Alive(s) \/ pc[s] \in {"creating", "materializing"}
    /\ of[s] \notin overlapped
    => previews[of[s]] = s

(* What dispose saw and is done with, or did not see at all. *)
Disposed ==
  /\ ~disposed => \A s \in Starts : dispose[s] = "no"
  /\ disposed => \A s \in Starts :
       /\ process[s] = "none" => s \in unspawned
       /\ Alive(s) /\ dispose[s] # "exiting"
            => s \in unspawned \/ of[s] \in overlapped

Safe == /\ TypeOK /\ Unmade /\ Handled /\ Shown /\ Named /\ Alone
        /\ Reachable /\ Disposed
-----------------------------------------------------------------------------
LEMMA SafeInit == Init => Safe
<1> SUFFICES ASSUME Init PROVE Safe
  OBVIOUS
<1>1. TypeOK
  BY DEF Init, TypeOK, Settled
<1>2. Unmade /\ Handled /\ Shown
  BY DEF Init, Unmade, Handled, Shown, Alive
<1>3. Named /\ Alone
  BY NoneAssumption DEF Init, Named, Alone, Starts
<1>4. Reachable /\ Disposed
  BY DEF Init, Reachable, Disposed, Alive
<1> QED
  BY <1>1, <1>2, <1>3, <1>4 DEF Safe

LEMMA TypeStep ==
  ASSUME TypeOK, [Next]_vars
  PROVE  TypeOK'
<1> USE DEF TypeOK, Go, Show, RemoveWorktree, Terminating, Overlapping, Settled,
      shutdown, history, call, session, stops
<1>a. CASE RunSettles
  BY <1>a DEF RunSettles
<1>1. ASSUME NEW c \in Candidates, Start(c) PROVE TypeOK'
  BY <1>1 DEF Start
<1>2. ASSUME NEW k \in Stops, NEW c \in Candidates, Stop(k, c) PROVE TypeOK'
  BY <1>2 DEF Stop
<1>3. ASSUME NEW k \in Stops, StopExited(k) PROVE TypeOK'
  BY <1>3 DEF StopExited
<1>4. ASSUME NEW k \in Stops, StopRemoved(k) PROVE TypeOK'
  BY <1>4 DEF StopRemoved
<1>5. ASSUME NEW s \in Starts, ReadFails(s) PROVE TypeOK'
  BY <1>5 DEF ReadFails
<1>6. ASSUME NEW s \in Starts, Register(s) PROVE TypeOK'
  BY <1>6 DEF Register
<1>7. ASSUME NEW s \in Starts, CreateWorktree(s) PROVE TypeOK'
  BY <1>7 DEF CreateWorktree
<1>8. ASSUME NEW s \in Starts, Spawn(s) PROVE TypeOK'
  BY <1>8 DEF Spawn
<1>9. ASSUME NEW s \in Starts, NoLaunch(s) PROVE TypeOK'
  BY <1>9 DEF NoLaunch
<1>10. ASSUME NEW s \in Starts, Fails(s) PROVE TypeOK'
  BY <1>10 DEF Fails
<1>11. ASSUME NEW s \in Starts, FailedExited(s) PROVE TypeOK'
  BY <1>11 DEF FailedExited
<1>12. ASSUME NEW s \in Starts, Publish(s) PROVE TypeOK'
  BY <1>12 DEF Publish
<1>13. ASSUME NEW s \in Starts, StartRemoved(s) PROVE TypeOK'
  BY <1>13 DEF StartRemoved
<1>14. ASSUME NEW s \in Starts, Answer(s) PROVE TypeOK'
  BY <1>14 DEF Answer
<1>15. ASSUME NEW s \in Starts, Exit(s) PROVE TypeOK'
  BY <1>15 DEF Exit
<1>16. ASSUME NEW s \in Starts, Terminated(s) PROVE TypeOK'
  BY <1>16 DEF Terminated
<1>17. ASSUME NEW s \in Starts, Finish(s) PROVE TypeOK'
  <2>1. CASE previews[of[s]] # s \/ ~handle[s]
    BY <1>17, <2>1 DEF Finish
  <2>2. CASE ~(previews[of[s]] # s \/ ~handle[s])
    <3> DEFINE over == IF stopping[s] THEN "stopped" ELSE "failed"
    <3>1. status' = [status EXCEPT ![s] = over] /\ over \in Settled
      BY <1>17, <2>2 DEF Finish
    <3>2. status' \in [Starts -> {"none", "starting", "running"} \cup Settled]
      BY <3>1
    <3>3. /\ handle' = [handle EXCEPT ![s] = FALSE]
          /\ worktree' = [worktree EXCEPT ![s] = FALSE]
          /\ watch' = [watch EXCEPT ![s] = FALSE]
          /\ UNCHANGED <<stopping, active, previews, call, process, stops,
                         shutdown, history>>
      BY <1>17, <2>2 DEF Finish
    <3> QED
      BY <3>2, <3>3
  <2> QED
    BY <2>1, <2>2
<1>18. ASSUME NEW s \in Starts, DisposeExited(s) PROVE TypeOK'
  BY <1>18 DEF DisposeExited
<1>19. ASSUME NEW s \in Starts, DisposeRemoved(s) PROVE TypeOK'
  BY <1>19 DEF DisposeRemoved
<1>20. CASE Dispose
  BY <1>20 DEF Dispose
<1>z. CASE UNCHANGED vars
  BY <1>z DEF vars
<1> QED
  BY <1>1, <1>2, <1>3, <1>4, <1>5, <1>6, <1>7, <1>8, <1>9, <1>10, <1>11, <1>12,
     <1>13, <1>14, <1>15, <1>16, <1>17, <1>18, <1>19, <1>20, <1>a, <1>z DEF Next,
     StartStep, StopStep, DisposeStep

LEMMA PartsStep ==
  ASSUME Safe, TypeOK', [Next]_vars
  PROVE  /\ Unmade' /\ Handled' /\ Shown'
         /\ Named' /\ Alone' /\ Reachable'
         /\ Disposed'
<1> USE NoneAssumption DEF Safe, TypeOK, Go, Show, RemoveWorktree, Terminating,
      Alive, shutdown, history, call, session, stops
<1> DEFINE Parts == /\ Unmade /\ Handled /\ Shown /\ Named /\ Alone /\ Reachable
                    /\ Disposed
<1>1. ASSUME NEW c \in Candidates, Start(c) PROVE Parts'
  <2>1. Unmade' /\ Handled' /\ Shown'
    BY <1>1 DEF Start, Unmade, Handled, Shown, Attended
  <2>2. Named' /\ Alone' /\ Reachable'
    BY <1>1 DEF Start, Unmade, Named, Alone, Reachable, Overlapping, InFlight,
       Shown, Handled
  <2>3. Disposed'
    BY <1>1 DEF Start, Unmade, Handled, Disposed, Overlapping
  <2> QED
    BY <2>1, <2>2, <2>3
<1>2. ASSUME NEW k \in Stops, NEW c \in Candidates, Stop(k, c) PROVE Parts'
  <2>1. Unmade' /\ Handled' /\ Shown'
    BY <1>2 DEF Stop, Unmade, Handled, Shown, Attended
  <2>2. Named' /\ Alone' /\ Reachable'
    BY <1>2 DEF Stop, Unmade, Named, Alone, Reachable, Overlapping
  <2>3. Disposed'
    BY <1>2 DEF Stop, Unmade, Handled, Disposed, Overlapping
  <2> QED
    BY <2>1, <2>2, <2>3
<1>3. ASSUME NEW k \in Stops, StopExited(k) PROVE Parts'
  <2>1. Unmade' /\ Handled' /\ Shown'
    BY <1>3 DEF StopExited, Unmade, Handled, Shown, Attended
  <2>2. Named' /\ Alone' /\ Reachable'
    BY <1>3 DEF StopExited, Unmade, Named, Alone, Reachable
  <2>3. Disposed'
    BY <1>3 DEF StopExited, Unmade, Handled, Disposed
  <2> QED
    BY <2>1, <2>2, <2>3
<1>4. ASSUME NEW k \in Stops, StopRemoved(k) PROVE Parts'
  <2>1. Unmade' /\ Handled' /\ Shown'
    BY <1>4 DEF StopRemoved, Unmade, Handled, Shown, Attended
  <2>2. Named' /\ Alone' /\ Reachable'
    BY <1>4 DEF StopRemoved, Unmade, Named, Alone, Reachable
  <2>3. Disposed'
    BY <1>4 DEF StopRemoved, Unmade, Handled, Disposed
  <2> QED
    BY <2>1, <2>2, <2>3
<1>5. ASSUME NEW s \in Starts, ReadFails(s) PROVE Parts'
  <2>1. Unmade' /\ Handled' /\ Shown'
    BY <1>5 DEF ReadFails, Unmade, Handled, Shown, Attended
  <2>2. Named' /\ Alone' /\ Reachable'
    BY <1>5 DEF ReadFails, Unmade, Named, Alone, Reachable
  <2>3. Disposed'
    BY <1>5 DEF ReadFails, Unmade, Handled, Disposed
  <2> QED
    BY <2>1, <2>2, <2>3
<1>6. ASSUME NEW s \in Starts, Register(s) PROVE Parts'
  <2>1. Unmade' /\ Handled' /\ Shown'
    BY <1>6 DEF Register, Unmade, Handled, Shown, Attended
  <2>2. Named' /\ Alone' /\ Reachable'
    BY <1>6 DEF Register, Unmade, Named, Alone, Reachable
  <2>3. Disposed'
    BY <1>6 DEF Register, Unmade, Handled, Disposed
  <2> QED
    BY <2>1, <2>2, <2>3
<1>7. ASSUME NEW s \in Starts, CreateWorktree(s) PROVE Parts'
  <2>1. Unmade' /\ Handled' /\ Shown'
    BY <1>7 DEF CreateWorktree, Unmade, Handled, Shown, Attended
  <2>2. Named' /\ Alone' /\ Reachable'
    BY <1>7 DEF CreateWorktree, Unmade, Named, Alone, Reachable
  <2>3. Disposed'
    BY <1>7 DEF CreateWorktree, Unmade, Handled, Disposed
  <2> QED
    BY <2>1, <2>2, <2>3
<1>8. ASSUME NEW s \in Starts, Spawn(s) PROVE Parts'
  <2>1. Unmade' /\ Handled' /\ Shown'
    BY <1>8 DEF Spawn, Unmade, Handled, Shown, Attended
  <2>2. Named' /\ Alone' /\ Reachable'
    BY <1>8 DEF Spawn, Unmade, Named, Alone, Reachable
  <2>3. Disposed'
    BY <1>8 DEF Spawn, Unmade, Handled, Disposed
  <2> QED
    BY <2>1, <2>2, <2>3
<1>9. ASSUME NEW s \in Starts, NoLaunch(s) PROVE Parts'
  <2>1. Unmade' /\ Handled' /\ Shown'
    BY <1>9 DEF NoLaunch, Unmade, Handled, Shown, Attended
  <2>2. Named' /\ Alone' /\ Reachable'
    BY <1>9 DEF NoLaunch, Unmade, Named, Alone, Reachable
  <2>3. Disposed'
    BY <1>9 DEF NoLaunch, Unmade, Handled, Disposed
  <2> QED
    BY <2>1, <2>2, <2>3
<1>10. ASSUME NEW s \in Starts, Fails(s) PROVE Parts'
  <2>1. Unmade' /\ Handled' /\ Shown'
    BY <1>10 DEF Fails, Unmade, Handled, Shown, Attended
  <2>2. Named' /\ Alone' /\ Reachable'
    BY <1>10 DEF Fails, Unmade, Named, Alone, Reachable
  <2>3. Disposed'
    BY <1>10 DEF Fails, Unmade, Handled, Disposed
  <2> QED
    BY <2>1, <2>2, <2>3
<1>11. ASSUME NEW s \in Starts, FailedExited(s) PROVE Parts'
  <2>1. Unmade' /\ Handled' /\ Shown'
    BY <1>11 DEF FailedExited, Unmade, Handled, Shown, Attended
  <2>2. Named' /\ Alone' /\ Reachable'
    BY <1>11 DEF FailedExited, Unmade, Named, Alone, Reachable
  <2>3. Disposed'
    BY <1>11 DEF FailedExited, Unmade, Handled, Disposed
  <2> QED
    BY <2>1, <2>2, <2>3
<1>12. ASSUME NEW s \in Starts, Publish(s) PROVE Parts'
  <2>1. Unmade' /\ Handled' /\ Shown'
    BY <1>12 DEF Publish, Unmade, Handled, Shown, Attended
  <2>2. Named' /\ Alone' /\ Reachable'
    BY <1>12 DEF Publish, Unmade, Named, Alone, Reachable
  <2>3. Disposed'
    BY <1>12 DEF Publish, Unmade, Handled, Disposed
  <2> QED
    BY <2>1, <2>2, <2>3
<1>13. ASSUME NEW s \in Starts, StartRemoved(s) PROVE Parts'
  <2>1. Unmade' /\ Handled' /\ Shown'
    BY <1>13 DEF StartRemoved, Unmade, Handled, Shown, Attended
  <2>2. Named' /\ Alone' /\ Reachable'
    BY <1>13 DEF StartRemoved, Unmade, Named, Alone, Reachable
  <2>3. Disposed'
    BY <1>13 DEF StartRemoved, Unmade, Handled, Disposed
  <2> QED
    BY <2>1, <2>2, <2>3
<1>14. ASSUME NEW s \in Starts, Answer(s) PROVE Parts'
  <2>1. Unmade' /\ Handled' /\ Shown'
    BY <1>14 DEF Answer, Unmade, Handled, Shown, Attended
  <2>2. Named' /\ Alone' /\ Reachable'
    BY <1>14 DEF Answer, Unmade, Named, Alone, Reachable
  <2>3. Disposed'
    BY <1>14 DEF Answer, Unmade, Handled, Disposed
  <2> QED
    BY <2>1, <2>2, <2>3
<1>15. ASSUME NEW s \in Starts, Exit(s) PROVE Parts'
  <2>1. Unmade' /\ Handled' /\ Shown'
    BY <1>15 DEF Exit, Unmade, Handled, Shown, Attended
  <2>2. Named' /\ Alone' /\ Reachable'
    BY <1>15 DEF Exit, Unmade, Named, Alone, Reachable
  <2>3. Disposed'
    BY <1>15 DEF Exit, Unmade, Handled, Disposed
  <2> QED
    BY <2>1, <2>2, <2>3
<1>16. ASSUME NEW s \in Starts, Terminated(s) PROVE Parts'
  <2>1. Unmade' /\ Handled' /\ Shown'
    BY <1>16 DEF Terminated, Unmade, Handled, Shown, Attended
  <2>2. Named' /\ Alone' /\ Reachable'
    BY <1>16 DEF Terminated, Unmade, Named, Alone, Reachable
  <2>3. Disposed'
    BY <1>16 DEF Terminated, Unmade, Handled, Disposed
  <2> QED
    BY <2>1, <2>2, <2>3
<1>17. ASSUME NEW s \in Starts, Finish(s) PROVE Parts'
  <2>1. Unmade' /\ Handled' /\ Shown'
    BY <1>17 DEF Finish, Unmade, Handled, Shown, Attended
  <2>2. Named' /\ Alone' /\ Reachable'
    BY <1>17 DEF Finish, Unmade, Named, Alone, Reachable
  <2>3. Disposed'
    BY <1>17 DEF Finish, Unmade, Handled, Disposed
  <2> QED
    BY <2>1, <2>2, <2>3
<1>18. ASSUME NEW s \in Starts, DisposeExited(s) PROVE Parts'
  <2>1. Unmade' /\ Handled' /\ Shown'
    BY <1>18 DEF DisposeExited, Unmade, Handled, Shown, Attended
  <2>2. Named' /\ Alone' /\ Reachable'
    BY <1>18 DEF DisposeExited, Unmade, Named, Alone, Reachable
  <2>3. Disposed'
    BY <1>18 DEF DisposeExited, Unmade, Handled, Disposed
  <2> QED
    BY <2>1, <2>2, <2>3
<1>19. ASSUME NEW s \in Starts, DisposeRemoved(s) PROVE Parts'
  <2>1. Unmade' /\ Handled' /\ Shown'
    BY <1>19 DEF DisposeRemoved, Unmade, Handled, Shown, Attended
  <2>2. Named' /\ Alone' /\ Reachable'
    BY <1>19 DEF DisposeRemoved, Unmade, Named, Alone, Reachable
  <2>3. Disposed'
    BY <1>19 DEF DisposeRemoved, Unmade, Handled, Disposed
  <2> QED
    BY <2>1, <2>2, <2>3
<1>20. CASE Dispose
  <2>1. Unmade' /\ Handled' /\ Shown'
    BY <1>20 DEF Dispose, Unmade, Handled, Shown, Attended, Disposed
  <2>2. Named' /\ Alone' /\ Reachable'
    BY <1>20 DEF Dispose, Unmade, Named, Alone, Reachable
  <2>3. Disposed'
    BY <1>20 DEF Dispose, Unmade, Handled, Disposed, Reachable
  <2> QED
    BY <2>1, <2>2, <2>3
<1>a. CASE RunSettles
  BY <1>a DEF RunSettles, Unmade, Handled, Shown, Named, Alone, Reachable,
     Disposed, Attended
<1>z. CASE UNCHANGED vars
  BY <1>z DEF vars, Unmade, Handled, Shown, Named, Alone, Reachable, Disposed,
     Attended
<1> QED
  BY <1>1, <1>2, <1>3, <1>4, <1>5, <1>6, <1>7, <1>8, <1>9, <1>10, <1>11, <1>12,
     <1>13, <1>14, <1>15, <1>16, <1>17, <1>18, <1>19, <1>20, <1>a, <1>z DEF Next,
     StartStep, StopStep, DisposeStep

LEMMA SafeAlways == Spec => []Safe
<1>1. ASSUME Safe, [Next]_vars PROVE Safe'
  <2>1. TypeOK'
    BY <1>1, TypeStep DEF Safe
  <2> QED
    BY <1>1, <2>1, PartsStep DEF Safe
<1> QED
  BY SafeInit, <1>1, PTL DEF Spec

-----------------------------------------------------------------------------
(* Every variable keeps its type: the types of the sessions, of the calls  *)
(* and of what they await, for all candidates and bounds.                  *)
THEOREM CandidatePreviewType == Spec => []TypeOK
<1>1. Safe => TypeOK
  BY DEF Safe
<1> QED
  BY <1>1, SafeAlways, PTL

(* A session that is over and that no call works on leaves no process and  *)
(* no worktree, whatever starts, stops, exits and dispose interleave.      *)
THEOREM CandidatePreviewReclaims == Spec => []SettledIsReclaimed
<1>1. Safe => SettledIsReclaimed
  BY DEF Safe, Shown, SettledIsReclaimed, Settled
<1> QED
  BY <1>1, SafeAlways, PTL

(* As long as no two calls for its candidate overlapped, a live process    *)
(* belongs to the session that the map names, which has its handle.        *)
THEOREM CandidatePreviewReachable == Spec => []LiveIsReachable
<1>1. Safe => LiveIsReachable
  BY DEF Safe, Reachable, Handled, LiveIsReachable
<1> QED
  BY <1>1, SafeAlways, PTL

(* A process that outlives dispose was spawned after dispose was called,   *)
(* or calls for its candidate had overlapped.                              *)
THEOREM CandidatePreviewDisposes == Spec => []DisposeMissesOnlyUnspawned
<1>1. Safe => DisposeMissesOnlyUnspawned
  BY DEF Safe, Disposed, DisposeMissesOnlyUnspawned
<1> QED
  BY <1>1, SafeAlways, PTL

=============================================================================
