--------------------------- MODULE ArenaHostProofs --------------------------
(***************************************************************************)
(* Proofs about ArenaHost, for all sets of runs, every limit and every     *)
(* amount of trouble: its types, and that a run that no disposal met with  *)
(* a call in flight has one executor and one writer, is owned while it is  *)
(* shown as active, leaves nothing behind when it is cleaned, and never    *)
(* has its edits committed beside those of another run.                    *)
(*                                                                         *)
(* The induction is about those runs only.  What makes it work is Calls,   *)
(* Executors and Astray: their calls, executors and contenders astray      *)
(* belong to the service that is there, because dispose waits for the      *)
(* executors it knows and everything it does not wait for makes its run    *)
(* late.  Pending adds that nobody is at work on a run that waits for its  *)
(* recovery.                                                               *)
(***************************************************************************)
EXTENDS ArenaHost, FiniteSetTheorems, TLAPS

-----------------------------------------------------------------------------
(* What dispose will add to the generation has been counted as trouble *)
Spent == service \in {"closing", "draining"} => gen < trouble

(* Calls and executors of a run that is not late belong to this service *)
Calls ==
  \A j \in Job : j[1] \notin late =>
    /\ Called(j) => j[2] = gen /\ service \in {"up", "booting"}
    /\ promoting[j] # "none" => service = "up"

Executors ==
  \A j \in Job :
    j[1] \notin late /\ exec[j] # "none"
      => /\ j[2] = gen /\ service # "down"
         /\ service = "draining" => j \in awaited
         /\ service \in {"closing", "draining"} => j \in aborted

(* A start precedes the record, everything else follows it *)
Recorded ==
  /\ \A r \in known : status[r] # "none"
  /\ \A j \in Job : j[1] \notin late =>
       /\ starting[j] # "none" => status[j[1]] = "none"
       /\ exec[j] # "none" \/ j \in cancelling => status[j[1]] # "none"

(* A contender astray has lost an event, and belongs to this service, too *)
Astray ==
  \A j \in strays :
    /\ j[1] \in lost
    /\ j[1] \notin late => j[2] = gen /\ service # "down" /\ status[j[1]] # "none"

Owned ==
  service \in {"up", "booting"} =>
    \A r \in known \ (lost \cup late) : Active(r) => exec[<<r, gen>>] # "none" \/ r \in todo

Cleaned ==
  \A r \in cleaned \ (hasty \cup late) :
    /\ r \notin tree /\ status[r] \notin {"none", "active"}
    /\ \A j \in Job : j[1] = r => exec[j] = "none" /\ j \notin strays

(* A cleanup in flight, begun after the end, meets nobody *)
Cleaning ==
  \A i \in Job :
    aside[i] \in {"cleanup", "removed"} /\ i[1] \notin hasty \cup late =>
      /\ aside[i] = "removed" => i[1] \notin tree
      /\ status[i[1]] \notin {"none", "active"}
      /\ \A j \in Job : j[1] = i[1] => exec[j] = "none" /\ j \notin strays

(* A promotion counts as whole from its verification on *)
Whole(r) == txn[r] = "committed" \/ promoting[<<r, gen>>] = "verified"

Committed ==
  /\ \A r \in Run \ late :
       promoting[<<r, gen>>] \in {"checked", "open", "patched", "applied"} => txn[r] # "committed"
  /\ \A q, r \in Run \ late :
       /\ Whole(q) /\ <<q, "tracked">> \in bytes
       /\ Whole(r) /\ <<r, "tracked">> \in bytes
       => q = r

HInv ==
  /\ TypeOK
  /\ broken \subseteq late
  /\ Spent
  /\ Calls
  /\ Executors
  /\ Recorded
  /\ Astray
  /\ Owned
  /\ Cleaned
  /\ Cleaning
  /\ Committed

(* A run that waits for its recovery has nobody at work on it *)
Pending ==
  /\ service # "booting" => todo = {}
  /\ \A r \in todo \ late :
       /\ Active(r)
       /\ exec[<<r, gen>>] = "none" /\ <<r, gen>> \notin strays \cup cancelling

-----------------------------------------------------------------------------
(* A job is a run and a generation *)
LEMMA JobParts ==
  /\ \A j \in Job : j[1] \in Run /\ j[2] \in Generation /\ j = <<j[1], j[2]>>
  /\ \A r \in Run, g \in Generation :
       <<r, g>> \in Job /\ <<r, g>>[1] = r /\ <<r, g>>[2] = g
BY DEF Job

(* The jobs with a controller *)
LEMMA OwnJobsAreJobs ==
  TypeOK => \A j : j \in OwnJobs <=> j \in Job /\ j[2] = gen /\ exec[j] # "none"
<1> SUFFICES ASSUME TypeOK, NEW j
             PROVE  j \in OwnJobs <=> j \in Job /\ j[2] = gen /\ exec[j] # "none"
  OBVIOUS
<1>1. gen \in Generation
  BY DEF TypeOK
<1>2. ASSUME j \in OwnJobs PROVE j \in Job /\ j[2] = gen /\ exec[j] # "none"
  <2>1. PICK r \in Run : exec[<<r, gen>>] # "none" /\ j = <<r, gen>>
    BY <1>2 DEF OwnJobs, Of, Controllers
  <2>2. QED
    BY <1>1, <2>1, JobParts
<1>3. ASSUME j \in Job, j[2] = gen, exec[j] # "none" PROVE j \in OwnJobs
  <2>1. j[1] \in Run /\ j = <<j[1], gen>>
    BY <1>3, JobParts
  <2>2. QED
    BY <1>3, <2>1 DEF OwnJobs, Of, Controllers
<1>4. QED
  BY <1>2, <1>3

(* What a promotion writes *)
LEMMA OwnBytes ==
  \A r \in Run :
    /\ OwnTracked(r) \subseteq (Run \cup {User}) \X Kind
    /\ Own(r) \subseteq (Run \cup {User}) \X Kind
BY DEF Own, OwnTracked, OwnAdded, Kind

(* What a job can record of a promotion *)
LEMMA TxnType ==
  ASSUME TypeOK, NEW j \in Job, NEW t \in {"none", "open", "committed", "attention"}, SetTxn(j, t)
  PROVE  txn' \in [Run -> {"none", "open", "committed", "attention"}] /\ broken' \subseteq Run
<1>1. j[1] \in Run /\ broken \subseteq Run
      /\ txn \in [Run -> {"none", "open", "committed", "attention"}]
  BY JobParts DEF TypeOK
<1>2. CASE Owns(j)
  <2>1. txn' = [txn EXCEPT ![j[1]] = t] /\ broken' = broken
    BY <1>2 DEF SetTxn
  <2>2. QED
    BY <1>1, <2>1
<1>3. CASE ~Owns(j)
  <2>1. txn' = txn /\ broken' = broken \cup {j[1]}
    BY <1>3 DEF SetTxn
  <2>2. QED
    BY <1>1, <2>1
<1>4. QED
  BY <1>2, <1>3

LEMMA HostInit == Init => HInv /\ Pending
<1> SUFFICES ASSUME Init PROVE HInv /\ Pending
  OBVIOUS
<1> USE JobParts, LimitAssumption, BoundAssumption DEF Init
<1>1. TypeOK
  <2>1. gen \in Generation /\ base \in [Run -> Nat]
    BY DEF Generation
  <2>2. status \in [Run -> {"none", "active", "completed", "failed", "cancelled"}]
    OBVIOUS
  <2>3. txn \in [Run -> {"none", "open", "committed", "attention"}]
    OBVIOUS
  <2>4. exec \in [Job -> {"none", "prepare", "adding", "work", "deciding", "failing", "stopping"}]
    OBVIOUS
  <2>5. starting \in [Job -> {"none"} \cup InFlight]
    OBVIOUS
  <2>6. promoting \in [Job -> {"none", "checked", "open", "patched", "applied", "verified"}]
    OBVIOUS
  <2>7. gen <= trouble /\ trouble \in 0..MaxTrouble
        /\ commits \in Seq(SUBSET ((Run \cup {User}) \X Kind))
    OBVIOUS
  <2>8. aside \in [Job -> {"none", "cleanup", "removed", "event"}]
    OBVIOUS
  <2>9. QED
    BY <2>1, <2>2, <2>3, <2>4, <2>5, <2>6, <2>7, <2>8, Zenon DEF TypeOK
<1>2. /\ broken \subseteq late /\ Spent /\ Calls /\ Executors /\ Recorded /\ Astray
      /\ Owned /\ Cleaned /\ Cleaning
  BY DEF Spent, Calls, Called, Executors, Recorded, Astray, Owned, Cleaned, Cleaning
<1>3. Committed
  BY DEF Committed, Whole
<1>4. Pending
  BY DEF Pending
<1>5. QED
  BY <1>1, <1>2, <1>3, <1>4 DEF HInv

LEMMA HostStep == HInv /\ Pending /\ [Next]_vars => HInv'
<1> SUFFICES ASSUME HInv, Pending, [Next]_vars PROVE HInv'
  OBVIOUS
<1> USE JobParts, RunAssumption DEF record, calls, control, lifecycle, checkout, history
<1>1. ASSUME NEW j \in Job, ExecAdd(j) PROVE HInv'
  <2>1. TypeOK'
    BY <1>1 DEF TypeOK, HInv, ExecAdd, SetStatus, Owns, InFlight
  <2>2. (broken \subseteq late)'
    BY <1>1 DEF TypeOK, HInv, ExecAdd, SetStatus, Owns, Executors, Calls, Called, Astray
  <2>3. Executors'
    BY <1>1 DEF TypeOK, HInv, ExecAdd, SetStatus, Owns, Executors, Calls, Called
  <2>4. Recorded'
    BY <1>1 DEF TypeOK, HInv, ExecAdd, SetStatus, Owns, Recorded, Calls, Called, Executors, Astray
  <2>5. Astray'
    BY <1>1 DEF TypeOK, HInv, ExecAdd, SetStatus, Owns, Astray, Executors, Recorded
  <2>6. Owned'
    BY <1>1 DEF TypeOK, HInv, ExecAdd, SetStatus, Owns, Owned, Active, Executors, Calls
  <2>7. Cleaned'
    BY <1>1 DEF TypeOK, HInv, ExecAdd, SetStatus, Owns, Cleaned, Executors, Recorded, Cleaning
  <2>8. Cleaning'
    BY <1>1 DEF TypeOK, HInv, ExecAdd, SetStatus, Owns, Cleaning, Executors, Recorded
  <2>9. Spent' /\ Calls' /\ Committed'
    BY <1>1 DEF HInv, ExecAdd, Spent, Calls, Committed, Called, Whole
  <2>10. QED
    BY <2>1, <2>2, <2>3, <2>4, <2>5, <2>6, <2>7, <2>8, <2>9 DEF HInv
<1>2. ASSUME NEW j \in Job, ExecAdded(j) PROVE HInv'
  <2>1. TypeOK'
    BY <1>2 DEF TypeOK, HInv, ExecAdded, SetStatus, Owns, InFlight
  <2>2. (broken \subseteq late)'
    BY <1>2 DEF TypeOK, HInv, ExecAdded, SetStatus, Owns, Executors, Calls, Called, Astray
  <2>3. Executors'
    BY <1>2 DEF TypeOK, HInv, ExecAdded, SetStatus, Owns, Executors, Calls, Called
  <2>4. Recorded'
    BY <1>2
    DEF TypeOK, HInv, ExecAdded, SetStatus, Owns, Recorded, Calls, Called, Executors, Astray
  <2>5. Astray'
    BY <1>2 DEF TypeOK, HInv, ExecAdded, SetStatus, Owns, Astray, Executors, Recorded
  <2>6. Owned'
    BY <1>2 DEF TypeOK, HInv, ExecAdded, SetStatus, Owns, Owned, Active, Executors, Calls
  <2>7. Cleaned'
    BY <1>2 DEF TypeOK, HInv, ExecAdded, SetStatus, Owns, Cleaned, Executors, Recorded, Cleaning
  <2>8. Cleaning'
    BY <1>2 DEF TypeOK, HInv, ExecAdded, SetStatus, Owns, Cleaning, Executors, Recorded
  <2>9. Spent' /\ Calls' /\ Committed'
    BY <1>2 DEF HInv, ExecAdded, Spent, Calls, Committed, Called, Whole
  <2>10. QED
    BY <2>1, <2>2, <2>3, <2>4, <2>5, <2>6, <2>7, <2>8, <2>9 DEF HInv
<1>3. ASSUME NEW j \in Job, ExecWrites(j) PROVE HInv'
  <2>1. TypeOK'
    BY <1>3 DEF TypeOK, HInv, ExecWrites, InFlight
  <2>2. Cleaned'
    BY <1>3 DEF TypeOK, HInv, ExecWrites, Cleaned, Executors, Recorded, Cleaning
  <2>3. Cleaning'
    <3>1. exec[j] # "none" \/ j \in strays
      BY <1>3 DEF ExecWrites
    <3>2. \A i \in Job : i[1] # j[1] => (i[1] \in tree' <=> i[1] \in tree)
      BY <1>3 DEF ExecWrites
    <3>3. UNCHANGED <<aside, hasty, late, status, exec, strays>>
      BY <1>3 DEF ExecWrites
    <3>4. QED
      BY <3>1, <3>2, <3>3 DEF HInv, Cleaning
  <2>4. (broken \subseteq late)' /\ Spent' /\ Calls' /\ Executors' /\ Recorded' /\ Astray' /\ Owned'
        /\ Committed'
    BY <1>3
    DEF HInv, ExecWrites, Spent, Calls, Executors, Recorded, Astray, Owned, Committed, Active,
        Called, Whole
  <2>5. QED
    BY <2>1, <2>2, <2>3, <2>4 DEF HInv
<1>4. ASSUME NEW j \in Job, ExecStops(j) PROVE HInv'
  <2>1. TypeOK'
    BY <1>4 DEF TypeOK, HInv, ExecStops, SignalSeen, InFlight
  <2>2. Executors'
    BY <1>4 DEF TypeOK, HInv, ExecStops, SignalSeen, Executors, Calls, Called
  <2>3. Recorded'
    BY <1>4 DEF TypeOK, HInv, ExecStops, SignalSeen, Recorded, Calls, Called, Executors, Astray
  <2>4. Owned'
    BY <1>4 DEF TypeOK, HInv, ExecStops, SignalSeen, Owned, Active, Executors, Calls
  <2>5. Cleaned'
    BY <1>4 DEF TypeOK, HInv, ExecStops, SignalSeen, Cleaned, Executors, Recorded, Cleaning
  <2>6. Cleaning'
    BY <1>4 DEF TypeOK, HInv, ExecStops, SignalSeen, Cleaning, Executors, Recorded
  <2>7. (broken \subseteq late)' /\ Spent' /\ Calls' /\ Astray' /\ Committed'
    BY <1>4 DEF HInv, ExecStops, Spent, Calls, Astray, Committed, Called, Whole
  <2>8. QED
    BY <2>1, <2>2, <2>3, <2>4, <2>5, <2>6, <2>7 DEF HInv
<1>5. ASSUME NEW j \in Job, ExecDecides(j) PROVE HInv'
  <2>1. TypeOK'
    BY <1>5 DEF TypeOK, HInv, ExecDecides, InFlight
  <2>2. Executors'
    BY <1>5 DEF TypeOK, HInv, ExecDecides, Executors, Calls, Called
  <2>3. Recorded'
    BY <1>5 DEF TypeOK, HInv, ExecDecides, Recorded, Calls, Called, Executors, Astray
  <2>4. Owned'
    BY <1>5 DEF TypeOK, HInv, ExecDecides, Owned, Active, Executors, Calls
  <2>5. Cleaned'
    BY <1>5 DEF TypeOK, HInv, ExecDecides, Cleaned, Executors, Recorded, Cleaning
  <2>6. Cleaning'
    BY <1>5 DEF TypeOK, HInv, ExecDecides, Cleaning, Executors, Recorded
  <2>7. (broken \subseteq late)' /\ Spent' /\ Calls' /\ Astray' /\ Committed'
    BY <1>5 DEF HInv, ExecDecides, Spent, Calls, Astray, Committed, Called, Whole
  <2>8. QED
    BY <2>1, <2>2, <2>3, <2>4, <2>5, <2>6, <2>7 DEF HInv
<1>6. ASSUME NEW j \in Job, ExecEnds(j) PROVE HInv'
  <2>1. TypeOK'
    BY <1>6 DEF TypeOK, HInv, ExecEnds, SetStatus, Owns, Settle, EndsAs, InFlight
  <2>2. (broken \subseteq late)'
    BY <1>6
    DEF TypeOK, HInv, ExecEnds, SetStatus, Owns, Settle, EndsAs, Executors, Calls, Called, Astray
  <2>3. Executors'
    BY <1>6 DEF TypeOK, HInv, ExecEnds, SetStatus, Owns, Settle, EndsAs, Executors, Calls, Called
  <2>4. Recorded'
    BY <1>6
    DEF TypeOK, HInv, ExecEnds, SetStatus, Owns, Settle, EndsAs, Recorded, Calls, Called,
        Executors, Astray
  <2>5. Astray'
    BY <1>6
    DEF TypeOK, HInv, ExecEnds, SetStatus, Owns, Settle, EndsAs, Astray, Executors, Recorded
  <2>6. Owned'
    BY <1>6
    DEF TypeOK, HInv, ExecEnds, SetStatus, Owns, Settle, EndsAs, Owned, Active, Executors, Calls
  <2>7. Cleaned'
    BY <1>6
    DEF TypeOK, HInv, ExecEnds, SetStatus, Owns, Settle, EndsAs, Cleaned, Executors, Recorded,
        Cleaning
  <2>8. Cleaning'
    BY <1>6
    DEF TypeOK, HInv, ExecEnds, SetStatus, Owns, Settle, EndsAs, Cleaning, Executors, Recorded
  <2>9. Spent' /\ Calls' /\ Committed'
    BY <1>6 DEF HInv, ExecEnds, Spent, Calls, Committed, Called, Whole
  <2>10. QED
    BY <2>1, <2>2, <2>3, <2>4, <2>5, <2>6, <2>7, <2>8, <2>9 DEF HInv
<1>7. ASSUME NEW j \in Job, ExecStopped(j) PROVE HInv'
  <2>1. TypeOK'
    BY <1>7 DEF TypeOK, HInv, ExecStopped, SetStatus, Owns, Settle, Active, InFlight
  <2>2. (broken \subseteq late)'
    BY <1>7
    DEF TypeOK, HInv, ExecStopped, SetStatus, Owns, Settle, Active, Executors, Calls, Called,
        Astray
  <2>3. Executors'
    BY <1>7
    DEF TypeOK, HInv, ExecStopped, SetStatus, Owns, Settle, Active, Executors, Calls, Called
  <2>4. Recorded'
    BY <1>7
    DEF TypeOK, HInv, ExecStopped, SetStatus, Owns, Settle, Active, Recorded, Calls, Called,
        Executors, Astray
  <2>5. Astray'
    BY <1>7
    DEF TypeOK, HInv, ExecStopped, SetStatus, Owns, Settle, Active, Astray, Executors, Recorded
  <2>6. Owned'
    BY <1>7
    DEF TypeOK, HInv, ExecStopped, SetStatus, Owns, Settle, Active, Owned, Executors, Calls
  <2>7. Cleaned'
    BY <1>7
    DEF TypeOK, HInv, ExecStopped, SetStatus, Owns, Settle, Active, Cleaned, Executors, Recorded,
        Cleaning
  <2>8. Cleaning'
    BY <1>7
    DEF TypeOK, HInv, ExecStopped, SetStatus, Owns, Settle, Active, Cleaning, Executors, Recorded
  <2>9. Spent' /\ Calls' /\ Committed'
    BY <1>7 DEF HInv, ExecStopped, Spent, Calls, Committed, Called, Whole
  <2>10. QED
    BY <2>1, <2>2, <2>3, <2>4, <2>5, <2>6, <2>7, <2>8, <2>9 DEF HInv
<1>8. ASSUME NEW j \in Job, ExecLost(j) PROVE HInv'
  <2>1. TypeOK'
    BY <1>8, BoundAssumption DEF TypeOK, HInv, ExecLost, Settle, InFlight, Spent, Generation
  <2>2. Spent'
    BY <1>8, BoundAssumption DEF TypeOK, HInv, ExecLost, Settle, Spent, Generation
  <2>3. Executors'
    BY <1>8 DEF TypeOK, HInv, ExecLost, Settle, Executors, Calls, Called
  <2>4. Recorded'
    BY <1>8 DEF TypeOK, HInv, ExecLost, Settle, Recorded, Calls, Called, Executors, Astray
  <2>5. Astray'
    BY <1>8 DEF TypeOK, HInv, ExecLost, Settle, Astray, Executors, Recorded
  <2>6. Owned'
    BY <1>8 DEF TypeOK, HInv, ExecLost, Settle, Owned, Active, Executors, Calls
  <2>7. Cleaned'
    BY <1>8 DEF TypeOK, HInv, ExecLost, Settle, Cleaned, Executors, Recorded, Cleaning
  <2>8. Cleaning'
    BY <1>8 DEF TypeOK, HInv, ExecLost, Settle, Cleaning, Executors, Recorded
  <2>9. (broken \subseteq late)' /\ Calls' /\ Committed'
    BY <1>8 DEF HInv, ExecLost, Calls, Committed, Called, Whole
  <2>10. QED
    BY <2>1, <2>2, <2>3, <2>4, <2>5, <2>6, <2>7, <2>8, <2>9 DEF HInv
<1>9. ASSUME NEW j \in Job, ExecDeadline(j) PROVE HInv'
  <2>1. TypeOK'
    BY <1>9 DEF TypeOK, HInv, ExecDeadline, InFlight
  <2>2. Calls'
    <3>1. j[1] \notin late => j[2] = gen /\ service \in {"up", "booting"}
      BY <1>9 DEF TypeOK, HInv, ExecDeadline, Executors
    <3>2. \A i \in Job : i # j => aside'[i] = aside[i]
      BY <1>9 DEF TypeOK, HInv, ExecDeadline
    <3>3. QED
      BY <1>9, <3>1, <3>2 DEF HInv, ExecDeadline, Calls, Called
  <2>3. Cleaning'
    BY <1>9 DEF TypeOK, HInv, ExecDeadline, Cleaning, Executors, Recorded
  <2>4. (broken \subseteq late)' /\ Spent' /\ Executors' /\ Recorded' /\ Astray' /\ Owned' /\ Cleaned'
        /\ Committed'
    BY <1>9
    DEF HInv, ExecDeadline, Spent, Executors, Recorded, Astray, Owned, Cleaned, Committed, Active,
        Whole
  <2>5. QED
    BY <2>1, <2>2, <2>3, <2>4 DEF HInv
<1>10. ASSUME NEW j \in Job, ExecStrays(j) PROVE HInv'
  <2>1. TypeOK'
    BY <1>10, BoundAssumption DEF TypeOK, HInv, ExecStrays, InFlight, Spent, Generation
  <2>2. Spent'
    BY <1>10, BoundAssumption DEF TypeOK, HInv, ExecStrays, Spent, Generation
  <2>3. Executors'
    BY <1>10 DEF TypeOK, HInv, ExecStrays, Executors, Calls, Called
  <2>4. Recorded'
    BY <1>10 DEF TypeOK, HInv, ExecStrays, Recorded, Calls, Called, Executors, Astray
  <2>5. Astray'
    BY <1>10 DEF TypeOK, HInv, ExecStrays, Astray, Executors, Recorded
  <2>6. Owned'
    BY <1>10 DEF TypeOK, HInv, ExecStrays, Owned, Active, Executors, Calls
  <2>7. Cleaned'
    BY <1>10 DEF TypeOK, HInv, ExecStrays, Cleaned, Executors, Recorded, Cleaning
  <2>8. Cleaning'
    BY <1>10 DEF TypeOK, HInv, ExecStrays, Cleaning, Executors, Recorded
  <2>9. (broken \subseteq late)' /\ Calls' /\ Committed'
    BY <1>10 DEF HInv, ExecStrays, Calls, Committed, Called, Whole
  <2>10. QED
    BY <2>1, <2>2, <2>3, <2>4, <2>5, <2>6, <2>7, <2>8, <2>9 DEF HInv
<1>11. ASSUME NEW j \in Job, StrayRecords(j) PROVE HInv'
  <2>1. TypeOK'
    <3>1. status' \in [Run -> {"none", "active", "completed", "failed", "cancelled"}]
          /\ broken' \subseteq Run
      BY <1>11 DEF TypeOK, HInv, StrayRecords, SetStatus, Appends
    <3>2. QED
      BY <1>11, <3>1 DEF TypeOK, HInv, StrayRecords, InFlight
  <2>2. (broken \subseteq late)'
    BY <1>11
    DEF TypeOK, HInv, StrayRecords, SetStatus, Owns, Appends, Executors, Calls, Called, Astray
  <2>3. Recorded'
    BY <1>11
    DEF TypeOK, HInv, StrayRecords, SetStatus, Owns, Appends, Recorded, Calls, Called, Executors,
        Astray
  <2>4. Astray'
    BY <1>11 DEF TypeOK, HInv, StrayRecords, SetStatus, Owns, Appends, Astray, Executors, Recorded
  <2>5. Owned'
    <3>1. \A r \in Run : r # j[1] => status'[r] = status[r]
      BY <1>11 DEF TypeOK, HInv, StrayRecords, SetStatus, Appends
    <3>2. j[1] \in lost /\ UNCHANGED <<service, known, todo, lost, late, exec, gen>>
      BY <1>11 DEF HInv, Astray, StrayRecords
    <3>3. QED
      BY <3>1, <3>2 DEF TypeOK, HInv, Owned, Active
  <2>6. Cleaned'
    BY <1>11
    DEF TypeOK, HInv, StrayRecords, SetStatus, Owns, Appends, Cleaned, Executors, Recorded,
        Cleaning
  <2>7. Cleaning'
    BY <1>11
    DEF TypeOK, HInv, StrayRecords, SetStatus, Owns, Appends, Cleaning, Executors, Recorded
  <2>8. Spent' /\ Calls' /\ Executors' /\ Committed'
    BY <1>11 DEF HInv, StrayRecords, Spent, Calls, Executors, Committed, Called, Whole
  <2>9. QED
    BY <2>1, <2>2, <2>3, <2>4, <2>5, <2>6, <2>7, <2>8 DEF HInv
<1>12. ASSUME NEW j \in Job, StrayEnds(j) PROVE HInv'
  <2>1. TypeOK'
    BY <1>12 DEF TypeOK, HInv, StrayEnds, InFlight
  <2>2. Astray'
    BY <1>12 DEF TypeOK, HInv, StrayEnds, Astray, Executors, Recorded
  <2>3. Cleaned'
    BY <1>12 DEF TypeOK, HInv, StrayEnds, Cleaned, Executors, Recorded, Cleaning
  <2>4. Cleaning'
    BY <1>12 DEF TypeOK, HInv, StrayEnds, Cleaning, Executors, Recorded
  <2>5. (broken \subseteq late)' /\ Spent' /\ Calls' /\ Executors' /\ Recorded' /\ Owned'  /\
        Committed'
    BY <1>12
    DEF HInv, StrayEnds, Spent, Calls, Executors, Recorded, Owned, Committed, Active, Called,
        Whole
  <2>6. QED
    BY <2>1, <2>2, <2>3, <2>4, <2>5 DEF HInv
<1>13. ASSUME NEW j \in Job, StartStatus(j) PROVE HInv'
  <2>1. TypeOK'
    BY <1>13 DEF TypeOK, HInv, StartStatus, Clean, InFlight
  <2>2. Calls'
    BY <1>13 DEF TypeOK, HInv, StartStatus, Clean, Calls, Called
  <2>3. Recorded'
    BY <1>13 DEF TypeOK, HInv, StartStatus, Clean, Recorded, Calls, Called, Executors, Astray
  <2>4. (broken \subseteq late)' /\ Spent' /\ Executors' /\ Astray' /\ Owned' /\ Cleaned' /\ Cleaning'
        /\ Committed'
    BY <1>13
    DEF HInv, StartStatus, Spent, Executors, Astray, Owned, Cleaned, Cleaning, Committed, Active,
        Whole
  <2>5. QED
    BY <2>1, <2>2, <2>3, <2>4 DEF HInv
<1>14. ASSUME NEW j \in Job, StartDiscover(j) PROVE HInv'
  <2>1. TypeOK'
    BY <1>14 DEF TypeOK, HInv, StartDiscover, HEAD, InFlight
  <2>2. Calls'
    BY <1>14 DEF TypeOK, HInv, StartDiscover, HEAD, Calls, Called
  <2>3. Recorded'
    BY <1>14 DEF TypeOK, HInv, StartDiscover, HEAD, Recorded, Calls, Called, Executors, Astray
  <2>4. (broken \subseteq late)' /\ Spent' /\ Executors' /\ Astray' /\ Owned' /\ Cleaned' /\ Cleaning'
        /\ Committed'
    BY <1>14
    DEF HInv, StartDiscover, Spent, Executors, Astray, Owned, Cleaned, Cleaning, Committed,
        Active, Whole
  <2>5. QED
    BY <2>1, <2>2, <2>3, <2>4 DEF HInv
<1>15. ASSUME NEW j \in Job, StartRefused(j) PROVE HInv'
  <2>1. TypeOK'
    BY <1>15 DEF TypeOK, HInv, StartRefused, InFlight
  <2>2. Calls'
    BY <1>15 DEF TypeOK, HInv, StartRefused, InFlight, Calls, Called
  <2>3. Recorded'
    BY <1>15 DEF TypeOK, HInv, StartRefused, InFlight, Recorded, Calls, Called, Executors, Astray
  <2>4. (broken \subseteq late)' /\ Spent' /\ Executors' /\ Astray' /\ Owned' /\ Cleaned' /\ Cleaning'
        /\ Committed'
    BY <1>15
    DEF HInv, StartRefused, Spent, Executors, Astray, Owned, Cleaned, Cleaning, Committed, Active,
        Whole
  <2>5. QED
    BY <2>1, <2>2, <2>3, <2>4 DEF HInv
<1>16. ASSUME NEW j \in Job, StartCreate(j) PROVE HInv'
  <2>1. TypeOK'
    BY <1>16 DEF TypeOK, HInv, StartCreate, InFlight
  <2>2. Calls'
    BY <1>16 DEF TypeOK, HInv, StartCreate, Calls, Called
  <2>3. Executors'
    BY <1>16 DEF TypeOK, HInv, StartCreate, Executors, Calls, Called
  <2>4. Recorded'
    <3>1. j[1] \in Run /\ status' = [status EXCEPT ![j[1]] = "active"]
          /\ known' \subseteq known \cup {j[1]} /\ UNCHANGED <<late, cancelling>>
          /\ starting' = [starting EXCEPT ![j] = "none"]
          /\ exec' = [exec EXCEPT ![j] = "prepare"]
      BY <1>16 DEF StartCreate
    <3>2. \A r \in known' : status'[r] # "none"
      BY <3>1 DEF TypeOK, HInv, Recorded
    <3>3. ASSUME NEW i \in Job, i[1] \notin late, starting'[i] # "none" PROVE i[1] # j[1]
      <4>1. i # j /\ starting[i] # "none" /\ starting[j] # "none"
        BY <1>16, <3>1, <3>3 DEF TypeOK, HInv, StartCreate
      <4>2. i[1] = j[1] => i[2] = gen /\ j[2] = gen
        BY <3>3, <4>1 DEF HInv, Calls, Called
      <4>3. QED
        BY <4>1, <4>2
    <3>4. QED
      BY <3>1, <3>2, <3>3 DEF TypeOK, HInv, Recorded
  <2>5. Astray'
    BY <1>16 DEF TypeOK, HInv, StartCreate, Astray, Executors, Recorded
  <2>6. Owned'
    <3>1. /\ known' = IF j[2] = gen THEN known \cup {j[1]} ELSE known
          /\ status' = [status EXCEPT ![j[1]] = "active"]
          /\ exec' = [exec EXCEPT ![j] = "prepare"]
          /\ UNCHANGED <<service, todo, lost, late, gen>> /\ starting[j] # "none"
      BY <1>16 DEF StartCreate
    <3>2. gen \in Generation /\ \A r \in Run : <<r, gen>> \in Job
      BY DEF TypeOK, HInv
    <3>3. j[1] \notin late => j = <<j[1], gen>>
      BY <3>1 DEF HInv, Calls, Called
    <3>4. QED
      BY <3>1, <3>2, <3>3 DEF TypeOK, HInv, Owned, Active
  <2>7. Cleaned'
    BY <1>16 DEF TypeOK, HInv, StartCreate, Cleaned, Executors, Recorded, Cleaning
  <2>8. Cleaning'
    BY <1>16 DEF TypeOK, HInv, StartCreate, Cleaning, Executors, Recorded
  <2>9. (broken \subseteq late)' /\ Spent' /\ Committed'
    BY <1>16 DEF HInv, StartCreate, Spent, Committed, Whole
  <2>10. QED
    BY <2>1, <2>2, <2>3, <2>4, <2>5, <2>6, <2>7, <2>8, <2>9 DEF HInv
<1>17. ASSUME NEW j \in Job, CancelPublish(j) PROVE HInv'
  <2>1. TypeOK'
    BY <1>17 DEF TypeOK, HInv, CancelPublish, SetStatus, Owns, InFlight
  <2>2. (broken \subseteq late)'
    BY <1>17 DEF TypeOK, HInv, CancelPublish, SetStatus, Owns, Executors, Calls, Called, Astray
  <2>3. Calls'
    BY <1>17 DEF TypeOK, HInv, CancelPublish, SetStatus, Owns, Calls, Called
  <2>4. Recorded'
    BY <1>17
    DEF TypeOK, HInv, CancelPublish, SetStatus, Owns, Recorded, Calls, Called, Executors, Astray
  <2>5. Astray'
    BY <1>17 DEF TypeOK, HInv, CancelPublish, SetStatus, Owns, Astray, Executors, Recorded
  <2>6. Owned'
    BY <1>17 DEF TypeOK, HInv, CancelPublish, SetStatus, Owns, Owned, Active, Executors, Calls
  <2>7. Cleaned'
    BY <1>17
    DEF TypeOK, HInv, CancelPublish, SetStatus, Owns, Cleaned, Executors, Recorded, Cleaning
  <2>8. Cleaning'
    BY <1>17 DEF TypeOK, HInv, CancelPublish, SetStatus, Owns, Cleaning, Executors, Recorded
  <2>9. Spent' /\ Executors' /\ Committed'
    BY <1>17 DEF HInv, CancelPublish, Spent, Executors, Committed, Whole
  <2>10. QED
    BY <2>1, <2>2, <2>3, <2>4, <2>5, <2>6, <2>7, <2>8, <2>9 DEF HInv
<1>18. ASSUME NEW j \in Job, CleanupRemoves(j) PROVE HInv'
  <2>1. TypeOK'
    <3>1. tree' \subseteq tree
      BY <1>18 DEF CleanupRemoves
    <3>2. aside' \in [Job -> {"none", "cleanup", "removed", "event"}]
      <4>1. PICK s \in {"none", "removed"} : aside' = [aside EXCEPT ![j] = s]
        BY <1>18, Zenon DEF CleanupRemoves
      <4>2. QED
        BY <4>1 DEF TypeOK, HInv
    <3>3. QED
      BY <1>18, <3>1, <3>2 DEF TypeOK, HInv, CleanupRemoves, InFlight
  <2>2. Calls'
    BY <1>18 DEF TypeOK, HInv, CleanupRemoves, Calls, Called
  <2>3. Cleaned'
    BY <1>18 DEF TypeOK, HInv, CleanupRemoves, Cleaned, Executors, Recorded, Cleaning
  <2>4. Cleaning'
    BY <1>18 DEF TypeOK, HInv, CleanupRemoves, Cleaning, Executors, Recorded
  <2>5. (broken \subseteq late)' /\ Spent' /\ Executors' /\ Recorded' /\ Astray' /\ Owned'  /\
        Committed'
    BY <1>18
    DEF HInv, CleanupRemoves, Spent, Executors, Recorded, Astray, Owned, Committed, Active, Whole
  <2>6. QED
    BY <2>1, <2>2, <2>3, <2>4, <2>5 DEF HInv
<1>19. ASSUME NEW j \in Job, CleanupRecords(j) PROVE HInv'
  <2>1. TypeOK'
    BY <1>19 DEF TypeOK, HInv, CleanupRecords, SetCleaned, Owns, InFlight
  <2>2. (broken \subseteq late)'
    BY <1>19 DEF TypeOK, HInv, CleanupRecords, SetCleaned, Owns, Executors, Calls, Called, Astray
  <2>3. Calls'
    BY <1>19 DEF TypeOK, HInv, CleanupRecords, SetCleaned, Owns, Calls, Called
  <2>4. Cleaned'
    BY <1>19
    DEF TypeOK, HInv, CleanupRecords, SetCleaned, Owns, Cleaned, Executors, Recorded, Cleaning
  <2>5. Cleaning'
    BY <1>19 DEF TypeOK, HInv, CleanupRecords, SetCleaned, Owns, Cleaning, Executors, Recorded
  <2>6. Spent' /\ Executors' /\ Recorded' /\ Astray' /\ Owned' /\ Committed'
    BY <1>19
    DEF HInv, CleanupRecords, Spent, Executors, Recorded, Astray, Owned, Committed, Active, Whole
  <2>7. QED
    BY <2>1, <2>2, <2>3, <2>4, <2>5, <2>6 DEF HInv
<1>20. ASSUME NEW j \in Job, EventRecorded(j) PROVE HInv'
  <2>1. TypeOK'
    BY <1>20 DEF TypeOK, HInv, EventRecorded, Appends, Owns, InFlight
  <2>2. (broken \subseteq late)'
    BY <1>20 DEF TypeOK, HInv, EventRecorded, Appends, Owns, Executors, Calls, Called, Astray
  <2>3. Calls'
    BY <1>20 DEF TypeOK, HInv, EventRecorded, Appends, Owns, Calls, Called
  <2>4. Cleaning'
    BY <1>20 DEF TypeOK, HInv, EventRecorded, Appends, Owns, Cleaning, Executors, Recorded
  <2>5. Spent' /\ Executors' /\ Recorded' /\ Astray' /\ Owned' /\ Cleaned' /\ Committed'
    BY <1>20
    DEF HInv, EventRecorded, Spent, Executors, Recorded, Astray, Owned, Cleaned, Committed,
        Active, Whole
  <2>6. QED
    BY <2>1, <2>2, <2>3, <2>4, <2>5 DEF HInv
<1>21. ASSUME NEW j \in Job, PromoteOpen(j) PROVE HInv'
  <2>1. TypeOK'
    <3>1. txn' \in [Run -> {"none", "open", "committed", "attention"}] /\ broken' \subseteq Run
      <4>1. CASE SetTxn(j, "open")
        BY <4>1, TxnType DEF HInv
      <4>2. CASE UNCHANGED <<txn, broken>>
        BY <4>2 DEF HInv, TypeOK
      <4>3. QED
        BY <1>21, <4>1, <4>2 DEF PromoteOpen
    <3>2. promoting' \in [Job -> {"none", "checked", "open", "patched", "applied", "verified"}]
      <4>1. PICK p \in {"open", "none"} : promoting' = [promoting EXCEPT ![j] = p]
        BY <1>21, Zenon DEF PromoteOpen
      <4>2. QED
        BY <4>1 DEF HInv, TypeOK
    <3>3. QED
      BY <1>21, <3>1, <3>2 DEF TypeOK, HInv, PromoteOpen, InFlight
  <2>2. (broken \subseteq late)'
    BY <1>21 DEF TypeOK, HInv, PromoteOpen, SetTxn, Owns, Executors, Calls, Called, Astray
  <2>3. Calls'
    BY <1>21 DEF TypeOK, HInv, PromoteOpen, SetTxn, Owns, Calls, Called
  <2>4. Committed'
    <3>1. /\ promoting[j] = "checked" /\ promoting'[j] \in {"open", "none"}
          /\ \A i \in Job : i # j => promoting'[i] = promoting[i]
          /\ UNCHANGED <<late, gen, bytes>>
      BY <1>21 DEF TypeOK, HInv, PromoteOpen
    <3>2. \A r \in Run : txn'[r] = txn[r] \/ (r = j[1] /\ txn'[r] = "open")
      BY <1>21 DEF TypeOK, HInv, PromoteOpen, SetTxn
    <3>3. gen \in Generation
      BY DEF TypeOK, HInv
    <3>4. \A r \in Run \ late :
            /\ Whole(r)' => Whole(r)
            /\ promoting'[<<r, gen>>] = promoting[<<r, gen>>] \/ <<r, gen>> = j
      BY <3>1, <3>2, <3>3 DEF Whole
    <3>5. QED
      BY <3>1, <3>2, <3>3, <3>4 DEF HInv, Committed
  <2>5. Spent' /\ Executors' /\ Recorded' /\ Astray' /\ Owned' /\ Cleaned' /\ Cleaning'
    BY <1>21
    DEF HInv, PromoteOpen, Spent, Executors, Recorded, Astray, Owned, Cleaned, Cleaning, Active
  <2>6. QED
    BY <2>1, <2>2, <2>3, <2>4, <2>5 DEF HInv
<1>22. ASSUME NEW j \in Job, PromoteApply(j) PROVE HInv'
  <2>1. TypeOK'
    <3>1. bytes' \subseteq (Run \cup {User}) \X Kind
      BY <1>22, OwnBytes DEF TypeOK, HInv, PromoteApply
    <3>2. QED
      BY <1>22, <3>1 DEF TypeOK, HInv, PromoteApply, InFlight
  <2>2. Calls'
    BY <1>22 DEF TypeOK, HInv, PromoteApply, OwnTracked, Calls, Called
  <2>3. Committed'
    <3>1. /\ promoting[j] \in {"open", "patched"} /\ promoting'[j] \in {"patched", "applied"}
          /\ \A i \in Job : i # j => promoting'[i] = promoting[i]
          /\ UNCHANGED <<late, gen, txn>> /\ bytes' \subseteq bytes \cup Own(j[1])
      BY <1>22 DEF TypeOK, HInv, PromoteApply, Own
    <3>2. \A b \in Own(j[1]) : b[1] = j[1]
      BY DEF Own, OwnTracked, OwnAdded
    <3>3. j[1] \notin late => j = <<j[1], gen>>
      BY <3>1 DEF HInv, Calls, Called
    <3>4. \A r \in Run \ late :
            r # j[1] => /\ Whole(r)' <=> Whole(r)
                        /\ <<r, "tracked">> \in bytes' => <<r, "tracked">> \in bytes
      <4>1. gen \in Generation
        BY DEF TypeOK, HInv
      <4>2. \A r \in Run : r # j[1] => <<r, gen>> \in Job /\ <<r, gen>> # j
        BY <4>1
      <4>3. QED
        BY <3>1, <3>2, <4>2 DEF Whole
    <3>5. j[1] \notin late => txn[j[1]] # "committed" /\ ~Whole(j[1])'
      BY <3>1, <3>3 DEF HInv, Committed, Whole
    <3>6. \A r \in Run \ late : r # j[1] => promoting'[<<r, gen>>] = promoting[<<r, gen>>]
      <4>1. gen \in Generation
        BY DEF TypeOK, HInv
      <4>2. QED
        BY <3>1, <4>1
    <3>7. QED
      BY <3>1, <3>4, <3>5, <3>6 DEF HInv, Committed
  <2>4. (broken \subseteq late)' /\ Spent' /\ Executors' /\ Recorded' /\ Astray' /\ Owned' /\ Cleaned'
        /\ Cleaning'
    BY <1>22
    DEF HInv, PromoteApply, Spent, Executors, Recorded, Astray, Owned, Cleaned, Cleaning, Active
  <2>5. QED
    BY <2>1, <2>2, <2>3, <2>4 DEF HInv
<1>23. ASSUME NEW j \in Job, PromoteCopy(j) PROVE HInv'
  <2>1. TypeOK'
    <3>1. bytes' \subseteq (Run \cup {User}) \X Kind
      BY <1>23, OwnBytes DEF TypeOK, HInv, PromoteCopy
    <3>2. QED
      BY <1>23, <3>1 DEF TypeOK, HInv, PromoteCopy, InFlight
  <2>2. Calls'
    BY <1>23 DEF TypeOK, HInv, PromoteCopy, Own, OwnTracked, OwnAdded, Calls, Called
  <2>3. Committed'
    <3>1. /\ promoting[j] \in {"open", "patched"} /\ promoting'[j] \in {"patched", "applied"}
          /\ \A i \in Job : i # j => promoting'[i] = promoting[i]
          /\ UNCHANGED <<late, gen, txn>> /\ bytes' \subseteq bytes \cup Own(j[1])
      BY <1>23 DEF TypeOK, HInv, PromoteCopy, Own
    <3>2. \A b \in Own(j[1]) : b[1] = j[1]
      BY DEF Own, OwnTracked, OwnAdded
    <3>3. j[1] \notin late => j = <<j[1], gen>>
      BY <3>1 DEF HInv, Calls, Called
    <3>4. \A r \in Run \ late :
            r # j[1] => /\ Whole(r)' <=> Whole(r)
                        /\ <<r, "tracked">> \in bytes' => <<r, "tracked">> \in bytes
      <4>1. gen \in Generation
        BY DEF TypeOK, HInv
      <4>2. \A r \in Run : r # j[1] => <<r, gen>> \in Job /\ <<r, gen>> # j
        BY <4>1
      <4>3. QED
        BY <3>1, <3>2, <4>2 DEF Whole
    <3>5. j[1] \notin late => txn[j[1]] # "committed" /\ ~Whole(j[1])'
      BY <3>1, <3>3 DEF HInv, Committed, Whole
    <3>6. \A r \in Run \ late : r # j[1] => promoting'[<<r, gen>>] = promoting[<<r, gen>>]
      <4>1. gen \in Generation
        BY DEF TypeOK, HInv
      <4>2. QED
        BY <3>1, <4>1
    <3>7. QED
      BY <3>1, <3>4, <3>5, <3>6 DEF HInv, Committed
  <2>4. (broken \subseteq late)' /\ Spent' /\ Executors' /\ Recorded' /\ Astray' /\ Owned' /\ Cleaned'
        /\ Cleaning'
    BY <1>23
    DEF HInv, PromoteCopy, Spent, Executors, Recorded, Astray, Owned, Cleaned, Cleaning, Active
  <2>5. QED
    BY <2>1, <2>2, <2>3, <2>4 DEF HInv
<1>24. ASSUME NEW j \in Job, PromoteVerify(j) PROVE HInv'
  <2>1. TypeOK'
    BY <1>24 DEF TypeOK, HInv, PromoteVerify, Exact, Diff, Tracked, OwnTracked, InFlight
  <2>2. Calls'
    BY <1>24 DEF TypeOK, HInv, PromoteVerify, Exact, Diff, Tracked, OwnTracked, Calls, Called
  <2>3. Committed'
    BY <1>24
    DEF TypeOK, HInv, PromoteVerify, Exact, Diff, Tracked, OwnTracked, Committed, Whole, Calls,
        Called
  <2>4. (broken \subseteq late)' /\ Spent' /\ Executors' /\ Recorded' /\ Astray' /\ Owned' /\ Cleaned'
        /\ Cleaning'
    BY <1>24
    DEF HInv, PromoteVerify, Spent, Executors, Recorded, Astray, Owned, Cleaned, Cleaning, Active
  <2>5. QED
    BY <2>1, <2>2, <2>3, <2>4 DEF HInv
<1>25. ASSUME NEW j \in Job, PromoteCommit(j) PROVE HInv'
  <2>1. TypeOK'
    BY <1>25 DEF TypeOK, HInv, PromoteCommit, SetTxn, Owns, InFlight
  <2>2. (broken \subseteq late)'
    BY <1>25 DEF TypeOK, HInv, PromoteCommit, SetTxn, Owns, Executors, Calls, Called, Astray
  <2>3. Calls'
    BY <1>25 DEF TypeOK, HInv, PromoteCommit, SetTxn, Owns, Calls, Called
  <2>4. Committed'
    BY <1>25 DEF TypeOK, HInv, PromoteCommit, SetTxn, Owns, Committed, Whole, Calls, Called
  <2>5. Spent' /\ Executors' /\ Recorded' /\ Astray' /\ Owned' /\ Cleaned' /\ Cleaning'
    BY <1>25
    DEF HInv, PromoteCommit, Spent, Executors, Recorded, Astray, Owned, Cleaned, Cleaning, Active
  <2>6. QED
    BY <2>1, <2>2, <2>3, <2>4, <2>5 DEF HInv
<1>26. ASSUME NEW j \in Job, PromoteRollback(j) PROVE HInv'
  <2>1. TypeOK'
    <3>1. txn' \in [Run -> {"none", "open", "committed", "attention"}] /\ broken' \subseteq Run
      <4>1. PICK t \in {"none", "attention"} : SetTxn(j, t)
        BY <1>26, Zenon DEF PromoteRollback
      <4>2. QED
        BY <4>1, TxnType DEF HInv
    <3>2. promoting' \in [Job -> {"none", "checked", "open", "patched", "applied", "verified"}]
          /\ bytes' \subseteq bytes
      BY <1>26 DEF TypeOK, HInv, PromoteRollback, TakenBack
    <3>3. QED
      BY <1>26, <3>1, <3>2 DEF TypeOK, HInv, PromoteRollback, InFlight
  <2>2. (broken \subseteq late)'
    BY <1>26
    DEF TypeOK, HInv, PromoteRollback, SetTxn, Owns, TakenBack, Executors, Calls, Called, Astray
  <2>3. Calls'
    BY <1>26 DEF TypeOK, HInv, PromoteRollback, SetTxn, Owns, TakenBack, Calls, Called
  <2>4. Committed'
    BY <1>26
    DEF TypeOK, HInv, PromoteRollback, SetTxn, Owns, TakenBack, Committed, Whole, Calls, Called
  <2>5. Spent' /\ Executors' /\ Recorded' /\ Astray' /\ Owned' /\ Cleaned' /\ Cleaning'
    BY <1>26
    DEF HInv, PromoteRollback, Spent, Executors, Recorded, Astray, Owned, Cleaned, Cleaning,
        Active
  <2>6. QED
    BY <2>1, <2>2, <2>3, <2>4, <2>5 DEF HInv
<1>27. ASSUME NEW r \in Run, r \notin late, StartCheck(r) PROVE HInv'
  <2>1. TypeOK'
    BY <1>27 DEF TypeOK, HInv, StartCheck, BelowLimit, Of, InFlight
  <2>2. Calls'
    BY <1>27 DEF TypeOK, HInv, StartCheck, BelowLimit, Of, InFlight, Calls, Called
  <2>3. Recorded'
    BY <1>27
    DEF TypeOK, HInv, StartCheck, BelowLimit, Of, InFlight, Recorded, Calls, Called, Executors,
        Astray
  <2>4. (broken \subseteq late)' /\ Spent' /\ Executors' /\ Astray' /\ Owned' /\ Cleaned' /\ Cleaning'
        /\ Committed'
    BY <1>27
    DEF HInv, StartCheck, Spent, Executors, Astray, Owned, Cleaned, Cleaning, Committed, Active,
        Whole
  <2>5. QED
    BY <2>1, <2>2, <2>3, <2>4 DEF HInv
<1>28. ASSUME NEW r \in Run, r \notin late, Cancel(r) PROVE HInv'
  <2>1. TypeOK'
    BY <1>28 DEF TypeOK, HInv, Cancel, Active, Controllers, Of, InFlight
  <2>2. Calls'
    BY <1>28 DEF TypeOK, HInv, Cancel, Active, Controllers, Of, Calls, Called
  <2>3. Executors'
    BY <1>28 DEF TypeOK, HInv, Cancel, Active, Controllers, Of, Executors, Calls, Called
  <2>4. Recorded'
    BY <1>28
    DEF TypeOK, HInv, Cancel, Active, Controllers, Of, Recorded, Calls, Called, Executors, Astray
  <2>5. (broken \subseteq late)' /\ Spent' /\ Astray' /\ Owned' /\ Cleaned' /\ Cleaning' /\ Committed'
    BY <1>28 DEF HInv, Cancel, Spent, Astray, Owned, Cleaned, Cleaning, Committed, Active, Whole
  <2>6. QED
    BY <2>1, <2>2, <2>3, <2>4, <2>5 DEF HInv
<1>29. ASSUME NEW r \in Run, r \notin late, CleanupBegin(r) PROVE HInv'
  <2>1. TypeOK'
    BY <1>29 DEF TypeOK, HInv, CleanupBegin, Active, Of, InFlight
  <2>2. Calls'
    BY <1>29 DEF TypeOK, HInv, CleanupBegin, Active, Of, Calls, Called
  <2>3. Cleaned'
    BY <1>29 DEF TypeOK, HInv, CleanupBegin, Active, Of, Cleaned, Executors, Recorded, Cleaning
  <2>4. Cleaning'
    BY <1>29 DEF TypeOK, HInv, CleanupBegin, Active, Of, Cleaning, Executors, Recorded
  <2>5. (broken \subseteq late)' /\ Spent' /\ Executors' /\ Recorded' /\ Astray' /\ Owned'  /\
        Committed'
    BY <1>29
    DEF HInv, CleanupBegin, Spent, Executors, Recorded, Astray, Owned, Committed, Active, Whole
  <2>6. QED
    BY <2>1, <2>2, <2>3, <2>4, <2>5 DEF HInv
<1>30. ASSUME NEW r \in Run, r \notin late, Evaluate(r) PROVE HInv'
  <2>1. TypeOK'
    BY <1>30 DEF TypeOK, HInv, Evaluate, Active, Of, InFlight
  <2>2. Calls'
    BY <1>30 DEF TypeOK, HInv, Evaluate, Active, Of, Calls, Called
  <2>3. Cleaning'
    BY <1>30 DEF TypeOK, HInv, Evaluate, Active, Of, Cleaning, Executors, Recorded
  <2>4. (broken \subseteq late)' /\ Spent' /\ Executors' /\ Recorded' /\ Astray' /\ Owned' /\ Cleaned'
        /\ Committed'
    BY <1>30
    DEF HInv, Evaluate, Spent, Executors, Recorded, Astray, Owned, Cleaned, Committed, Active,
        Whole
  <2>5. QED
    BY <2>1, <2>2, <2>3, <2>4 DEF HInv
<1>31. ASSUME NEW r \in Run, r \notin late, PromoteCheck(r) PROVE HInv'
  <2>1. TypeOK'
    BY <1>31 DEF TypeOK, HInv, PromoteCheck, Clean, Of, HEAD, InFlight
  <2>2. Calls'
    BY <1>31 DEF TypeOK, HInv, PromoteCheck, Clean, Of, HEAD, Calls, Called
  <2>3. Committed'
    BY <1>31 DEF TypeOK, HInv, PromoteCheck, Clean, Of, HEAD, Committed, Whole, Calls, Called
  <2>4. (broken \subseteq late)' /\ Spent' /\ Executors' /\ Recorded' /\ Astray' /\ Owned' /\ Cleaned'
        /\ Cleaning'
    BY <1>31
    DEF HInv, PromoteCheck, Spent, Executors, Recorded, Astray, Owned, Cleaned, Cleaning, Active
  <2>5. QED
    BY <2>1, <2>2, <2>3, <2>4 DEF HInv
<1>32. ASSUME NEW r \in Run, RecoverPromotion(r) PROVE HInv'
  <2>1. TypeOK'
    <3>1. bytes' \subseteq bytes
      BY <1>32 DEF RecoverPromotion, TakenBack
    <3>2. txn' \in [Run -> {"none", "open", "committed", "attention"}]
      <4>1. PICK t \in {"none", "committed", "attention"} : txn' = [txn EXCEPT ![r] = t]
        BY <1>32, Zenon DEF RecoverPromotion
      <4>2. QED
        BY <4>1 DEF TypeOK, HInv
    <3>3. QED
      BY <1>32, <3>1, <3>2 DEF TypeOK, HInv, RecoverPromotion, InFlight
  <2>2. Committed'
    <3>1. /\ service = "booting" /\ UNCHANGED <<late, gen, promoting>> /\ bytes' \subseteq bytes
          /\ \A q \in Run : q # r => txn'[q] = txn[q]
          /\ txn'[r] = "committed" => Exact(r)
      BY <1>32 DEF TypeOK, HInv, RecoverPromotion, TakenBack
    <3>2. \A q \in Run \ late : promoting[<<q, gen>>] = "none"
      BY <3>1 DEF TypeOK, HInv, Calls
    <3>3. Exact(r) => \A q \in Run : <<q, "tracked">> \in bytes => q = r
      BY DEF Exact, Diff, Tracked, OwnTracked
    <3>4. \A q \in Run \ late : q # r /\ Whole(q)' => Whole(q)
      BY <3>1 DEF Whole
    <3>5. txn'[r] = "committed" => \A q \in Run : <<q, "tracked">> \in bytes' => q = r
      BY <3>1, <3>3
    <3>6. r \notin late /\ Whole(r)' => txn'[r] = "committed"
      BY <3>1, <3>2 DEF Whole
    <3>7. \A p, q \in Run \ late :
            /\ Whole(p)' /\ <<p, "tracked">> \in bytes'
            /\ Whole(q)' /\ <<q, "tracked">> \in bytes'
            => p = q
      BY <3>1, <3>4, <3>5, <3>6 DEF HInv, Committed
    <3>8. QED
      BY <3>1, <3>2, <3>7 DEF HInv, Committed
  <2>3. (broken \subseteq late)' /\ Spent' /\ Calls' /\ Executors' /\ Recorded' /\ Astray' /\ Owned'
        /\ Cleaned' /\ Cleaning'
    BY <1>32
    DEF HInv, RecoverPromotion, Spent, Calls, Executors, Recorded, Astray, Owned, Cleaned,
        Cleaning, Active, Called
  <2>4. QED
    BY <2>1, <2>2, <2>3 DEF HInv
<1>33. ASSUME NEW r \in Run, Recover(r) PROVE HInv'
  <2>1. TypeOK'
    BY <1>33
    DEF TypeOK, HInv, Recover, Recoverable, Recovering, Pending, Of, Active, InFlight
  <2>2. Executors'
    BY <1>33
    DEF TypeOK, HInv, Recover, Recoverable, Recovering, Pending, Of, Active, Executors,
        Calls, Called
  <2>3. Recorded'
    BY <1>33
    DEF TypeOK, HInv, Recover, Recoverable, Recovering, Pending, Of, Active, Recorded, Calls,
        Called, Executors, Astray
  <2>4. Owned'
    BY <1>33
    DEF TypeOK, HInv, Recover, Recoverable, Recovering, Pending, Of, Active, Owned,
        Executors, Calls
  <2>5. Cleaned'
    BY <1>33
    DEF TypeOK, HInv, Recover, Recoverable, Recovering, Pending, Of, Active, Cleaned,
        Executors, Recorded, Cleaning
  <2>6. Cleaning'
    BY <1>33
    DEF TypeOK, HInv, Recover, Recoverable, Recovering, Pending, Of, Active, Cleaning,
        Executors, Recorded
  <2>7. (broken \subseteq late)' /\ Spent' /\ Calls' /\ Astray' /\ Committed'
    BY <1>33 DEF HInv, Recover, Recovering, Spent, Calls, Astray, Committed, Called, Whole
  <2>8. QED
    BY <2>1, <2>2, <2>3, <2>4, <2>5, <2>6, <2>7 DEF HInv
<1>34. ASSUME NEW r \in Run, RecoverRefused(r) PROVE HInv'
  <2>1. TypeOK'
    BY <1>34
    DEF TypeOK, HInv, RecoverRefused, Recoverable, Recovering, Pending, Of, Active, InFlight
  <2>2. Recorded'
    BY <1>34
    DEF TypeOK, HInv, RecoverRefused, Recoverable, Recovering, Pending, Of, Active, Recorded,
        Calls, Called, Executors, Astray
  <2>3. Astray'
    BY <1>34
    DEF TypeOK, HInv, RecoverRefused, Recoverable, Recovering, Pending, Of, Active, Astray,
        Executors, Recorded
  <2>4. Owned'
    BY <1>34
    DEF TypeOK, HInv, RecoverRefused, Recoverable, Recovering, Pending, Of, Active, Owned,
        Executors, Calls
  <2>5. Cleaned'
    BY <1>34
    DEF TypeOK, HInv, RecoverRefused, Recoverable, Recovering, Pending, Of, Active, Cleaned,
        Executors, Recorded, Cleaning
  <2>6. Cleaning'
    BY <1>34
    DEF TypeOK, HInv, RecoverRefused, Recoverable, Recovering, Pending, Of, Active, Cleaning,
        Executors, Recorded
  <2>7. (broken \subseteq late)' /\ Spent' /\ Calls' /\ Executors' /\ Committed'
    BY <1>34 DEF HInv, RecoverRefused, Recovering, Spent, Calls, Executors, Committed, Called, Whole
  <2>8. QED
    BY <2>1, <2>2, <2>3, <2>4, <2>5, <2>6, <2>7 DEF HInv
<1>35. CASE DisposeBegin
  <2>1. TypeOK'
    BY <1>35, BoundAssumption, OwnJobsAreJobs
    DEF TypeOK, HInv, DisposeBegin, Of, InFlight, Spent, Generation
  <2>2. (broken \subseteq late)'
    BY <1>35 DEF TypeOK, HInv, DisposeBegin, Of, Executors, Calls, Called, Astray
  <2>3. Spent'
    BY <1>35, BoundAssumption DEF TypeOK, HInv, DisposeBegin, Of, Spent, Generation
  <2>4. Calls'
    BY <1>35 DEF TypeOK, HInv, DisposeBegin, Of, Calls, Called
  <2>5. Executors'
    BY <1>35, OwnJobsAreJobs DEF TypeOK, HInv, DisposeBegin, Of, Executors, Calls, Called
  <2>6. Recorded'
    BY <1>35 DEF TypeOK, HInv, DisposeBegin, Of, Recorded, Calls, Called, Executors, Astray
  <2>7. Astray'
    BY <1>35 DEF TypeOK, HInv, DisposeBegin, Of, Astray, Executors, Recorded
  <2>8. Owned'
    BY <1>35 DEF TypeOK, HInv, DisposeBegin, Of, Owned, Active, Executors, Calls
  <2>9. Cleaned'
    BY <1>35 DEF TypeOK, HInv, DisposeBegin, Of, Cleaned, Executors, Recorded, Cleaning
  <2>10. Cleaning'
    BY <1>35 DEF TypeOK, HInv, DisposeBegin, Of, Cleaning, Executors, Recorded
  <2>11. Committed'
    BY <1>35 DEF TypeOK, HInv, DisposeBegin, Of, Committed, Whole, Calls, Called
  <2>12. QED
    BY <2>1, <2>2, <2>3, <2>4, <2>5, <2>6, <2>7, <2>8, <2>9, <2>10, <2>11 DEF HInv
<1>36. CASE DisposeAwait
  <2>1. TypeOK'
    BY <1>36, OwnJobsAreJobs DEF TypeOK, HInv, DisposeAwait, Backgrounds, InFlight
  <2>2. Spent'
    BY <1>36 DEF TypeOK, HInv, DisposeAwait, Backgrounds, Spent, Generation
  <2>3. Calls'
    BY <1>36 DEF TypeOK, HInv, DisposeAwait, Backgrounds, Calls, Called
  <2>4. Executors'
    BY <1>36, OwnJobsAreJobs DEF TypeOK, HInv, DisposeAwait, Backgrounds, Executors, Calls, Called
  <2>5. Astray'
    BY <1>36 DEF TypeOK, HInv, DisposeAwait, Backgrounds, Astray, Executors, Recorded
  <2>6. Owned'
    BY <1>36 DEF TypeOK, HInv, DisposeAwait, Backgrounds, Owned, Active, Executors, Calls
  <2>7. (broken \subseteq late)' /\ Recorded' /\ Cleaned' /\ Cleaning' /\ Committed'
    BY <1>36 DEF HInv, DisposeAwait, Recorded, Cleaned, Cleaning, Committed, Whole
  <2>8. QED
    BY <2>1, <2>2, <2>3, <2>4, <2>5, <2>6, <2>7 DEF HInv
<1>37. CASE DisposeDone
  <2>1. TypeOK'
    BY <1>37, BoundAssumption DEF TypeOK, HInv, DisposeDone, InFlight, Spent, Generation, Pending
  <2>2. (broken \subseteq late)'
    BY <1>37, <2>1 DEF TypeOK, HInv, DisposeDone, Executors, Calls, Called, Astray
  <2>3. Spent'
    BY <1>37, BoundAssumption, <2>1 DEF TypeOK, HInv, DisposeDone, Spent, Generation
  <2>4. Calls'
    BY <1>37, <2>1 DEF TypeOK, HInv, DisposeDone, Calls, Called
  <2>5. Executors'
    BY <1>37, <2>1 DEF TypeOK, HInv, DisposeDone, Executors, Calls, Called
  <2>6. Recorded'
    BY <1>37, <2>1 DEF TypeOK, HInv, DisposeDone, Recorded, Calls, Called, Executors, Astray
  <2>7. Astray'
    BY <1>37, <2>1 DEF TypeOK, HInv, DisposeDone, Astray, Executors, Recorded
  <2>8. Owned'
    BY <1>37, <2>1 DEF TypeOK, HInv, DisposeDone, Owned, Active, Executors, Calls
  <2>9. Cleaned'
    BY <1>37, <2>1 DEF TypeOK, HInv, DisposeDone, Cleaned, Executors, Recorded, Cleaning
  <2>10. Cleaning'
    BY <1>37, <2>1 DEF TypeOK, HInv, DisposeDone, Cleaning, Executors, Recorded
  <2>11. Committed'
    <3>1. \A r \in Run \ late : promoting'[<<r, gen'>>] = "none"
      <4>1. gen' \in Generation /\ gen' # gen
        BY <1>37, <2>1, BoundAssumption DEF TypeOK, HInv, Generation, DisposeDone
      <4>2. QED
        BY <1>37, <4>1 DEF TypeOK, HInv, Calls, Called, DisposeDone
    <3>2. Committed /\ UNCHANGED <<txn, bytes>> /\ late \subseteq late'
      BY <1>37 DEF HInv, DisposeDone
    <3>3. QED
      BY <3>1, <3>2 DEF Committed, Whole
  <2>12. QED
    BY <2>1, <2>2, <2>3, <2>4, <2>5, <2>6, <2>7, <2>8, <2>9, <2>10, <2>11 DEF HInv
<1>38. CASE Crash
  <2>1. TypeOK'
    BY <1>38, BoundAssumption DEF TypeOK, HInv, Crash, InFlight, Spent, Generation
  <2>2. Spent'
    BY <1>38, BoundAssumption, <2>1 DEF TypeOK, HInv, Crash, Spent, Generation
  <2>3. Calls'
    BY <1>38, <2>1 DEF TypeOK, HInv, Crash, Calls, Called
  <2>4. Executors'
    BY <1>38, <2>1 DEF TypeOK, HInv, Crash, Executors, Calls, Called
  <2>5. Recorded'
    BY <1>38, <2>1 DEF TypeOK, HInv, Crash, Recorded, Calls, Called, Executors, Astray
  <2>6. Astray'
    BY <1>38, <2>1 DEF TypeOK, HInv, Crash, Astray, Executors, Recorded
  <2>7. Owned'
    BY <1>38, <2>1 DEF TypeOK, HInv, Crash, Owned, Active, Executors, Calls
  <2>8. Cleaned'
    BY <1>38, <2>1 DEF TypeOK, HInv, Crash, Cleaned, Executors, Recorded, Cleaning
  <2>9. Cleaning'
    BY <1>38, <2>1 DEF TypeOK, HInv, Crash, Cleaning, Executors, Recorded
  <2>10. Committed'
    <3>1. \A r \in Run \ late : promoting'[<<r, gen'>>] = "none"
      <4>1. gen' \in Generation /\ gen' # gen
        BY <1>38, <2>1, BoundAssumption DEF TypeOK, HInv, Generation, Crash
      <4>2. QED
        BY <1>38, <4>1 DEF TypeOK, HInv, Calls, Called, Crash
    <3>2. Committed /\ UNCHANGED <<txn, bytes>> /\ late \subseteq late'
      BY <1>38 DEF HInv, Crash
    <3>3. QED
      BY <3>1, <3>2 DEF Committed, Whole
  <2>11. (broken \subseteq late)'
    BY <1>38 DEF HInv, Crash
  <2>12. QED
    BY <2>1, <2>2, <2>3, <2>4, <2>5, <2>6, <2>7, <2>8, <2>9, <2>10, <2>11 DEF HInv
<1>39. CASE Boot
  <2>1. TypeOK'
    BY <1>39 DEF TypeOK, HInv, Boot, Loaded, Interrupted, InFlight
  <2>2. Spent'
    BY <1>39 DEF TypeOK, HInv, Boot, Loaded, Interrupted, Spent, Generation
  <2>3. Calls'
    BY <1>39 DEF TypeOK, HInv, Boot, Loaded, Interrupted, Calls, Called
  <2>4. Executors'
    BY <1>39 DEF TypeOK, HInv, Boot, Loaded, Interrupted, Executors, Calls, Called
  <2>5. Recorded'
    BY <1>39 DEF TypeOK, HInv, Boot, Loaded, Interrupted, Recorded, Calls, Called, Executors, Astray
  <2>6. Astray'
    BY <1>39 DEF TypeOK, HInv, Boot, Loaded, Interrupted, Astray, Executors, Recorded
  <2>7. Owned'
    BY <1>39 DEF TypeOK, HInv, Boot, Loaded, Interrupted, Owned, Active, Executors, Calls
  <2>8. (broken \subseteq late)' /\ Cleaned' /\ Cleaning' /\ Committed'
    BY <1>39 DEF HInv, Boot, Loaded, Interrupted, Cleaned, Cleaning, Committed, Whole
  <2>9. QED
    BY <2>1, <2>2, <2>3, <2>4, <2>5, <2>6, <2>7, <2>8 DEF HInv
<1>40. CASE BootDone
  <2>1. TypeOK'
    BY <1>40 DEF TypeOK, HInv, BootDone, Initialized, Active, InFlight
  <2>2. Spent'
    BY <1>40 DEF TypeOK, HInv, BootDone, Initialized, Active, Spent, Generation
  <2>3. Calls'
    BY <1>40 DEF TypeOK, HInv, BootDone, Initialized, Active, Calls, Called
  <2>4. Executors'
    BY <1>40
    DEF TypeOK, HInv, BootDone, Initialized, Active, Executors, Calls, Called
  <2>5. Astray'
    BY <1>40
    DEF TypeOK, HInv, BootDone, Initialized, Active, Astray, Executors, Recorded
  <2>6. Owned'
    BY <1>40
    DEF TypeOK, HInv, BootDone, Initialized, Active, Owned, Executors, Calls
  <2>7. (broken \subseteq late)' /\ Recorded' /\ Cleaned' /\ Cleaning' /\ Committed'
    BY <1>40 DEF HInv, BootDone, Recorded, Cleaned, Cleaning, Committed, Whole
  <2>8. QED
    BY <2>1, <2>2, <2>3, <2>4, <2>5, <2>6, <2>7 DEF HInv
<1>41. CASE UserEdits
  <2>1. TypeOK'
    <3>1. bytes' \subseteq (Run \cup {User}) \X Kind
          /\ commits' \in Seq(SUBSET ((Run \cup {User}) \X Kind))
      <4> DEFINE All == (Run \cup {User}) \X Kind
      <4>1. bytes \in SUBSET All /\ commits \in Seq(SUBSET All)
        BY DEF TypeOK, HInv
      <4>2. ASSUME NEW k \in Kind, bytes' = bytes \cup {<<User, k>>}, UNCHANGED commits
            PROVE  bytes' \subseteq All /\ commits' \in Seq(SUBSET All)
        BY <4>1, <4>2
      <4>3. ASSUME NEW some \in SUBSET bytes, bytes' = bytes \ some,
                   commits' = Append(commits, some) \/ UNCHANGED commits
            PROVE  bytes' \subseteq All /\ commits' \in Seq(SUBSET All)
        <5>1. some \in SUBSET All
          BY <4>1
        <5>2. bytes' \subseteq All
          BY <4>1, <4>3
        <5> HIDE DEF All
        <5>3. Append(commits, some) \in Seq(SUBSET All)
          BY <4>1, <5>1
        <5>4. QED
          BY <4>1, <4>3, <5>2, <5>3
      <4>4. QED
        BY <1>41, <4>2, <4>3 DEF UserEdits
    <3>2. QED
      BY <1>41, <3>1, BoundAssumption DEF TypeOK, HInv, UserEdits, InFlight, Spent, Generation
  <2>2. Spent'
    BY <1>41, BoundAssumption DEF TypeOK, HInv, UserEdits, Kind, Spent, Generation
  <2>3. Committed'
    BY <1>41 DEF TypeOK, HInv, UserEdits, Kind, Committed, Whole, Calls, Called
  <2>4. (broken \subseteq late)' /\ Calls' /\ Executors' /\ Recorded' /\ Astray' /\ Owned' /\ Cleaned'
        /\ Cleaning'
    BY <1>41
    DEF HInv, UserEdits, Calls, Executors, Recorded, Astray, Owned, Cleaned, Cleaning, Active,
        Called
  <2>5. QED
    BY <2>1, <2>2, <2>3, <2>4 DEF HInv
<1>42. CASE UNCHANGED vars
  <2>1. TypeOK'
    BY <1>42 DEF TypeOK, HInv, vars, InFlight
  <2>2. (broken \subseteq late)' /\ Spent' /\ Calls' /\ Executors' /\ Recorded' /\ Astray'
        /\ Owned' /\ Cleaned' /\ Cleaning' /\ Committed'
    BY <1>42
    DEF HInv, vars, Spent, Calls, Called, Executors, Recorded, Astray, Owned, Active, Cleaned,
        Cleaning, Committed, Whole
  <2>3. QED
    BY <2>1, <2>2 DEF HInv
<1>43. QED
  BY <1>1, <1>2, <1>3, <1>4, <1>5, <1>6, <1>7, <1>8, <1>9, <1>10, <1>11, <1>12, <1>13, <1>14,
     <1>15, <1>16, <1>17, <1>18, <1>19, <1>20, <1>21, <1>22, <1>23, <1>24, <1>25, <1>26,
     <1>27, <1>28, <1>29, <1>30, <1>31, <1>32, <1>33, <1>34, <1>35, <1>36, <1>37, <1>38,
     <1>39, <1>40, <1>41, <1>42
  DEF Next, ExecStep, ExecGoesOn, CallStep, Request, Retry, Recovery, ServiceStep

(* Whoever is at work on a run that is not late keeps it from waiting. *)
LEMMA PendingStep == HInv /\ Pending /\ [Next]_vars => Pending'
<1> SUFFICES ASSUME HInv, Pending, [Next]_vars PROVE Pending'
  OBVIOUS
<1> USE JobParts DEF record, calls, control, lifecycle, checkout, history
<1>1. /\ DOMAIN exec = Job /\ DOMAIN starting = Job /\ gen \in Generation
      /\ status \in [Run -> {"none", "active", "completed", "failed", "cancelled"}]
      /\ todo \subseteq known /\ known \subseteq Run
  BY DEF HInv, TypeOK
(* A step of one job, of a run that does not wait *)
<1>2. ASSUME NEW j \in Job, j[1] \notin todo \ late,
             \A i \in Job : i # j => /\ exec'[i] = exec[i]
                                     /\ i \in strays' => i \in strays
                                     /\ i \in cancelling' => i \in cancelling,
             \A r \in Run : r # j[1] => status'[r] = status[r],
             UNCHANGED <<service, gen, todo, late>>
      PROVE  Pending'
  <2>1. \A r \in todo' \ late' : r \in todo \ late /\ r # j[1] /\ <<r, gen>> \in Job /\ <<r, gen>> # j
    BY <1>1, <1>2
  <2>2. ASSUME NEW r \in todo' \ late'
        PROVE  /\ status'[r] = "active" /\ exec'[<<r, gen>>] = "none"
               /\ <<r, gen>> \notin strays' \cup cancelling'
    <3>1. /\ r \in Run /\ status[r] = "active" /\ exec[<<r, gen>>] = "none"
          /\ <<r, gen>> \notin strays \cup cancelling
      BY <1>1, <2>1, <2>2 DEF Pending, Active
    <3>2. r # j[1] /\ <<r, gen>> \in Job /\ <<r, gen>> # j
      BY <2>1, <2>2
    <3>3. QED
      BY <1>2, <3>1, <3>2
  <2>3. (service' # "booting" => todo' = {}) /\ gen' = gen
    BY <1>2 DEF Pending
  <2>4. QED
    BY <2>2, <2>3 DEF Pending, Active
<1>3. ASSUME UNCHANGED <<service, gen, todo, status, exec, strays, cancelling>>,
             late \subseteq late'
      PROVE  Pending'
  BY <1>3 DEF Pending, Active
<1>4. ASSUME NEW j \in Job, exec[j] # "none" \/ j \in strays \/ j \in cancelling
      PROVE  j[1] \notin todo \ late
  <2>1. j[1] \notin late => j[2] = gen
    BY <1>4 DEF HInv, Executors, Astray, Calls, Called
  <2>2. QED
    BY <1>4, <2>1 DEF Pending
<1>5. ASSUME NEW j \in Job, ExecStep(j) PROVE Pending'
  <2>1. CASE ExecWrites(j) \/ ExecDeadline(j)
    BY <1>3, <2>1 DEF ExecWrites, ExecDeadline
  <2>2. CASE ExecAdd(j) \/ ExecAdded(j)
    BY <1>1, <1>2, <1>4, <2>2 DEF ExecAdd, ExecAdded, SetStatus
  <2>3. CASE ExecStops(j) \/ ExecDecides(j)
    BY <1>1, <1>2, <1>4, <2>3 DEF ExecStops, SignalSeen, ExecDecides
  <2>4. CASE ExecEnds(j)
    BY <1>1, <1>2, <1>4, <2>4 DEF ExecEnds, Settle, SetStatus
  <2>5. CASE ExecStopped(j)
    BY <1>1, <1>2, <1>4, <2>5 DEF ExecStopped, Settle, SetStatus
  <2>6. CASE ExecLost(j) \/ ExecStrays(j)
    BY <1>1, <1>2, <1>4, <2>6 DEF ExecLost, ExecStrays, Settle
  <2>7. CASE StrayRecords(j) \/ StrayEnds(j)
    BY <1>1, <1>2, <1>4, <2>7 DEF StrayRecords, StrayEnds, SetStatus
  <2>8. QED
    BY <1>5, <2>1, <2>2, <2>3, <2>4, <2>5, <2>6, <2>7 DEF ExecStep, ExecGoesOn
<1>6. ASSUME NEW j \in Job, CallStep(j) PROVE Pending'
  <2>1. CASE StartStatus(j) \/ StartDiscover(j) \/ StartRefused(j)
    BY <1>3, <2>1 DEF StartStatus, StartDiscover, StartRefused
  <2>2. CASE StartCreate(j)
    <3>1. j[1] \notin todo \ late
      BY <1>1, <2>2 DEF HInv, Recorded, StartCreate
    <3>2. QED
      BY <1>1, <1>2, <2>2, <3>1 DEF StartCreate
  <2>3. CASE CancelPublish(j)
    BY <1>1, <1>2, <1>4, <2>3 DEF CancelPublish, SetStatus
  <2>4. CASE CleanupRemoves(j) \/ CleanupRecords(j) \/ EventRecorded(j)
    BY <1>3, <2>4 DEF CleanupRemoves, CleanupRecords, EventRecorded
  <2>5. CASE PromoteOpen(j) \/ PromoteApply(j) \/ PromoteCopy(j) \/ PromoteVerify(j)
             \/ PromoteCommit(j) \/ PromoteRollback(j)
    BY <1>3, <2>5
       DEF PromoteOpen, PromoteApply, PromoteCopy, PromoteVerify, PromoteCommit, PromoteRollback
  <2>6. QED
    BY <1>6, <2>1, <2>2, <2>3, <2>4, <2>5 DEF CallStep
<1>7. ASSUME NEW r \in Run, Request(r) PROVE Pending'
  <2>1. CASE StartCheck(r) \/ CleanupBegin(r) \/ Evaluate(r) \/ PromoteCheck(r)
    BY <1>3, <2>1 DEF StartCheck, CleanupBegin, Evaluate, PromoteCheck
  <2>2. CASE Cancel(r)
    BY <2>2 DEF Cancel, Pending
  <2>3. QED
    BY <1>7, <2>1, <2>2 DEF Request, Retry
<1>8. ASSUME NEW r \in Run, Recovery(r) PROVE Pending'
  <2>1. CASE RecoverPromotion(r)
    BY <1>3, <2>1 DEF RecoverPromotion
  <2>2. CASE Recover(r)
    <3>1. /\ todo' = todo \ {r} /\ UNCHANGED <<service, gen, late, status, strays, cancelling>>
          /\ \A q \in Run : q # r => exec'[<<q, gen>>] = exec[<<q, gen>>]
      BY <1>1, <2>2 DEF Recover, Recovering, Of
    <3>2. QED
      BY <1>1, <3>1 DEF Pending, Active
  <2>3. CASE RecoverRefused(r)
    <3>1. /\ todo' = todo \ {r} /\ UNCHANGED <<service, gen, late, exec, strays, cancelling>>
          /\ \A q \in Run : q # r => status'[q] = status[q]
      BY <1>1, <2>3 DEF RecoverRefused, Recovering
    <3>2. QED
      BY <1>1, <3>1 DEF Pending, Active
  <2>4. QED
    BY <1>8, <2>1, <2>2, <2>3 DEF Recovery
<1>9. CASE DisposeBegin \/ DisposeAwait \/ DisposeDone \/ Crash \/ BootDone
  BY <1>9 DEF DisposeBegin, DisposeAwait, DisposeDone, Crash, BootDone, Initialized, Pending
<1>10. CASE Boot
  <2>1. ASSUME NEW r \in todo' \ late'
        PROVE  Active(r)' /\ exec'[<<r, gen>>] = "none" /\ <<r, gen>> \notin strays' \cup cancelling'
    <3>1. /\ r \in Run \ late /\ Active(r) /\ service = "down" /\ <<r, gen>> \in Job
          /\ UNCHANGED <<status, exec, strays, cancelling, gen>>
      BY <1>1, <1>10, <2>1 DEF Boot, Loaded, Interrupted
    <3>2. exec[<<r, gen>>] = "none" /\ <<r, gen>> \notin strays \cup cancelling
      BY <1>1, <3>1 DEF HInv, Executors, Astray, Calls, Called
    <3>3. QED
      BY <3>1, <3>2 DEF Active
  <2>2. QED
    BY <1>10, <2>1 DEF Boot, Pending
<1>11. CASE UserEdits \/ UNCHANGED vars
  BY <1>3, <1>11 DEF UserEdits, vars
<1>12. QED
  BY <1>5, <1>6, <1>7, <1>8, <1>9, <1>10, <1>11 DEF Next, ServiceStep

LEMMA HostInv == Spec => [](HInv /\ Pending)
BY HostInit, HostStep, PendingStep, PTL DEF Spec

(* The types of the service, of its jobs and of the checkout. *)
THEOREM HostType == Spec => []TypeOK
<1>1. HInv => TypeOK
  BY DEF HInv
<1>2. QED
  BY <1>1, HostInv, PTL

(* Unless a disposal met it with a call in flight or a contender astray, a run
   has one executor (scheduleRun, scheduleRecovery) and its log one writer,
   cleanups, evaluations and the event of the deadline included. *)
THEOREM HostOneWriter == Spec => []OneWriter
<1>1. HInv => OneWriter
  <2>1. ASSUME HInv, NEW r \in Run \ late, NEW i \in Job, NEW j \in Job,
               i[1] = r, j[1] = r, exec[i] # "none", exec[j] # "none"
        PROVE  i = j
    BY <2>1, JobParts DEF HInv, Executors
  <2>2. QED
    BY <2>1 DEF HInv, OneWriter
<1>2. QED
  BY <1>1, HostInv, PTL

(* What cleanup has marked stays away, when the executor had ended before. *)
THEOREM HostCleanedIsGone == Spec => []CleanedIsGone
<1>1. HInv => CleanedIsGone
  BY DEF HInv, CleanedIsGone, Cleaned
<1>2. QED
  BY <1>1, HostInv, PTL

(* Promotions of different runs are not locked against each other, and still
   the edits of no two committed ones lie in the checkout together, however
   promotions, rollbacks and recoveries meet. *)
THEOREM HostCommitsApart == Spec => []CommitsApart
<1>1. HInv => CommitsApart
  BY DEF HInv, Committed, Whole, CommitsApart
<1>2. QED
  BY <1>1, HostInv, PTL

(* A run shown as active has a controller, so that cancel can find it. *)
THEOREM HostActiveIsOwned == Spec => []ActiveIsOwned
<1>1. HInv /\ Pending => ActiveIsOwned
  BY DEF HInv, ActiveIsOwned, Owned, Pending, Controllers, Of, TypeOK
<1>2. QED
  BY <1>1, HostInv, PTL

-----------------------------------------------------------------------------
(* The limit.  As long as no two starts overlap, no final event is refused and
   no start outlives a service, every run that is active, has an executor or
   is being started is one of at most MaxRuns: a start is admitted only when
   the controllers are fewer and they are all there is. *)

Regular == ~overlapped /\ lost = {} /\ late = {}

Busy == {r \in Run : Active(r) \/ exec[Of(r)] # "none" \/ starting[Of(r)] # "none"}

AllKnown == service # "down" => \A r \in Run : status[r] # "none" => r \in known

LimitInv == Regular => AllKnown /\ Cardinality(Busy) <= MaxRuns

(* While things are regular every job at work is one of this service, and a
   run at work is on record. *)
LEMMA RegularJobs ==
  ASSUME HInv, Regular
  PROVE  /\ \A j \in Job : exec[j] # "none" \/ starting[j] # "none" \/ j \in cancelling
                             => j = Of(j[1]) /\ Owns(j)
         /\ \A j \in Job : exec[j] # "none" \/ j \in cancelling => status[j[1]] # "none"
         /\ \A r \in Run : Of(r) \in Job /\ Of(r)[1] = r /\ Of(r)[2] = gen
         /\ broken = {} /\ strays = {}
<1>1. gen \in Generation
  BY DEF HInv, TypeOK
<1>2. \A r \in Run : Of(r) \in Job /\ Of(r)[1] = r /\ Of(r)[2] = gen
  BY <1>1, JobParts DEF Of
<1>3. ASSUME NEW j \in Job, exec[j] # "none" \/ starting[j] # "none" \/ j \in cancelling
      PROVE  j = Of(j[1]) /\ Owns(j)
  <2>1. j[1] \notin late
    BY DEF Regular
  <2>2. j[2] = gen
    BY <1>3, <2>1 DEF HInv, Calls, Called, Executors
  <2>3. QED
    BY <2>2, JobParts DEF Of, Owns
<1>4. \A j \in Job : exec[j] # "none" \/ j \in cancelling => status[j[1]] # "none"
  BY DEF HInv, Recorded, Regular
<1>5. broken = {} /\ strays = {}
  BY DEF HInv, TypeOK, Astray, Regular
<1>6. QED
  BY <1>2, <1>3, <1>4, <1>5

(* A job that is at work may change the status of its run and its own place;
   the run was busy before. *)
LEMMA JobStep ==
  ASSUME HInv, Regular, AllKnown,
         NEW j \in Job, exec[j] # "none" \/ starting[j] # "none" \/ j \in cancelling,
         \A i \in Job : i # j => exec'[i] = exec[i] /\ starting'[i] = starting[i],
         \A r \in Run : r # j[1] => status'[r] = status[r],
         \/ exec[j] # "none" \/ starting[j] # "none"
         \/ status'[j[1]] # "active" /\ UNCHANGED <<exec, starting>>,
         j[1] \in known' \/ status'[j[1]] = "none",
         known \subseteq known', service' = service, gen' = gen
  PROVE  AllKnown' /\ Busy' \subseteq Busy
<1>1. j = Of(j[1]) /\ j[1] \in Run
  BY RegularJobs, JobParts
<1>2. AllKnown'
  BY DEF AllKnown
<1>3. ASSUME NEW r \in Busy' PROVE r \in Busy
  <2>1. r \in Run /\ Of(r) \in Job /\ Of(r)' = Of(r)
    BY <1>3, RegularJobs DEF Busy, Of
  <2>2. CASE r = j[1]
    BY <1>1, <1>3, <2>1, <2>2 DEF Busy, Active
  <2>3. CASE r # j[1]
    <3>1. Of(r) # j
      BY <1>1, <2>1, <2>3, RegularJobs
    <3>2. exec'[Of(r)] = exec[Of(r)] /\ starting'[Of(r)] = starting[Of(r)]
          /\ status'[r] = status[r]
      BY <2>1, <2>3, <3>1
    <3>3. QED
      BY <1>3, <2>1, <3>2 DEF Busy, Active
  <2>4. QED
    BY <2>2, <2>3
<1>4. QED
  BY <1>2, <1>3

(* Only an admitted start makes a run busy. *)
LEMMA BusyStep ==
  ASSUME HInv, HInv', Pending, Regular, Regular', AllKnown, [Next]_vars
  PROVE  /\ AllKnown'
         /\ \/ Busy' \subseteq Busy
            \/ \E r \in Run : Busy' \subseteq Controllers \cup {r} /\ BelowLimit
<1> DEFINE Goal == AllKnown' /\ Busy' \subseteq Busy
<1> USE DEF record, calls, control, lifecycle, checkout, history
<1>0. /\ status \in [Run -> {"none", "active", "completed", "failed", "cancelled"}]
      /\ DOMAIN exec = Job /\ DOMAIN starting = Job /\ late = {} /\ late' = {}
      /\ \A j \in Job : exec[j] # "none" \/ j \in cancelling => service # "down"
  BY DEF HInv, TypeOK, Regular, Executors, Calls, Called
<1>1. ASSUME NEW j \in Job, exec[j] # "none" \/ j \in cancelling,
             \/ \E s \in {"active", "completed", "failed", "cancelled"} : SetStatus(j, s)
             \/ UNCHANGED status,
             \/ \E t : exec' = [exec EXCEPT ![j] = t]
             \/ exec' = exec,
             exec[j] = "none" => exec' = exec /\ status'[j[1]] # "active",
             UNCHANGED <<starting, known, service, gen>>
      PROVE  Goal
  <2>1. j[1] \in Run /\ Owns(j) /\ status[j[1]] # "none" /\ j[1] \in known
    BY <1>0, <1>1, RegularJobs, JobParts DEF AllKnown
  <2>2. \A r \in Run : r # j[1] => status'[r] = status[r]
    BY <1>0, <1>1, <2>1 DEF SetStatus
  <2>3. \A i \in Job : i # j => exec'[i] = exec[i] /\ starting'[i] = starting[i]
    BY <1>0, <1>1
  <2>4. QED
    BY <1>1, <2>1, <2>2, <2>3, JobStep
<1>2. ASSUME UNCHANGED <<status, exec, starting, known, service, gen>> PROVE Goal
  BY <1>2 DEF AllKnown, Busy, Active, Of
<1>3. ASSUME NEW j \in Job, ExecStep(j) PROVE Goal
  <2>1. CASE ExecAdd(j)
    BY <1>1, <2>1 DEF ExecAdd
  <2>2. CASE ExecAdded(j)
    BY <1>1, <2>2 DEF ExecAdded
  <2>3. CASE ExecStops(j)
    BY <1>1, <2>3 DEF ExecStops, SignalSeen
  <2>4. CASE ExecDecides(j)
    BY <1>1, <2>4 DEF ExecDecides
  <2>5. CASE ExecEnds(j)
    BY <1>1, <2>5 DEF ExecEnds, Settle, EndsAs
  <2>6. CASE ExecStopped(j)
    BY <1>1, <2>6 DEF ExecStopped, Settle
  <2>7. CASE ExecWrites(j) \/ ExecDeadline(j) \/ StrayEnds(j)
    BY <1>2, <2>7 DEF ExecWrites, ExecDeadline, StrayEnds
  <2>8. CASE ExecLost(j) \/ ExecStrays(j)
    BY <2>8 DEF ExecLost, ExecStrays, Regular
  <2>9. CASE StrayRecords(j)
    BY <2>9, RegularJobs DEF StrayRecords
  <2>10. QED
    BY <1>3, <2>1, <2>2, <2>3, <2>4, <2>5, <2>6, <2>7, <2>8, <2>9 DEF ExecStep, ExecGoesOn
<1>4. ASSUME NEW j \in Job, CallStep(j) PROVE Goal
  <2>1. ASSUME StartStatus(j) \/ StartDiscover(j) \/ StartRefused(j) PROVE Goal
    <3>1. /\ starting[j] # "none" /\ UNCHANGED <<status, exec, known, service, gen>>
          /\ \A i \in Job : i # j => starting'[i] = starting[i]
      BY <1>0, <2>1 DEF StartStatus, StartDiscover, StartRefused, InFlight
    <3>2. j[1] \in Run /\ status[j[1]] = "none"
      BY <1>0, <3>1, JobParts DEF HInv, Recorded
    <3>3. QED
      BY <3>1, <3>2, JobStep
  <2>2. CASE StartCreate(j)
    <3>1. /\ starting[j] # "none" /\ UNCHANGED <<service, gen>>
          /\ \A i \in Job : i # j => exec'[i] = exec[i] /\ starting'[i] = starting[i]
          /\ \A r \in Run : r # j[1] => status'[r] = status[r]
      BY <1>0, <2>2 DEF StartCreate
    <3>2. j[2] = gen
      BY <3>1, RegularJobs, JobParts
    <3>3. j[1] \in known' /\ known \subseteq known'
      BY <2>2, <3>2 DEF StartCreate
    <3>4. QED
      BY <3>1, <3>3, JobStep
  <2>3. CASE CancelPublish(j)
    <3>1. /\ j \in cancelling /\ SetStatus(j, "cancelled")
          /\ UNCHANGED <<exec, starting, known, service, gen>>
      BY <2>3 DEF CancelPublish
    <3>2. Owns(j) /\ j[1] \in Run
      BY <3>1, RegularJobs, JobParts
    <3>3. status'[j[1]] = "cancelled"
      BY <1>0, <3>1, <3>2 DEF SetStatus
    <3>4. QED
      BY <1>1, <3>1, <3>3
  <2>4. CASE CleanupRemoves(j) \/ CleanupRecords(j) \/ EventRecorded(j)
    BY <1>2, <2>4 DEF CleanupRemoves, CleanupRecords, EventRecorded
  <2>5. CASE PromoteOpen(j) \/ PromoteApply(j) \/ PromoteCopy(j) \/ PromoteVerify(j)
             \/ PromoteCommit(j) \/ PromoteRollback(j)
    BY <1>2, <2>5
       DEF PromoteOpen, PromoteApply, PromoteCopy, PromoteVerify, PromoteCommit, PromoteRollback
  <2>6. QED
    BY <1>4, <2>1, <2>2, <2>3, <2>4, <2>5 DEF CallStep
<1>5. ASSUME NEW r \in Run, StartCheck(r)
      PROVE  AllKnown' /\ Busy' \subseteq Controllers \cup {r} /\ BelowLimit
  <2>1. /\ service = "up" /\ BelowLimit
        /\ UNCHANGED <<status, exec, known, service, gen>>
        /\ \A q \in Run : starting[Of(q)] \notin InFlight
        /\ \A j \in Job : j # Of(r) => starting'[j] = starting[j]
    BY <1>0, <1>5 DEF StartCheck, Regular
  <2>2. AllKnown'
    BY <2>1 DEF AllKnown
  <2>3. \A q \in Run : starting[Of(q)] = "none"
    BY <2>1, RegularJobs DEF HInv, TypeOK
  <2>4. ASSUME NEW q \in Busy', q # r PROVE q \in Controllers
    <3>1. q \in Run /\ Of(q)' = Of(q) /\ Of(q) \in Job /\ Of(q) # Of(r)
      BY <2>1, <2>4, RegularJobs DEF Busy, Of
    <3>2. starting'[Of(q)] = "none"
      BY <2>1, <2>3, <3>1
    <3>3. Active(q) \/ exec[Of(q)] # "none"
      BY <2>1, <2>4, <3>1, <3>2 DEF Busy, Active
    <3>4. Active(q) => exec[Of(q)] # "none"
      BY <2>1, <3>1 DEF HInv, Owned, Pending, Regular, AllKnown, Active, Of
    <3>5. QED
      BY <3>1, <3>3, <3>4 DEF Controllers
  <2>5. QED
    BY <2>1, <2>2, <2>4
<1>6. ASSUME NEW r \in Run, Cancel(r) \/ CleanupBegin(r) \/ Evaluate(r) \/ PromoteCheck(r)
      PROVE  Goal
  BY <1>2, <1>6 DEF Cancel, CleanupBegin, Evaluate, PromoteCheck
<1>7. ASSUME NEW r \in Run, Recovery(r) PROVE Goal
  <2>1. CASE RecoverPromotion(r)
    BY <1>2, <2>1 DEF RecoverPromotion
  <2>2. CASE Recover(r)
    <3>1. /\ Active(r) /\ UNCHANGED <<status, starting, known, service, gen>>
          /\ \A j \in Job : j # Of(r) => exec'[j] = exec[j]
      BY <1>0, <2>2 DEF Recover, Recoverable, Recovering, Pending
    <3>2. AllKnown'
      BY <3>1 DEF AllKnown
    <3>3. ASSUME NEW q \in Busy' PROVE q \in Busy
      <4>1. q \in Run /\ Of(q)' = Of(q) /\ Of(q) \in Job /\ (q # r => Of(q) # Of(r))
        BY <1>7, <3>1, <3>3, RegularJobs DEF Busy, Of
      <4>2. QED
        BY <1>7, <3>1, <3>3, <4>1 DEF Busy, Active
    <3>4. QED
      BY <3>2, <3>3
  <2>3. CASE RecoverRefused(r)
    <3>1. /\ r \in known /\ UNCHANGED <<exec, starting, known, service, gen>>
          /\ \A q \in Run : status'[q] = IF q = r THEN "failed" ELSE status[q]
      BY <1>0, <2>3 DEF RecoverRefused, Recoverable, Recovering, HInv, TypeOK
    <3>2. QED
      BY <3>1 DEF AllKnown, Busy, Active, Of
  <2>4. QED
    BY <1>7, <2>1, <2>2, <2>3 DEF Recovery
<1>8. ASSUME DisposeBegin \/ DisposeAwait \/ BootDone PROVE Goal
  <2>1. UNCHANGED <<status, exec, starting, known, gen>> /\ service # "down"
    BY <1>8 DEF DisposeBegin, DisposeAwait, BootDone
  <2>2. QED
    BY <2>1 DEF AllKnown, Busy, Active, Of
<1>9. ASSUME DisposeDone \/ Crash PROVE Goal
  <2>1. UNCHANGED status /\ service' = "down"
    BY <1>9 DEF DisposeDone, Crash
  <2>2. \A r \in Run : exec'[Of(r)'] = "none" /\ starting'[Of(r)'] = "none"
    <3>1. gen' \in Generation /\ \A r \in Run : Of(r)' \in Job /\ Of(r)'[1] = r
      BY JobParts DEF HInv, TypeOK, Of
    <3>2. QED
      BY <1>0, <2>1, <3>1 DEF HInv, Executors, Calls, Called
  <2>3. QED
    BY <2>1, <2>2 DEF AllKnown, Busy, Active
<1>10. CASE Boot
  <2>1. UNCHANGED <<status, exec, starting, gen>> /\ known' = {r \in Run : status[r] # "none"}
    BY <1>10, RegularJobs DEF Boot, Loaded
  <2>2. QED
    BY <2>1 DEF AllKnown, Busy, Active, Of
<1>11. CASE UserEdits
  BY <1>2, <1>11 DEF UserEdits
<1>12. CASE UNCHANGED vars
  BY <1>2, <1>12 DEF vars
<1>13. ASSUME NEW r \in Run, Request(r)
       PROVE  Goal \/ (AllKnown' /\ Busy' \subseteq Controllers \cup {r} /\ BelowLimit)
  BY <1>5, <1>6, <1>13 DEF Request, Retry
<1>14. QED
  BY <1>3, <1>4, <1>7, <1>8, <1>9, <1>10, <1>11, <1>12, <1>13 DEF Next, ServiceStep

LEMMA LimitStep == HInv /\ Pending /\ LimitInv /\ [Next]_vars => LimitInv'
<1> SUFFICES ASSUME HInv, Pending, LimitInv, [Next]_vars, Regular'
             PROVE  AllKnown' /\ Cardinality(Busy') <= MaxRuns
  BY DEF LimitInv
<1>1. Regular
  <2>1. ASSUME NEW j \in Job, ExecStep(j) PROVE Regular
    BY <2>1
       DEF ExecStep, ExecGoesOn, ExecAdd, ExecAdded, ExecStops, ExecDecides, ExecEnds,
           ExecStopped, ExecWrites, ExecLost, ExecDeadline, ExecStrays, StrayRecords,
           StrayEnds, history, Regular
  <2>2. ASSUME NEW j \in Job, CallStep(j) PROVE Regular
    BY <2>2
       DEF CallStep, StartStatus, StartDiscover, StartRefused, StartCreate, CancelPublish,
           CleanupRemoves, CleanupRecords, EventRecorded, PromoteOpen, PromoteApply,
           PromoteCopy, PromoteVerify, PromoteCommit, PromoteRollback, history, Regular
  <2>3. ASSUME NEW r \in Run, Request(r) \/ Recovery(r) PROVE Regular
    <3>1. CASE StartCheck(r)
      <4>1. overlapped' = (overlapped \/ \E q \in Run : starting[Of(q)] \in InFlight)
            /\ UNCHANGED <<late, lost>>
        BY <3>1 DEF StartCheck
      <4>2. QED
        BY <4>1, Zenon DEF Regular
    <3>2. CASE Cancel(r) \/ CleanupBegin(r) \/ Evaluate(r) \/ PromoteCheck(r) \/ Recovery(r)
      BY <3>2
         DEF Cancel, CleanupBegin, Evaluate, PromoteCheck, Recovery, RecoverPromotion,
             Recover, RecoverRefused, history, Regular
    <3>3. QED
      BY <2>3, <3>1, <3>2 DEF Request, Retry
  <2>4. CASE DisposeBegin \/ DisposeAwait \/ DisposeDone \/ Crash \/ Boot \/ BootDone
             \/ UserEdits \/ UNCHANGED vars
    BY <2>4
       DEF DisposeBegin, DisposeAwait, DisposeDone, Crash, Boot, BootDone, UserEdits, vars,
           history, Regular
  <2>5. QED
    BY <2>1, <2>2, <2>3, <2>4 DEF Next, ServiceStep
<1>2. HInv' /\ AllKnown /\ Cardinality(Busy) <= MaxRuns
  BY <1>1, HostStep DEF LimitInv
<1>3. Busy \subseteq Run /\ Busy' \subseteq Run /\ Controllers \subseteq Run
  BY DEF Busy, Controllers
<1>4. IsFiniteSet(Busy) /\ IsFiniteSet(Busy') /\ IsFiniteSet(Controllers)
  BY <1>3, RunAssumption, FS_Subset
<1>5. /\ Cardinality(Busy) \in Nat /\ Cardinality(Busy') \in Nat
      /\ Cardinality(Controllers) \in Nat
  BY <1>4, FS_CardinalityType
<1>6. CASE Busy' \subseteq Busy
  <2>1. Cardinality(Busy') <= Cardinality(Busy)
    BY <1>4, <1>6, FS_Subset
  <2>2. AllKnown'
    BY <1>1, <1>2, BusyStep
  <2>3. QED
    BY <1>2, <1>5, <2>1, <2>2, LimitAssumption
<1>7. ASSUME NEW r \in Run, Busy' \subseteq Controllers \cup {r}, BelowLimit
      PROVE  Cardinality(Busy') <= MaxRuns
  <2>1. /\ IsFiniteSet(Controllers \cup {r})
        /\ Cardinality(Controllers \cup {r}) <= Cardinality(Controllers) + 1
    <3>1. /\ IsFiniteSet(Controllers \cup {r})
          /\ Cardinality(Controllers \cup {r})
               = IF r \in Controllers THEN Cardinality(Controllers) ELSE Cardinality(Controllers) + 1
      BY <1>4, FS_AddElement, Zenon
    <3>2. QED
      BY <1>5, <3>1
  <2>2. Cardinality(Busy') <= Cardinality(Controllers \cup {r})
    BY <1>7, <2>1, FS_Subset
  <2>3. Cardinality(Controllers) < MaxRuns
    BY <1>7 DEF BelowLimit
  <2>4. Cardinality(Controllers \cup {r}) \in Nat
    BY <2>1, FS_CardinalityType
  <2>5. QED
    BY <1>5, <2>1, <2>2, <2>3, <2>4, LimitAssumption
<1>8. QED
  BY <1>1, <1>2, <1>6, <1>7, BusyStep

(* maxConcurrentRuns bounds the controllers (start, scheduleRun), through
   disposals, crashes and recoveries of any number. *)
THEOREM HostLimitKept == Spec => []LimitKept
<1>1. Init => LimitInv
  <2> SUFFICES ASSUME Init PROVE AllKnown /\ Cardinality(Busy) <= MaxRuns
    BY DEF LimitInv
  <2>1. Busy = {}
    <3>1. \A r \in Run : Of(r) \in Job
      BY HostInit, JobParts DEF HInv, TypeOK, Of
    <3>2. QED
      BY <3>1 DEF Init, Busy, Active
  <2>2. Cardinality(Busy) = 0
    BY <2>1, FS_EmptySet
  <2>3. QED
    BY <2>2, LimitAssumption DEF Init, AllKnown
<1>2. LimitInv => LimitKept
  <2> SUFFICES ASSUME LimitInv, Regular PROVE Cardinality(Controllers) <= MaxRuns
    BY DEF LimitKept, Regular
  <2>1. Controllers \subseteq Busy /\ Busy \subseteq Run
    BY DEF Controllers, Busy
  <2>2. IsFiniteSet(Busy) /\ IsFiniteSet(Controllers)
    BY <2>1, RunAssumption, FS_Subset
  <2>3. Cardinality(Controllers) <= Cardinality(Busy)
    BY <2>1, <2>2, FS_Subset
  <2>4. Cardinality(Controllers) \in Nat /\ Cardinality(Busy) \in Nat
    BY <2>2, FS_CardinalityType
  <2>5. QED
    BY <2>3, <2>4, LimitAssumption DEF LimitInv
<1>3. QED
  BY <1>1, <1>2, LimitStep, HostInv, PTL DEF Spec
=============================================================================
