--------------------------- MODULE ArenaRunProofs ---------------------------
(***************************************************************************)
(* What holds of every execution of ArenaRun, for any number of contenders *)
(* and any limits: its type, that an approval is sound, that a completed   *)
(* run is over, that checkpoints only advance, that counted usage stays,   *)
(* that stopped contenders are not started again, and that only a          *)
(* cancelled run can become active again.                                  *)
(*                                                                         *)
(* RInv is the inductive invariant.  Beside the types it holds, for every  *)
(* contender on its own (Local), which checkpoint its position stands on,  *)
(* what evidence was collected for the sealed artifact, and when its state *)
(* has left the active ones; Phases ties the positions of the contenders   *)
(* to the one of the main task.  A step of a contender is proved to keep   *)
(* its own Local (TaskStep), and Frame says that it leaves the others      *)
(* alone; Kept says the same of a step of anybody else.                    *)
(***************************************************************************)
EXTENDS ArenaRun, ApprovalProofs, SequenceTheorems, TLAPS

(* Where an actor stands, its detour through enforceBudget left aside *)
stand == [a \in Actor |-> IF pc[a] \in {"budget", "abort"} THEN ret[a] ELSE pc[a]]

(* Labels of an actor in the record's tail *)
Waiting == {"budget", "cancel", "context!", "prepare", "contender", "ready", "start", "winner",
            "noWinner", "fail", "budgetOut", "cancelOut", "attempt", "reuse", "progress",
            "answer", "built", "sealed", "reviewing", "open", "told", "approve", "reject",
            "broken", "skip", "decided", "stop", "catch"}

(* What follows a call of enforceBudget *)
Return(a) == IF a \in Contender THEN {"build", "return", "proceed", "parse", "next"}
             ELSE IF a = "main" THEN {"context"}
             ELSE IF a = "deadline" THEN {"off"} ELSE {}

Positions == stand["main"] \in {"contender", "worktree", "ready"} => at \in DOMAIN Order

-----------------------------------------------------------------------------
(* The type of the run record, field by field *)
Field == {"status", "winner", "exhausted", "stopped", "context", "checkpoint", "state", "review",
          "used", "seal", "decision", "checks"}

ContenderState == Active \cup {"passed", "rejected", "evaluation-unavailable", "failed", "cancelled"}

Shaped == run = [f \in Field |-> run[f]]

Recorded ==
  /\ Shaped
  /\ run.status \in Active \cup Finished /\ run.winner \in SUBSET Contender
  /\ run.exhausted \in BOOLEAN /\ run.context \in BOOLEAN /\ run.stopped \in SUBSET Contender
  /\ run.checkpoint \in [Contender -> 0 .. 4]
  /\ run.state \in [Contender -> ContenderState]
  /\ run.review \in [Contender -> [Stage -> [status : ReviewStatus, of : Nat]]]
  /\ run.used \in [Contender -> Nat] /\ run.seal \in [Contender -> Nat]
  /\ run.decision \in [Contender -> {"none", "approved", "rejected", "unavailable"}]
  /\ run.checks \in [Contender -> GateOutcome]

(* The variables beside the record and the scheduling *)
Memory ==
  /\ tree \in [Contender -> Nat] /\ files \in [Contender -> Nat]
  /\ up \in BOOLEAN /\ resumed \in BOOLEAN /\ published \in BOOLEAN
  /\ root \in Reason /\ branch \in [Contender -> Reason \cup {"early"}]
  /\ at \in 1 .. Len(Order) + 1 /\ made \in [Contender -> 0 .. MaxCall]
  /\ gates \in [Contender -> GateOutcome]
  /\ stage \in [Contender -> Stage] /\ targets \in [Contender -> SUBSET Contender]
  /\ late \in BOOLEAN /\ crashes \in 0 .. MaxCrash

(* The tail holds each caller once, and a caller in it waits for its update *)
Scheduling ==
  /\ DOMAIN pc = Actor /\ \A a \in Actor : pc[a] \in PcOf(a)
  /\ tail \in Seq(Actor) /\ \A i, j \in DOMAIN tail : tail[i] = tail[j] => i = j
  /\ \A i \in DOMAIN tail : pc[tail[i]] \in Waiting
  /\ DOMAIN ret = Actor /\ \A a \in Actor : ret[a] \in PcOf(a) \cup {"off"}
  /\ \A a \in Actor : pc[a] \in {"budget", "abort"} => ret[a] \in Return(a)

-----------------------------------------------------------------------------
Building == {"attempt", "build", "progress", "answer", "reported", "answered", "return", "built"}
Sealing == {"reuse", "finished", "proceed", "seal", "sealed"}
Judging == {"gates", "judge", "reviewing", "review", "open", "reviewer", "told", "heard", "parse",
            "approve", "reject", "broken", "reviewed", "next", "skip", "decide", "decided"}

(* The checkpoint that a position stands on *)
Progress(c) ==
  /\ stand[c] \in Building => run.checkpoint[c] < BuilderComplete
  /\ stand[c] \in Sealing => ~Decided(c)
  /\ stand[c] = "sealed" => ~Sealed(c)
  /\ stand[c] \in Judging => Sealed(c) /\ ~Decided(c)
  /\ stand[c] \in {"early", "stop", "stopped"} => Decided(c)
  /\ run.decision[c] # "none" => Decided(c)

Answering == {"reviewer", "told", "heard", "parse", "approve", "reject"}

(* What was collected for the sealed artifact *)
Evidence(c) ==
  /\ Sealed(c) => files[c] = run.seal[c]
  /\ \A s \in Stage : run.review[c][s].status = "approved" =>
       Sealed(c) /\ run.review[c][s].of = run.seal[c]
  /\ stand[c] \in Answering => run.review[c][stage[c]].of = run.seal[c]
  /\ gates[c] = "cut" => branch[c] # "none"
  /\ stand[c] = "decided" /\ gates[c] = "cut" =>
       \E s \in Stage : run.review[c][s].status # "approved"
  /\ run.decision[c] = "approved" =>
       /\ run.checks[c] = "passed"
       /\ \A s \in Stage : run.review[c][s].status = "approved"

Pre == {"begin", "context", "shared", "context!", "prepare", "loop", "contender", "worktree",
        "ready", "start", "spawn"}
Ends == {"winner", "noWinner", "fail", "budgetOut", "cancelOut", "over", "off"}

Over(c) == run.state[c] \notin Active

(* Whose state has left the active ones *)
Outcome(c) ==
  /\ Decided(c) \/ stand[c] = "done" => Over(c)
  /\ stand["main"] \in Pre /\ c \in run.stopped => Over(c)
  /\ stand["main"] = "join" /\ stand[c] = "idle" => Over(c)
  /\ stand["main"] \in {"winner", "noWinner"} => Over(c)
  /\ run.status = "completed" => Over(c)
  /\ c \in run.winner => run.decision[c] = "approved"

Local(c) == Progress(c) /\ Evidence(c) /\ Outcome(c)

(* Where the contenders stand while the main task prepares, joins and ends *)
Phases ==
  /\ ~up => tail = <<>> /\ stand["main"] = "off" /\ \A c \in Contender : stand[c] = "idle"
  /\ stand["main"] \in Pre => \A c \in Contender : stand[c] = "idle"
  /\ stand["main"] \in Ends => \A c \in Contender : stand[c] \in {"idle", "done"}
  /\ stand["main"] \in {"contender", "worktree", "ready"} => ~Skipped(Order[at])
  /\ run.status = "completed" => stand["main"] \in {"over", "off"}

RInv ==
  /\ Recorded /\ Memory /\ Scheduling /\ Positions /\ Phases
  /\ \A c \in Contender : Local(c)

-----------------------------------------------------------------------------
LEMMA Actors ==
  /\ \A c \in Contender : c \in Actor /\ c # "main" /\ c # "deadline" /\ c # "user"
  /\ {"main", "deadline", "user"} \subseteq Actor
BY OrderAssumption DEF Actor

LEMMA Labels ==
  /\ \A c \in Contender : PcOf(c) = TaskPc \cup {"budget", "abort"}
  /\ PcOf("main") = MainPc \cup {"budget", "abort"}
  /\ PcOf("deadline") = {"off", "armed", "budget", "abort"}
  /\ PcOf("user") = {"idle", "cancel", "budget", "abort"}
  /\ TaskPc = {"idle", "attempt", "reuse", "build", "progress", "answer", "return", "built",
                "proceed", "seal", "sealed", "gates", "judge", "reviewing", "review", "open",
                "reviewer", "told", "parse", "approve", "reject", "broken", "next", "skip",
                "decide", "decided", "early", "stop", "stopped", "catch", "done",
                "reported", "answered", "finished", "heard", "reviewed"}
BY Actors DEF PcOf, TaskPc, Enforced

LEMMA RunTyped == Recorded <=> run \in RunType
<1>1. ASSUME Recorded PROVE run \in RunType
  <2>1. run = [status |-> run.status, winner |-> run.winner, exhausted |-> run.exhausted,
               stopped |-> run.stopped, context |-> run.context, checkpoint |-> run.checkpoint,
               state |-> run.state, review |-> run.review, used |-> run.used,
               seal |-> run.seal, decision |-> run.decision, checks |-> run.checks]
    BY <1>1 DEF Field, Recorded, Shaped
  <2>2. QED
    BY <1>1, <2>1 DEF RunType, Recorded, ContenderState, Admitted, DecisionComplete
<1>2. ASSUME run \in RunType PROVE Recorded
  <2>1. Shaped
    BY <1>2 DEF RunType, Field, Shaped
  <2>2. QED
    BY <1>2, <2>1 DEF RunType, Recorded, ContenderState, Admitted, DecisionComplete
<1>3. QED
  BY <1>1, <1>2

(* Every step that changes the record leaves a record with the same fields *)
LEMMA Fields == Recorded => DOMAIN run = Field
BY DEF Recorded, Shaped

LEMMA TypeParts == Recorded /\ Memory /\ Scheduling => TypeOK
BY RunTyped DEF Memory, Scheduling, TypeOK

(* A call of update joins the tail *)
LEMMA Joins ==
  ASSUME Scheduling, NEW a \in Actor, NEW l \in PcOf(a) \cap Waiting,
         l # "budget", pc[a] \notin Waiting \cup {"abort"}, Await(a, l), UNCHANGED ret
  PROVE  Scheduling' /\ stand' = [stand EXCEPT ![a] = l]
<1>1. Len(tail) \in Nat /\ DOMAIN tail = 1..Len(tail)
  BY LenProperties DEF Scheduling
<1>2. a \notin {tail[i] : i \in DOMAIN tail}
  BY DEF Scheduling
<1>3. /\ tail' \in Seq(Actor) /\ DOMAIN tail' = 1..(Len(tail) + 1)
      /\ \A i \in DOMAIN tail : tail'[i] = tail[i]
      /\ tail'[Len(tail) + 1] = a
  BY <1>1 DEF Await, Scheduling
<1>4. \A i, j \in DOMAIN tail' : tail'[i] = tail'[j] => i = j
  BY <1>1, <1>2, <1>3 DEF Scheduling
<1>5. \A i \in DOMAIN tail' : pc'[tail'[i]] \in Waiting
  BY <1>1, <1>2, <1>3 DEF Scheduling, Await
<1>6. \A b \in Actor : pc'[b] \in {"budget", "abort"} => ret'[b] \in Return(b)
  BY DEF Scheduling, Await, Waiting
<1>7. stand' = [stand EXCEPT ![a] = l]
  BY DEF Scheduling, Await, Waiting, stand
<1>8. QED
  BY <1>3, <1>4, <1>5, <1>6, <1>7 DEF Scheduling, Await

(* A step that does not wait *)
LEMMA Goes ==
  ASSUME Scheduling, NEW a \in Actor, NEW l \in PcOf(a) \ {"budget", "abort"},
         pc[a] \notin Waiting \cup {"abort"}, Resume(a, l), UNCHANGED ret
  PROVE  Scheduling' /\ stand' = [stand EXCEPT ![a] = l]
<1>1. Scheduling'
  BY DEF Scheduling, Resume
<1>2. stand' = [stand EXCEPT ![a] = l]
  BY DEF Scheduling, Resume, stand
<1>3. QED
  BY <1>1, <1>2

(* The update at the head is taken off the tail *)
LEMMA Leaves ==
  ASSUME Scheduling, NEW a \in Actor, NEW l \in PcOf(a) \ {"budget"},
         tail # <<>>, Head(tail) = a, Applied(a, l), UNCHANGED ret,
         IF pc[a] = "budget" THEN l = "abort" ELSE l # "abort"
  PROVE  Scheduling' /\ stand' = IF l = "abort" THEN stand ELSE [stand EXCEPT ![a] = l]
<1>1. Len(tail) \in Nat /\ DOMAIN tail = 1..Len(tail) /\ tail[1] = a /\ Len(tail) > 0
  BY LenProperties, EmptySeq DEF Scheduling
<1>2. /\ tail' \in Seq(Actor) /\ DOMAIN tail' = 1..(Len(tail) - 1)
      /\ \A i \in DOMAIN tail' : tail'[i] = tail[i + 1] /\ i + 1 \in DOMAIN tail
  BY <1>1, HeadTailProperties DEF Applied, Scheduling
<1>3. \A i \in DOMAIN tail' : tail'[i] # a
  BY <1>1, <1>2 DEF Scheduling
<1>4. \A i \in DOMAIN tail' : pc'[tail'[i]] \in Waiting
  BY <1>1, <1>2, <1>3 DEF Scheduling, Applied
<1>5. \A b \in Actor : pc'[b] \in {"budget", "abort"} => ret'[b] \in Return(b)
  BY DEF Scheduling, Applied
<1>6. \A i, j \in DOMAIN tail' : tail'[i] = tail'[j] => i = j
  BY <1>1, <1>2 DEF Scheduling
<1>7. pc[a] \in Waiting
  BY <1>1 DEF Scheduling
<1>8. stand' = IF l = "abort" THEN stand ELSE [stand EXCEPT ![a] = l]
  BY <1>7 DEF Scheduling, Applied, stand, Waiting
<1>9. QED
  BY <1>2, <1>4, <1>5, <1>6, <1>8 DEF Scheduling, Applied

(* enforceBudget goes on at its return label, or takes its detour *)
LEMMA Enforces ==
  ASSUME Scheduling, NEW a \in Actor, NEW l \in Return(a), pc[a] \notin Waiting \cup {"abort"},
         EnforceBudget(a, l)
  PROVE  Scheduling' /\ stand' = [stand EXCEPT ![a] = l]
<1> USE Actors, Labels
<1>1. l \in PcOf(a) \ {"budget", "abort"}
  BY DEF Return, MainPc
<1>2. CASE Resume(a, l) /\ UNCHANGED <<published, ret>>
  BY <1>1, <1>2, Goes
<1>3. CASE /\ published' = TRUE
           /\ ret' = [ret EXCEPT ![a] = l]
           /\ Await(a, "budget")
  <2>1. Len(tail) \in Nat /\ DOMAIN tail = 1..Len(tail)
    BY LenProperties DEF Scheduling
  <2>2. a \notin {tail[i] : i \in DOMAIN tail}
    BY DEF Scheduling
  <2>3. /\ tail' \in Seq(Actor) /\ DOMAIN tail' = 1..(Len(tail) + 1)
        /\ \A i \in DOMAIN tail : tail'[i] = tail[i]
        /\ tail'[Len(tail) + 1] = a
    BY <1>3, <2>1 DEF Await, Scheduling
  <2>4. \A i, j \in DOMAIN tail' : tail'[i] = tail'[j] => i = j
    BY <2>1, <2>2, <2>3 DEF Scheduling
  <2>5. \A i \in DOMAIN tail' : pc'[tail'[i]] \in Waiting
    BY <1>3, <2>1, <2>2, <2>3 DEF Scheduling, Await, Waiting
  <2>6. \A b \in Actor : pc'[b] \in {"budget", "abort"} => ret'[b] \in Return(b)
    BY <1>3 DEF Scheduling, Await
  <2>7. "budget" \in PcOf(a)
    BY DEF PcOf
  <2>8. stand' = [stand EXCEPT ![a] = l]
    BY <1>1, <1>3 DEF Scheduling, Await, stand
  <2>9. QED
    BY <1>1, <1>3, <2>3, <2>4, <2>5, <2>6, <2>7, <2>8 DEF Scheduling, Await
<1>4. QED
  BY <1>2, <1>3 DEF EnforceBudget

(* Whoever is not on the detour stands at its label *)
LEMMA StandsAt ==
  /\ DOMAIN stand = Actor
  /\ \A a \in Actor : pc[a] \notin {"budget", "abort"} => stand[a] = pc[a]
BY DEF stand

-----------------------------------------------------------------------------
(* What a contender's task leaves alone *)
Frame(c) ==
  /\ stand'["main"] = "join" /\ run'.status # "completed" /\ run'.winner = run.winner
  /\ \A d \in Contender \ {c} :
       /\ stand'[d] = stand[d]
       /\ run'.checkpoint[d] = run.checkpoint[d] /\ run'.state[d] = run.state[d]
       /\ run'.review[d] = run.review[d] /\ run'.seal[d] = run.seal[d]
       /\ run'.decision[d] = run.decision[d] /\ run'.checks[d] = run.checks[d]
       /\ files'[d] = files[d] /\ gates'[d] = gates[d] /\ stage'[d] = stage[d]
       /\ branch[d] # "none" => branch'[d] # "none"

LEMMA Framed ==
  ASSUME NEW c \in Contender, NEW d \in Contender \ {c}, Frame(c), stand["main"] = "join", Local(d)
  PROVE  Local(d)'
<1> USE DEF Decided, Sealed, Over
<1>1. Progress(d)'
  BY DEF Local, Progress, Frame
<1>2. Evidence(d)'
  BY DEF Local, Evidence, Frame
<1>3. Outcome(d)'
  BY DEF Local, Outcome, Frame, Pre
<1>4. QED
  BY <1>1, <1>2, <1>3 DEF Local

(* While a contender works, the main task joins *)
LEMMA Works ==
  ASSUME NEW c \in Contender, RInv, stand["main"] = "join", up', Frame(c), Local(c)',
         Recorded', Memory', Scheduling'
  PROVE  RInv'
<1>1. \A d \in Contender : Local(d)'
  BY Framed DEF RInv
<1>2. Phases' /\ Positions'
  BY DEF Frame, Phases, Positions, Pre, Ends
<1>3. QED
  BY <1>1, <1>2 DEF RInv

-----------------------------------------------------------------------------
LEMMA CheckIs ==
  ASSUME NEW s \in GateStage, NEW status \in CheckStatus
  PROVE  /\ Check(s, status) \in Nodes(CheckStatus)
         /\ Check(s, status).stage = s /\ Check(s, status).required /\ Check(s, status).status = status
BY DEF Check, Nodes

(* The list of checks is favourable when the gates passed, or were cut off *)
LEMMA ChecksAre ==
  ASSUME NEW outcome \in GateOutcome
  PROVE  /\ Checks(outcome) \in SUBSET Nodes(CheckStatus)
         /\ RequiredChecksPassed(Checks(outcome)) <=> outcome \in {"passed", "cut"}
         /\ \A s \in GateStage : \E n \in Checks(outcome) : n.stage = s /\ n.required
<1> DEFINE security == IF outcome = "blocked" THEN "failed" ELSE "passed"
           logic == IF outcome \in {"passed", "cut"} THEN "passed"
                    ELSE IF outcome = "oversize" THEN "failed" ELSE "skipped"
           extra == CASE outcome = "blocked" -> {Check("test", "skipped")}
                      [] outcome = "failed"  -> {Check("test", "failed")}
                      [] outcome = "error"   -> {Check("test", "error")}
                      [] OTHER               -> {}
<1>1. Checks(outcome) = {Check("integrity", "passed"), Check("quality", "passed"),
        Check("test", "passed"), Check("security", security), Check("logic", logic)} \cup extra
  BY DEF Checks
<1>2. security \in CheckStatus /\ logic \in CheckStatus
  BY DEF CheckStatus
<1>3. /\ {"passed", "skipped", "failed", "error"} \subseteq CheckStatus
      /\ {"integrity", "quality", "test", "security", "logic"} = GateStage
  BY DEF CheckStatus, GateStage
<1>4. extra \subseteq {Check("test", "skipped"), Check("test", "failed"), Check("test", "error")}
  OBVIOUS
<1>5. CASE outcome \in {"passed", "cut"}
  <2>1. security = "passed" /\ logic = "passed" /\ extra = {}
    BY <1>5
  <2>2. QED
    BY <1>1, <1>3, <1>5, <2>1, CheckIs DEF RequiredChecksPassed
<1>6. CASE outcome \notin {"passed", "cut"}
  <2>1. logic \in {"failed", "skipped"}
    BY <1>6
  <2>2. Check("logic", logic) \in Checks(outcome) /\ Check("logic", logic).status # "passed"
        /\ Check("logic", logic).required
    BY <1>1, <1>2, <1>3, <2>1, CheckIs
  <2> HIDE DEF security, logic, extra
  <2>3. Checks(outcome) \in SUBSET Nodes(CheckStatus)
    BY <1>1, <1>2, <1>3, <1>4, CheckIs
  <2>4. \A s \in GateStage : \E n \in Checks(outcome) : n.stage = s /\ n.required
    BY <1>1, <1>2, <1>3, CheckIs
  <2>5. QED
    BY <1>6, <2>2, <2>3, <2>4 DEF RequiredChecksPassed
<1>7. QED
  BY <1>5, <1>6

(* What a contender's task decides, and on which outcome of the gates *)
LEMMA DecisionIs ==
  ASSUME Recorded, Memory, NEW c \in Contender
  PROVE  /\ Decision(c) \in {"approved", "rejected", "unavailable"}
         /\ Decision(c) = "approved" <=>
              gates[c] \in {"passed", "cut"} /\ \A s \in Stage : run.review[c][s].status = "approved"
<1> DEFINE policy == {"test", "logic", "security"}
           Node(s) == [stage |-> s, required |-> TRUE, status |-> run.review[c][s].status]
<1>1. gates[c] \in GateOutcome
  BY DEF Memory
<1>2. \A s \in Stage : run.review[c][s].status \in ReviewStatus
  BY DEF Recorded
<1>3. \A s \in Stage : /\ Node(s) \in Nodes(ReviewStatus)
                       /\ Node(s).required /\ Node(s).status = run.review[c][s].status
  BY <1>2 DEF Nodes, GateStage, Stage
<1>4. Reviews(c) = {Node(s) : s \in Stage}
  BY DEF Reviews
<1>5. policy \in SUBSET GateStage /\ RequiredByPolicy(policy) \subseteq GateStage
  BY DEF GateStage, RequiredByPolicy
<1>6. Decision(c) = "approved" <=>
        gates[c] \in {"passed", "cut"} /\ \A s \in Stage : run.review[c][s].status = "approved"
  <2>1. Decision(c) = decideApproval(Checks(gates[c]), Reviews(c), policy)
    BY DEF Decision
  <2> HIDE DEF policy, Node
  <2>2. Reviews(c) \in SUBSET Nodes(ReviewStatus)
    BY <1>3, <1>4
  <2>3. (\A r \in Reviews(c) : r.required => r.status = "approved")
          <=> \A s \in Stage : run.review[c][s].status = "approved"
    BY <1>3, <1>4
  <2>4. QED
    BY <1>1, <1>5, <2>1, <2>2, <2>3, ChecksAre, ApprovedIsUnanimous
<1>7. Decision(c) \in {"approved", "rejected", "unavailable"}
  BY DEF Decision, decideApproval
<1>8. QED
  BY <1>6, <1>7
-----------------------------------------------------------------------------
(* A step of a contender's task *)
LEMMA TaskStep ==
  ASSUME RInv, NEW c \in Contender, Task(c) \/ Child(c)
  PROVE  RInv'
<1> USE DEF Turn, TaskOnly, disk, Decided, Sealed, Review, Over, BuilderComplete, ArtifactSealed,
      DecisionComplete
<1>a. Recorded /\ Memory /\ Scheduling
  BY DEF RInv
<1>0. stand[c] \notin {"idle", "done"} => stand["main"] = "join" /\ run.status # "completed"
  BY Actors, Labels DEF RInv, Scheduling, Return, Phases, Pre, Ends, MainPc, stand
<1>b. c \in Actor /\ c # "main" /\ DOMAIN stand = Actor
  BY Actors, StandsAt
<1>c. Progress(c) /\ Evidence(c) /\ Outcome(c)
  BY DEF RInv, Local
<1>1. ASSUME BuilderStarts(c) PROVE RInv'
  <2>1. /\ up /\ up' /\ stand[c] = "attempt"
        /\ UNCHANGED <<files, gates, branch, stage>>
    BY <1>1, Actors, StandsAt DEF BuilderStarts
  <2>2. Scheduling' /\ stand' = [stand EXCEPT ![c] = "build"]
    BY <1>a, <1>1, Actors, Labels, Leaves DEF BuilderStarts, Waiting
  <2>3. /\ Shaped'
        /\ run'.state = [run.state EXCEPT ![c] = "running"]
        /\ UNCHANGED <<run.status, run.winner, run.exhausted, run.stopped, run.context,
                      run.checkpoint, run.review, run.used, run.seal, run.decision, run.checks>>
    BY <1>a, <1>1, Fields DEF BuilderStarts, Recorded, Shaped, Field
  <2>4. Recorded'
    BY <1>a, <2>3 DEF Recorded, ContenderState, Active
  <2>5. Memory'
    BY <1>a, <1>1, BoundAssumption DEF BuilderStarts, Memory
  <2>6. Frame(c)
    BY <1>a, <1>0, <2>1, <2>2, <2>3, Actors, StandsAt DEF Frame, Recorded, Memory
  <2>7. Progress(c)'
    BY <1>a, <1>c, <2>1, <2>2, <2>3, <1>b DEF Progress, Recorded, Building, Sealing, Judging
  <2>8. Evidence(c)'
    BY <1>a, <1>c, <2>1, <2>2, <2>3, <1>b DEF Evidence, Progress, Recorded, Memory, Answering,
        Building, Sealing, Judging
  <2>9. Outcome(c)'
    <3>1. ~Decided(c) /\ run'.checkpoint = run.checkpoint
      BY <1>a, <1>c, <2>1, <2>3 DEF Progress, Recorded, Building
    <3>2. QED
      BY <1>0, <1>c, <2>1, <2>2, <2>3, <2>6, <1>b, <3>1 DEF Frame, Outcome, Pre
  <2>10. QED
    BY <1>0, <2>1, <2>2, <2>4, <2>5, <2>6, <2>7, <2>8, <2>9, Works DEF Local
<1>2. ASSUME CheckpointReused(c) PROVE RInv'
  <2>1. /\ up /\ up' /\ stand[c] = "reuse"
        /\ UNCHANGED <<files, gates, branch, stage>>
    BY <1>2, Actors, StandsAt DEF CheckpointReused
  <2>2. Scheduling' /\ stand' = [stand EXCEPT ![c] = "seal"]
    BY <1>a, <1>2, Actors, Labels, Leaves DEF CheckpointReused, Waiting
  <2>3. /\ Shaped'
        /\ run'.state = [run.state EXCEPT ![c] = "judging"]
        /\ UNCHANGED <<run.status, run.winner, run.exhausted, run.stopped, run.context,
                      run.checkpoint, run.review, run.used, run.seal, run.decision, run.checks>>
    BY <1>a, <1>2, Fields DEF CheckpointReused, Recorded, Shaped, Field
  <2>4. Recorded'
    BY <1>a, <2>3 DEF Recorded, ContenderState, Active
  <2>5. Memory'
    BY <1>a, <1>2, BoundAssumption DEF CheckpointReused, Memory
  <2>6. Frame(c)
    BY <1>a, <1>0, <2>1, <2>2, <2>3, Actors, StandsAt DEF Frame, Recorded, Memory
  <2>7. Progress(c)'
    BY <1>a, <1>c, <2>1, <2>2, <2>3, <1>b DEF Progress, Recorded, Building, Sealing, Judging
  <2>8. Evidence(c)'
    BY <1>a, <1>c, <2>1, <2>2, <2>3, <1>b DEF Evidence, Progress, Recorded, Memory, Answering,
        Building, Sealing, Judging
  <2>9. Outcome(c)'
    BY <1>a, <1>0, <1>c, <2>1, <2>2, <2>3, <2>6, <1>b DEF Frame, Outcome, Progress, Recorded, Pre,
        Active, Building, Sealing, Judging
  <2>10. QED
    BY <1>0, <2>1, <2>2, <2>4, <2>5, <2>6, <2>7, <2>8, <2>9, Works DEF Local
<1>3. ASSUME BuilderWorks(c) PROVE RInv'
  <2>1. /\ up /\ up' /\ stand[c] = "build"
        /\ UNCHANGED <<files, gates, branch, stage>>
    BY <1>3, Actors, StandsAt DEF BuilderWorks
  <2>2. Scheduling' /\ stand' = [stand EXCEPT ![c] = "progress"]
    BY <1>a, <1>3, Actors, Labels, Joins DEF BuilderWorks, Waiting
  <2>3. run' = run
    BY <1>3 DEF BuilderWorks
  <2>4. Recorded'
    BY <1>a, <2>3 DEF Recorded, Shaped
  <2>5. Memory'
    BY <1>a, <1>3, BoundAssumption DEF BuilderWorks, Memory
  <2>6. Frame(c)
    BY <1>a, <1>0, <2>1, <2>2, <2>3, Actors, StandsAt DEF Frame, Recorded, Memory
  <2>7. Progress(c)'
    BY <1>a, <1>c, <2>1, <2>2, <2>3, <1>b DEF Progress, Recorded, Building, Sealing, Judging
  <2>8. Evidence(c)'
    BY <1>a, <1>c, <2>1, <2>2, <2>3, <1>b DEF Evidence, Progress, Recorded, Memory, Answering,
        Building, Sealing, Judging
  <2>9. Outcome(c)'
    BY <1>a, <1>0, <1>c, <2>1, <2>2, <2>3, <2>6, <1>b DEF Frame, Outcome, Progress, Recorded, Pre,
        Active, Building, Sealing, Judging
  <2>10. QED
    BY <1>0, <2>1, <2>2, <2>4, <2>5, <2>6, <2>7, <2>8, <2>9, Works DEF Local
<1>4. ASSUME BuilderAnswers(c) PROVE RInv'
  <2>1. /\ up /\ up' /\ stand[c] = "build"
        /\ UNCHANGED <<files, gates, branch, stage>>
    BY <1>4, Actors, StandsAt DEF BuilderAnswers
  <2>2. Scheduling' /\ stand' = [stand EXCEPT ![c] = "answer"]
    BY <1>a, <1>4, Actors, Labels, Joins DEF BuilderAnswers, Waiting
  <2>3. run' = run
    BY <1>4 DEF BuilderAnswers
  <2>4. Recorded'
    BY <1>a, <2>3 DEF Recorded, Shaped
  <2>5. Memory'
    BY <1>a, <1>4, BoundAssumption DEF BuilderAnswers, Memory
  <2>6. Frame(c)
    BY <1>a, <1>0, <2>1, <2>2, <2>3, Actors, StandsAt DEF Frame, Recorded, Memory
  <2>7. Progress(c)'
    BY <1>a, <1>c, <2>1, <2>2, <2>3, <1>b DEF Progress, Recorded, Building, Sealing, Judging
  <2>8. Evidence(c)'
    BY <1>a, <1>c, <2>1, <2>2, <2>3, <1>b DEF Evidence, Progress, Recorded, Memory, Answering,
        Building, Sealing, Judging
  <2>9. Outcome(c)'
    BY <1>a, <1>0, <1>c, <2>1, <2>2, <2>3, <2>6, <1>b DEF Frame, Outcome, Progress, Recorded, Pre,
        Active, Building, Sealing, Judging
  <2>10. QED
    BY <1>0, <2>1, <2>2, <2>4, <2>5, <2>6, <2>7, <2>8, <2>9, Works DEF Local
<1>5. ASSUME BuilderReported(c) PROVE RInv'
  <2>1. /\ up /\ up' /\ stand[c] \in {"progress", "answer"}
        /\ UNCHANGED <<files, gates, branch, stage>>
    BY <1>5, Actors, StandsAt DEF BuilderReported
  <2>2. Scheduling' /\ stand' \in {[stand EXCEPT ![c] = l] : l \in {"reported", "answered"}}
    BY <1>a, <1>5, Actors, Labels, Leaves DEF BuilderReported, Waiting
  <2>3. /\ Shaped'
        /\ run'.used = [run.used EXCEPT ![c] = made[c]]
        /\ UNCHANGED <<run.status, run.winner, run.exhausted, run.stopped, run.context,
                      run.checkpoint, run.state, run.review, run.seal, run.decision,
                      run.checks>>
    BY <1>a, <1>5, Fields DEF BuilderReported, Recorded, Shaped, Field
  <2>4. Recorded'
    BY <1>a, <2>3 DEF Recorded, Memory
  <2>5. Memory'
    BY <1>a, <1>5, BoundAssumption DEF BuilderReported, Memory
  <2>6. Frame(c)
    BY <1>a, <1>0, <2>1, <2>2, <2>3, Actors, StandsAt DEF Frame, Recorded, Memory
  <2>7. Progress(c)'
    BY <1>a, <1>c, <2>1, <2>2, <2>3, <1>b DEF Progress, Recorded, Building, Sealing, Judging
  <2>8. Evidence(c)'
    BY <1>a, <1>c, <2>1, <2>2, <2>3, <1>b DEF Evidence, Progress, Recorded, Memory, Answering,
        Building, Sealing, Judging
  <2>9. Outcome(c)'
    BY <1>a, <1>0, <1>c, <2>1, <2>2, <2>3, <2>6, <1>b DEF Frame, Outcome, Progress, Recorded, Pre,
        Active, Building, Sealing, Judging
  <2>10. QED
    BY <1>0, <2>1, <2>2, <2>4, <2>5, <2>6, <2>7, <2>8, <2>9, Works DEF Local
<1>6. ASSUME BuilderReturns(c) PROVE RInv'
  <2>1. /\ up /\ up' /\ stand[c] = "return"
        /\ UNCHANGED <<files, gates, branch, stage>>
    BY <1>6, Actors, StandsAt DEF BuilderReturns
  <2>2. Scheduling' /\ stand' = [stand EXCEPT ![c] = "built"]
    BY <1>a, <1>6, Actors, Labels, Joins DEF BuilderReturns, Waiting
  <2>3. run' = run
    BY <1>6 DEF BuilderReturns
  <2>4. Recorded'
    BY <1>a, <2>3 DEF Recorded, Shaped
  <2>5. Memory'
    BY <1>a, <1>6, BoundAssumption DEF BuilderReturns, Memory
  <2>6. Frame(c)
    BY <1>a, <1>0, <2>1, <2>2, <2>3, Actors, StandsAt DEF Frame, Recorded, Memory
  <2>7. Progress(c)'
    BY <1>a, <1>c, <2>1, <2>2, <2>3, <1>b DEF Progress, Recorded, Building, Sealing, Judging
  <2>8. Evidence(c)'
    BY <1>a, <1>c, <2>1, <2>2, <2>3, <1>b DEF Evidence, Progress, Recorded, Memory, Answering,
        Building, Sealing, Judging
  <2>9. Outcome(c)'
    BY <1>a, <1>0, <1>c, <2>1, <2>2, <2>3, <2>6, <1>b DEF Frame, Outcome, Progress, Recorded, Pre,
        Active, Building, Sealing, Judging
  <2>10. QED
    BY <1>0, <2>1, <2>2, <2>4, <2>5, <2>6, <2>7, <2>8, <2>9, Works DEF Local
<1>7. ASSUME BuilderFinished(c) PROVE RInv'
  <2>1. /\ up /\ up' /\ stand[c] = "built"
        /\ UNCHANGED <<files, gates, branch, stage>>
    BY <1>7, Actors, StandsAt DEF BuilderFinished
  <2>2. Scheduling' /\ stand' = [stand EXCEPT ![c] = "finished"]
    BY <1>a, <1>7, Actors, Labels, Leaves DEF BuilderFinished, Waiting
  <2>3. /\ Shaped'
        /\ run'.status \in {run.status, "judging"}
        /\ run'.checkpoint = [run.checkpoint EXCEPT ![c] = 2]
        /\ run'.state = [run.state EXCEPT ![c] = "judging"]
        /\ run'.used = [run.used EXCEPT ![c] = made[c]]
        /\ UNCHANGED <<run.winner, run.exhausted, run.stopped, run.context, run.review,
                      run.seal, run.decision, run.checks>>
    BY <1>a, <1>7, Fields DEF BuilderFinished, Recorded, Shaped, Field, BuilderComplete
  <2>4. Recorded'
    <3>1. made[c] \in Nat
      BY <1>a, BoundAssumption DEF Memory
    <3>2. run'.used \in [Contender -> Nat]
      BY <1>a, <2>3, <3>1 DEF Recorded
    <3>3. run'.checkpoint \in [Contender -> 0..4]
      BY <1>a, <2>3 DEF Recorded
    <3>4. run'.state \in [Contender -> ContenderState] /\ run'.status \in Active \cup Finished
      BY <1>a, <2>3 DEF Recorded, ContenderState, Active
    <3>5. QED
      BY <1>a, <2>3, <3>2, <3>3, <3>4 DEF Recorded
  <2>5. Memory'
    BY <1>a, <1>7, BoundAssumption DEF BuilderFinished, Memory
  <2>6. Frame(c)
    BY <1>a, <1>0, <2>1, <2>2, <2>3, Actors, StandsAt DEF Frame, Recorded, Memory
  <2>a. run.checkpoint[c] < 2 /\ run'.checkpoint[c] = 2 /\ run.checkpoint[c] \in 0..4
    BY <1>a, <1>c, <2>1, <2>3 DEF Progress, Recorded, Building
  <2>b. stand'[c] = "finished"
    BY <1>b, <2>2
  <2>7. Progress(c)'
    BY <1>c, <2>a, <2>b, <2>3 DEF Progress, Building, Sealing, Judging
  <2>8. Evidence(c)'
    BY <1>a, <1>c, <2>a, <2>b, <2>1, <2>3 DEF Evidence, Memory, Answering
  <2>9. Outcome(c)'
    BY <1>a, <1>0, <1>c, <2>1, <2>2, <2>3, <2>6, <1>b DEF Frame, Outcome, Progress, Recorded, Pre,
        Active, Building, Sealing, Judging
  <2>10. QED
    BY <1>0, <2>1, <2>2, <2>4, <2>5, <2>6, <2>7, <2>8, <2>9, Works DEF Local
<1>8. ASSUME Proceeds(c) PROVE RInv'
  <2>1. /\ up /\ up' /\ stand[c] = "proceed"
        /\ UNCHANGED <<files, gates, branch, stage>>
    BY <1>8, Actors, StandsAt DEF Proceeds
  <2>2. Scheduling' /\ stand' = [stand EXCEPT ![c] = "seal"]
    BY <1>a, <1>8, Actors, Labels, Goes DEF Proceeds, Waiting
  <2>3. run' = run
    BY <1>8 DEF Proceeds
  <2>4. Recorded'
    BY <1>a, <2>3 DEF Recorded, Shaped
  <2>5. Memory'
    BY <1>a, <1>8, BoundAssumption DEF Proceeds, Memory
  <2>6. Frame(c)
    BY <1>a, <1>0, <2>1, <2>2, <2>3, Actors, StandsAt DEF Frame, Recorded, Memory
  <2>7. Progress(c)'
    BY <1>a, <1>c, <2>1, <2>2, <2>3, <1>b DEF Progress, Recorded, Building, Sealing, Judging
  <2>8. Evidence(c)'
    BY <1>a, <1>c, <2>1, <2>2, <2>3, <1>b DEF Evidence, Progress, Recorded, Memory, Answering,
        Building, Sealing, Judging
  <2>9. Outcome(c)'
    BY <1>a, <1>0, <1>c, <2>1, <2>2, <2>3, <2>6, <1>b DEF Frame, Outcome, Progress, Recorded, Pre,
        Active, Building, Sealing, Judging
  <2>10. QED
    BY <1>0, <2>1, <2>2, <2>4, <2>5, <2>6, <2>7, <2>8, <2>9, Works DEF Local
<1>9. ASSUME ArtifactIsSealed(c) PROVE RInv'
  <2>1. /\ up /\ up' /\ stand[c] = "sealed"
        /\ UNCHANGED <<files, gates, branch, stage>>
    BY <1>9, Actors, StandsAt DEF ArtifactIsSealed
  <2>2. Scheduling' /\ stand' = [stand EXCEPT ![c] = "gates"]
    BY <1>a, <1>9, Actors, Labels, Leaves DEF ArtifactIsSealed, Waiting
  <2>3. /\ Shaped'
        /\ run'.checkpoint = [run.checkpoint EXCEPT ![c] = 3]
        /\ run'.seal = [run.seal EXCEPT ![c] = files[c]]
        /\ UNCHANGED <<run.status, run.winner, run.exhausted, run.stopped, run.context,
                      run.state, run.review, run.used, run.decision, run.checks>>
    BY <1>a, <1>9, Fields DEF ArtifactIsSealed, Recorded, Shaped, Field, ArtifactSealed
  <2>4. Recorded'
    <3>1. run'.seal \in [Contender -> Nat]
      BY <1>a, <2>3 DEF Recorded, Memory
    <3>2. run'.checkpoint \in [Contender -> 0..4]
      BY <1>a, <2>3 DEF Recorded
    <3>3. QED
      BY <1>a, <2>3, <3>1, <3>2 DEF Recorded
  <2>5. Memory'
    BY <1>a, <1>9, BoundAssumption DEF ArtifactIsSealed, Memory
  <2>6. Frame(c)
    BY <1>a, <1>0, <2>1, <2>2, <2>3, Actors, StandsAt DEF Frame, Recorded, Memory
  <2>7. Progress(c)'
    BY <1>a, <1>c, <2>1, <2>2, <2>3, <1>b DEF Progress, Recorded, Building, Sealing, Judging
  <2>8. Evidence(c)'
    BY <1>a, <1>c, <2>1, <2>2, <2>3, <1>b DEF Evidence, Progress, Recorded, Memory, Answering,
        Building, Sealing, Judging
  <2>9. Outcome(c)'
    BY <1>a, <1>0, <1>c, <2>1, <2>2, <2>3, <2>6, <1>b DEF Frame, Outcome, Progress, Recorded, Pre,
        Active, Building, Sealing, Judging
  <2>10. QED
    BY <1>0, <2>1, <2>2, <2>4, <2>5, <2>6, <2>7, <2>8, <2>9, Works DEF Local
<1>10. ASSUME JudgeStarts(c) PROVE RInv'
  <2>1. /\ up /\ up' /\ stand[c] = "gates"
        /\ UNCHANGED <<files, gates, branch, stage>>
    BY <1>10, Actors, StandsAt DEF JudgeStarts
  <2>2. Scheduling' /\ stand' = [stand EXCEPT ![c] = "judge"]
    BY <1>a, <1>10, Actors, Labels, Goes DEF JudgeStarts, Waiting
  <2>3. run' = run
    BY <1>10 DEF JudgeStarts
  <2>4. Recorded'
    BY <1>a, <2>3 DEF Recorded, Shaped
  <2>5. Memory'
    BY <1>a, <1>10, BoundAssumption DEF JudgeStarts, Memory
  <2>6. Frame(c)
    BY <1>a, <1>0, <2>1, <2>2, <2>3, Actors, StandsAt DEF Frame, Recorded, Memory
  <2>7. Progress(c)'
    BY <1>a, <1>c, <2>1, <2>2, <2>3, <1>b DEF Progress, Recorded, Building, Sealing, Judging
  <2>8. Evidence(c)'
    BY <1>a, <1>c, <2>1, <2>2, <2>3, <1>b DEF Evidence, Progress, Recorded, Memory, Answering,
        Building, Sealing, Judging
  <2>9. Outcome(c)'
    BY <1>a, <1>0, <1>c, <2>1, <2>2, <2>3, <2>6, <1>b DEF Frame, Outcome, Progress, Recorded, Pre,
        Active, Building, Sealing, Judging
  <2>10. QED
    BY <1>0, <2>1, <2>2, <2>4, <2>5, <2>6, <2>7, <2>8, <2>9, Works DEF Local
<1>11. ASSUME ReviewsStart(c) PROVE RInv'
  <2>1. /\ up /\ up' /\ stand[c] = "reviewing"
        /\ UNCHANGED <<files, gates, branch, stage>>
    BY <1>11, Actors, StandsAt DEF ReviewsStart
  <2>2. Scheduling' /\ stand' = [stand EXCEPT ![c] = "review"]
    BY <1>a, <1>11, Actors, Labels, Leaves DEF ReviewsStart, Waiting
  <2>3. /\ Shaped'
        /\ run'.status = "reviewing"
        /\ run'.state = [run.state EXCEPT ![c] = "reviewing"]
        /\ UNCHANGED <<run.winner, run.exhausted, run.stopped, run.context, run.checkpoint,
                      run.review, run.used, run.seal, run.decision, run.checks>>
    BY <1>a, <1>11, Fields DEF ReviewsStart, Recorded, Shaped, Field
  <2>4. Recorded'
    BY <1>a, <2>3 DEF Recorded, ContenderState, Active
  <2>5. Memory'
    BY <1>a, <1>11, BoundAssumption DEF ReviewsStart, Memory
  <2>6. Frame(c)
    BY <1>a, <1>0, <2>1, <2>2, <2>3, Actors, StandsAt DEF Frame, Recorded, Memory
  <2>7. Progress(c)'
    BY <1>a, <1>c, <2>1, <2>2, <2>3, <1>b DEF Progress, Recorded, Building, Sealing, Judging
  <2>8. Evidence(c)'
    BY <1>a, <1>c, <2>1, <2>2, <2>3, <1>b DEF Evidence, Progress, Recorded, Memory, Answering,
        Building, Sealing, Judging
  <2>9. Outcome(c)'
    BY <1>a, <1>0, <1>c, <2>1, <2>2, <2>3, <2>6, <1>b DEF Frame, Outcome, Progress, Recorded, Pre,
        Active, Building, Sealing, Judging
  <2>10. QED
    BY <1>0, <2>1, <2>2, <2>4, <2>5, <2>6, <2>7, <2>8, <2>9, Works DEF Local
<1>12. ASSUME ReviewOpens(c) PROVE RInv'
  <2>1. /\ up /\ up' /\ stand[c] = "review"
        /\ UNCHANGED <<files, gates, branch, stage>>
    BY <1>12, Actors, StandsAt DEF ReviewOpens
  <2>2. Scheduling' /\ stand' \in {[stand EXCEPT ![c] = l] : l \in {"next", "open"}}
    BY <1>a, <1>12, Actors, Labels, Goes, Joins DEF ReviewOpens, Waiting
  <2>3. run' = run
    BY <1>12 DEF ReviewOpens
  <2>4. Recorded'
    BY <1>a, <2>3 DEF Recorded, Shaped
  <2>5. Memory'
    BY <1>a, <1>12, BoundAssumption DEF ReviewOpens, Memory
  <2>6. Frame(c)
    BY <1>a, <1>0, <2>1, <2>2, <2>3, Actors, StandsAt DEF Frame, Recorded, Memory
  <2>7. Progress(c)'
    BY <1>a, <1>c, <2>1, <2>2, <2>3, <1>b DEF Progress, Recorded, Building, Sealing, Judging
  <2>8. Evidence(c)'
    BY <1>a, <1>c, <2>1, <2>2, <2>3, <1>b DEF Evidence, Progress, Recorded, Memory, Answering,
        Building, Sealing, Judging
  <2>9. Outcome(c)'
    BY <1>a, <1>0, <1>c, <2>1, <2>2, <2>3, <2>6, <1>b DEF Frame, Outcome, Progress, Recorded, Pre,
        Active, Building, Sealing, Judging
  <2>10. QED
    BY <1>0, <2>1, <2>2, <2>4, <2>5, <2>6, <2>7, <2>8, <2>9, Works DEF Local
<1>13. ASSUME ReviewRuns(c) PROVE RInv'
  <2>1. /\ up /\ up' /\ stand[c] = "open"
        /\ UNCHANGED <<files, gates, branch, stage>>
    BY <1>13, Actors, StandsAt DEF ReviewRuns
  <2>2. Scheduling' /\ stand' = [stand EXCEPT ![c] = "reviewer"]
    BY <1>a, <1>13, Actors, Labels, Leaves DEF ReviewRuns, Waiting
  <2>3. /\ Shaped'
        /\ run'.review = [run.review EXCEPT
           ![c][stage[c]] = [status |-> "running", of |-> run.seal[c]]]
        /\ UNCHANGED <<run.status, run.winner, run.exhausted, run.stopped, run.context,
                      run.checkpoint, run.state, run.used, run.seal, run.decision, run.checks>>
    BY <1>a, <1>13, Fields DEF ReviewRuns, Recorded, Shaped, Field
  <2>a. [status |-> "running", of |-> run.seal[c]] \in [status : ReviewStatus, of : Nat]
        /\ stage[c] \in Stage
    BY <1>a DEF Recorded, Memory, ReviewStatus
  <2>b. run'.review \in [Contender -> [Stage -> [status : ReviewStatus, of : Nat]]]
    BY <1>a, <2>a, <2>3 DEF Recorded
  <2>4. Recorded'
    BY <1>a, <2>b, <2>3 DEF Recorded
  <2>5. Memory'
    BY <1>a, <1>13, BoundAssumption DEF ReviewRuns, Memory
  <2>6. Frame(c)
    BY <1>a, <1>0, <2>1, <2>2, <2>3, Actors, StandsAt DEF Frame, Recorded, Memory
  <2>7. Progress(c)'
    BY <1>a, <1>c, <2>1, <2>2, <2>3, <1>b DEF Progress, Recorded, Building, Sealing, Judging
  <2>8. Evidence(c)'
    BY <1>a, <1>c, <2>1, <2>2, <2>3, <1>b DEF Evidence, Progress, Recorded, Memory, Answering,
        Building, Sealing, Judging
  <2>9. Outcome(c)'
    BY <1>a, <1>0, <1>c, <2>1, <2>2, <2>3, <2>6, <1>b DEF Frame, Outcome, Progress, Recorded, Pre,
        Active, Building, Sealing, Judging
  <2>10. QED
    BY <1>0, <2>1, <2>2, <2>4, <2>5, <2>6, <2>7, <2>8, <2>9, Works DEF Local
<1>14. ASSUME ReviewerAnswers(c) PROVE RInv'
  <2>1. /\ up /\ up' /\ stand[c] = "reviewer"
        /\ UNCHANGED <<files, gates, branch, stage>>
    BY <1>14, Actors, StandsAt DEF ReviewerAnswers
  <2>2. Scheduling' /\ stand' = [stand EXCEPT ![c] = "told"]
    BY <1>a, <1>14, Actors, Labels, Joins DEF ReviewerAnswers, Waiting
  <2>3. run' = run
    BY <1>14 DEF ReviewerAnswers
  <2>4. Recorded'
    BY <1>a, <2>3 DEF Recorded, Shaped
  <2>5. Memory'
    BY <1>a, <1>14, BoundAssumption DEF ReviewerAnswers, Memory
  <2>6. Frame(c)
    BY <1>a, <1>0, <2>1, <2>2, <2>3, Actors, StandsAt DEF Frame, Recorded, Memory
  <2>7. Progress(c)'
    BY <1>a, <1>c, <2>1, <2>2, <2>3, <1>b DEF Progress, Recorded, Building, Sealing, Judging
  <2>8. Evidence(c)'
    BY <1>a, <1>c, <2>1, <2>2, <2>3, <1>b DEF Evidence, Progress, Recorded, Memory, Answering,
        Building, Sealing, Judging
  <2>9. Outcome(c)'
    BY <1>a, <1>0, <1>c, <2>1, <2>2, <2>3, <2>6, <1>b DEF Frame, Outcome, Progress, Recorded, Pre,
        Active, Building, Sealing, Judging
  <2>10. QED
    BY <1>0, <2>1, <2>2, <2>4, <2>5, <2>6, <2>7, <2>8, <2>9, Works DEF Local
<1>15. ASSUME ReviewReported(c) PROVE RInv'
  <2>1. /\ up /\ up' /\ stand[c] = "told"
        /\ UNCHANGED <<files, gates, branch, stage>>
    BY <1>15, Actors, StandsAt DEF ReviewReported
  <2>2. Scheduling' /\ stand' = [stand EXCEPT ![c] = "heard"]
    BY <1>a, <1>15, Actors, Labels, Leaves DEF ReviewReported, Waiting
  <2>3. run' = run
    BY <1>15 DEF ReviewReported
  <2>4. Recorded'
    BY <1>a, <2>3 DEF Recorded, Shaped
  <2>5. Memory'
    BY <1>a, <1>15, BoundAssumption DEF ReviewReported, Memory
  <2>6. Frame(c)
    BY <1>a, <1>0, <2>1, <2>2, <2>3, Actors, StandsAt DEF Frame, Recorded, Memory
  <2>7. Progress(c)'
    BY <1>a, <1>c, <2>1, <2>2, <2>3, <1>b DEF Progress, Recorded, Building, Sealing, Judging
  <2>8. Evidence(c)'
    BY <1>a, <1>c, <2>1, <2>2, <2>3, <1>b DEF Evidence, Progress, Recorded, Memory, Answering,
        Building, Sealing, Judging
  <2>9. Outcome(c)'
    BY <1>a, <1>0, <1>c, <2>1, <2>2, <2>3, <2>6, <1>b DEF Frame, Outcome, Progress, Recorded, Pre,
        Active, Building, Sealing, Judging
  <2>10. QED
    BY <1>0, <2>1, <2>2, <2>4, <2>5, <2>6, <2>7, <2>8, <2>9, Works DEF Local
<1>16. ASSUME ReviewParsed(c) PROVE RInv'
  <2>1. /\ up /\ up' /\ stand[c] = "parse"
        /\ UNCHANGED <<files, gates, branch, stage>>
    BY <1>16, Actors, StandsAt DEF ReviewParsed
  <2>2. Scheduling' /\ stand' \in {[stand EXCEPT ![c] = l] : l \in {"approve", "reject"}}
    BY <1>a, <1>16, Actors, Labels, Joins DEF ReviewParsed, Waiting
  <2>3. run' = run
    BY <1>16 DEF ReviewParsed
  <2>4. Recorded'
    BY <1>a, <2>3 DEF Recorded, Shaped
  <2>5. Memory'
    BY <1>a, <1>16, BoundAssumption DEF ReviewParsed, Memory
  <2>6. Frame(c)
    BY <1>a, <1>0, <2>1, <2>2, <2>3, Actors, StandsAt DEF Frame, Recorded, Memory
  <2>7. Progress(c)'
    BY <1>a, <1>c, <2>1, <2>2, <2>3, <1>b DEF Progress, Recorded, Building, Sealing, Judging
  <2>8. Evidence(c)'
    BY <1>a, <1>c, <2>1, <2>2, <2>3, <1>b DEF Evidence, Progress, Recorded, Memory, Answering,
        Building, Sealing, Judging
  <2>9. Outcome(c)'
    BY <1>a, <1>0, <1>c, <2>1, <2>2, <2>3, <2>6, <1>b DEF Frame, Outcome, Progress, Recorded, Pre,
        Active, Building, Sealing, Judging
  <2>10. QED
    BY <1>0, <2>1, <2>2, <2>4, <2>5, <2>6, <2>7, <2>8, <2>9, Works DEF Local
<1>17. ASSUME ReviewerBreaks(c) PROVE RInv'
  <2>1. /\ up /\ up' /\ stand[c] \in {"reviewer", "parse"}
        /\ UNCHANGED <<files, gates, branch, stage>>
    BY <1>17, Actors, StandsAt DEF ReviewerBreaks
  <2>2. Scheduling' /\ stand' = [stand EXCEPT ![c] = "broken"]
    BY <1>a, <1>17, Actors, Labels, Joins DEF ReviewerBreaks, Waiting
  <2>3. run' = run
    BY <1>17 DEF ReviewerBreaks
  <2>4. Recorded'
    BY <1>a, <2>3 DEF Recorded, Shaped
  <2>5. Memory'
    BY <1>a, <1>17, BoundAssumption DEF ReviewerBreaks, Memory
  <2>6. Frame(c)
    BY <1>a, <1>0, <2>1, <2>2, <2>3, Actors, StandsAt DEF Frame, Recorded, Memory
  <2>7. Progress(c)'
    BY <1>a, <1>c, <2>1, <2>2, <2>3, <1>b DEF Progress, Recorded, Building, Sealing, Judging
  <2>8. Evidence(c)'
    BY <1>a, <1>c, <2>1, <2>2, <2>3, <1>b DEF Evidence, Progress, Recorded, Memory, Answering,
        Building, Sealing, Judging
  <2>9. Outcome(c)'
    BY <1>a, <1>0, <1>c, <2>1, <2>2, <2>3, <2>6, <1>b DEF Frame, Outcome, Progress, Recorded, Pre,
        Active, Building, Sealing, Judging
  <2>10. QED
    BY <1>0, <2>1, <2>2, <2>4, <2>5, <2>6, <2>7, <2>8, <2>9, Works DEF Local
<1>18. ASSUME ReviewsSkipped(c) PROVE RInv'
  <2>1. /\ up /\ up' /\ stand[c] = "skip"
        /\ UNCHANGED <<files, gates, branch, stage>>
    BY <1>18, Actors, StandsAt DEF ReviewsSkipped
  <2>2. Scheduling' /\ stand' = [stand EXCEPT ![c] = "decide"]
    BY <1>a, <1>18, Actors, Labels, Leaves DEF ReviewsSkipped, Waiting
  <2>3. /\ Shaped'
        /\ run'.review = [run.review EXCEPT ![c] = [s \in Stage |->
           IF run.review[c][s].status = "queued" /\ (stage[c] = "logic" \/ s = "security")
           THEN [run.review[c][s] EXCEPT !.status = "skipped"] ELSE run.review[c][s]]]
        /\ UNCHANGED <<run.status, run.winner, run.exhausted, run.stopped, run.context,
                      run.checkpoint, run.state, run.used, run.seal, run.decision, run.checks>>
    BY <1>a, <1>18, Fields DEF ReviewsSkipped, Recorded, Shaped, Field
  <2>a. ASSUME NEW r \in [status : ReviewStatus, of : Nat]
        PROVE  [r EXCEPT !.status = "skipped"] \in [status : ReviewStatus, of : Nat]
    BY DEF ReviewStatus
  <2>b. \A s \in Stage : run.review[c][s] \in [status : ReviewStatus, of : Nat]
    BY <1>a DEF Recorded
  <2>d. run'.review[c] \in [Stage -> [status : ReviewStatus, of : Nat]]
    BY <1>a, <2>a, <2>b, <2>3 DEF Recorded
  <2>4. Recorded'
    BY <1>a, <2>d, <2>3 DEF Recorded
  <2>5. Memory'
    BY <1>a, <1>18, BoundAssumption DEF ReviewsSkipped, Memory
  <2>6. Frame(c)
    BY <1>a, <1>0, <2>1, <2>2, <2>3, Actors, StandsAt DEF Frame, Recorded, Memory
  <2>7. Progress(c)'
    BY <1>a, <1>c, <2>1, <2>2, <2>3, <1>b DEF Progress, Recorded, Building, Sealing, Judging
  <2>8. Evidence(c)'
    BY <1>a, <1>c, <2>1, <2>2, <2>3, <1>b DEF Evidence, Progress, Recorded, Memory, Answering,
        Building, Sealing, Judging
  <2>9. Outcome(c)'
    BY <1>a, <1>0, <1>c, <2>1, <2>2, <2>3, <2>6, <1>b DEF Frame, Outcome, Progress, Recorded, Pre,
        Active, Building, Sealing, Judging
  <2>10. QED
    BY <1>0, <2>1, <2>2, <2>4, <2>5, <2>6, <2>7, <2>8, <2>9, Works DEF Local
<1>19. ASSUME EarlyStopRecorded(c) PROVE RInv'
  <2>1. /\ up /\ up' /\ stand[c] = "stop"
        /\ UNCHANGED <<files, gates, branch, stage>>
    BY <1>19, Actors, StandsAt DEF EarlyStopRecorded
  <2>2. Scheduling' /\ stand' = [stand EXCEPT ![c] = "stopped"]
    BY <1>a, <1>19, Actors, Labels, Leaves DEF EarlyStopRecorded, Waiting
  <2>3. /\ Shaped'
        /\ run'.stopped = run.stopped \cup targets[c]
        /\ UNCHANGED <<run.status, run.winner, run.exhausted, run.context, run.checkpoint,
                      run.state, run.review, run.used, run.seal, run.decision, run.checks>>
    BY <1>a, <1>19, Fields DEF EarlyStopRecorded, Recorded, Shaped, Field
  <2>4. Recorded'
    BY <1>a, <2>3 DEF Recorded, Memory
  <2>5. Memory'
    BY <1>a, <1>19, BoundAssumption DEF EarlyStopRecorded, Memory
  <2>6. Frame(c)
    BY <1>a, <1>0, <2>1, <2>2, <2>3, Actors, StandsAt DEF Frame, Recorded, Memory
  <2>7. Progress(c)'
    BY <1>a, <1>c, <2>1, <2>2, <2>3, <1>b DEF Progress, Recorded, Building, Sealing, Judging
  <2>8. Evidence(c)'
    BY <1>a, <1>c, <2>1, <2>2, <2>3, <1>b DEF Evidence, Progress, Recorded, Memory, Answering,
        Building, Sealing, Judging
  <2>9. Outcome(c)'
    BY <1>a, <1>0, <1>c, <2>1, <2>2, <2>3, <2>6, <1>b DEF Frame, Outcome, Progress, Recorded, Pre,
        Active, Building, Sealing, Judging
  <2>10. QED
    BY <1>0, <2>1, <2>2, <2>4, <2>5, <2>6, <2>7, <2>8, <2>9, Works DEF Local
<1>20. ASSUME Throws(c) PROVE RInv'
  <2>1. /\ up /\ up' /\ stand[c] \in {"build", "proceed", "seal", "gates", "judge", "decide"}
        /\ UNCHANGED <<files, gates, branch, stage>>
    BY <1>20, Actors, StandsAt DEF Throws
  <2>2. Scheduling' /\ stand' = [stand EXCEPT ![c] = "catch"]
    BY <1>a, <1>20, Actors, Labels, Joins DEF Throws, Waiting
  <2>3. run' = run
    BY <1>20 DEF Throws
  <2>4. Recorded'
    BY <1>a, <2>3 DEF Recorded, Shaped
  <2>5. Memory'
    BY <1>a, <1>20, BoundAssumption DEF Throws, Memory
  <2>6. Frame(c)
    BY <1>a, <1>0, <2>1, <2>2, <2>3, Actors, StandsAt DEF Frame, Recorded, Memory
  <2>7. Progress(c)'
    BY <1>a, <1>c, <2>1, <2>2, <2>3, <1>b DEF Progress, Recorded, Building, Sealing, Judging
  <2>8. Evidence(c)'
    BY <1>a, <1>c, <2>1, <2>2, <2>3, <1>b DEF Evidence, Progress, Recorded, Memory, Answering,
        Building, Sealing, Judging
  <2>9. Outcome(c)'
    BY <1>a, <1>0, <1>c, <2>1, <2>2, <2>3, <2>6, <1>b DEF Frame, Outcome, Progress, Recorded, Pre,
        Active, Building, Sealing, Judging
  <2>10. QED
    BY <1>0, <2>1, <2>2, <2>4, <2>5, <2>6, <2>7, <2>8, <2>9, Works DEF Local
<1>21. ASSUME Caught(c) PROVE RInv'
  <2>1. /\ up /\ up' /\ stand[c] = "catch"
        /\ UNCHANGED <<files, gates, branch, stage>>
    BY <1>21, Actors, StandsAt DEF Caught
  <2>2. Scheduling' /\ stand' = [stand EXCEPT ![c] = "done"]
    BY <1>a, <1>21, Actors, Labels, Leaves DEF Caught, Waiting
  <2>3. /\ Shaped'
        /\ run'.state \in {[run.state EXCEPT ![c] = x] : x \in {"failed", "cancelled"}}
        /\ UNCHANGED <<run.status, run.winner, run.exhausted, run.stopped, run.context,
                      run.checkpoint, run.review, run.used, run.seal, run.decision, run.checks>>
    BY <1>a, <1>21, Fields DEF Caught, Recorded, Shaped, Field
  <2>4. Recorded'
    BY <1>a, <2>3 DEF Recorded, ContenderState, Active
  <2>5. Memory'
    BY <1>a, <1>21, BoundAssumption DEF Caught, Memory
  <2>6. Frame(c)
    BY <1>a, <1>0, <2>1, <2>2, <2>3, Actors, StandsAt DEF Frame, Recorded, Memory
  <2>7. Progress(c)'
    BY <1>a, <1>c, <2>1, <2>2, <2>3, <1>b DEF Progress, Recorded, Building, Sealing, Judging
  <2>8. Evidence(c)'
    BY <1>a, <1>c, <2>1, <2>2, <2>3, <1>b DEF Evidence, Progress, Recorded, Memory, Answering,
        Building, Sealing, Judging
  <2>9. Outcome(c)'
    BY <1>a, <1>0, <1>c, <2>1, <2>2, <2>3, <2>6, <1>b DEF Frame, Outcome, Progress, Recorded, Pre,
        Active, Building, Sealing, Judging
  <2>10. QED
    BY <1>0, <2>1, <2>2, <2>4, <2>5, <2>6, <2>7, <2>8, <2>9, Works DEF Local
<1>22. ASSUME TaskEnforces(c) PROVE RInv'
  <2> DEFINE l == Enforced[pc[c]]
  <2>1. /\ up /\ up' /\ UNCHANGED <<run, files, gates, branch, stage>>
        /\ stand[c] = pc[c] /\ EnforceBudget(c, l) /\ pc[c] \notin Waiting \cup {"abort"}
        /\ \/ pc[c] = "reported" /\ l = "build"
           \/ pc[c] = "answered" /\ l = "return"
           \/ pc[c] = "finished" /\ l = "proceed"
           \/ pc[c] = "heard" /\ l = "parse"
           \/ pc[c] = "reviewed" /\ l = "next"
    <3>1. pc[c] \in {"reported", "answered", "finished", "heard", "reviewed"}
      BY <1>22 DEF TaskEnforces, Enforced
    <3>2. /\ Enforced["reported"] = "build" /\ Enforced["answered"] = "return"
          /\ Enforced["finished"] = "proceed" /\ Enforced["heard"] = "parse"
          /\ Enforced["reviewed"] = "next"
      BY DEF Enforced
    <3>3. QED
      BY <1>22, <1>b, <3>1, <3>2, StandsAt DEF TaskEnforces, local, Waiting
  <2> HIDE DEF l
  <2>2. Scheduling' /\ stand' = [stand EXCEPT ![c] = l]
    <3>1. l \in Return(c)
      BY <2>1 DEF Return
    <3>2. QED
      BY <1>a, <1>b, <2>1, <3>1, Enforces
  <2>4. Recorded'
    BY <1>a, <2>1 DEF Recorded, Shaped
  <2>5. Memory'
    BY <1>a, <1>22, BoundAssumption DEF TaskEnforces, EnforceBudget, local, Memory
  <2>6. Frame(c)
    BY <1>a, <1>0, <2>1, <2>2, Actors, StandsAt DEF Frame
  <2>7. Progress(c)'
    BY <1>c, <2>1, <2>2, <1>b DEF Progress, Building, Sealing, Judging
  <2>8. Evidence(c)'
    BY <1>c, <2>1, <2>2, <1>b DEF Evidence, Answering
  <2>9. Outcome(c)'
    BY <1>0, <1>c, <2>1, <2>2, <2>6, <1>b DEF Frame, Outcome, Pre
  <2>10. QED
    BY <1>0, <2>1, <2>2, <2>4, <2>5, <2>6, <2>7, <2>8, <2>9, Works DEF Local
<1>23. ASSUME Seals(c) PROVE RInv'
  <2>1. /\ up /\ up' /\ stand[c] = "seal"
        /\ UNCHANGED <<run, gates, branch, stage>>
        /\ \/ Sealed(c) /\ UNCHANGED files
           \/ ~Sealed(c) /\ files' = [files EXCEPT ![c] = tree[c]]
    BY <1>23, <1>b, StandsAt DEF Seals, Capture
  <2>2. /\ Scheduling'
        /\ \/ Sealed(c) /\ stand' = [stand EXCEPT ![c] = "gates"]
           \/ ~Sealed(c) /\ stand' = [stand EXCEPT ![c] = "sealed"]
    BY <1>a, <1>23, Actors, Labels, Goes, Joins DEF Seals, Waiting
  <2>4. Recorded'
    BY <1>a, <2>1 DEF Recorded, Shaped
  <2>5. Memory'
    BY <1>a, <1>23, <2>1 DEF Seals, Memory
  <2>6. Frame(c)
    BY <1>a, <1>0, <2>1, <2>2, Actors, StandsAt DEF Frame, Memory
  <2>7. Progress(c)'
    BY <1>c, <2>1, <2>2, <1>b DEF Progress, Building, Sealing, Judging
  <2>8. Evidence(c)'
    BY <1>c, <2>1, <2>2, <1>b DEF Evidence, Answering
  <2>9. Outcome(c)'
    BY <1>0, <1>c, <2>1, <2>2, <2>6, <1>b DEF Frame, Outcome, Pre
  <2>10. QED
    BY <1>0, <2>1, <2>2, <2>4, <2>5, <2>6, <2>7, <2>8, <2>9, Works DEF Local
<1>24. ASSUME JudgeEnds(c) PROVE RInv'
  <2>1. /\ up /\ up' /\ stand[c] = "judge"
        /\ UNCHANGED <<run, files, branch>>
        /\ stage' = [stage EXCEPT ![c] = "logic"]
    BY <1>24, <1>b, StandsAt DEF JudgeEnds
  <2>a. PICK outcome \in GateOutcome : /\ gates' = [gates EXCEPT ![c] = outcome]
                                       /\ outcome = "cut" => branch[c] # "none"
    BY <1>24 DEF JudgeEnds, GateOutcome
  <2>2. Scheduling' /\ stand' \in {[stand EXCEPT ![c] = l] : l \in {"reviewing", "skip"}}
    BY <1>a, <1>24, Actors, Labels, Joins DEF JudgeEnds, Waiting
  <2>4. Recorded'
    BY <1>a, <2>1 DEF Recorded, Shaped
  <2>5. Memory'
    <3>1. tree' \in [Contender -> Nat]
      <4>1. tree' = tree \/ tree' = [tree EXCEPT ![c] = tree[c] + 1]
        BY <1>24 DEF JudgeEnds
      <4>2. QED
        BY <1>a, <4>1 DEF Memory
    <3>2. stage' \in [Contender -> Stage]
      BY <1>a, <2>1 DEF Memory, Stage
    <3>3. QED
      BY <1>a, <1>24, <2>1, <2>a, <3>1, <3>2 DEF JudgeEnds, Memory
  <2>6. Frame(c)
    BY <1>a, <1>0, <2>1, <2>a, <2>2, Actors, StandsAt DEF Frame, Memory
  <2>7. Progress(c)'
    BY <1>c, <2>1, <2>2, <1>b DEF Progress, Building, Sealing, Judging
  <2>8. Evidence(c)'
    BY <1>a, <1>c, <2>1, <2>a, <2>2, <1>b DEF Evidence, Memory, Answering
  <2>9. Outcome(c)'
    BY <1>0, <1>c, <2>1, <2>2, <2>6, <1>b DEF Frame, Outcome, Pre
  <2>10. QED
    BY <1>0, <2>1, <2>2, <2>4, <2>5, <2>6, <2>7, <2>8, <2>9, Works DEF Local
<1>25. ASSUME ReviewCloses(c) PROVE RInv'
  <2>1. /\ up /\ up' /\ stand[c] \in {"approve", "reject", "broken"}
        /\ UNCHANGED <<files, gates, branch, stage>>
    BY <1>25, <1>b, StandsAt DEF ReviewCloses
  <2>2. Scheduling' /\ stand' \in {[stand EXCEPT ![c] = l] : l \in {"reviewed", "next"}}
    BY <1>a, <1>25, Actors, Labels, Leaves DEF ReviewCloses, Waiting
  <2>a. PICK status \in {"approved", "rejected", "failed", "cancelled"} :
          /\ run' = WithReview(c, status)
          /\ status = "approved" => stand[c] = "approve"
    BY <1>25, <1>b, StandsAt DEF ReviewCloses
  <2>b. stage[c] \in Stage
    BY <1>a DEF Memory
  <2>3. /\ Shaped'
        /\ run'.review = [run.review EXCEPT ![c][stage[c]].status = status]
        /\ UNCHANGED <<run.status, run.winner, run.exhausted, run.stopped, run.context,
                       run.checkpoint, run.state, run.used, run.seal, run.decision, run.checks>>
    BY <1>a, <2>a, Fields DEF WithReview, Recorded, Shaped, Field
  <2>d. /\ \A d \in Contender \ {c} : run'.review[d] = run.review[d]
        /\ \A s \in Stage \ {stage[c]} : run'.review[c][s] = run.review[c][s]
        /\ run'.review[c][stage[c]] = [run.review[c][stage[c]] EXCEPT !.status = status]
        /\ run'.review[c][stage[c]].status = status
        /\ run'.review[c][stage[c]].of = run.review[c][stage[c]].of
    BY <1>a, <2>b, <2>3 DEF Recorded
  <2>4. Recorded'
    <3>1. ASSUME NEW r \in [status : ReviewStatus, of : Nat]
          PROVE  [r EXCEPT !.status = status] \in [status : ReviewStatus, of : Nat]
      BY DEF ReviewStatus
    <3>2. run.review[c] \in [Stage -> [status : ReviewStatus, of : Nat]]
      BY <1>a DEF Recorded
    <3>3. [run.review[c] EXCEPT ![stage[c]].status = status]
            \in [Stage -> [status : ReviewStatus, of : Nat]]
      BY <2>b, <3>1, <3>2
    <3>4. run'.review \in [Contender -> [Stage -> [status : ReviewStatus, of : Nat]]]
      BY <1>a, <2>3, <3>3 DEF Recorded
    <3>5. QED
      BY <1>a, <2>3, <3>4 DEF Recorded
  <2>5. Memory'
    BY <1>a, <1>25 DEF ReviewCloses, Memory
  <2>6. Frame(c)
    BY <1>0, <2>1, <2>2, <2>3, <2>d, Actors, StandsAt DEF Frame
  <2>7. Progress(c)'
    BY <1>c, <2>1, <2>2, <2>3, <1>b DEF Progress, Building, Sealing, Judging
  <2>8. Evidence(c)'
    <3>1. Sealed(c) /\ run.decision[c] # "approved"
      BY <1>c, <2>1 DEF Progress, Judging
    <3>2. stand[c] = "approve" => run.review[c][stage[c]].of = run.seal[c]
      BY <1>c DEF Evidence, Answering
    <3>3. \A s \in Stage : run'.review[c][s].status = "approved" => run'.review[c][s].of = run.seal[c]
      BY <1>c, <2>a, <2>b, <2>d, <3>2 DEF Evidence
    <3>4. stand'[c] \in {"reviewed", "next"}
      BY <1>b, <2>2
    <3>5. QED
      BY <1>c, <2>1, <2>3, <3>1, <3>3, <3>4 DEF Evidence, Answering
  <2>9. Outcome(c)'
    BY <1>0, <1>c, <2>1, <2>2, <2>3, <2>6, <1>b DEF Frame, Outcome, Pre
  <2>10. QED
    BY <1>0, <2>1, <2>2, <2>4, <2>5, <2>6, <2>7, <2>8, <2>9, Works DEF Local
<1>26. ASSUME ReviewNext(c) PROVE RInv'
  <2>1. /\ up /\ up' /\ stand[c] = "next"
        /\ UNCHANGED <<run, files, gates, branch>>
        /\ stage' \in {stage, [stage EXCEPT ![c] = "security"]}
    BY <1>26, <1>b, StandsAt DEF ReviewNext
  <2>2. Scheduling' /\ stand' \in {[stand EXCEPT ![c] = l] : l \in {"decide", "review", "skip"}}
    BY <1>a, <1>26, Actors, Labels, Goes, Joins DEF ReviewNext, Waiting
  <2>4. Recorded'
    BY <1>a, <2>1 DEF Recorded, Shaped
  <2>5. Memory'
    <3>1. stage' \in [Contender -> Stage]
      BY <1>a, <2>1 DEF Memory, Stage
    <3>2. QED
      BY <1>a, <1>26, <2>1, <3>1 DEF ReviewNext, Memory
  <2>6. Frame(c)
    BY <1>a, <1>0, <2>1, <2>2, Actors, StandsAt DEF Frame, Memory
  <2>7. Progress(c)'
    BY <1>c, <2>1, <2>2, <1>b DEF Progress, Building, Sealing, Judging
  <2>8. Evidence(c)'
    BY <1>c, <2>1, <2>2, <1>b DEF Evidence, Answering
  <2>9. Outcome(c)'
    BY <1>0, <1>c, <2>1, <2>2, <2>6, <1>b DEF Frame, Outcome, Pre
  <2>10. QED
    BY <1>0, <2>1, <2>2, <2>4, <2>5, <2>6, <2>7, <2>8, <2>9, Works DEF Local
<1>27. ASSUME Decides(c) PROVE RInv'
  <2>1. /\ up /\ up' /\ stand[c] = "decide"
        /\ UNCHANGED <<run, files, gates, branch, stage>>
        /\ Decision(c) = "approved" => branch[c] = "none"
    BY <1>27, <1>b, StandsAt DEF Decides, Stable
  <2>2. Scheduling' /\ stand' = [stand EXCEPT ![c] = "decided"]
    BY <1>a, <1>27, Actors, Labels, Joins DEF Decides, Waiting
  <2>4. Recorded'
    BY <1>a, <2>1 DEF Recorded, Shaped
  <2>5. Memory'
    BY <1>a, <1>27 DEF Decides, Memory
  <2>6. Frame(c)
    BY <1>0, <2>1, <2>2, Actors, StandsAt DEF Frame
  <2>7. Progress(c)'
    BY <1>c, <2>1, <2>2, <1>b DEF Progress, Building, Sealing, Judging
  <2>8. Evidence(c)'
    <3>1. gates[c] = "cut" => \E s \in Stage : run.review[c][s].status # "approved"
      BY <1>a, <1>c, <2>1, DecisionIs DEF Evidence
    <3>2. QED
      BY <1>c, <2>1, <2>2, <3>1, <1>b DEF Evidence, Answering
  <2>9. Outcome(c)'
    BY <1>0, <1>c, <2>1, <2>2, <2>6, <1>b DEF Frame, Outcome, Pre
  <2>10. QED
    BY <1>0, <2>1, <2>2, <2>4, <2>5, <2>6, <2>7, <2>8, <2>9, Works DEF Local
<1>28. ASSUME DecisionRecorded(c) PROVE RInv'
  <2> DEFINE state == CASE Decision(c) = "approved"    -> "passed"
                        [] Decision(c) = "unavailable" -> "evaluation-unavailable"
                        [] OTHER                       -> "rejected"
  <2>1. /\ up /\ up' /\ stand[c] = "decided"
        /\ UNCHANGED <<files, gates, branch, stage>>
    BY <1>28, <1>b, StandsAt DEF DecisionRecorded
  <2>2. Scheduling' /\ stand' = [stand EXCEPT ![c] = "early"]
    BY <1>a, <1>28, Actors, Labels, Leaves DEF DecisionRecorded, Waiting
  <2>3. /\ Shaped'
        /\ run'.checkpoint = [run.checkpoint EXCEPT ![c] = 4]
        /\ run'.state = [run.state EXCEPT ![c] = state]
        /\ run'.decision = [run.decision EXCEPT ![c] = Decision(c)]
        /\ run'.checks = [run.checks EXCEPT ![c] = gates[c]]
        /\ UNCHANGED <<run.status, run.winner, run.exhausted, run.stopped, run.context,
                       run.review, run.used, run.seal>>
    BY <1>a, <1>28, Fields DEF DecisionRecorded, Recorded, Shaped, Field
  <2>a. state \in {"passed", "rejected", "evaluation-unavailable"}
    OBVIOUS
  <2> HIDE DEF state
  <2>4. Recorded'
    <3>1. run'.checkpoint \in [Contender -> 0..4] /\ run'.state \in [Contender -> ContenderState]
      BY <1>a, <2>3, <2>a DEF Recorded, ContenderState
    <3>2. Decision(c) \in {"approved", "rejected", "unavailable"} /\ gates[c] \in GateOutcome
      BY <1>a, DecisionIs DEF Memory
    <3>3. run'.decision \in [Contender -> {"none", "approved", "rejected", "unavailable"}]
      BY <1>a, <2>3, <3>2 DEF Recorded
    <3>4. run'.checks \in [Contender -> GateOutcome]
      BY <1>a, <2>3, <3>2 DEF Recorded
    <3>5. QED
      BY <1>a, <2>3, <3>1, <3>3, <3>4 DEF Recorded
  <2>5. Memory'
    BY <1>a, <1>28 DEF DecisionRecorded, Memory
  <2>6. Frame(c)
    BY <1>a, <1>0, <2>1, <2>2, <2>3, Actors, StandsAt DEF Frame, Recorded
  <2>b. /\ stand'[c] = "early" /\ run'.checkpoint[c] = 4 /\ run'.decision[c] = Decision(c)
        /\ run'.checks[c] = gates[c] /\ run'.state[c] \notin Active
    BY <1>a, <1>b, <2>2, <2>3, <2>a DEF Recorded, Active
  <2>7. Progress(c)'
    BY <2>b DEF Progress, Building, Sealing, Judging
  <2>8. Evidence(c)'
    <3>1. Decision(c) = "approved" =>
            gates[c] = "passed" /\ \A s \in Stage : run.review[c][s].status = "approved"
      BY <1>a, <1>c, <2>1, DecisionIs DEF Evidence
    <3>2. Sealed(c)
      BY <1>c, <2>1 DEF Progress, Judging
    <3>3. QED
      BY <1>c, <2>1, <2>3, <2>b, <3>1, <3>2 DEF Evidence, Answering
  <2>9. Outcome(c)'
    <3>1. c \notin run.winner
      BY <1>c, <2>1 DEF Outcome, Progress, Judging
    <3>2. QED
      BY <1>0, <2>1, <2>3, <2>6, <2>b, <3>1 DEF Frame, Outcome, Pre
  <2>10. QED
    BY <1>0, <2>1, <2>2, <2>4, <2>5, <2>6, <2>7, <2>8, <2>9, Works DEF Local
<1>29. ASSUME StopsEarly(c) PROVE RInv'
  <2>1. /\ up /\ up' /\ stand[c] = "early"
        /\ UNCHANGED <<run, files, gates, branch, stage>>
    BY <1>29, <1>b, StandsAt DEF StopsEarly
  <2>2. Scheduling' /\ stand' \in {[stand EXCEPT ![c] = l] : l \in {"stop", "done"}}
    BY <1>a, <1>29, Actors, Labels, Goes, Joins DEF StopsEarly, Waiting
  <2>4. Recorded'
    BY <1>a, <2>1 DEF Recorded, Shaped
  <2>5. Memory'
    <3>1. targets' \in [Contender -> SUBSET Contender]
      BY <1>a, <1>29 DEF StopsEarly, Unfinished, Memory
    <3>2. QED
      BY <1>a, <1>29, <3>1 DEF StopsEarly, Memory
  <2>6. Frame(c)
    BY <1>0, <2>1, <2>2, Actors, StandsAt DEF Frame
  <2>7. Progress(c)'
    BY <1>c, <2>1, <2>2, <1>b DEF Progress, Building, Sealing, Judging
  <2>8. Evidence(c)'
    BY <1>c, <2>1, <2>2, <1>b DEF Evidence, Answering
  <2>9. Outcome(c)'
    BY <1>0, <1>c, <2>1, <2>2, <2>6, <1>b DEF Frame, Outcome, Progress, Pre
  <2>10. QED
    BY <1>0, <2>1, <2>2, <2>4, <2>5, <2>6, <2>7, <2>8, <2>9, Works DEF Local
<1>30. ASSUME EarlyStopAborts(c) PROVE RInv'
  <2>1. /\ up /\ up' /\ stand[c] = "stopped"
        /\ UNCHANGED <<run, files, gates, stage>>
        /\ branch' \in [Contender -> Reason \cup {"early"}]
        /\ \A d \in Contender : branch[d] # "none" => branch'[d] # "none"
    BY <1>a, <1>30, <1>b, StandsAt DEF EarlyStopAborts, Memory
  <2>2. Scheduling' /\ stand' = [stand EXCEPT ![c] = "done"]
    BY <1>a, <1>30, Actors, Labels, Goes DEF EarlyStopAborts, Waiting
  <2>4. Recorded'
    BY <1>a, <2>1 DEF Recorded, Shaped
  <2>5. Memory'
    <3>1. targets' \in [Contender -> SUBSET Contender]
      BY <1>a, <1>30 DEF EarlyStopAborts, Memory
    <3>2. QED
      BY <1>a, <1>30, <2>1, <3>1 DEF EarlyStopAborts, Memory
  <2>6. Frame(c)
    BY <1>0, <2>1, <2>2, Actors, StandsAt DEF Frame
  <2>7. Progress(c)'
    BY <1>c, <2>1, <2>2, <1>b DEF Progress, Building, Sealing, Judging
  <2>8. Evidence(c)'
    BY <1>c, <2>1, <2>2, <1>b DEF Evidence, Answering
  <2>9. Outcome(c)'
    BY <1>0, <1>c, <2>1, <2>2, <2>6, <1>b DEF Frame, Outcome, Progress, Pre
  <2>10. QED
    BY <1>0, <2>1, <2>2, <2>4, <2>5, <2>6, <2>7, <2>8, <2>9, Works DEF Local
<1>31. QED
  BY <1>1, <1>2, <1>3, <1>4, <1>5, <1>6, <1>7, <1>8, <1>9, <1>10, <1>11, <1>12, <1>13, <1>14, <1>15,
     <1>16, <1>17, <1>18, <1>19, <1>20, <1>21, <1>22, <1>23, <1>24, <1>25, <1>26, <1>27, <1>28,
     <1>29, <1>30 DEF Task, Child
-----------------------------------------------------------------------------
(* What a step of anybody else leaves of a contender's progress and evidence:
   its task goes on where it stood, or a crash ends it *)
Kept(c) ==
  /\ run.checkpoint[c] < BuilderComplete => run'.checkpoint[c] < BuilderComplete
  /\ Sealed(c)' <=> Sealed(c)
  /\ Decided(c)' <=> Decided(c)
  /\ run'.seal[c] = run.seal[c] /\ run'.decision[c] = run.decision[c]
  /\ run'.checks[c] = run.checks[c] /\ files'[c] = files[c]
  /\ \A s \in Stage :
       /\ run'.review[c][s].of = run.review[c][s].of
       /\ run'.review[c][s].status = "approved" <=> run.review[c][s].status = "approved"
  /\ \/ /\ stand'[c] = stand[c] /\ gates'[c] = gates[c] /\ stage'[c] = stage[c]
        /\ branch[c] # "none" => branch'[c] # "none"
     \/ stand'[c] = "idle" /\ gates'[c] = "none"

LEMMA Stays ==
  ASSUME RInv, Recorded', Memory', Scheduling', Positions', Phases',
         \A c \in Contender : Kept(c) /\ Outcome(c)'
  PROVE  RInv'
<1>1. ASSUME NEW c \in Contender
      PROVE  Progress(c)' /\ Evidence(c)'
  <2>1. Progress(c) /\ Evidence(c) /\ Kept(c)
    BY DEF RInv, Local
  <2>2. stage[c] \in Stage
    BY DEF RInv, Memory
  <2>3. Progress(c)'
    BY <2>1 DEF Progress, Kept, Building, Sealing, Judging
  <2>4. Evidence(c)'
    BY <2>1, <2>2 DEF Evidence, Kept, Answering
  <2>5. QED
    BY <2>3, <2>4
<1>2. QED
  BY <1>1 DEF RInv, Local

(* The main task goes on and the record stays *)
LEMMA MainGoes ==
  ASSUME RInv, up', run' = run, UNCHANGED <<files, gates, branch, stage>>,
         Memory', Scheduling', Positions',
         \A c \in Contender : stand'[c] = stand[c],
         stand'["main"] \in {"contender", "worktree", "ready"} => ~Skipped(Order[at])',
         \/ stand["main"] \in Pre /\ stand'["main"] \in Pre
         \/ /\ stand'["main"] \in Ends
            /\ \A c \in Contender : stand[c] \in {"idle", "done"}
            /\ stand'["main"] \in {"winner", "noWinner"} => \A c \in Contender : Over(c)
            /\ run.status = "completed" => stand'["main"] \in {"over", "off"}
  PROVE  RInv'
<1> USE DEF Decided, Sealed, Over, Skipped
<1>1. Recorded'
  BY DEF RInv, Recorded, Shaped
<1>2. \A c \in Contender : Kept(c)
  BY DEF Kept
<1>3. Phases'
  BY DEF RInv, Phases, Pre, Ends
<1>4. ASSUME NEW c \in Contender
      PROVE  Outcome(c)'
  <2>1. Outcome(c)
    BY DEF RInv, Local
  <2>2. stand["main"] \in {"over", "off"} \/ run.status # "completed"
    BY DEF RInv, Phases
  <2>3. QED
    BY <2>1, <2>2 DEF Outcome, Pre, Ends
<1>5. QED
  BY <1>1, <1>2, <1>3, <1>4, Stays

LEMMA Catches ==
  ASSUME Scheduling, pc["main"] \notin Waiting \cup {"abort"}, MainCatches, UNCHANGED ret
  PROVE  /\ Scheduling'
         /\ \E l \in {"fail", "budgetOut", "cancelOut", "over"} : stand' = [stand EXCEPT !["main"] = l]
<1>1. "main" \in Actor /\ {"fail", "budgetOut", "cancelOut", "over"} \subseteq PcOf("main") \ {"budget", "abort"}
  BY Actors, Labels DEF MainPc
<1>2. CASE Await("main", "fail")
  BY <1>1, <1>2, Joins DEF Waiting
<1>3. CASE Await("main", "budgetOut")
  BY <1>1, <1>3, Joins DEF Waiting
<1>4. CASE Await("main", "cancelOut")
  BY <1>1, <1>4, Joins DEF Waiting
<1>5. CASE Resume("main", "over")
  BY <1>1, <1>5, Goes DEF Waiting
<1>6. QED
  BY <1>2, <1>3, <1>4, <1>5 DEF MainCatches, Finish
(* The steps of the main task that leave the record alone *)
LEMMA MainWalks ==
  ASSUME RInv,
         MainBegins \/ MainChecks \/ MainContext \/ MainLoops \/ MainWorktree \/ MainJoins \/ MainOver
  PROVE  RInv'
<1> USE DEF Turn, MainOnly, disk, control
<1>a. Recorded /\ Memory /\ Scheduling
  BY DEF RInv
<1>b. /\ "main" \in Actor /\ DOMAIN stand = Actor
      /\ \A c \in Contender : c \in Actor /\ c # "main" /\ c # "deadline"
  BY Actors, StandsAt
<1>c. /\ stand["main"] \in Pre => \A c \in Contender : stand[c] = "idle"
      /\ run.status = "completed" => stand["main"] \in {"over", "off"}
  BY DEF RInv, Phases
<1>1. ASSUME MainBegins PROVE RInv'
  <2>1. /\ up' /\ run' = run /\ UNCHANGED <<files, gates, branch, stage>>
        /\ stand["main"] = "begin" /\ pc["main"] = "begin" /\ EnforceBudget("main", "context")
    BY <1>1, <1>b, StandsAt DEF MainBegins, local
  <2>2. Scheduling' /\ stand' = [stand EXCEPT !["main"] = "context"]
    BY <1>a, <1>b, <2>1, Enforces, Actors DEF Return, Waiting
  <2>3. Memory'
    BY <1>a, <1>1 DEF MainBegins, EnforceBudget, local, Memory
  <2>4. stand'["main"] = "context" /\ \A c \in Contender : stand'[c] = stand[c]
    BY <1>b, <2>2
  <2>5. QED
    BY <2>1, <2>2, <2>3, <2>4, MainGoes DEF Positions, Pre
<1>2. ASSUME MainChecks PROVE RInv'
  <2>1. /\ up' /\ run' = run /\ UNCHANGED <<files, gates, branch, stage, ret>>
        /\ stand["main"] = "context" /\ pc["main"] = "context"
    BY <1>2, <1>b, StandsAt DEF MainChecks
  <2>2. /\ Scheduling'
        /\ \E l \in {"shared", "fail", "budgetOut", "cancelOut", "over"} :
             stand' = [stand EXCEPT !["main"] = l]
    <3>1. CASE MainCatches
      BY <1>a, <2>1, <3>1, Catches DEF Waiting
    <3>2. CASE Resume("main", "shared")
      BY <1>a, <1>b, <2>1, <3>2, Goes, Labels DEF Waiting, MainPc
    <3>3. QED
      BY <1>2, <3>1, <3>2 DEF MainChecks
  <2>3. Memory'
    BY <1>a, <1>2 DEF MainChecks, Memory
  <2>4. /\ stand'["main"] \in {"shared", "fail", "budgetOut", "cancelOut", "over"}
        /\ \A c \in Contender : stand'[c] = stand[c]
    BY <1>b, <2>2
  <2>5. QED
    BY <1>c, <2>1, <2>2, <2>3, <2>4, MainGoes DEF Positions, Pre, Ends
<1>3. ASSUME MainContext PROVE RInv'
  <2>1. /\ up' /\ run' = run /\ UNCHANGED <<files, gates, branch, stage, ret>>
        /\ stand["main"] = "shared" /\ pc["main"] = "shared"
    BY <1>3, <1>b, StandsAt DEF MainContext
  <2>2. /\ Scheduling'
        /\ \E l \in {"context!", "prepare", "fail", "budgetOut", "cancelOut", "over"} :
             stand' = [stand EXCEPT !["main"] = l]
    <3>1. CASE MainCatches
      BY <1>a, <2>1, <3>1, Catches DEF Waiting
    <3>2. CASE Await("main", "context!")
      BY <1>a, <1>b, <2>1, <3>2, Joins, Labels DEF Waiting, MainPc
    <3>3. CASE Await("main", "prepare")
      BY <1>a, <1>b, <2>1, <3>3, Joins, Labels DEF Waiting, MainPc
    <3>4. QED
      BY <1>3, <3>1, <3>2, <3>3 DEF MainContext
  <2>3. Memory'
    BY <1>a, <1>3 DEF MainContext, Memory
  <2>4. /\ stand'["main"] \in {"context!", "prepare", "fail", "budgetOut", "cancelOut", "over"}
        /\ \A c \in Contender : stand'[c] = stand[c]
    BY <1>b, <2>2
  <2>5. QED
    BY <1>c, <2>1, <2>2, <2>3, <2>4, MainGoes DEF Positions, Pre, Ends
<1>4. ASSUME MainLoops PROVE RInv'
  <2>1. /\ up' /\ run' = run /\ UNCHANGED <<files, gates, branch, stage, ret>>
        /\ stand["main"] = "loop" /\ pc["main"] = "loop"
    BY <1>4, <1>b, StandsAt DEF MainLoops
  <2>a. at \in 1..Len(Order) + 1 /\ Len(Order) \in Nat /\ DOMAIN Order = 1..Len(Order)
    BY <1>a, OrderAssumption, LenProperties DEF Memory
  <2>2. /\ Scheduling'
        /\ \/ \E l \in {"start", "loop", "fail", "budgetOut", "cancelOut", "over"} :
                stand' = [stand EXCEPT !["main"] = l]
           \/ /\ stand' = [stand EXCEPT !["main"] = "contender"]
              /\ at' = at /\ at \in DOMAIN Order /\ ~Skipped(Order[at])
    <3>1. CASE at > Len(Order)
      <4>1. Await("main", "start")
        BY <1>4, <3>1 DEF MainLoops
      <4>2. QED
        BY <1>a, <1>b, <2>1, <4>1, Joins, Labels DEF Waiting, MainPc
    <3>2. CASE ~(at > Len(Order)) /\ Skipped(Order[at])
      <4>1. Resume("main", "loop")
        BY <1>4, <3>2 DEF MainLoops
      <4>2. QED
        BY <1>a, <1>b, <2>1, <4>1, Goes, Labels DEF Waiting, MainPc
    <3>3. CASE ~(at > Len(Order)) /\ ~Skipped(Order[at]) /\ root # "none"
      <4>1. MainCatches
        BY <1>4, <3>3 DEF MainLoops
      <4>2. QED
        BY <1>a, <2>1, <4>1, Catches DEF Waiting
    <3>4. CASE ~(at > Len(Order)) /\ ~Skipped(Order[at]) /\ root = "none"
      <4>1. Await("main", "contender") /\ at' = at
        BY <1>4, <3>4 DEF MainLoops
      <4>2. at \in DOMAIN Order
        BY <2>a, <3>4
      <4>3. QED
        BY <1>a, <1>b, <2>1, <3>4, <4>1, <4>2, Joins, Labels DEF Waiting, MainPc
    <3>5. QED
      BY <3>1, <3>2, <3>3, <3>4
  <2>3. at' \in 1..Len(Order) + 1
    BY <1>4, <2>a DEF MainLoops
  <2>4. Memory'
    BY <1>a, <1>4, <2>3 DEF MainLoops, Memory
  <2>5. /\ stand'["main"] \in {"start", "loop", "contender", "fail", "budgetOut", "cancelOut", "over"}
        /\ \A c \in Contender : stand'[c] = stand[c]
    BY <1>b, <2>2
  <2>6. stand'["main"] = "contender" => at \in DOMAIN Order /\ at' = at /\ ~Skipped(Order[at])
    BY <1>b, <2>2
  <2>7. Positions'
    BY <2>5, <2>6 DEF Positions
  <2>8. stand'["main"] \in {"contender", "worktree", "ready"} => ~Skipped(Order[at])'
    BY <2>1, <2>5, <2>6 DEF Skipped, Decided
  <2>9. QED
    BY <1>c, <2>1, <2>2, <2>4, <2>5, <2>7, <2>8, MainGoes DEF Pre, Ends
<1>5. ASSUME MainWorktree PROVE RInv'
  <2>1. /\ up' /\ run' = run /\ UNCHANGED <<files, gates, branch, stage, ret, at>>
        /\ stand["main"] = "worktree" /\ pc["main"] = "worktree"
    BY <1>5, <1>b, StandsAt DEF MainWorktree
  <2>2. /\ Scheduling'
        /\ \E l \in {"ready", "fail", "budgetOut", "cancelOut", "over"} :
             stand' = [stand EXCEPT !["main"] = l]
    <3>1. CASE MainCatches
      BY <1>a, <2>1, <3>1, Catches DEF Waiting
    <3>2. CASE Await("main", "ready")
      BY <1>a, <1>b, <2>1, <3>2, Joins, Labels DEF Waiting, MainPc
    <3>3. QED
      BY <1>5, <3>1, <3>2 DEF MainWorktree
  <2>3. Memory'
    BY <1>a, <1>5 DEF MainWorktree, Memory
  <2>4. /\ stand'["main"] \in {"ready", "fail", "budgetOut", "cancelOut", "over"}
        /\ \A c \in Contender : stand'[c] = stand[c]
    BY <1>b, <2>2
  <2>5. at \in DOMAIN Order /\ ~Skipped(Order[at])
    BY <2>1 DEF RInv, Positions, Phases
  <2>6. Positions' /\ ~Skipped(Order[at])'
    BY <2>1, <2>5 DEF Positions, Skipped, Decided
  <2>7. QED
    BY <1>c, <2>1, <2>2, <2>3, <2>4, <2>6, MainGoes DEF Pre, Ends
<1>6. ASSUME MainJoins PROVE RInv'
  <2>1. /\ up' /\ run' = run /\ UNCHANGED <<files, gates, branch, stage, ret>>
        /\ stand["main"] = "join" /\ pc["main"] = "join"
        /\ \A c \in Contender : stand[c] \in {"idle", "done"}
    BY <1>6, <1>b, StandsAt DEF MainJoins
  <2>2. /\ Scheduling'
        /\ \E l \in {"noWinner", "winner", "fail", "budgetOut", "cancelOut", "over"} :
             stand' = [stand EXCEPT !["main"] = l]
    <3>1. CASE Finish /\ root # "none"
      BY <1>a, <2>1, <3>1, Catches DEF MainCatches, Waiting
    <3>2. CASE Await("main", "noWinner")
      BY <1>a, <1>b, <2>1, <3>2, Joins, Labels DEF Waiting, MainPc
    <3>3. CASE Await("main", "winner")
      BY <1>a, <1>b, <2>1, <3>3, Joins, Labels DEF Waiting, MainPc
    <3>4. QED
      BY <1>6, <3>1, <3>2, <3>3 DEF MainJoins
  <2>3. Memory'
    BY <1>a, <1>6 DEF MainJoins, Memory
  <2>4. /\ stand'["main"] \in Ends /\ stand'["main"] # "off"
        /\ \A c \in Contender : stand'[c] = stand[c]
    BY <1>b, <2>2 DEF Ends
  <2>5. \A c \in Contender : Over(c)
    BY <2>1 DEF RInv, Local, Outcome
  <2>6. QED
    BY <1>c, <2>1, <2>2, <2>3, <2>4, <2>5, MainGoes DEF Positions, Pre, Ends
<1>7. ASSUME MainOver PROVE RInv'
  <2>1. /\ up' /\ run' = run /\ UNCHANGED <<files, gates, branch, stage, ret, tail>>
        /\ stand["main"] = "over" /\ pc["main"] = "over"
    BY <1>7, <1>b, StandsAt DEF MainOver
  <2>2. /\ DOMAIN pc' = Actor /\ pc'["main"] = "off"
        /\ \A a \in Actor \ {"main"} :
             pc'[a] = pc[a] \/ (a = "deadline" /\ pc[a] = "armed" /\ pc'[a] = "off")
    <3>1. pc' = [[pc EXCEPT !["main"] = "off"]
                   EXCEPT !["deadline"] = IF pc["deadline"] = "armed" THEN "off" ELSE pc["deadline"]]
      BY <1>a, <1>7, Actors DEF MainOver, Scheduling
    <3>2. QED
      BY <1>a, <3>1, Actors DEF Scheduling
  <2>3. Scheduling'
    <3>1. \A a \in Actor : pc'[a] \in PcOf(a)
      BY <1>a, <2>2, Labels DEF Scheduling, MainPc
    <3>2. \A i \in DOMAIN tail' : pc'[tail'[i]] \in Waiting
      <4>1. \A i \in DOMAIN tail : tail[i] \in Actor /\ pc[tail[i]] \in Waiting
        BY <1>a DEF Scheduling
      <4>2. \A i \in DOMAIN tail : tail[i] # "main" /\ pc[tail[i]] # "armed"
        BY <2>1, <4>1 DEF Waiting
      <4>3. QED
        BY <2>1, <2>2, <4>1, <4>2
    <3>3. \A a \in Actor : pc'[a] \in {"budget", "abort"} => ret'[a] \in Return(a)
      BY <1>a, <2>1, <2>2 DEF Scheduling
    <3>4. QED
      BY <1>a, <2>1, <2>2, <3>1, <3>2, <3>3 DEF Scheduling
  <2>4. stand'["main"] = "off" /\ \A c \in Contender : stand'[c] = stand[c]
    BY <1>b, <2>1, <2>2 DEF stand
  <2>5. Memory'
    BY <1>a, <1>7 DEF MainOver, Memory
  <2>6. \A c \in Contender : stand[c] \in {"idle", "done"}
    BY <2>1 DEF RInv, Phases, Ends
  <2>7. QED
    BY <1>c, <2>1, <2>3, <2>4, <2>5, <2>6, MainGoes DEF Positions, Pre, Ends
<1>8. QED
  BY <1>1, <1>2, <1>3, <1>4, <1>5, <1>6, <1>7
-----------------------------------------------------------------------------
(* What the end of a run writes *)
LEMMA SweptIs ==
  ASSUME Recorded, NEW status \in Finished, NEW mark \in {"failed", "cancelled"},
         NEW r, r = Swept(status, mark)
  PROVE  /\ r = [f \in Field |-> r[f]] /\ DOMAIN r = Field
         /\ r.status = status
         /\ r.state \in [Contender -> ContenderState] /\ \A c \in Contender : r.state[c] \notin Active
         /\ \A f \in Field \ {"status", "state"} : r[f] = run[f]
<1>1. DOMAIN run = Field /\ run.state \in [Contender -> ContenderState]
  BY Fields DEF Recorded
<1>2. r = [run EXCEPT !.status = status,
                      !.state = [c \in Contender |-> IF run.state[c] \in Active THEN mark ELSE run.state[c]]]
  BY <1>1 DEF Swept, Field
<1>3. /\ DOMAIN r = Field /\ r = [f \in Field |-> r[f]] /\ r.status = status
      /\ r.state = [c \in Contender |-> IF run.state[c] \in Active THEN mark ELSE run.state[c]]
      /\ \A f \in Field \ {"status", "state"} : r[f] = run[f]
  BY <1>1, <1>2 DEF Field
<1>4. mark \notin Active /\ mark \in ContenderState
  BY DEF Active, ContenderState
<1>5. QED
  BY <1>1, <1>3, <1>4

LEMMA StoppedIs ==
  ASSUME Recorded, NEW status \in Finished, NEW r, r = Stopped(status)
  PROVE  /\ r = [f \in Field |-> r[f]] /\ DOMAIN r = Field
         /\ r.status = status
         /\ r.state \in [Contender -> ContenderState] /\ \A c \in Contender : r.state[c] \notin Active
         /\ r.review \in [Contender -> [Stage -> [status : ReviewStatus, of : Nat]]]
         /\ \A c \in Contender : \A s \in Stage :
              /\ r.review[c][s].of = run.review[c][s].of
              /\ r.review[c][s].status = "approved" <=> run.review[c][s].status = "approved"
         /\ \A f \in Field \ {"status", "state", "review"} : r[f] = run[f]
<1> DEFINE w == Swept(status, "cancelled")
           after(x) == IF x.status \in {"queued", "running"} THEN [x EXCEPT !.status = "cancelled"] ELSE x
           review == [c \in Contender |-> [s \in Stage |-> after(run.review[c][s])]]
<1>1. /\ w = [f \in Field |-> w[f]] /\ DOMAIN w = Field
      /\ w.status = status
      /\ w.state \in [Contender -> ContenderState] /\ \A c \in Contender : w.state[c] \notin Active
      /\ \A f \in Field \ {"status", "state"} : w[f] = run[f]
  BY SweptIs
<1>2. w.review = run.review
  BY <1>1 DEF Field
<1>3. r = [w EXCEPT !.review = review]
  BY <1>2 DEF Stopped
<1>4. ASSUME NEW x \in [status : ReviewStatus, of : Nat]
      PROVE  /\ after(x) \in [status : ReviewStatus, of : Nat]
             /\ after(x).of = x.of
             /\ after(x).status = "approved" <=> x.status = "approved"
  BY DEF ReviewStatus
<1>5. \A c \in Contender : \A s \in Stage : run.review[c][s] \in [status : ReviewStatus, of : Nat]
  BY DEF Recorded
<1> HIDE DEF w, after
<1>6. /\ review \in [Contender -> [Stage -> [status : ReviewStatus, of : Nat]]]
      /\ \A c \in Contender : \A s \in Stage :
              /\ review[c][s].of = run.review[c][s].of
              /\ review[c][s].status = "approved" <=> run.review[c][s].status = "approved"
  BY <1>4, <1>5
<1> HIDE DEF review
<1>7. /\ DOMAIN r = Field /\ r = [f \in Field |-> r[f]] /\ r.review = review
      /\ \A f \in Field \ {"review"} : r[f] = w[f]
  BY <1>1, <1>3 DEF Field
<1>8. r.status = status /\ r.state = w.state
  BY <1>1, <1>7 DEF Field
<1>9. QED
  BY <1>1, <1>6, <1>7, <1>8
(* The steps of the main task that write the record *)
LEMMA MainWrites ==
  ASSUME RInv, MainContextBuilt \/ MainPrepares \/ MainTakesContender \/ MainReady \/ MainStarts
  PROVE  RInv'
<1> USE DEF Turn, MainOnly, disk, control, Decided, Sealed, Over, BuilderComplete, ArtifactSealed,
      DecisionComplete
<1>a. Recorded /\ Memory /\ Scheduling
  BY DEF RInv
<1>b. /\ "main" \in Actor /\ DOMAIN stand = Actor
      /\ \A c \in Contender : c \in Actor /\ c # "main"
  BY Actors, StandsAt
<1>c. stand["main"] \in Pre => \A c \in Contender : stand[c] = "idle"
  BY DEF RInv, Phases
<1>d. \A c \in Contender : Progress(c) /\ Outcome(c)
  BY DEF RInv, Local
<1>e. stand["main"] \in {"contender", "worktree", "ready"} =>
        at \in DOMAIN Order /\ Order[at] \in Contender /\ ~Skipped(Order[at])
  BY DEF RInv, Positions, Phases, Contender
<1>f. Len(Order) \in Nat /\ DOMAIN Order = 1..Len(Order)
  BY OrderAssumption, LenProperties
<1>1. ASSUME MainContextBuilt PROVE RInv'
  <2>1. /\ up' /\ UNCHANGED <<files, gates, branch, stage, ret, at>> /\ stand["main"] = "context!"
    BY <1>1, <1>b, StandsAt DEF MainContextBuilt
  <2>2. Scheduling' /\ stand' = [stand EXCEPT !["main"] = "shared"]
    BY <1>a, <1>b, <1>1, Leaves, Labels DEF MainContextBuilt, MainPc
  <2>3. /\ Shaped' /\ run'.context = TRUE
        /\ UNCHANGED <<run.status, run.winner, run.exhausted, run.stopped, run.checkpoint, run.state,
                       run.review, run.used, run.seal, run.decision, run.checks>>
    BY <1>a, <1>1, Fields DEF MainContextBuilt, Recorded, Shaped, Field
  <2>4. Recorded' /\ Memory'
    BY <1>a, <1>1, <2>3 DEF MainContextBuilt, Recorded, Memory
  <2>5. stand'["main"] = "shared" /\ \A c \in Contender : stand'[c] = stand[c]
    BY <1>b, <2>2
  <2>6. \A c \in Contender : Kept(c)
    BY <2>1, <2>3, <2>5 DEF Kept
  <2>7. Phases' /\ Positions'
    BY <1>c, <2>1, <2>3, <2>5 DEF RInv, Phases, Positions, Pre, Ends
  <2>8. \A c \in Contender : Outcome(c)'
    BY <1>d, <2>1, <2>3, <2>5 DEF Outcome, Pre
  <2>9. QED
    BY <2>2, <2>4, <2>6, <2>7, <2>8, Stays
<1>2. ASSUME MainPrepares PROVE RInv'
  <2>1. /\ up' /\ UNCHANGED <<files, gates, branch, stage, ret>> /\ stand["main"] = "prepare"
        /\ at' = 1
    BY <1>2, <1>b, StandsAt DEF MainPrepares
  <2>2. Scheduling' /\ stand' = [stand EXCEPT !["main"] = "loop"]
    BY <1>a, <1>b, <1>2, Leaves, Labels DEF MainPrepares, MainPc
  <2>3. /\ Shaped' /\ run'.status \in {"recovering", "preparing"}
        /\ UNCHANGED <<run.winner, run.exhausted, run.stopped, run.context, run.checkpoint, run.state,
                       run.review, run.used, run.seal, run.decision, run.checks>>
    BY <1>a, <1>2, Fields DEF MainPrepares, Recorded, Shaped, Field
  <2>4. Recorded' /\ Memory'
    BY <1>a, <1>f, <1>2, <2>3 DEF MainPrepares, Recorded, Memory, Active
  <2>5. stand'["main"] = "loop" /\ \A c \in Contender : stand'[c] = stand[c]
    BY <1>b, <2>2
  <2>6. \A c \in Contender : Kept(c)
    BY <2>1, <2>3, <2>5 DEF Kept
  <2>7. Phases' /\ Positions'
    BY <1>c, <2>1, <2>3, <2>5 DEF RInv, Phases, Positions, Pre, Ends
  <2>8. \A c \in Contender : Outcome(c)'
    BY <1>d, <2>1, <2>3, <2>5 DEF Outcome, Pre
  <2>9. QED
    BY <2>2, <2>4, <2>6, <2>7, <2>8, Stays
<1>3. ASSUME MainTakesContender PROVE RInv'
  <2> DEFINE d == Order[at]
  <2>1. /\ up' /\ UNCHANGED <<files, gates, branch, stage, ret, at>> /\ stand["main"] = "contender"
    BY <1>3, <1>b, StandsAt DEF MainTakesContender
  <2>a. d \in Contender /\ ~Skipped(d) /\ at \in DOMAIN Order
    BY <1>e, <2>1
  <2>2. Scheduling' /\ stand' = [stand EXCEPT !["main"] = "worktree"]
    BY <1>a, <1>b, <1>3, Leaves, Labels DEF MainTakesContender, MainPc
  <2>3. /\ Shaped'
        /\ run'.state \in {[run.state EXCEPT ![d] = x] : x \in {"recovering", "preparing"}}
        /\ UNCHANGED <<run.status, run.winner, run.exhausted, run.stopped, run.context, run.checkpoint,
                       run.review, run.used, run.seal, run.decision, run.checks>>
    BY <1>a, <1>3, Fields DEF MainTakesContender, Recorded, Shaped, Field
  <2> HIDE DEF d
  <2>4. Recorded' /\ Memory'
    <3>1. run'.state \in [Contender -> ContenderState]
      <4>1. PICK x \in {"recovering", "preparing"} : run'.state = [run.state EXCEPT ![d] = x]
        BY <2>3
      <4>2. x \in ContenderState
        BY DEF ContenderState, Active
      <4>3. QED
        BY <1>a, <4>1, <4>2 DEF Recorded
    <3>2. Memory'
      BY <1>a, <1>3 DEF MainTakesContender, Memory
    <3>3. QED
      BY <1>a, <2>3, <3>1, <3>2 DEF Recorded
  <2>5. stand'["main"] = "worktree" /\ \A c \in Contender : stand'[c] = stand[c]
    BY <1>b, <2>2
  <2>6. \A c \in Contender : Kept(c)
    BY <2>1, <2>3, <2>5 DEF Kept
  <2>7. Phases' /\ Positions'
    <3>1. at' \in DOMAIN Order /\ ~Skipped(Order[at])'
      BY <2>a, <2>1, <2>3 DEF Skipped, d
    <3>2. run'.status = run.status /\ run.status # "completed"
      BY <2>1, <2>3 DEF RInv, Phases
    <3>3. \A c \in Contender : stand'[c] = "idle"
      BY <1>c, <2>1, <2>5 DEF Pre
    <3>4. QED
      BY <2>1, <2>5, <3>1, <3>2, <3>3 DEF Phases, Positions, Ends
  <2>8. ASSUME NEW c \in Contender PROVE Outcome(c)'
    <3>1. Outcome(c)
      BY <1>d
    <3>2. c # d => run'.state[c] = run.state[c]
      BY <1>a, <2>3 DEF Recorded
    <3>3. stand[c] = "idle" /\ run.status # "completed"
      BY <1>c, <2>1 DEF RInv, Phases, Pre
    <3>4. QED
      BY <2>1, <2>a, <2>3, <2>5, <3>1, <3>2, <3>3 DEF Outcome, Pre, Skipped
  <2>9. QED
    BY <2>2, <2>4, <2>6, <2>7, <2>8, Stays
<1>4. ASSUME MainReady PROVE RInv'
  <2> DEFINE d == Order[at]
             k == ReadyCheckpoint(run.checkpoint[d])
  <2>1. /\ up' /\ UNCHANGED <<files, gates, branch, stage, ret>> /\ stand["main"] = "ready"
        /\ at' = at + 1
    BY <1>4, <1>b, StandsAt DEF MainReady
  <2>a. d \in Contender /\ ~Skipped(d) /\ at \in DOMAIN Order
    BY <1>e, <2>1
  <2>2. Scheduling' /\ stand' = [stand EXCEPT !["main"] = "loop"]
    BY <1>a, <1>b, <1>4, Leaves, Labels DEF MainReady, MainPc
  <2>3. /\ Shaped'
        /\ run'.state = [run.state EXCEPT ![d] = "queued"]
        /\ run'.checkpoint = [run.checkpoint EXCEPT ![d] = k]
        /\ UNCHANGED <<run.status, run.winner, run.exhausted, run.stopped, run.context,
                       run.review, run.used, run.seal, run.decision, run.checks>>
    BY <1>a, <1>4, Fields DEF MainReady, Recorded, Shaped, Field
  <2>b. /\ run.checkpoint[d] \in 0..4
        /\ k \in 0..4 /\ (run.checkpoint[d] < 2 => k < 2) /\ (k >= 3 <=> run.checkpoint[d] >= 3)
        /\ (k >= 4 <=> run.checkpoint[d] >= 4)
    BY <1>a, <2>a DEF Recorded, ReadyCheckpoint, WorktreeReady
  <2> HIDE DEF d, k
  <2>4. Recorded'
    <3>1. run'.state \in [Contender -> ContenderState] /\ run'.checkpoint \in [Contender -> 0..4]
      BY <1>a, <2>b, <2>3 DEF Recorded, ContenderState, Active
    <3>2. QED
      BY <1>a, <2>3, <3>1 DEF Recorded
  <2>c. Memory'
    <3>1. at' \in 1 .. Len(Order) + 1
      BY <1>f, <2>1, <2>a
    <3>2. QED
      BY <1>a, <1>4, <3>1 DEF MainReady, Memory
  <2>5. stand'["main"] = "loop" /\ \A c \in Contender : stand'[c] = stand[c]
    BY <1>b, <2>2
  <2>d. \A c \in Contender : /\ c # d => run'.checkpoint[c] = run.checkpoint[c] /\ run'.state[c] = run.state[c]
                             /\ c = d => run'.checkpoint[c] = k
    BY <1>a, <2>a, <2>3 DEF Recorded
  <2>6. ASSUME NEW c \in Contender PROVE Kept(c)
    <3>1. /\ run.checkpoint[c] < 2 => run'.checkpoint[c] < 2
          /\ run'.checkpoint[c] >= 3 <=> run.checkpoint[c] >= 3
          /\ run'.checkpoint[c] >= 4 <=> run.checkpoint[c] >= 4
      BY <2>b, <2>d
    <3>2. QED
      BY <2>1, <2>3, <2>5, <3>1 DEF Kept
  <2>7. Phases' /\ Positions'
    BY <1>c, <2>1, <2>3, <2>5 DEF RInv, Phases, Positions, Pre, Ends
  <2>8. ASSUME NEW c \in Contender PROVE Outcome(c)'
    <3>1. Outcome(c) /\ (Decided(c)' <=> Decided(c))
      BY <1>d, <2>6 DEF Kept
    <3>3. stand[c] = "idle" /\ run.status # "completed"
      BY <1>c, <2>1 DEF RInv, Phases, Pre
    <3>4. QED
      BY <2>1, <2>a, <2>3, <2>5, <2>d, <3>1, <3>3 DEF Outcome, Pre, Skipped
  <2>9. QED
    BY <2>2, <2>4, <2>c, <2>6, <2>7, <2>8, Stays
<1>5. ASSUME MainStarts PROVE RInv'
  <2>1. /\ up' /\ UNCHANGED <<files, gates, branch, stage, ret, at>> /\ stand["main"] = "start"
    BY <1>5, <1>b, StandsAt DEF MainStarts
  <2>2. Scheduling' /\ stand' = [stand EXCEPT !["main"] = "spawn"]
    BY <1>a, <1>b, <1>5, Leaves, Labels DEF MainStarts, MainPc
  <2>3. /\ Shaped' /\ run'.status = "running"
        /\ UNCHANGED <<run.winner, run.exhausted, run.stopped, run.context, run.checkpoint, run.state,
                       run.review, run.used, run.seal, run.decision, run.checks>>
    BY <1>a, <1>5, Fields DEF MainStarts, Recorded, Shaped, Field
  <2>4. Recorded' /\ Memory'
    BY <1>a, <1>5, <2>3 DEF MainStarts, Recorded, Memory, Active
  <2>5. stand'["main"] = "spawn" /\ \A c \in Contender : stand'[c] = stand[c]
    BY <1>b, <2>2
  <2>6. \A c \in Contender : Kept(c)
    BY <2>1, <2>3, <2>5 DEF Kept
  <2>7. Phases' /\ Positions'
    BY <1>c, <2>1, <2>3, <2>5 DEF RInv, Phases, Positions, Pre, Ends
  <2>8. \A c \in Contender : Outcome(c)'
    BY <1>d, <2>1, <2>3, <2>5 DEF Outcome, Pre
  <2>9. QED
    BY <2>2, <2>4, <2>6, <2>7, <2>8, Stays
<1>6. QED
  BY <1>1, <1>2, <1>3, <1>4, <1>5
-----------------------------------------------------------------------------
(* A sequence in declared order has the members of its set, each once *)
LEMMA Ordered ==
  ASSUME NEW S \in SUBSET Contender, NEW s \in InOrder(S)
  PROVE  /\ s \in Seq(Contender) /\ Len(s) \in Nat /\ DOMAIN s = 1..Len(s)
         /\ \A i \in DOMAIN s : s[i] \in S
         /\ \A i, j \in DOMAIN s : s[i] = s[j] => i = j
<1>1. PICK n \in 0..Len(Order) : s \in [1..n -> S]
  BY DEF InOrder
<1>2. n \in Nat
  BY OrderAssumption, LenProperties
<1>3. s \in Seq(Contender) /\ Len(s) = n /\ DOMAIN s = 1..n
  BY <1>1, <1>2, SeqDef, LenProperties
<1>4. ASSUME NEW i \in DOMAIN s, NEW j \in DOMAIN s, i < j
      PROVE  s[i] # s[j]
  <2>1. Before(s[i], s[j])
    BY <1>4 DEF InOrder
  <2>2. PICK k, m \in DOMAIN Order : k < m /\ Order[k] = s[i] /\ Order[m] = s[j]
    BY <2>1 DEF Before
  <2>3. DOMAIN Order \subseteq Nat
    BY OrderAssumption, LenProperties
  <2>4. QED
    BY <2>2, <2>3, OrderAssumption
<1>5. QED
  BY <1>1, <1>2, <1>3, <1>4

LEMMA MainSpawnsAll ==
  ASSUME RInv, MainSpawns
  PROVE  RInv'
<1> USE DEF MainOnly, disk, control, Decided, Sealed, Over, BuilderComplete, ArtifactSealed,
      DecisionComplete
<1> DEFINE W == {c \in Contender : Work(c)}
<1>a. Recorded /\ Memory /\ Scheduling
  BY DEF RInv
<1>b. /\ "main" \in Actor /\ DOMAIN stand = Actor
      /\ \A c \in Contender : c \in Actor /\ c # "main"
  BY Actors, StandsAt
<1>1. /\ up' /\ run' = run /\ UNCHANGED <<files, gates, branch, stage, ret>>
      /\ stand["main"] = "spawn" /\ pc["main"] = "spawn"
  BY <1>b, StandsAt DEF MainSpawns
<1>2. \A c \in Contender : stand[c] = "idle" /\ pc[c] = "idle"
  <2>1. \A c \in Contender : stand[c] = "idle"
    BY <1>1 DEF RInv, Phases, Pre
  <2>2. \A c \in Contender : pc[c] \in {"budget", "abort"} => ret[c] \in Return(c)
    BY <1>a, <1>b DEF Scheduling
  <2>3. QED
    BY <1>b, <2>1, <2>2 DEF Return, stand
<1>3. /\ DOMAIN pc' = Actor /\ pc'["main"] = "join"
      /\ \A c \in Contender : pc'[c] = IF Work(c) THEN FirstUpdate(c) ELSE "idle"
      /\ \A a \in Actor \ (Contender \cup {"main"}) : pc'[a] = pc[a]
  BY <1>b, <1>2 DEF MainSpawns
<1>4. \A c \in Contender : FirstUpdate(c) \in {"reuse", "attempt"}
  BY DEF FirstUpdate
<1>5. PICK started \in InOrder(W) : tail' = tail \o started
  BY DEF MainSpawns
<1>6. /\ started \in Seq(Contender) /\ Len(started) \in Nat /\ DOMAIN started = 1..Len(started)
      /\ \A i \in DOMAIN started : started[i] \in W
      /\ \A i, j \in DOMAIN started : started[i] = started[j] => i = j
  BY <1>5, Ordered
<1>7. /\ tail \in Seq(Actor) /\ Len(tail) \in Nat /\ DOMAIN tail = 1..Len(tail)
      /\ \A i \in DOMAIN tail : tail[i] \in Actor /\ pc[tail[i]] \in Waiting
      /\ \A i, j \in DOMAIN tail : tail[i] = tail[j] => i = j
  BY <1>a, LenProperties, ElementOfSeq DEF Scheduling
<1>8. \A i \in DOMAIN tail : tail[i] \notin Contender \cup {"main"}
  BY <1>1, <1>2, <1>7 DEF Waiting
<1>9. /\ tail' \in Seq(Actor) /\ Len(tail') = Len(tail) + Len(started)
      /\ DOMAIN tail' = 1..(Len(tail) + Len(started))
      /\ \A i \in 1..Len(tail) : tail'[i] = tail[i]
      /\ \A i \in DOMAIN tail' : i > Len(tail) => i - Len(tail) \in DOMAIN started /\ tail'[i] = started[i - Len(tail)]
  <2>1. started \in Seq(Actor)
    BY <1>6 DEF Actor
  <2>2. QED
    BY <1>5, <1>6, <1>7, <2>1, ConcatProperties, LenProperties
<1>10. \A i, j \in DOMAIN tail' : tail'[i] = tail'[j] => i = j
  <2> SUFFICES ASSUME NEW i \in DOMAIN tail', NEW j \in DOMAIN tail', tail'[i] = tail'[j]
               PROVE  i = j
    OBVIOUS
  <2>1. i \in Int /\ j \in Int
    BY <1>6, <1>7, <1>9
  <2>2. CASE i <= Len(tail) /\ j <= Len(tail)
    BY <1>7, <1>9, <2>2
  <2>3. CASE i > Len(tail) /\ j > Len(tail)
    BY <1>6, <1>7, <1>9, <2>3
  <2>4. CASE (i <= Len(tail) /\ j > Len(tail)) \/ (i > Len(tail) /\ j <= Len(tail))
    BY <1>6, <1>7, <1>8, <1>9, <2>4
  <2>5. QED
    BY <1>7, <2>1, <2>2, <2>3, <2>4
<1>11. ASSUME NEW i \in DOMAIN tail' PROVE pc'[tail'[i]] \in Waiting
  <2>1. CASE i <= Len(tail)
    BY <1>3, <1>7, <1>8, <1>9, <2>1
  <2>2. CASE i > Len(tail)
    BY <1>3, <1>4, <1>6, <1>9, <2>2 DEF Waiting
  <2>3. QED
    BY <1>6, <1>7, <1>9, <2>1, <2>2
<1>12. Scheduling'
  <2>1. \A a \in Actor : pc'[a] \in PcOf(a)
    BY <1>a, <1>b, <1>3, <1>4, Labels DEF Scheduling, MainPc
  <2>2. \A a \in Actor : pc'[a] \in {"budget", "abort"} => ret'[a] \in Return(a)
    BY <1>a, <1>1, <1>3, <1>4 DEF Scheduling
  <2>3. QED
    BY <1>a, <1>1, <1>3, <1>9, <1>10, <1>11, <2>1, <2>2 DEF Scheduling
<1>13. /\ stand'["main"] = "join"
       /\ \A c \in Contender : stand'[c] = IF Work(c) THEN FirstUpdate(c) ELSE "idle"
  BY <1>b, <1>3, <1>4 DEF stand
<1>14. Recorded' /\ Memory'
  BY <1>a, <1>1 DEF MainSpawns, Recorded, Shaped, Memory
<1>15. Phases' /\ Positions'
  BY <1>1, <1>13 DEF RInv, Phases, Positions, Pre, Ends
<1>16. ASSUME NEW c \in Contender PROVE Local(c)'
  <2>1. Progress(c) /\ Evidence(c) /\ Outcome(c)
    BY DEF RInv, Local
  <2>2. run.checkpoint[c] \in 0..4
    BY <1>a DEF Recorded
  <2>3. Progress(c)'
    BY <1>1, <1>13, <2>1, <2>2 DEF Progress, Building, Sealing, Judging, Work, FirstUpdate
  <2>4. Evidence(c)'
    BY <1>1, <1>4, <1>13, <2>1 DEF Evidence, Answering
  <2>5. Outcome(c)'
    BY <1>1, <1>4, <1>13, <2>1 DEF Outcome, Work, Pre
  <2>6. QED
    BY <2>3, <2>4, <2>5 DEF Local
<1>17. QED
  BY <1>12, <1>14, <1>15, <1>16 DEF RInv

LEMMA MainEndsRun ==
  ASSUME RInv, MainEnds
  PROVE  RInv'
<1> USE DEF Turn, MainOnly, disk, control, Decided, Sealed, Over
<1>a. Recorded /\ Memory /\ Scheduling /\ DOMAIN run = Field
  BY Fields DEF RInv
<1>b. /\ "main" \in Actor /\ DOMAIN stand = Actor
      /\ \A c \in Contender : c \in Actor /\ c # "main"
  BY Actors, StandsAt
<1>1. /\ up' /\ UNCHANGED <<files, gates, branch, stage, ret>>
      /\ stand["main"] \in Ends \ {"over", "off"} /\ stand["main"] = pc["main"]
  BY <1>b, StandsAt DEF MainEnds, Ends
<1>2. Scheduling' /\ stand' = [stand EXCEPT !["main"] = "over"]
  BY <1>a, <1>b, Leaves, Labels DEF MainEnds, MainPc
<1>3. /\ Shaped' /\ run'.status \in Finished /\ run'.winner \in SUBSET Contender
      /\ run'.exhausted \in BOOLEAN
      /\ run'.state \in [Contender -> ContenderState] /\ \A c \in Contender : Over(c)'
      /\ run'.review \in [Contender -> [Stage -> [status : ReviewStatus, of : Nat]]]
      /\ \A c \in Contender : \A s \in Stage :
           /\ run'.review[c][s].of = run.review[c][s].of
           /\ run'.review[c][s].status = "approved" <=> run.review[c][s].status = "approved"
      /\ \A c \in run'.winner : c \in run.winner \/ run.decision[c] = "approved"
      /\ UNCHANGED <<run.stopped, run.context, run.checkpoint, run.used, run.seal, run.decision,
                     run.checks>>
  <2> USE DEF Shaped, Field, Finished
  <2>a. run.review \in [Contender -> [Stage -> [status : ReviewStatus, of : Nat]]]
        /\ run.winner \in SUBSET Contender /\ run.exhausted \in BOOLEAN
        /\ run.state \in [Contender -> ContenderState]
    BY <1>a DEF Recorded
  <2>b. pc["main"] \in {"winner", "noWinner"} => \A c \in Contender : Over(c)
    BY <1>1 DEF RInv, Local, Outcome
  <2>1. CASE run' = [Stopped("budget-exhausted") EXCEPT !.exhausted = TRUE]
    <3> DEFINE r == Stopped("budget-exhausted")
    <3>1. /\ r = [f \in Field |-> r[f]] /\ DOMAIN r = Field
          /\ r.status = "budget-exhausted"
          /\ r.state \in [Contender -> ContenderState] /\ \A c \in Contender : r.state[c] \notin Active
          /\ r.review \in [Contender -> [Stage -> [status : ReviewStatus, of : Nat]]]
          /\ \A c \in Contender : \A s \in Stage :
               /\ r.review[c][s].of = run.review[c][s].of
               /\ r.review[c][s].status = "approved" <=> run.review[c][s].status = "approved"
          /\ \A f \in Field \ {"status", "state", "review"} : r[f] = run[f]
      BY <1>a, StoppedIs
    <3>2. run' = [r EXCEPT !.exhausted = TRUE]
      BY <2>1
    <3> HIDE DEF r
    <3>3. /\ Shaped' /\ run'.exhausted = TRUE
          /\ UNCHANGED <<run.winner, run.stopped, run.context, run.checkpoint, run.used, run.seal,
                         run.decision, run.checks>>
          /\ run'.status = r.status /\ run'.state = r.state /\ run'.review = r.review
      BY <3>1, <3>2
    <3>4. run'.status \in Finished /\ run'.winner \in SUBSET Contender /\ run'.exhausted \in BOOLEAN
      BY <2>a, <3>1, <3>3
    <3>5. /\ run'.state \in [Contender -> ContenderState] /\ \A c \in Contender : Over(c)'
          /\ run'.review \in [Contender -> [Stage -> [status : ReviewStatus, of : Nat]]]
          /\ \A c \in Contender : \A s \in Stage :
               /\ run'.review[c][s].of = run.review[c][s].of
               /\ run'.review[c][s].status = "approved" <=> run.review[c][s].status = "approved"
      BY <3>1, <3>3
    <3>6. QED
      BY <3>3, <3>4, <3>5
  <2>2. CASE run' = Stopped("cancelled")
    <3>1. /\ run' = [f \in Field |-> run'[f]]
          /\ run'.status = "cancelled"
          /\ run'.state \in [Contender -> ContenderState] /\ \A c \in Contender : run'.state[c] \notin Active
          /\ run'.review \in [Contender -> [Stage -> [status : ReviewStatus, of : Nat]]]
          /\ \A c \in Contender : \A s \in Stage :
               /\ run'.review[c][s].of = run.review[c][s].of
               /\ run'.review[c][s].status = "approved" <=> run.review[c][s].status = "approved"
          /\ \A f \in Field \ {"status", "state", "review"} : run'[f] = run[f]
      BY <1>a, <2>2, StoppedIs
    <3>2. QED
      BY <2>a, <3>1
  <2>3. CASE run' = Swept("failed", "failed")
    <3>1. /\ run' = [f \in Field |-> run'[f]]
          /\ run'.status = "failed"
          /\ run'.state \in [Contender -> ContenderState] /\ \A c \in Contender : run'.state[c] \notin Active
          /\ \A f \in Field \ {"status", "state"} : run'[f] = run[f]
      BY <1>a, <2>3, SweptIs
    <3>2. QED
      BY <2>a, <3>1
  <2>4. CASE pc["main"] = "noWinner" /\ run' = [run EXCEPT !.status = "completed"]
    BY <1>a, <2>4, <2>a, <2>b DEF Recorded
  <2>5. CASE /\ pc["main"] = "winner"
             /\ \E c \in Eligible : run' = [run EXCEPT !.status = "completed", !.winner = {c}]
    <3>1. PICK c \in Contender : /\ run.decision[c] = "approved"
                                 /\ run' = [run EXCEPT !.status = "completed", !.winner = {c}]
      BY <2>5 DEF Eligible, Approved
    <3>2. /\ Shaped' /\ run'.status = "completed" /\ run'.winner = {c}
          /\ UNCHANGED <<run.exhausted, run.state, run.review, run.stopped, run.context,
                         run.checkpoint, run.used, run.seal, run.decision, run.checks>>
      BY <1>a, <3>1 DEF Recorded
    <3>3. QED
      BY <2>5, <2>a, <2>b, <3>1, <3>2
  <2>6. QED
    BY <2>1, <2>2, <2>3, <2>4, <2>5 DEF MainEnds
<1>4. Recorded' /\ Memory'
  BY <1>a, <1>3 DEF MainEnds, Recorded, Memory
<1>5. stand'["main"] = "over" /\ \A c \in Contender : stand'[c] = stand[c]
  BY <1>b, <1>2
<1>6. \A c \in Contender : Kept(c)
  BY <1>1, <1>3, <1>5 DEF Kept
<1>7. Phases' /\ Positions'
  BY <1>1, <1>3, <1>5 DEF RInv, Phases, Positions, Pre, Ends
<1>8. ASSUME NEW c \in Contender PROVE Outcome(c)'
  <2>1. Outcome(c)
    BY DEF RInv, Local
  <2>2. QED
    BY <1>3, <1>5, <2>1 DEF Outcome
<1>9. QED
  BY <1>2, <1>4, <1>6, <1>7, <1>8, Stays

LEMMA MainStep == RInv /\ Main => RInv'
BY MainWalks, MainWrites, MainSpawnsAll, MainEndsRun DEF Main
-----------------------------------------------------------------------------
(* Steps that neither move a contender or the main task nor touch what they rest on *)
LEMMA Elsewhere ==
  ASSUME RInv, Recorded', Memory', Scheduling',
         up' \/ UNCHANGED <<up, tail>>,
         UNCHANGED <<files, gates, stage, at, run.status, run.winner, run.stopped, run.checkpoint,
                     run.state, run.review, run.seal, run.decision, run.checks>>,
         stand'["main"] = stand["main"],
         \A c \in Contender : stand'[c] = stand[c] /\ (branch[c] # "none" => branch'[c] # "none")
  PROVE  RInv'
<1> USE DEF Decided, Sealed, Over, Skipped
<1>1. \A c \in Contender : Kept(c)
  BY DEF Kept
<1>2. Phases' /\ Positions'
  BY DEF RInv, Phases, Positions
<1>3. \A c \in Contender : Outcome(c)'
  BY DEF RInv, Local, Outcome
<1>4. QED
  BY <1>1, <1>2, <1>3, Stays

LEMMA Aborts ==
  ASSUME Memory, NEW reason \in Reason \ {"none"}, Abort(reason)
  PROVE  /\ root' \in Reason /\ branch' \in [Contender -> Reason \cup {"early"}]
         /\ \A c \in Contender : branch'[c] # "none"
BY DEF Memory, Abort

LEMMA BudgetStep ==
  ASSUME RInv, NEW a \in Actor, BudgetPublished(a) \/ BudgetAborts(a)
  PROVE  RInv'
<1> USE DEF Turn, disk, control, local
<1>a. Recorded /\ Memory /\ Scheduling
  BY DEF RInv
<1>b. "main" \in Actor /\ DOMAIN stand = Actor /\ \A c \in Contender : c \in Actor
  BY Actors, StandsAt
<1>1. ASSUME BudgetPublished(a) PROVE RInv'
  <2>1. Scheduling' /\ stand' = stand
    BY <1>a, <1>1, Leaves DEF BudgetPublished, PcOf
  <2>2. /\ Shaped' /\ run'.exhausted = TRUE
        /\ UNCHANGED <<run.status, run.winner, run.stopped, run.context, run.checkpoint, run.state,
                       run.review, run.used, run.seal, run.decision, run.checks>>
    BY <1>a, <1>1, Fields DEF BudgetPublished, Recorded, Shaped, Field
  <2>3. Recorded' /\ Memory'
    BY <1>a, <1>1, <2>2 DEF BudgetPublished, Recorded, Memory
  <2>4. UNCHANGED <<files, gates, stage, at, branch>> /\ up'
    BY <1>1 DEF BudgetPublished
  <2>5. QED
    BY <2>1, <2>2, <2>3, <2>4, Elsewhere
<1>2. ASSUME BudgetAborts(a) PROVE RInv'
  <2>1. /\ pc' = [pc EXCEPT ![a] = ret[a]] /\ ret' = [ret EXCEPT ![a] = "off"]
        /\ UNCHANGED <<tail, run, files, gates, stage, at>> /\ up' /\ pc[a] = "abort"
        /\ Abort("budget")
    BY <1>2 DEF BudgetAborts, Resume
  <2>2. ret[a] \in PcOf(a) \ {"budget", "abort"}
    BY <1>a, <2>1, Labels DEF Scheduling, Return, MainPc
  <2>3. Scheduling'
    <3>1. \A i \in DOMAIN tail : tail[i] # a
      BY <1>a, <2>1 DEF Scheduling, Waiting
    <3>2. \A i \in DOMAIN tail' : pc'[tail'[i]] \in Waiting
      BY <1>a, <2>1, <3>1, ElementOfSeq, LenProperties DEF Scheduling
    <3>3. \A b \in Actor : pc'[b] \in PcOf(b) /\ ret'[b] \in PcOf(b) \cup {"off"}
      BY <1>a, <2>1, <2>2 DEF Scheduling
    <3>4. \A b \in Actor : pc'[b] \in {"budget", "abort"} => ret'[b] \in Return(b)
      BY <1>a, <2>1, <2>2 DEF Scheduling
    <3>5. QED
      BY <1>a, <2>1, <3>2, <3>3, <3>4 DEF Scheduling
  <2>4. stand' = stand
    BY <1>a, <2>1, <2>2 DEF Scheduling, stand
  <2>5. root' \in Reason /\ branch' \in [Contender -> Reason \cup {"early"}]
        /\ \A c \in Contender : branch'[c] # "none"
    BY <1>a, <2>1, Aborts DEF Reason
  <2>6. Recorded' /\ Memory'
    BY <1>a, <1>2, <2>1, <2>5 DEF BudgetAborts, Recorded, Shaped, Memory
  <2>7. QED
    BY <2>1, <2>3, <2>4, <2>5, <2>6, Elsewhere
<1>3. QED
  BY <1>1, <1>2

LEMMA OutsideStep ==
  ASSUME RInv, DeadlineFires \/ TimePasses \/ Cancel \/ Dispose
  PROVE  RInv'
<1> USE DEF disk, control, local
<1>a. Recorded /\ Memory /\ Scheduling
  BY DEF RInv
<1>b. /\ {"main", "deadline", "user"} \subseteq Actor /\ DOMAIN stand = Actor
      /\ \A c \in Contender : c \in Actor /\ c # "deadline" /\ c # "user"
  BY Actors, StandsAt
<1>1. ASSUME DeadlineFires PROVE RInv'
  <2>1. Scheduling' /\ stand' = [stand EXCEPT !["deadline"] = "off"]
    <3>1. "off" \in Return("deadline")
      BY Actors DEF Return
    <3>2. QED
      BY <1>a, <1>b, <1>1, <3>1, Enforces DEF DeadlineFires, Waiting
  <2>2. UNCHANGED <<run, files, gates, stage, at, branch, root>> /\ up'
    BY <1>1 DEF DeadlineFires
  <2>3. Recorded' /\ Memory'
    BY <1>a, <1>1 DEF DeadlineFires, EnforceBudget, Recorded, Shaped, Memory
  <2>4. stand'["main"] = stand["main"] /\ \A c \in Contender : stand'[c] = stand[c]
    BY <1>b, <2>1
  <2>5. QED
    BY <2>1, <2>2, <2>3, <2>4, Elsewhere
<1>2. ASSUME TimePasses PROVE RInv'
  <2>1. UNCHANGED <<run, files, gates, stage, at, branch, up, tail, pc, ret>>
    BY <1>2 DEF TimePasses
  <2>2. Scheduling' /\ stand' = stand
    BY <1>a, <2>1 DEF Scheduling, stand
  <2>3. Recorded' /\ Memory'
    BY <1>a, <1>2 DEF TimePasses, Recorded, Shaped, Memory
  <2>4. QED
    BY <2>1, <2>2, <2>3, Elsewhere
<1>3. ASSUME Cancel PROVE RInv'
  <2>1. Scheduling' /\ stand' = [stand EXCEPT !["user"] = "cancel"]
    BY <1>a, <1>b, <1>3, Joins, Labels DEF Cancel, Waiting
  <2>2. UNCHANGED <<run, files, gates, stage, at>> /\ up'
    BY <1>3 DEF Cancel, Live
  <2>3. root' \in Reason /\ branch' \in [Contender -> Reason \cup {"early"}]
        /\ \A c \in Contender : branch'[c] # "none"
    BY <1>a, <1>3, Aborts DEF Cancel, Reason
  <2>4. Recorded' /\ Memory'
    BY <1>a, <1>3, <2>3 DEF Cancel, Recorded, Shaped, Memory
  <2>5. stand'["main"] = stand["main"] /\ \A c \in Contender : stand'[c] = stand[c]
    BY <1>b, <2>1
  <2>6. QED
    BY <2>1, <2>2, <2>3, <2>4, <2>5, Elsewhere
<1>4. ASSUME Dispose PROVE RInv'
  <2>1. UNCHANGED <<run, files, gates, stage, at, up, tail, pc, ret>>
    BY <1>4 DEF Dispose
  <2>2. Scheduling' /\ stand' = stand
    BY <1>a, <2>1 DEF Scheduling, stand
  <2>3. root' \in Reason /\ branch' \in [Contender -> Reason \cup {"early"}]
        /\ \A c \in Contender : branch'[c] # "none"
    BY <1>a, <1>4, Aborts DEF Dispose, Reason
  <2>4. Recorded' /\ Memory'
    BY <1>a, <1>4, <2>3 DEF Dispose, Recorded, Shaped, Memory
  <2>5. QED
    BY <2>1, <2>2, <2>3, <2>4, Elsewhere
<1>5. QED
  BY <1>1, <1>2, <1>3, <1>4

LEMMA CancelledStep ==
  ASSUME RInv, Cancelled
  PROVE  RInv'
<1> USE DEF Turn, disk, control, local, Decided, Sealed, Over
<1>a. Recorded /\ Memory /\ Scheduling
  BY DEF RInv
<1>b. /\ {"main", "user"} \subseteq Actor /\ DOMAIN stand = Actor
      /\ \A c \in Contender : c \in Actor /\ c # "user"
  BY Actors, StandsAt
<1>1. Scheduling' /\ stand' = [stand EXCEPT !["user"] = "idle"]
  BY <1>a, <1>b, Leaves, Labels DEF Cancelled
<1>2. /\ run' = [f \in Field |-> run'[f]]
      /\ run'.status = "cancelled"
      /\ run'.state \in [Contender -> ContenderState] /\ \A c \in Contender : run'.state[c] \notin Active
      /\ run'.review \in [Contender -> [Stage -> [status : ReviewStatus, of : Nat]]]
      /\ \A c \in Contender : \A s \in Stage :
           /\ run'.review[c][s].of = run.review[c][s].of
           /\ run'.review[c][s].status = "approved" <=> run.review[c][s].status = "approved"
      /\ \A f \in Field \ {"status", "state", "review"} : run'[f] = run[f]
  BY <1>a, StoppedIs DEF Cancelled, Finished
<1>3. /\ Shaped'
      /\ UNCHANGED <<run.winner, run.exhausted, run.stopped, run.context, run.checkpoint, run.used,
                     run.seal, run.decision, run.checks>>
  BY <1>2 DEF Shaped, Field
<1>4. Recorded' /\ Memory'
  BY <1>a, <1>2, <1>3 DEF Cancelled, Recorded, Memory, Finished
<1>5. stand'["main"] = stand["main"] /\ \A c \in Contender : stand'[c] = stand[c]
  BY <1>b, <1>1
<1>6. UNCHANGED <<files, gates, stage, at, branch>> /\ up'
  BY DEF Cancelled
<1>7. \A c \in Contender : Kept(c)
  BY <1>2, <1>3, <1>5, <1>6 DEF Kept
<1>8. Phases' /\ Positions'
  BY <1>2, <1>3, <1>5, <1>6 DEF RInv, Phases, Positions, Skipped
<1>9. ASSUME NEW c \in Contender PROVE Outcome(c)'
  <2>1. Outcome(c)
    BY DEF RInv, Local
  <2>2. QED
    BY <1>2, <1>3, <2>1 DEF Outcome
<1>10. QED
  BY <1>1, <1>4, <1>7, <1>8, <1>9, Stays

(* A crash ends every task and empties the tail; the record and the files stay *)
LEMMA CrashStep ==
  ASSUME RInv, Crash
  PROVE  RInv'
<1> USE DEF disk, Decided, Sealed, Over, Skipped
<1>a. Recorded /\ Memory /\ Scheduling
  BY DEF RInv
<1>1. /\ pc' = Idle /\ tail' = <<>> /\ ret' = [a \in Actor |-> "off"] /\ ~up'
      /\ UNCHANGED <<run, files>>
      /\ gates' = [c \in Contender |-> "none"] /\ branch' = [c \in Contender |-> "none"]
  BY DEF Crash, TailAfterCrash
<1>b. /\ {"main", "deadline", "user"} \subseteq Actor
      /\ \A c \in Contender : c \in Actor /\ c # "main" /\ c # "deadline" /\ c # "user"
  BY Actors
<1>2. /\ DOMAIN pc' = Actor /\ pc'["main"] = "off" /\ pc'["deadline"] = "off" /\ pc'["user"] = "idle"
      /\ \A c \in Contender : pc'[c] = "idle"
      /\ \A a \in Actor : pc'[a] \in {"off", "idle"}
  BY <1>1, <1>b DEF Idle
<1>3. Scheduling'
  <2>1. \A a \in Actor : pc'[a] \in PcOf(a)
    BY <1>2, Labels DEF Actor, MainPc
  <2>2. tail' \in Seq(Actor) /\ DOMAIN tail' = {}
    BY <1>1, EmptySeq
  <2>3. QED
    BY <1>1, <1>2, <2>1, <2>2 DEF Scheduling
<1>4. stand'["main"] = "off" /\ \A c \in Contender : stand'[c] = "idle"
  BY <1>1, <1>2, <1>b DEF stand
<1>5. Recorded'
  BY <1>a, <1>1 DEF Recorded, Shaped
<1>6. Memory'
  <2>1. at' \in 1..Len(Order) + 1
    BY OrderAssumption, LenProperties DEF Crash
  <2>2. made' \in [Contender -> 0..MaxCall] /\ crashes' \in 0..MaxCrash
    BY <1>a, BoundAssumption DEF Crash, Memory
  <2>3. QED
    BY <1>a, <2>1, <2>2 DEF Crash, Memory, Reason, GateOutcome, Stage
<1>7. \A c \in Contender : Kept(c)
  BY <1>1, <1>4 DEF Kept
<1>8. Phases' /\ Positions'
  BY <1>1, <1>4 DEF RInv, Phases, Positions, Pre, Ends
<1>9. ASSUME NEW c \in Contender PROVE Outcome(c)'
  <2>1. Outcome(c)
    BY DEF RInv, Local
  <2>2. QED
    BY <1>1, <1>4, <2>1 DEF Outcome, Pre
<1>10. QED
  BY <1>3, <1>5, <1>6, <1>7, <1>8, <1>9, Stays
(* A restart recovers an active run, or fails to *)
LEMMA RestartStep ==
  ASSUME RInv, Restart
  PROVE  RInv'
<1> USE DEF disk, local, Decided, Sealed, Over, Skipped
<1>a. Recorded /\ Memory /\ Scheduling /\ DOMAIN run = Field
  BY Fields DEF RInv
<1>b. /\ {"main", "deadline", "user"} \subseteq Actor /\ DOMAIN stand = Actor
      /\ \A c \in Contender : c \in Actor /\ c # "main" /\ c # "deadline" /\ c # "user"
  BY Actors, StandsAt
<1>1. /\ up' /\ UNCHANGED <<files, gates, stage, at, branch, tail, ret>>
      /\ tail = <<>> /\ stand["main"] = "off" /\ \A c \in Contender : stand[c] = "idle"
  BY DEF Restart, RInv, Phases
<1>c. \A c \in Contender : Outcome(c)
  BY DEF RInv, Local
<1>2. CASE /\ run.status \in Active
           /\ run' = [run EXCEPT
                !.status = "recovering",
                !.state = [c \in Contender |-> RecoveredState(c)],
                !.review = [c \in Contender |-> [s \in Stage |-> RecoveredReview(c, @[c][s])]]]
           /\ resumed' = TRUE
           /\ pc' = [pc EXCEPT !["main"] = "begin", !["deadline"] = "armed"]
  <2>1. /\ Shaped' /\ run'.status = "recovering"
        /\ run'.state = [c \in Contender |-> RecoveredState(c)]
        /\ run'.review = [c \in Contender |-> [s \in Stage |-> RecoveredReview(c, run.review[c][s])]]
        /\ UNCHANGED <<run.winner, run.exhausted, run.stopped, run.context, run.checkpoint, run.used,
                       run.seal, run.decision, run.checks>>
    BY <1>2, <1>a DEF Shaped, Field
  <2>2. ASSUME NEW c \in Contender, NEW r \in [status : ReviewStatus, of : Nat]
        PROVE  /\ RecoveredReview(c, r) \in [status : ReviewStatus, of : Nat]
               /\ RecoveredReview(c, r).of = r.of
               /\ RecoveredReview(c, r).status = "approved" <=> r.status = "approved"
    BY DEF RecoveredReview, ReviewStatus
  <2>3. \A c \in Contender : \A s \in Stage : run.review[c][s] \in [status : ReviewStatus, of : Nat]
    BY <1>a DEF Recorded
  <2>4. /\ run'.review \in [Contender -> [Stage -> [status : ReviewStatus, of : Nat]]]
        /\ \A c \in Contender : \A s \in Stage :
             /\ run'.review[c][s].of = run.review[c][s].of
             /\ run'.review[c][s].status = "approved" <=> run.review[c][s].status = "approved"
    BY <2>1, <2>2, <2>3
  <2>5. \A c \in Contender : RecoveredState(c) \in ContenderState
    BY <1>a DEF RecoveredState, Recorded, ContenderState, Active
  <2>6. Recorded'
    BY <1>a, <2>1, <2>4, <2>5 DEF Recorded, Active
  <2>7. Memory'
    BY <1>a, <1>2 DEF Restart, Memory
  <2>8. pc' = [[pc EXCEPT !["main"] = "begin"] EXCEPT !["deadline"] = "armed"]
    BY <1>2
  <2>9. /\ DOMAIN pc' = Actor /\ pc'["main"] = "begin" /\ pc'["deadline"] = "armed"
        /\ \A a \in Actor \ {"main", "deadline"} : pc'[a] = pc[a]
    BY <1>a, <1>b, <2>8 DEF Scheduling
  <2>10. Scheduling'
    <3>1. \A a \in Actor : pc'[a] \in PcOf(a)
      BY <1>a, <2>9, Labels DEF Scheduling, MainPc
    <3>2. \A a \in Actor : pc'[a] \in {"budget", "abort"} => ret'[a] \in Return(a)
      BY <1>a, <1>1, <2>9 DEF Scheduling
    <3>3. DOMAIN tail' = {}
      BY <1>1, EmptySeq
    <3>4. QED
      BY <1>a, <1>1, <2>9, <3>1, <3>2, <3>3 DEF Scheduling
  <2>11. stand'["main"] = "begin" /\ \A c \in Contender : stand'[c] = "idle"
    BY <1>1, <1>b, <2>9 DEF stand
  <2>12. \A c \in Contender : Kept(c)
    BY <1>1, <2>1, <2>4, <2>11 DEF Kept
  <2>13. Phases' /\ Positions'
    BY <1>1, <2>1, <2>11 DEF Phases, Positions, Pre, Ends
  <2>14. ASSUME NEW c \in Contender PROVE Outcome(c)'
    BY <1>c, <2>1, <2>11 DEF Outcome, Pre, RecoveredState, Active
  <2>15. QED
    BY <2>6, <2>7, <2>10, <2>12, <2>13, <2>14, Stays
<1>3. CASE UNCHANGED <<resumed, pc>> /\ run' \in {run, [run EXCEPT !.status = "failed"]}
  <2>1. /\ Shaped' /\ run'.status \in {run.status, "failed"}
        /\ UNCHANGED <<run.winner, run.exhausted, run.stopped, run.context, run.checkpoint, run.state,
                       run.review, run.used, run.seal, run.decision, run.checks>>
    BY <1>3, <1>a DEF Recorded, Shaped, Field
  <2>2. Recorded' /\ Memory'
    BY <1>a, <1>3, <2>1 DEF Restart, Recorded, Memory, Finished
  <2>3. Scheduling' /\ stand' = stand
    BY <1>a, <1>1, <1>3 DEF Scheduling, stand
  <2>4. \A c \in Contender : Kept(c)
    BY <1>1, <2>1, <2>3 DEF Kept
  <2>5. Phases' /\ Positions'
    BY <1>1, <2>1, <2>3 DEF RInv, Phases, Positions, Pre, Ends
  <2>6. \A c \in Contender : Outcome(c)'
    BY <1>c, <2>1, <2>3 DEF Outcome
  <2>7. QED
    BY <2>2, <2>3, <2>4, <2>5, <2>6, Stays
<1>4. QED
  BY <1>2, <1>3 DEF Restart

LEMMA InitRInv == Init => RInv
<1> SUFFICES ASSUME Init PROVE RInv
  OBVIOUS
<1> USE DEF Decided, Sealed, Over, Skipped
<1>a. /\ {"main", "deadline", "user"} \subseteq Actor
      /\ \A c \in Contender : c \in Actor /\ c # "main" /\ c # "deadline" /\ c # "user"
  BY Actors
<1>1. Recorded
  <2>1. run \in RunType
    BY DEF Init, RunType, Admitted, DecisionComplete, Active, Finished, ReviewStatus, GateOutcome
  <2>2. QED
    BY <2>1, RunTyped
<1>2. Memory
  <2>1. at \in 1..Len(Order) + 1
    BY OrderAssumption, LenProperties DEF Init
  <2>2. made \in [Contender -> 0..MaxCall] /\ crashes \in 0..MaxCrash
    BY BoundAssumption DEF Init
  <2>3. QED
    BY <2>1, <2>2 DEF Init, Memory, Reason, GateOutcome, Stage
<1>3. pc = [[Idle EXCEPT !["main"] = "begin"] EXCEPT !["deadline"] = "armed"]
  BY DEF Init
<1>4. /\ DOMAIN pc = Actor /\ pc["main"] = "begin" /\ pc["deadline"] = "armed" /\ pc["user"] = "idle"
      /\ \A c \in Contender : pc[c] = "idle"
  BY <1>3, <1>a DEF Idle
<1>5. Scheduling
  <2>1. \A a \in Actor : pc[a] \in PcOf(a) \ {"budget", "abort"}
    BY <1>4, Labels DEF Actor, MainPc
  <2>2. tail \in Seq(Actor) /\ DOMAIN tail = {}
    BY EmptySeq DEF Init
  <2>3. QED
    BY <1>4, <2>1, <2>2 DEF Init, Scheduling
<1>6. stand["main"] = "begin" /\ \A c \in Contender : stand[c] = "idle"
  BY <1>4, <1>a DEF stand
<1>7. Positions /\ Phases
  BY <1>6 DEF Init, Positions, Phases, Pre, Ends
<1>8. ASSUME NEW c \in Contender PROVE Local(c)
  BY <1>6 DEF Init, Local, Progress, Evidence, Outcome, Admitted, DecisionComplete, ArtifactSealed,
     BuilderComplete, Building, Sealing, Judging, Answering, Pre
<1>9. QED
  BY <1>1, <1>2, <1>5, <1>7, <1>8 DEF RInv
LEMMA NextStep == RInv /\ [Next]_vars => RInv'
<1>1. ASSUME RInv, UNCHANGED vars PROVE RInv'
  <2>1. UNCHANGED <<run, files, gates, stage, at, branch, up, tail, pc, ret>>
    BY <1>1 DEF vars, disk, control, local
  <2>2. Scheduling' /\ stand' = stand
    BY <1>1, <2>1 DEF RInv, Scheduling, stand
  <2>3. Recorded' /\ Memory'
    BY <1>1 DEF vars, disk, control, local, RInv, Recorded, Shaped, Memory
  <2>4. QED
    BY <1>1, <2>1, <2>2, <2>3, Elsewhere
<1>2. QED
  BY <1>1, MainStep, TaskStep, BudgetStep, OutsideStep, CancelledStep, CrashStep, RestartStep
     DEF Next, Host

LEMMA Invariance == Spec => []RInv
BY InitRInv, NextStep, PTL DEF Spec

(* Every variable keeps its type, and nobody waits twice in the record's tail,
   however the tasks, the timer, the user and crashes interleave (service.ts
   execute, runContender). *)
THEOREM RunTypeOK == Spec => []TypeOK
BY TypeParts, Invariance, PTL DEF RInv

(* An approval rests on evidence that was all collected for the sealed bytes:
   the gates were not cut off by an abort, and both reviews are of this artifact
   although a restart reuses them (service.ts runContender, runReview, judge). *)
THEOREM ApprovalIsSound == Spec => []ApprovalSound
<1>1. RInv => ApprovalSound
  <2> SUFFICES ASSUME RInv, NEW c \in Contender, run.decision[c] = "approved"
               PROVE  /\ run.checks[c] = "passed"
                      /\ \A s \in Stage : run.review[c][s] = [status |-> "approved", of |-> run.seal[c]]
                      /\ files[c] = run.seal[c]
    BY DEF ApprovalSound, Approved
  <2>1. Evidence(c)
    BY DEF RInv, Local
  <2>2. \A s \in Stage : run.review[c][s] \in [status : ReviewStatus, of : Nat]
    BY DEF RInv, Recorded
  <2>3. "logic" \in Stage
    BY DEF Stage
  <2>4. QED
    BY <2>1, <2>2, <2>3 DEF Evidence
<1>2. QED
  BY <1>1, Invariance, PTL

(* A comparison completes over contenders that all have ended, and the main
   task outlives the contenders' tasks (service.ts execute, selectWinner). *)
THEOREM CompletionIsOver == Spec => []CompletedIsOver
<1>1. RInv => CompletedIsOver
  <2> SUFFICES ASSUME RInv PROVE CompletedIsOver
    OBVIOUS
  <2>1. \A c \in Contender : c \in Actor /\ (pc[c] \in {"budget", "abort"} => ret[c] \in Return(c))
    BY Actors DEF RInv, Scheduling
  <2>2. \A c \in Contender : stand[c] \in {"idle", "done"} => Resting(c)
    BY <2>1 DEF Resting, Return, stand
  <2>3. pc["main"] \in {"over", "off"} => stand["main"] = pc["main"]
    BY Actors, StandsAt
  <2>4. run.status = "completed" \/ pc["main"] \in {"over", "off"} => stand["main"] \in {"over", "off"}
    BY <2>3 DEF RInv, Phases
  <2>5. run.winner \in SUBSET Contender /\ \A c \in Contender : Outcome(c)
    BY DEF RInv, Recorded, Local
  <2>6. stand["main"] \in {"over", "off"} => \A c \in Contender : stand[c] \in {"idle", "done"}
    BY DEF RInv, Phases, Ends
  <2>7. QED
    BY <2>2, <2>4, <2>5, <2>6 DEF CompletedIsOver, Outcome, Over, Approved
<1>2. QED
  BY <1>1, Invariance, PTL

-----------------------------------------------------------------------------
(* What a step keeps of a contender's progress and usage *)
Advances(c) ==
  /\ run'.checkpoint[c] >= run.checkpoint[c]
  /\ run.checkpoint[c] >= ArtifactSealed => run'.seal[c] = run.seal[c]
  /\ Decided(c) => run'.decision[c] = run.decision[c]
  /\ run.checkpoint[c] >= BuilderComplete => run'.used[c] = run.used[c]

Frozen == UNCHANGED <<run.checkpoint, run.seal, run.decision, run.used>>

LEMMA FrozenAdvances ==
  ASSUME Recorded, Frozen
  PROVE  \A c \in Contender : Advances(c)
<1>1. \A c \in Contender : run.checkpoint[c] \in 0..4
  BY DEF Recorded
<1>2. QED
  BY <1>1 DEF Frozen, Advances

LEMMA MainAdvances ==
  ASSUME RInv, Main
  PROVE  \A c \in Contender : Advances(c)
<1>a. Recorded /\ DOMAIN run = Field
  BY Fields DEF RInv
<1>1. CASE MainReady
  <2> DEFINE k == ReadyCheckpoint(run.checkpoint[Order[at]])
  <2>1. /\ run'.checkpoint = [run.checkpoint EXCEPT ![Order[at]] = k]
        /\ UNCHANGED <<run.seal, run.decision, run.used>>
    BY <1>1, <1>a DEF MainReady, Field
  <2>2. \A c \in Contender : run.checkpoint[c] \in 0..4
    BY <1>a DEF Recorded
  <2>3. \A c \in Contender : run'.checkpoint[c] >= run.checkpoint[c]
    BY <1>a, <2>1, <2>2 DEF ReadyCheckpoint, WorktreeReady, Recorded
  <2>4. QED
    BY <2>1, <2>3 DEF Advances
<1>2. CASE MainEnds
  <2>1. CASE run' = [Stopped("budget-exhausted") EXCEPT !.exhausted = TRUE]
    <3> DEFINE r == Stopped("budget-exhausted")
    <3>1. DOMAIN r = Field /\ \A f \in Field \ {"status", "state", "review"} : r[f] = run[f]
      BY <1>a, StoppedIs DEF Finished
    <3> HIDE DEF r
    <3>2. Frozen
      BY <2>1, <3>1 DEF Frozen, Field, r
    <3>3. QED
      BY <1>a, <3>2, FrozenAdvances
  <2>2. CASE run' = Stopped("cancelled")
    <3>1. \A f \in Field \ {"status", "state", "review"} : run'[f] = run[f]
      BY <1>a, <2>2, StoppedIs DEF Finished
    <3>2. QED
      BY <1>a, <3>1, FrozenAdvances DEF Frozen, Field
  <2>3. CASE run' = Swept("failed", "failed")
    <3>1. \A f \in Field \ {"status", "state"} : run'[f] = run[f]
      BY <1>a, <2>3, SweptIs DEF Finished
    <3>2. QED
      BY <1>a, <3>1, FrozenAdvances DEF Frozen, Field
  <2>4. CASE \/ run' = [run EXCEPT !.status = "completed"]
             \/ \E c \in Eligible : run' = [run EXCEPT !.status = "completed", !.winner = {c}]
    BY <1>a, <2>4, FrozenAdvances DEF Frozen, Field
  <2>5. QED
    BY <1>2, <2>1, <2>2, <2>3, <2>4 DEF MainEnds
<1>3. CASE MainContextBuilt \/ MainPrepares \/ MainTakesContender \/ MainStarts
  BY <1>a, <1>3, FrozenAdvances DEF Frozen, Field, MainContextBuilt, MainPrepares, MainTakesContender,
     MainStarts
<1>4. CASE MainBegins \/ MainChecks \/ MainContext \/ MainLoops \/ MainWorktree \/ MainSpawns
           \/ MainJoins \/ MainOver
  BY <1>a, <1>4, FrozenAdvances DEF Frozen, MainBegins, MainChecks, MainContext, MainLoops, MainWorktree,
     MainSpawns, MainJoins, MainOver
<1>5. QED
  BY <1>1, <1>2, <1>3, <1>4 DEF Main

LEMMA TaskAdvances ==
  ASSUME RInv, NEW c \in Contender, Task(c) \/ Child(c)
  PROVE  \A d \in Contender : Advances(d)
<1>a. Recorded /\ DOMAIN run = Field
  BY Fields DEF RInv
<1>b. c \in Actor /\ Progress(c) /\ run.checkpoint[c] \in 0..4
  BY Actors DEF RInv, Local, Recorded
<1>1. CASE BuilderReported(c)
  <2>1. stand[c] \in {"progress", "answer"}
    BY <1>1, <1>b, StandsAt DEF BuilderReported, Turn
  <2>2. /\ run'.used = [run.used EXCEPT ![c] = made[c]]
        /\ UNCHANGED <<run.checkpoint, run.seal, run.decision>>
    BY <1>1, <1>a DEF BuilderReported, Field
  <2>3. run.checkpoint[c] < BuilderComplete /\ \A d \in Contender : run.checkpoint[d] \in 0..4
    BY <1>a, <1>b, <2>1 DEF Progress, Building, Recorded
  <2>a. \A d \in Contender \ {c} : run'.used[d] = run.used[d]
    BY <1>a, <2>2 DEF Recorded
  <2>4. \A d \in Contender : run.checkpoint[d] >= BuilderComplete => run'.used[d] = run.used[d]
    BY <1>b, <2>3, <2>a DEF BuilderComplete
  <2>5. QED
    BY <2>2, <2>3, <2>4 DEF Advances
<1>2. CASE BuilderFinished(c)
  <2>1. stand[c] = "built"
    BY <1>2, <1>b, StandsAt DEF BuilderFinished, Turn
  <2>2. /\ run'.used = [run.used EXCEPT ![c] = made[c]]
        /\ run'.checkpoint = [run.checkpoint EXCEPT ![c] = 2]
        /\ UNCHANGED <<run.seal, run.decision>>
    BY <1>2, <1>a DEF BuilderFinished, BuilderComplete, Field
  <2>3. run.checkpoint[c] < 2
    BY <1>b, <2>1 DEF Progress, Building, BuilderComplete
  <2>a. \A d \in Contender : run.checkpoint[d] \in 0..4
    BY <1>a DEF Recorded
  <2>b. \A d \in Contender : run'.checkpoint[d] = IF d = c THEN 2 ELSE run.checkpoint[d]
    BY <1>a, <2>2 DEF Recorded
  <2>c. \A d \in Contender \ {c} : run'.used[d] = run.used[d]
    BY <1>a, <2>2 DEF Recorded
  <2>4. \A d \in Contender : /\ run'.checkpoint[d] >= run.checkpoint[d]
                             /\ run.checkpoint[d] >= 2 => run'.used[d] = run.used[d]
    BY <2>3, <2>a, <2>b, <2>c
  <2>5. QED
    BY <2>2, <2>4 DEF BuilderComplete, Advances
<1>3. CASE ArtifactIsSealed(c)
  <2>1. stand[c] = "sealed"
    BY <1>3, <1>b, StandsAt DEF ArtifactIsSealed, Turn
  <2>2. /\ run'.seal = [run.seal EXCEPT ![c] = files[c]]
        /\ run'.checkpoint = [run.checkpoint EXCEPT ![c] = 3]
        /\ UNCHANGED <<run.used, run.decision>>
    BY <1>3, <1>a DEF ArtifactIsSealed, ArtifactSealed, Field
  <2>3. run.checkpoint[c] < 3
    BY <1>b, <2>1 DEF Progress, Sealed, ArtifactSealed
  <2>a. \A d \in Contender : run.checkpoint[d] \in 0..4
    BY <1>a DEF Recorded
  <2>b. \A d \in Contender : run'.checkpoint[d] = IF d = c THEN 3 ELSE run.checkpoint[d]
    BY <1>a, <2>2 DEF Recorded
  <2>c. \A d \in Contender \ {c} : run'.seal[d] = run.seal[d]
    BY <1>a, <2>2 DEF Recorded
  <2>4. \A d \in Contender : /\ run'.checkpoint[d] >= run.checkpoint[d]
                             /\ run.checkpoint[d] >= 3 => run'.seal[d] = run.seal[d]
    BY <2>3, <2>a, <2>b, <2>c
  <2>5. QED
    BY <2>2, <2>4 DEF ArtifactSealed, Advances
<1>4. CASE DecisionRecorded(c)
  <2>1. stand[c] = "decided"
    BY <1>4, <1>b, StandsAt DEF DecisionRecorded, Turn
  <2>2. /\ run'.decision = [run.decision EXCEPT ![c] = Decision(c)]
        /\ run'.checkpoint = [run.checkpoint EXCEPT ![c] = 4]
        /\ UNCHANGED <<run.used, run.seal>>
    BY <1>4, <1>a DEF DecisionRecorded, DecisionComplete, Field
  <2>3. ~Decided(c)
    BY <1>b, <2>1 DEF Progress, Judging
  <2>4. \A d \in Contender : /\ run'.checkpoint[d] >= run.checkpoint[d]
                             /\ run.checkpoint[d] >= 4 => run'.decision[d] = run.decision[d]
    BY <1>a, <1>b, <2>2, <2>3 DEF Recorded, Decided, DecisionComplete
  <2>5. QED
    BY <2>2, <2>4 DEF Decided, DecisionComplete, Advances
<1>5. CASE BuilderStarts(c) \/ CheckpointReused(c) \/ ReviewsStart(c) \/ ReviewRuns(c)
           \/ ReviewCloses(c) \/ ReviewsSkipped(c) \/ EarlyStopRecorded(c) \/ Caught(c)
  BY <1>a, <1>5, FrozenAdvances DEF Frozen, Field, BuilderStarts, CheckpointReused, ReviewsStart,
     ReviewRuns, ReviewCloses, WithReview, ReviewsSkipped, EarlyStopRecorded, Caught
<1>6. CASE UNCHANGED run
  BY <1>a, <1>6, FrozenAdvances DEF Frozen
<1>7. ASSUME BuilderWorks(c) \/ BuilderAnswers(c) \/ BuilderReturns(c) \/ TaskEnforces(c) \/ Proceeds(c)
             \/ Seals(c) \/ JudgeStarts(c) \/ JudgeEnds(c) \/ ReviewOpens(c) \/ ReviewerAnswers(c)
             \/ ReviewReported(c) \/ ReviewParsed(c) \/ ReviewerBreaks(c) \/ ReviewNext(c) \/ Decides(c)
             \/ StopsEarly(c) \/ EarlyStopAborts(c) \/ Throws(c)
      PROVE  UNCHANGED run
  BY <1>7 DEF BuilderWorks, BuilderAnswers, BuilderReturns, TaskEnforces, Proceeds, Seals, JudgeStarts,
     JudgeEnds, ReviewOpens, ReviewerAnswers, ReviewReported, ReviewParsed, ReviewerBreaks, ReviewNext,
     Decides, StopsEarly, EarlyStopAborts, Throws
<1>8. QED
  BY <1>1, <1>2, <1>3, <1>4, <1>5, <1>6, <1>7 DEF Task, Child

LEMMA NextAdvances ==
  ASSUME RInv, [Next]_vars
  PROVE  \A c \in Contender : Advances(c)
<1>a. Recorded /\ DOMAIN run = Field
  BY Fields DEF RInv
<1>1. CASE UNCHANGED vars
  BY <1>a, <1>1, FrozenAdvances DEF Frozen, vars
<1>2. CASE Main
  BY <1>2, MainAdvances
<1>3. CASE \E c \in Contender : Task(c) \/ Child(c)
  BY <1>3, TaskAdvances
<1>4. CASE \E a \in Actor : BudgetPublished(a) \/ BudgetAborts(a)
  BY <1>a, <1>4, FrozenAdvances DEF Frozen, Field, BudgetPublished, BudgetAborts
<1>5. CASE DeadlineFires \/ TimePasses \/ Cancel \/ Dispose \/ Crash
  BY <1>a, <1>5, FrozenAdvances DEF Frozen, DeadlineFires, TimePasses, Cancel, Dispose, Crash
<1>6. CASE Cancelled
  <2>1. \A f \in Field \ {"status", "state", "review"} : run'[f] = run[f]
    BY <1>a, <1>6, StoppedIs DEF Cancelled, Finished
  <2>2. QED
    BY <1>a, <2>1, FrozenAdvances DEF Frozen, Field
<1>7. CASE Restart
  BY <1>a, <1>7, FrozenAdvances DEF Frozen, Field, Restart
<1>8. QED
  BY <1>1, <1>2, <1>3, <1>4, <1>5, <1>6, <1>7 DEF Next, Host

(* Progress is never undone: checkpoints only advance, and what is sealed or
   decided stays, whoever updates the record and however often the Host restarts
   (service.ts execute, runContender, scheduleRecovery). *)
THEOREM CheckpointsOnlyAdvance == Spec => CheckpointsAdvance
<1>1. RInv /\ [Next]_vars =>
        [\A c \in Contender :
           /\ run'.checkpoint[c] >= run.checkpoint[c]
           /\ run.checkpoint[c] >= ArtifactSealed => run'.seal[c] = run.seal[c]
           /\ Decided(c) => run'.decision[c] = run.decision[c]]_vars
  BY NextAdvances DEF Advances
<1>2. QED
  BY <1>1, Invariance, PTL DEF Spec, CheckpointsAdvance

(* What a finished Builder has used stays counted: no later report, recovery
   or retry of the run writes it again (service.ts runContender). *)
THEOREM UsageOfFinishedStays == Spec => FinishedUsageStays
<1>1. RInv /\ [Next]_vars =>
        [\A c \in Contender : run.checkpoint[c] >= BuilderComplete => run'.used[c] = run.used[c]]_vars
  BY NextAdvances DEF Advances
<1>2. QED
  BY <1>1, Invariance, PTL DEF Spec, FinishedUsageStays

-----------------------------------------------------------------------------
(* Nobody else moves *)
Alone(a) == \A b \in Actor \ {a} : pc'[b] = pc[b]

LEMMA OneMoves ==
  ASSUME DOMAIN pc = Actor, NEW a, NEW l, Await(a, l) \/ Resume(a, l) \/ Applied(a, l)
  PROVE  Alone(a)
BY DEF Await, Resume, Applied, Alone

LEMMA TaskAlone ==
  ASSUME DOMAIN pc = Actor, NEW c \in Contender, Task(c) \/ Child(c)
  PROVE  pc[c] # "idle" /\ Alone(c)
<1> USE OneMoves DEF Turn
<1>1. CASE BuilderWorks(c) \/ BuilderAnswers(c) \/ ReviewerAnswers(c) \/ Throws(c) \/ ReviewerBreaks(c)
  BY <1>1 DEF BuilderWorks, BuilderAnswers, ReviewerAnswers, Throws, ReviewerBreaks
<1>2. CASE BuilderStarts(c) \/ CheckpointReused(c) \/ BuilderReported(c) \/ BuilderReturns(c)
           \/ BuilderFinished(c)
  BY <1>2 DEF BuilderStarts, CheckpointReused, BuilderReported, BuilderReturns, BuilderFinished
<1>3. CASE TaskEnforces(c)
  <2>1. pc[c] # "idle"
    BY <1>3 DEF TaskEnforces, Enforced
  <2>2. QED
    BY <1>3, <2>1 DEF TaskEnforces, EnforceBudget
<1>4. CASE Proceeds(c) \/ Seals(c) \/ ArtifactIsSealed(c) \/ JudgeStarts(c) \/ ReviewsStart(c)
  BY <1>4 DEF Proceeds, Seals, ArtifactIsSealed, JudgeStarts, ReviewsStart
<1>5. CASE JudgeEnds(c)
  BY <1>5 DEF JudgeEnds
<1>6. CASE ReviewOpens(c) \/ ReviewRuns(c) \/ ReviewReported(c) \/ ReviewParsed(c) \/ ReviewCloses(c)
           \/ ReviewNext(c)
  BY <1>6 DEF ReviewOpens, ReviewRuns, ReviewReported, ReviewParsed, ReviewCloses, ReviewNext
<1>7. CASE ReviewsSkipped(c) \/ Decides(c) \/ DecisionRecorded(c) \/ StopsEarly(c)
           \/ EarlyStopRecorded(c) \/ EarlyStopAborts(c) \/ Caught(c)
  BY <1>7 DEF ReviewsSkipped, Decides, DecisionRecorded, StopsEarly, EarlyStopRecorded, EarlyStopAborts,
     Caught
<1>8. QED
  BY <1>1, <1>2, <1>3, <1>4, <1>5, <1>6, <1>7 DEF Task, Child

(* A contender that an early stop ended is not started again: neither by the
   run it was stopped in, nor by a restart (service.ts execute). *)
THEOREM StoppedIsNotRestarted == Spec => StoppedStayStopped
<1>1. ASSUME RInv, [Next]_vars, NEW c \in run.stopped, pc[c] = "idle"
      PROVE  pc'[c] = "idle"
  <2>1. /\ c \in Contender /\ c \in Actor /\ c # "main" /\ c # "deadline" /\ c # "user"
        /\ DOMAIN pc = Actor
    BY <1>1, Actors DEF RInv, Recorded, Scheduling
  <2> USE <2>1, <1>1, OneMoves DEF Alone, Turn
  <2>2. CASE UNCHANGED vars
    BY <2>2 DEF vars
  <2>3. CASE MainSpawns
    BY <2>3 DEF MainSpawns, Work
  <2>4. CASE MainOver
    BY <2>4 DEF MainOver
  <2>5. CASE MainBegins \/ MainChecks \/ MainContext \/ MainContextBuilt \/ MainPrepares \/ MainLoops
             \/ MainTakesContender \/ MainWorktree \/ MainReady \/ MainStarts \/ MainJoins \/ MainEnds
    <3>1. Alone("main")
      <4>1. \E l : Await("main", l) \/ Resume("main", l) \/ Applied("main", l)
        BY <2>5 DEF MainBegins, EnforceBudget, MainChecks, MainContext, MainContextBuilt, MainPrepares,
           MainLoops, MainTakesContender, MainWorktree, MainReady, MainStarts, MainJoins, MainEnds,
           MainCatches, Finish
      <4>2. QED
        BY <4>1
    <3>2. QED
      BY <3>1
  <2>6. CASE \E d \in Contender : Task(d) \/ Child(d)
    BY <2>6, TaskAlone
  <2>7. CASE \E a \in Actor : BudgetPublished(a) \/ BudgetAborts(a)
    BY <2>7 DEF BudgetPublished, BudgetAborts
  <2>8. CASE DeadlineFires \/ Cancel \/ Cancelled
    BY <2>8 DEF DeadlineFires, EnforceBudget, Cancel, Cancelled
  <2>9. CASE TimePasses \/ Dispose
    BY <2>9 DEF TimePasses, Dispose
  <2>10. CASE Crash
    BY <2>10 DEF Crash, Idle
  <2>11. CASE Restart
    BY <2>11 DEF Restart
  <2>12. QED
    BY <2>2, <2>3, <2>4, <2>5, <2>6, <2>7, <2>8, <2>9, <2>10, <2>11 DEF Next, Host, Main
<1>2. RInv /\ [Next]_vars => [\A c \in run.stopped : pc[c] = "idle" => pc'[c] = "idle"]_vars
  BY <1>1
<1>3. QED
  BY <1>2, Invariance, PTL DEF Spec, StoppedStayStopped
-----------------------------------------------------------------------------
(* The main task has ended, and with it the run *)
Gone == pc["main"] \in {"over", "off"}

(* A run is over for its tasks, unless a cancellation was published under them *)
Concluded ==
  /\ run.status \in Finished => Gone \/ (run.status = "cancelled" /\ "user" \in Trouble)
  /\ pc["user"] = "cancel" => "user" \in Trouble

(* What has ended, other than by a user's cancellation, does not begin again *)
Final ==
  run.status \in Finished /\ (run.status = "cancelled" => "user" \notin Trouble)
    => run'.status \notin Active

LEMMA Apart == Active \cap Finished = {}
BY DEF Active, Finished

(* A step of a task at work *)
LEMMA WorksOn ==
  ASSUME Concluded, ~Gone, run'.status \in Active \cup {run.status},
         pc'["user"] = "cancel" => pc["user"] = "cancel"
  PROVE  Concluded' /\ Final
BY Apart DEF Concluded, Final

(* A step that leaves the status alone *)
LEMMA GoesOn ==
  ASSUME Concluded, run'.status = run.status, Gone => Gone',
         pc'["user"] = "cancel" => "user" \in Trouble
  PROVE  Concluded' /\ Final
BY Apart DEF Concluded, Final

(* A contender at work has a main task that waits for it *)
LEMMA TaskConcludes ==
  ASSUME RInv, Concluded, NEW c \in Contender, Task(c) \/ Child(c)
  PROVE  Concluded' /\ Final
<1> USE DEF Turn
<1>a. DOMAIN run = Field /\ DOMAIN pc = Actor
  BY Fields DEF RInv, Scheduling
<1>b. c \in Actor /\ "main" \in Actor /\ "user" \in Actor /\ c # "user"
  BY Actors
<1>1. pc[c] \notin {"idle", "done", "budget", "abort"}
  BY DEF Task, Child, BuilderStarts, CheckpointReused, BuilderWorks, BuilderAnswers, BuilderReported,
     BuilderReturns, BuilderFinished, TaskEnforces, Enforced, Proceeds, Seals, ArtifactIsSealed,
     JudgeStarts, JudgeEnds, ReviewsStart, ReviewOpens, ReviewRuns, ReviewerAnswers, ReviewReported,
     ReviewParsed, ReviewerBreaks, ReviewCloses, ReviewNext, ReviewsSkipped, Decides, DecisionRecorded,
     StopsEarly, EarlyStopRecorded, EarlyStopAborts, Throws, Caught
<1>2. ~Gone
  <2>1. stand[c] \notin {"idle", "done"}
    BY <1>1, <1>b, StandsAt
  <2>2. Gone => stand["main"] \in Ends
    BY <1>b, StandsAt DEF Gone, Ends
  <2>3. QED
    BY <2>1, <2>2 DEF RInv, Phases
<1>3. run'.status \in Active \cup {run.status}
  <2>1. CASE UNCHANGED run
    BY <2>1
  <2>2. CASE BuilderStarts(c) \/ CheckpointReused(c) \/ BuilderReported(c) \/ BuilderFinished(c)
             \/ ArtifactIsSealed(c) \/ ReviewsStart(c)
    BY <2>2, <1>a DEF Field, Active, BuilderStarts, CheckpointReused, BuilderReported, BuilderFinished,
       ArtifactIsSealed, ReviewsStart
  <2>3. CASE ReviewRuns(c) \/ ReviewCloses(c) \/ ReviewsSkipped(c) \/ DecisionRecorded(c)
             \/ EarlyStopRecorded(c) \/ Caught(c)
    BY <2>3, <1>a DEF Field, ReviewRuns, ReviewCloses, WithReview, ReviewsSkipped, DecisionRecorded,
       EarlyStopRecorded, Caught
  <2>4. ASSUME BuilderWorks(c) \/ BuilderAnswers(c) \/ BuilderReturns(c) \/ TaskEnforces(c)
               \/ Proceeds(c) \/ Seals(c) \/ JudgeStarts(c) \/ JudgeEnds(c) \/ ReviewOpens(c)
               \/ ReviewerAnswers(c) \/ ReviewReported(c) \/ ReviewParsed(c) \/ ReviewerBreaks(c)
               \/ ReviewNext(c) \/ Decides(c) \/ StopsEarly(c) \/ EarlyStopAborts(c) \/ Throws(c)
        PROVE  UNCHANGED run
    BY <2>4 DEF BuilderWorks, BuilderAnswers, BuilderReturns, TaskEnforces, Proceeds, Seals,
       JudgeStarts, JudgeEnds, ReviewOpens, ReviewerAnswers, ReviewReported, ReviewParsed,
       ReviewerBreaks, ReviewNext, Decides, StopsEarly, EarlyStopAborts, Throws
  <2>5. QED
    BY <2>1, <2>2, <2>3, <2>4 DEF Task, Child
<1>4. pc'["user"] = pc["user"]
  BY <1>a, <1>b, TaskAlone DEF Alone
<1>5. QED
  BY <1>2, <1>3, <1>4, WorksOn

LEMMA MainConcludes ==
  ASSUME RInv, Concluded, Main
  PROVE  Concluded' /\ Final
<1> USE DEF Turn
<1>a. DOMAIN run = Field /\ DOMAIN pc = Actor
  BY Fields DEF RInv, Scheduling
<1>b. "main" \in Actor /\ "user" \in Actor /\ "user" \notin Contender /\ "deadline" # "user"
  BY Actors
<1>1. CASE MainEnds
  <2>1. pc' = [pc EXCEPT !["main"] = "over"]
    BY <1>1 DEF MainEnds, Applied
  <2>2. run'.status \in Finished
    <3>1. CASE run' = [Stopped("budget-exhausted") EXCEPT !.exhausted = TRUE]
      <4> DEFINE r == Stopped("budget-exhausted")
      <4>1. DOMAIN r = Field /\ r.status = "budget-exhausted"
        BY StoppedIs DEF RInv, Finished
      <4> HIDE DEF r
      <4>2. QED
        BY <3>1, <4>1 DEF r, Field, Finished
    <3>2. CASE run' = Stopped("cancelled")
      BY <3>2, StoppedIs DEF RInv, Finished
    <3>3. CASE run' = Swept("failed", "failed")
      BY <3>3, SweptIs DEF RInv, Finished
    <3>4. CASE \/ run' = [run EXCEPT !.status = "completed"]
               \/ \E c \in Eligible : run' = [run EXCEPT !.status = "completed", !.winner = {c}]
      BY <1>a, <3>4 DEF Field, Finished
    <3>5. QED
      BY <1>1, <3>1, <3>2, <3>3, <3>4 DEF MainEnds
  <2>3. Gone' /\ pc'["user"] = pc["user"]
    BY <1>a, <1>b, <2>1, Actors DEF Gone
  <2>4. QED
    BY <2>2, <2>3, Apart DEF Concluded, Final
<1>2. CASE MainOver
  <2>1. /\ run' = run /\ pc'["user"] = pc["user"]
        /\ pc'["main"] = "off"
    BY <1>2, <1>a, <1>b DEF MainOver
  <2>2. QED
    BY <2>1, GoesOn DEF Concluded, Gone
<1>3. CASE MainSpawns
  <2>1. run' = run /\ pc'["user"] = pc["user"] /\ ~Gone
    BY <1>3, <1>b DEF MainSpawns, Gone
  <2>2. QED
    BY <2>1, WorksOn
<1>4. CASE MainContextBuilt \/ MainPrepares \/ MainTakesContender \/ MainReady \/ MainStarts
  <2>1. run'.status \in Active \cup {run.status} /\ ~Gone
    BY <1>4, <1>a DEF MainContextBuilt, MainPrepares, MainTakesContender, MainReady, MainStarts, Field,
       Active, Gone
  <2>2. \E l : Applied("main", l)
    BY <1>4 DEF MainContextBuilt, MainPrepares, MainTakesContender, MainReady, MainStarts
  <2>3. pc'["user"] = pc["user"]
    BY <1>a, <1>b, <2>2 DEF Applied
  <2>4. QED
    BY <2>1, <2>3, WorksOn
<1>5. CASE MainBegins \/ MainChecks \/ MainContext \/ MainLoops \/ MainWorktree \/ MainJoins
  <2>1. run' = run /\ ~Gone
    BY <1>5 DEF MainBegins, MainChecks, MainContext, MainLoops, MainWorktree, MainJoins, Gone
  <2>2. \E l : Await("main", l) \/ Resume("main", l)
    BY <1>5 DEF MainBegins, EnforceBudget, MainChecks, MainContext, MainLoops, MainWorktree, MainJoins,
       MainCatches, Finish
  <2>3. pc'["user"] = pc["user"]
    BY <1>a, <1>b, <2>2 DEF Await, Resume
  <2>4. QED
    BY <2>1, <2>3, WorksOn
<1>6. QED
  BY <1>1, <1>2, <1>3, <1>4, <1>5 DEF Main

LEMMA NextConcludes ==
  ASSUME RInv, Concluded, [Next]_vars
  PROVE  Concluded' /\ Final
<1> USE DEF Turn
<1>a. DOMAIN run = Field /\ DOMAIN pc = Actor
  BY Fields DEF RInv, Scheduling
<1>b. "main" \in Actor /\ "user" \in Actor /\ "deadline" \in Actor
  BY Actors
<1>1. CASE UNCHANGED vars
  BY <1>1, GoesOn DEF vars, Concluded, Gone
<1>2. CASE Main
  BY <1>2, MainConcludes
<1>3. CASE \E c \in Contender : Task(c) \/ Child(c)
  BY <1>3, TaskConcludes
<1>4. ASSUME NEW a \in Actor, BudgetPublished(a) \/ BudgetAborts(a)
      PROVE  Concluded' /\ Final
  <2>1. a # "user"
    BY <1>4, Actors DEF BudgetPublished, BudgetAborts, RInv, Scheduling, Return
  <2>2. run'.status = run.status
    BY <1>4, <1>a DEF BudgetPublished, BudgetAborts, Field
  <2>3. /\ pc'["user"] = pc["user"]
        /\ Gone => a # "main" /\ pc'["main"] = pc["main"]
    BY <1>4, <1>a, <1>b, <2>1 DEF BudgetPublished, BudgetAborts, Applied, Resume, Gone
  <2>4. QED
    BY <2>2, <2>3, GoesOn DEF Concluded, Gone
<1>5. CASE DeadlineFires
  <2>1. run' = run /\ pc'["user"] = pc["user"] /\ pc'["main"] = pc["main"]
    BY <1>5, <1>a, <1>b DEF DeadlineFires, EnforceBudget, Await, Resume
  <2>2. QED
    BY <2>1, GoesOn DEF Concluded, Gone
<1>6. CASE TimePasses \/ Dispose
  BY <1>6, GoesOn DEF TimePasses, Dispose, Concluded, Gone
<1>7. CASE Cancel
  <2>1. run' = run /\ pc'["main"] = pc["main"] /\ "user" \in Trouble
    BY <1>7, <1>a, <1>b DEF Cancel, Await
  <2>2. QED
    BY <2>1, GoesOn DEF Gone
<1>8. CASE Cancelled
  <2>1. run'.status = "cancelled"
    BY <1>8, StoppedIs DEF RInv, Cancelled, Finished
  <2>2. "user" \in Trouble
    BY <1>8 DEF Cancelled, Concluded
  <2>3. QED
    BY <2>1, <2>2, Apart DEF Concluded, Final, Finished
<1>9. CASE Crash
  <2>1. run' = run /\ pc'["main"] = "off" /\ pc'["user"] = "idle"
    BY <1>9, Actors DEF Crash, Idle
  <2>2. QED
    BY <2>1, GoesOn DEF Gone
<1>10. CASE Restart
  <2>1. stand["main"] = "off"
    BY <1>10 DEF Restart, RInv, Phases
  <2>2. Gone
    BY <1>b, <2>1, Labels DEF RInv, Scheduling, Return, stand, Gone
  <2>3. CASE run.status \in Active
    <3>1. pc'["user"] = pc["user"]
      BY <1>10, <1>a, <1>b DEF Restart
    <3>2. run'.status \in Active \/ pc'["main"] = pc["main"]
      BY <1>10, <1>a DEF Restart, Field, Active
    <3>3. Final
      BY <2>3, Apart DEF Final
    <3>4. run'.status \in Active \/ Gone'
      BY <2>2, <3>2 DEF Gone
    <3>5. QED
      BY <3>1, <3>3, <3>4, Apart DEF Concluded
  <2>4. CASE run.status \notin Active
    BY <1>10, <2>4, GoesOn DEF Restart, Concluded, Gone
  <2>5. QED
    BY <2>3, <2>4
<1>11. QED
  BY <1>1, <1>2, <1>3, <1>4, <1>5, <1>6, <1>7, <1>8, <1>9, <1>10 DEF Next, Host

LEMMA ConcludedAlways == Spec => [](RInv /\ Concluded)
<1>1. Init => Concluded
  <2>1. ASSUME Init PROVE run.status \notin Finished /\ pc["user"] = "idle"
    BY <2>1, Actors DEF Init, Finished, Idle
  <2>2. QED
    BY <2>1 DEF Concluded
<1>2. QED
  BY <1>1, InitRInv, NextStep, NextConcludes, PTL DEF Spec

(* A run that completed, failed or exhausted its budget stays over, whatever
   updates are still in the record's tail and whatever restarts follow: of the
   ways to end a run only a cancellation is published too early (service.ts
   execute, cancel). *)
THEOREM ConcludedIsFinal == Spec => ConcludedStays
<1>1. Final => (run.status \in Finished \ {"cancelled"} => run'.status \notin Active)
  BY DEF Final
<1>2. QED
  BY <1>1, NextConcludes, ConcludedAlways, PTL DEF Spec, ConcludedStays

(* TerminalIsFinal fails through the user only: in a run that nobody cancels,
   every status that says it is over is final (service.ts cancel). *)
THEOREM FinalUnlessCancelled ==
  ASSUME "user" \notin Trouble
  PROVE  Spec => TerminalIsFinal
<1>1. RInv /\ Final => (run.status \notin Active => run'.status \notin Active)
  BY DEF Final, RInv, Recorded
<1>2. QED
  BY <1>1, NextConcludes, ConcludedAlways, PTL DEF Spec, TerminalIsFinal
=============================================================================
