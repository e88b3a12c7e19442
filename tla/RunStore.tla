------------------------------ MODULE RunStore ------------------------------
(***************************************************************************)
(* One run of the Arena store (store.ts): the serialized writer            *)
(* ArenaRunRecord.update, ArenaStore.create, and ArenaStore.load, over the *)
(* append-only events.jsonl and the state.json projection, with process    *)
(* crashes and failing disk writes.                                        *)
(*                                                                         *)
(* Abstractions.  A run state is the sequence of updates (mutate closures) *)
(* it results from; its revision is that sequence's length, because every  *)
(* update adds one to the revision.  A line of events.jsonl is a record:   *)
(* ok says it parses as an event of this run.  A write that stops early    *)
(* leaves nothing, part of the line, the line without its newline, or all  *)
(* of it; bytes written behind an unterminated line join it and the joined *)
(* line no longer parses.  A crash is one of the process: what a completed *)
(* write handed to the kernel is kept.                                     *)
(***************************************************************************)
EXTENDS Naturals, Sequences

CONSTANTS
  Update,      \* the updates the service will ever submit to this run
  LiveFault    \* what a failing append can leave behind in a live process

WriteExtent == {"nothing", "part", "line", "all"}

ASSUME LiveFaultAssumption == LiveFault \subseteq WriteExtent

VARIABLES
  dir,         \* the run's directory exists
  lines,       \* events.jsonl, line by line
  ended,       \* the text is empty or ends with a newline
  projection,  \* state.json: <<>> when absent, <<s>> when it holds state s
  up,          \* the Host process is running
  record,      \* the store holds an ArenaRunRecord for the run
  current,     \* ArenaRunRecord.current
  nextSeq,     \* ArenaRunRecord.nextSeq
  queue,       \* operations chained on ArenaRunRecord.tail, oldest first
  phase,       \* how far the operation at the head has come
  pending,     \* the event it is writing
  outcome      \* what each update's caller was told

disk == <<dir, lines, ended, projection>>
memory == <<up, record, current, nextSeq, queue, phase, pending>>
vars == <<disk, memory, outcome>>

State == Seq(Update)
Event(n, s) == [ok |-> TRUE, seq |-> n, state |-> s]
Junk == [ok |-> FALSE, seq |-> 0, state |-> <<>>]
Line == [ok : BOOLEAN, seq : Nat, state : State]

Reflects(s, u) == \E i \in DOMAIN s : s[i] = u

-----------------------------------------------------------------------------
(* The text of events.jsonl *)

Put(line) ==
  IF ended THEN Append(lines, line) ELSE [lines EXCEPT ![Len(lines)] = Junk]

Write(e, extent) ==
  /\ lines' = CASE extent = "nothing" -> lines
                [] extent = "part"    -> Put(Junk)
                [] OTHER              -> Put(e)
  /\ ended' = CASE extent = "nothing" -> ended
                [] extent = "all"     -> TRUE
                [] OTHER              -> FALSE

(* load: line i must parse and carry the next sequence number *)
Good(i) == lines[i].ok /\ lines[i].seq = i - 1

MutantTornIgnored == FALSE
MutantTornEvenComplete == lines # <<>> /\ ~Good(Len(lines))
Torn == lines # <<>> /\ ~ended /\ ~Good(Len(lines))

Kept == IF Torn THEN Len(lines) - 1 ELSE Len(lines)

Loadable == Kept > 0 /\ \A i \in 1..Kept : Good(i)

Recovered == lines[Kept].state

-----------------------------------------------------------------------------
Init ==
  /\ dir = FALSE /\ lines = <<>> /\ ended = TRUE /\ projection = <<>>
  /\ up = TRUE /\ record = FALSE /\ current = <<>> /\ nextSeq = 0
  /\ queue = <<>> /\ phase = "idle" /\ pending = Junk
  /\ outcome = [u \in Update |-> "new"]

(* ArenaStore.create: a fresh directory and its first event *)
Create ==
  /\ up /\ ~record /\ phase = "idle"
  /\ ~dir
  /\ dir' = TRUE
  /\ pending' = Event(0, <<>>)
  /\ phase' = "append"
  /\ UNCHANGED <<lines, ended, projection, up, record, current, nextSeq, queue, outcome>>

(* ArenaRunRecord.update, called: the operation is chained on the tail *)
Submit(u) ==
  /\ up /\ record
  /\ outcome[u] = "new"
  /\ queue' = Append(queue, u)
  /\ outcome' = [outcome EXCEPT ![u] = "queued"]
  /\ UNCHANGED <<disk, up, record, current, nextSeq, phase, pending>>

(* The next state is the current one mutated, cloned when the operation runs *)
MutantDraftOfProjection(u) ==
  Event(nextSeq, IF projection = <<>> THEN <<u>> ELSE Append(projection[1], u))
Draft(u) == Event(nextSeq, Append(current, u))

MutantBeginProjects ==
  /\ up /\ phase = "idle"
  /\ queue # <<>>
  /\ pending' = Draft(Head(queue))
  /\ phase' = "append"
  /\ projection' = <<Draft(Head(queue)).state>>
  /\ UNCHANGED <<dir, lines, ended, up, record, current, nextSeq, queue, outcome>>

Begin ==
  /\ up /\ phase = "idle"
  /\ queue # <<>>
  /\ pending' = Draft(Head(queue))
  /\ phase' = "append"
  /\ UNCHANGED <<disk, up, record, current, nextSeq, queue, outcome>>

MutantSettleSilently(answer) ==
  /\ phase' = "idle"
  /\ queue' = IF record THEN Tail(queue) ELSE queue
  /\ outcome' = IF record /\ answer = "acked" THEN [outcome EXCEPT ![Head(queue)] = answer]
                                             ELSE outcome

(* The head operation is over.  A creation has no operation in the queue. *)
Settle(answer) ==
  /\ phase' = "idle"
  /\ queue' = IF record THEN Tail(queue) ELSE queue
  /\ outcome' = IF record THEN [outcome EXCEPT ![Head(queue)] = answer] ELSE outcome

(* mutate throws, or assertRunState refuses the draft *)
Refuse ==
  /\ up /\ phase = "idle"
  /\ queue # <<>>
  /\ Settle("rejected")
  /\ UNCHANGED <<disk, up, record, current, nextSeq, pending>>

MutantSameSeq(e) == e.seq
SeqAfter(e) == e.seq + 1

AppendOk ==
  /\ up /\ phase = "append"
  /\ Write(pending, "all")
  /\ current' = pending.state
  /\ nextSeq' = SeqAfter(pending)
  /\ phase' = "project"
  /\ UNCHANGED <<dir, projection, up, record, queue, pending, outcome>>

(* appendFile rejects: current and nextSeq stay, the chain goes on *)
AppendFails(extent) ==
  /\ up /\ phase = "append"
  /\ Write(pending, extent)
  /\ Settle("rejected")
  /\ UNCHANGED <<dir, projection, up, record, current, nextSeq, pending>>

(* state.json is replaced, or the failure is only a diagnostic *)
Project ==
  /\ up /\ phase = "project"
  /\ projection' \in {projection, <<current>>}
  /\ record' = TRUE
  /\ Settle("acked")
  /\ UNCHANGED <<dir, lines, ended, up, current, nextSeq, pending>>

MutantForgetKeepsChain ==
  /\ record' = FALSE /\ current' = <<>> /\ nextSeq' = 0
  /\ queue' = queue /\ phase' = "idle" /\ pending' = Junk

(* What the process held in memory *)
Forget ==
  /\ record' = FALSE /\ current' = <<>> /\ nextSeq' = 0
  /\ queue' = <<>> /\ phase' = "idle" /\ pending' = Junk

Crash ==
  /\ up
  /\ up' = FALSE
  /\ Forget
  /\ outcome' = [u \in Update |-> IF outcome[u] = "queued" THEN "unknown" ELSE outcome[u]]
  /\ IF phase = "append" THEN \E extent \in WriteExtent : Write(pending, extent)
                         ELSE UNCHANGED <<lines, ended>>
  /\ projection' \in {projection} \cup (IF phase = "project" THEN {<<current>>} ELSE {})
  /\ UNCHANGED dir

(* ArenaStore.initialize on a restart: the torn final line is truncated, an
   unterminated complete one gets its newline, and the record starts there *)
Load ==
  /\ ~up /\ Loadable
  /\ up' = TRUE /\ record' = TRUE
  /\ current' = Recovered
  /\ nextSeq' = Kept
  /\ lines' = SubSeq(lines, 1, Kept)
  /\ ended' = TRUE
  /\ UNCHANGED <<dir, projection, queue, phase, pending, outcome>>

(* A log that does not load, or whose repair fails, leaves the run out *)
LoadRefused ==
  /\ ~up
  /\ ~Loadable \/ ~ended
  /\ up' = TRUE
  /\ UNCHANGED <<disk, record, current, nextSeq, queue, phase, pending, outcome>>

Next ==
  \/ Create
  \/ \E u \in Update : Submit(u)
  \/ Begin
  \/ Refuse
  \/ AppendOk
  \/ \E extent \in LiveFault : AppendFails(extent)
  \/ Project
  \/ Crash
  \/ Load
  \/ LoadRefused

Spec == Init /\ [][Next]_vars

(* The event loop runs a chained operation, and a disk call returns, one way
   or the other; crashes, restarts and callers are not fair *)
Fairness ==
  /\ WF_vars(Begin \/ Refuse)
  /\ WF_vars(AppendOk \/ \E extent \in LiveFault : AppendFails(extent))
  /\ WF_vars(Project)

FairSpec == Spec /\ Fairness

-----------------------------------------------------------------------------
(* Types, and that a stopped process holds nothing of the run *)
TypeOK ==
  /\ dir \in BOOLEAN /\ ended \in BOOLEAN /\ up \in BOOLEAN /\ record \in BOOLEAN
  /\ lines \in Seq(Line)
  /\ projection \in Seq(State) /\ Len(projection) <= 1
  /\ current \in State /\ nextSeq \in Nat
  /\ queue \in Seq(Update)
  /\ phase \in {"idle", "append", "project"}
  /\ pending \in Line
  /\ outcome \in [Update -> {"new", "queued", "acked", "rejected", "unknown"}]
  /\ ~up => ~record /\ queue = <<>> /\ phase = "idle"
  /\ ~record => queue = <<>>

(* Recovery is exact: at any moment, what a restart would read from
   events.jsonl is the state the live record answers snapshot() with, and it
   continues with the same sequence number. *)
RestartSeesCurrent ==
  record => Loadable /\ Recovered = current /\ Kept = nextSeq

(* An update whose caller was told it is done is in the state every later
   restart loads, and the run does load. *)
AckedReadable ==
  \A u \in Update : outcome[u] = "acked" => Loadable /\ Reflects(Recovered, u)

(* Whatever a failing append leaves behind, a restart never loads a state
   that lacks an acknowledged update: it loads the whole truth or refuses. *)
NoSilentLoss ==
  Loadable => \A u \in Update : outcome[u] = "acked" => Reflects(Recovered, u)

(* state.json never runs ahead of the authoritative log: the state it shows
   is one the log has reached. *)
ProjectionBehindLog ==
  projection # <<>> =>
    Loadable /\ \E i \in 1..Kept : lines[i].state = projection[1]

(* Every submitted update is answered, or the process dies: a failed or
   refused operation does not stall the ones chained behind it. *)
UpdatesSettle ==
  \A u \in Update : (outcome[u] = "queued") ~> (outcome[u] # "queued")

(* The log on disk implements one durable state that updates extend in the
   order they were submitted. *)
Durable == INSTANCE DurableRun WITH applied <- IF Loadable THEN Recovered ELSE <<>>

ImplementsDurableRun == Durable!DurableSpec
=============================================================================
