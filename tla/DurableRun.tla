----------------------------- MODULE DurableRun -----------------------------
(***************************************************************************)
(* What a run record promises its callers: one durable run state that is   *)
(* only ever extended, one update at a time, in the order in which the     *)
(* updates were submitted.  An update that was acknowledged is in the      *)
(* durable state for ever; one that was rejected never entered it; one     *)
(* that a crash caught in flight either did or did not.                    *)
(*                                                                         *)
(* A state is named by the sequence of updates it is the result of.        *)
(***************************************************************************)
EXTENDS Naturals, Sequences

CONSTANT Update

VARIABLES
  applied,   \* the durable state: the updates it reflects, oldest first
  queue,     \* updates submitted and not answered
  outcome    \* what each caller was told

dvars == <<applied, queue, outcome>>

Outcome == {"new", "queued", "acked", "rejected", "unknown"}

Reflects(s, u) == \E i \in DOMAIN s : s[i] = u

DurableInit ==
  /\ applied = <<>>
  /\ queue = <<>>
  /\ outcome = [u \in Update |-> "new"]

DurableSubmit(u) ==
  /\ outcome[u] = "new"
  /\ queue' = Append(queue, u)
  /\ outcome' = [outcome EXCEPT ![u] = "queued"]
  /\ UNCHANGED applied

DurableCommit ==
  /\ queue # <<>>
  /\ ~Reflects(applied, Head(queue))
  /\ applied' = Append(applied, Head(queue))
  /\ UNCHANGED <<queue, outcome>>

DurableAnswer(answer) ==
  /\ queue # <<>>
  /\ (answer = "acked") <=> Reflects(applied, Head(queue))
  /\ outcome' = [outcome EXCEPT ![Head(queue)] = answer]
  /\ queue' = Tail(queue)
  /\ UNCHANGED applied

DurableCrash ==
  /\ outcome' = [u \in Update |-> IF outcome[u] = "queued" THEN "unknown" ELSE outcome[u]]
  /\ queue' = <<>>
  /\ \/ UNCHANGED applied
     \/ queue # <<>> /\ applied' = Append(applied, Head(queue))

DurableNext ==
  \/ \E u \in Update : DurableSubmit(u)
  \/ DurableCommit
  \/ \E answer \in {"acked", "rejected"} : DurableAnswer(answer)
  \/ DurableCrash

DurableSpec == DurableInit /\ [][DurableNext]_dvars
=============================================================================
