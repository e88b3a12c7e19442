------------------------------ MODULE Approval ------------------------------
(***************************************************************************)
(* The approval decision (service.ts decideApproval): the deterministic    *)
(* checks and the reviews of one candidate are nodes of five gate stages,  *)
(* and the stages' outcomes decide.  A node is [stage, required, status];  *)
(* the code counts nodes where this module compares sets of them, and for  *)
(* a review, required is looked up in the configuration by its id.         *)
(***************************************************************************)

(* STAGES *)
GateStage == {"integrity", "quality", "test", "logic", "security"}

CheckStatus == {"passed", "failed", "error", "cancelled", "skipped"}
ReviewStatus == {"queued", "running", "approved", "rejected", "failed", "cancelled", "skipped"}

Nodes(status) == [stage : GateStage, required : BOOLEAN, status : status]

RequiredChecksPassed(checks) == \A k \in checks : k.required => k.status = "passed"

(* The stages that must have a required node *)
RequiredByPolicy(policy) == {"integrity", "quality"} \cup policy

Required(nodes, s) == {n \in nodes : n.stage = s /\ n.required}

UnavailableNode(checks, reviews, s) ==
  \/ \E k \in Required(checks, s) : k.status \in {"error", "cancelled", "skipped"}
  \/ \E r \in Required(reviews, s) : r.status \in {"failed", "cancelled", "skipped"}

(* policy: the stages among test, logic and security that the rules require *)
StageOutcome(checks, reviews, policy, s) ==
  IF Required(checks, s) = {} /\ Required(reviews, s) = {}
  THEN IF s \in RequiredByPolicy(policy) THEN "not-configured" ELSE "approved"
  ELSE IF /\ \A k \in Required(checks, s) : k.status = "passed"
          /\ \A r \in Required(reviews, s) : r.status = "approved"
  THEN "approved"
  ELSE IF UnavailableNode(checks, reviews, s) THEN "unavailable" ELSE "rejected"

decideApproval(checks, reviews, policy) ==
  LET outcomes == {StageOutcome(checks, reviews, policy, s) : s \in GateStage} IN
  IF outcomes = {"approved"} THEN "approved"
  ELSE IF outcomes \cap {"rejected", "not-configured"} # {} THEN "rejected"
  ELSE "unavailable"
=============================================================================
