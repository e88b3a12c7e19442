--------------------------- MODULE ApprovalProofs ---------------------------
(* Facts about decideApproval for every set of checks and reviews. *)
EXTENDS Approval, TLAPS

(* Every outcome of a stage is one of four. *)
LEMMA StageOutcomes ==
  ASSUME NEW checks, NEW reviews, NEW policy, NEW s
  PROVE  StageOutcome(checks, reviews, policy, s)
           \in {"approved", "not-configured", "unavailable", "rejected"}
BY DEF StageOutcome

(* A candidate is approved exactly when it is unanimous: every required node
   of every stage is favourable, and no stage that the policy requires is
   empty.  In particular an aborted gate or review never counts as a pass. *)
THEOREM ApprovedIsUnanimous ==
  ASSUME NEW checks \in SUBSET Nodes(CheckStatus),
         NEW reviews \in SUBSET Nodes(ReviewStatus),
         NEW policy \in SUBSET GateStage
  PROVE  decideApproval(checks, reviews, policy) = "approved" <=>
           /\ RequiredChecksPassed(checks)
           /\ \A r \in reviews : r.required => r.status = "approved"
           /\ \A s \in RequiredByPolicy(policy) :
                \E n \in checks \cup reviews : n.stage = s /\ n.required
<1> DEFINE Outcome(s) == StageOutcome(checks, reviews, policy, s)
<1> DEFINE Unanimous(s) ==
      /\ \A k \in Required(checks, s) : k.status = "passed"
      /\ \A r \in Required(reviews, s) : r.status = "approved"
      /\ s \in RequiredByPolicy(policy) => Required(checks, s) # {} \/ Required(reviews, s) # {}
<1>1. decideApproval(checks, reviews, policy) = "approved"
        <=> \A s \in GateStage : Outcome(s) = "approved"
  <2>1. "integrity" \in GateStage
    BY DEF GateStage
  <2>2. {Outcome(s) : s \in GateStage} = {"approved"}
          <=> \A s \in GateStage : Outcome(s) = "approved"
    BY <2>1
  <2> QED
    BY <2>2 DEF decideApproval
<1>2. ASSUME NEW s \in GateStage
      PROVE  Outcome(s) = "approved" <=> Unanimous(s)
  BY DEF StageOutcome
<1>3. (\A s \in GateStage : \A k \in Required(checks, s) : k.status = "passed")
        <=> RequiredChecksPassed(checks)
  BY DEF Required, RequiredChecksPassed, Nodes
<1>4. (\A s \in GateStage : \A r \in Required(reviews, s) : r.status = "approved")
        <=> \A r \in reviews : r.required => r.status = "approved"
  BY DEF Required, Nodes
<1>5. RequiredByPolicy(policy) \subseteq GateStage
  BY DEF RequiredByPolicy, GateStage
<1>6. (\A s \in RequiredByPolicy(policy) : Required(checks, s) # {} \/ Required(reviews, s) # {})
        <=> \A s \in RequiredByPolicy(policy) :
              \E n \in checks \cup reviews : n.stage = s /\ n.required
  BY DEF Required
<1>7. (\A s \in GateStage : Unanimous(s))
        <=> /\ \A s \in GateStage : \A k \in Required(checks, s) : k.status = "passed"
            /\ \A s \in GateStage : \A r \in Required(reviews, s) : r.status = "approved"
            /\ \A s \in RequiredByPolicy(policy) : Required(checks, s) # {} \/ Required(reviews, s) # {}
  BY <1>5
<1> QED
  BY <1>1, <1>2, <1>3, <1>4, <1>6, <1>7

(* A required check that failed, or a required review that rejects, is
   conclusive unless an unavailable node shares its stage. *)
THEOREM RejectionConclusiveInItsStage ==
  ASSUME NEW checks \in SUBSET Nodes(CheckStatus),
         NEW reviews \in SUBSET Nodes(ReviewStatus),
         NEW policy \in SUBSET GateStage,
         NEW s \in GateStage,
         \/ \E k \in Required(checks, s) : k.status = "failed"
         \/ \E r \in Required(reviews, s) : r.status = "rejected",
         ~UnavailableNode(checks, reviews, s)
  PROVE  decideApproval(checks, reviews, policy) = "rejected"
<1>1. StageOutcome(checks, reviews, policy, s) = "rejected"
  BY DEF StageOutcome
<1> QED
  BY <1>1 DEF decideApproval
=============================================================================
