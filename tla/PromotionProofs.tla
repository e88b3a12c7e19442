-------------------------- MODULE PromotionProofs ---------------------------
(***************************************************************************)
(* The promotion protocol for every candidate, every number of tokens and  *)
(* every bound: its types, the write-ahead rule, that what is committed    *)
(* was written whole, and what the user must leave alone, and when, so     *)
(* that nothing of the user's is lost.                                     *)
(***************************************************************************)
EXTENDS Promotion, TLAPS

(* Steps of a promotion that has recorded nothing yet *)
Admitting == {"original", "preflight", "revalidate", "prepare"}

(* Steps of a transaction that is open *)
Restoring == Undoing \cup {"rolled", "attention"}

(* Where control stands agrees with the durable phase *)
PhaseOf ==
  /\ pc \in Admitting => by = "confirm" /\ txn \in {"none", "rolled-back"}
  /\ pc = "start" => by = "confirm" /\ txn = "prepared"
  /\ pc \in {"apply", "copyCheck", "copy", "uncopy", "mark"} => by = "confirm" /\ txn = "applying"
  /\ pc \in {"verify", "verifyFresh", "commit"} \cup Restoring => Incomplete
  /\ pc \in {"verify", "verifyFresh"} /\ by = "confirm" => txn = "applying"
  /\ pc \in {"rc.read", "rc.tracked", "rc.fresh"} => by = "recover"

(* What has been verified stays, but for the user's hand *)
Verified ==
  /\ pc \in {"verifyFresh", "mark", "commit"} => WrittenTracked
  /\ pc \in {"mark", "commit"} => WrittenFresh

(* A rollback that is about to be declared left no byte of the candidate *)
Swept == pc = "rolled" => ~ArenaBytes

IInv == TypeOK /\ PhaseOf /\ WriteAheadCovers /\ CommittedWhole /\ Verified /\ Swept

-----------------------------------------------------------------------------
(* Types *)

LEMMA InitType == Init => TypeOK
<1> SUFFICES ASSUME Init PROVE TypeOK
  OBVIOUS
<1>1. tracked \in [Patched -> {"base", "cand", "aside", "asideCand", "clash"}]
  BY DEF Init
<1>2. fresh \in [Fresh -> {"absent", "exact", "unmoded", "torn", "user", "gone"}]
  BY DEF Init
<1>3. edits \in 0 .. MaxEdit /\ crashes \in 0 .. MaxCrash /\ faults \in 0 .. MaxFault
  BY BoundAssumption DEF Init
<1>4. grants \subseteq Token /\ copied \subseteq Fresh
  BY DEF Init
<1> QED
  BY <1>1, <1>2, <1>3, <1>4 DEF Init, TypeOK, Pc, Phase

LEMMA StepType ==
  ASSUME TypeOK, Step
  PROVE  TypeOK'
<1>1. CASE AssertOriginal
  BY <1>1, BoundAssumption DEF AssertOriginal, Goto, TypeOK, Pc, Phase, vars, checkout, durable, local, bounds
<1>2. CASE Preflight
  BY <1>2, BoundAssumption DEF Preflight, Goto, TypeOK, Pc, Phase, vars, checkout, durable, local, bounds
<1>3. CASE Revalidate
  BY <1>3, BoundAssumption DEF Revalidate, Goto, TypeOK, Pc, Phase, vars, checkout, durable, local, bounds
<1>4. CASE Prepare
  BY <1>4, BoundAssumption DEF Prepare, Goto, Publish, TypeOK, Pc, Phase, vars, checkout, durable, local, bounds
<1>5. CASE Start
  BY <1>5, BoundAssumption DEF Start, Goto, Publish, TypeOK, Pc, Phase, vars, checkout, durable, local, bounds
<1>6. CASE Apply
  BY <1>6, BoundAssumption DEF Apply, Goto, Patch, TypeOK, Pc, Phase, vars, checkout, durable, local, bounds
<1>7. CASE CopyCheck
  BY <1>7, BoundAssumption DEF CopyCheck, Goto, TypeOK, Pc, Phase, vars, checkout, durable, local, bounds
<1>8. CASE \E f \in Fresh : Copy(f)
  BY <1>8, BoundAssumption DEF Copy, Goto, Copied, TypeOK, Pc, Phase, vars, checkout, durable, local, bounds
<1>9. CASE CopyDone
  BY <1>9, BoundAssumption DEF CopyDone, Goto, TypeOK, Pc, Phase, vars, checkout, durable, local, bounds
<1>10. CASE Uncopy
  BY <1>10, BoundAssumption DEF Uncopy, Goto, Removed, TypeOK, Pc, Phase, vars, checkout, durable, local, bounds
<1>11. CASE VerifyTracked
  BY <1>11, BoundAssumption DEF VerifyTracked, Goto, OnError, TypeOK, Pc, Phase, vars, checkout, durable, local, bounds
<1>12. CASE VerifyFresh
  BY <1>12, BoundAssumption DEF VerifyFresh, Goto, OnError, TypeOK, Pc, Phase, vars, checkout, durable, local, bounds
<1>13. CASE Mark
  BY <1>13, BoundAssumption DEF Mark, Goto, Publish, TypeOK, Pc, Phase, vars, checkout, durable, local, bounds
<1>14. CASE Commit
  BY <1>14, BoundAssumption DEF Commit, Goto, Publish, OnError, TypeOK, Pc, Phase, vars, checkout, durable, local, bounds
<1>15. CASE RollbackDiff
  BY <1>15, BoundAssumption DEF RollbackDiff, Goto, Seen, TypeOK, Pc, Phase, vars, checkout, durable, local, bounds
<1>16. CASE RollbackNames
  BY <1>16, BoundAssumption DEF RollbackNames, Goto, TypeOK, Pc, Phase, vars, checkout, durable, local, bounds
<1>17. CASE RollbackFresh
  BY <1>17, BoundAssumption DEF RollbackFresh, Goto, ArenaFiles, TypeOK, Pc, Phase, vars, checkout, durable, local, bounds
<1>18. CASE RollbackRemove
  BY <1>18, BoundAssumption DEF RollbackRemove, Goto, Removed, TypeOK, Pc, Phase, vars, checkout, durable, local, bounds
<1>19. CASE RollbackReverse
  BY <1>19, BoundAssumption DEF RollbackReverse, Goto, Unpatch, TypeOK, Pc, Phase, vars, checkout, durable, local, bounds
<1>20. CASE RollbackCheckout
  BY <1>20, BoundAssumption DEF RollbackCheckout, Goto, TypeOK, Pc, Phase, vars, checkout, durable, local, bounds
<1>21. CASE RollbackAdd
  BY <1>21, BoundAssumption DEF RollbackAdd, Goto, TypeOK, Pc, Phase, vars, checkout, durable, local, bounds
<1>22. CASE RollbackFinal
  BY <1>22, BoundAssumption DEF RollbackFinal, Goto, TypeOK, Pc, Phase, vars, checkout, durable, local, bounds
<1>23. CASE RolledBack
  BY <1>23, BoundAssumption DEF RolledBack, Goto, Publish, TypeOK, Pc, Phase, vars, checkout, durable, local, bounds
<1>24. CASE Attention
  BY <1>24, BoundAssumption DEF Attention, Goto, Publish, TypeOK, Pc, Phase, vars, checkout, durable, local, bounds
<1>25. CASE RecoverRead
  BY <1>25, BoundAssumption DEF RecoverRead, Goto, TypeOK, Pc, Phase, vars, checkout, durable, local, bounds
<1>26. CASE RecoverTracked
  BY <1>26, BoundAssumption DEF RecoverTracked, Goto, Seen, TypeOK, Pc, Phase, vars, checkout, durable, local, bounds
<1>27. CASE RecoverFresh
  BY <1>27, BoundAssumption DEF RecoverFresh, Goto, TypeOK, Pc, Phase, vars, checkout, durable, local, bounds
<1>28. CASE Throw
  BY <1>28, BoundAssumption DEF Throw, Goto, OnError, Before, Writing, Verifying, Undoing, TypeOK, Pc, Phase, vars, checkout, durable, local, bounds
<1> QED
  BY <1>1, <1>2, <1>3, <1>4, <1>5, <1>6, <1>7, <1>8, <1>9, <1>10, <1>11, <1>12, <1>13, <1>14, <1>15, <1>16, <1>17, <1>18, <1>19, <1>20, <1>21, <1>22, <1>23, <1>24, <1>25, <1>26, <1>27, <1>28 DEF Step

LEMMA NextType ==
  ASSUME TypeOK, [Next]_vars
  PROVE  TypeOK'
<1>1. CASE \E t \in Token : Preview(t) \/ Expire(t) \/ Confirm(t)
  BY <1>1, BoundAssumption DEF Preview, Expire, Confirm, TypeOK, Pc, Phase, vars, checkout, durable, local, bounds
<1>2. CASE Step
  BY <1>2, StepType
<1>3. CASE Boot
  BY <1>3, BoundAssumption DEF Boot, BootPromotion, TypeOK, Pc, Phase, checkout, durable, local, bounds
<1>4. CASE Crash
  <2>1. tracked' \in [Patched -> {"base", "cand", "aside", "asideCand", "clash"}]
    BY <1>4 DEF Crash, CrashedTracked, Patch, Unpatch, TypeOK
  <2>2. fresh' \in [Fresh -> {"absent", "exact", "unmoded", "torn", "user", "gone"}]
    BY <1>4 DEF Crash, CrashedFresh, Copied, Removed, TypeOK
  <2>3. crashes' \in 0 .. MaxCrash
    BY <1>4, BoundAssumption DEF Crash, TypeOK
  <2> QED
    BY <1>4, <2>1, <2>2, <2>3 DEF Crash, TypeOK, Pc, Phase, durable
<1>5. CASE User
  <2>1. tracked' \in [Patched -> {"base", "cand", "aside", "asideCand", "clash"}]
    BY <1>5 DEF User, UserPatched, UserClash, UserFresh, UserElsewhere, Damage, checkout, TypeOK
  <2>2. fresh' \in [Fresh -> {"absent", "exact", "unmoded", "torn", "user", "gone"}]
    BY <1>5 DEF User, UserPatched, UserClash, UserFresh, UserElsewhere, Damage, checkout, TypeOK
  <2>3. /\ elsewhere' \in {"clean", "tracked", "untracked"}
        /\ head' \in {"base", "moved"} /\ index' \in {"base", "staged"}
        /\ artifact' \in {"sealed", "manifest", "files"}
    BY <1>5 DEF User, UserPatched, UserClash, UserFresh, UserElsewhere, Damage, checkout, TypeOK
  <2>4. edits' \in 0 .. MaxEdit
    BY <1>5, BoundAssumption DEF User, TypeOK
  <2> QED
    BY <1>5, <2>1, <2>2, <2>3, <2>4 DEF User, TypeOK, local
<1>6. CASE UNCHANGED vars
  BY <1>6 DEF TypeOK, vars, checkout, durable, local, bounds
<1> QED
  BY <1>1, <1>2, <1>3, <1>4, <1>5, <1>6 DEF Next

(* The promotion state machine never leaves its states *)
THEOREM PromotionType == Spec => []TypeOK
<1>1. TypeOK /\ [Next]_vars => TypeOK'
  BY NextType
<1> QED
  BY InitType, <1>1, PTL DEF Spec

-----------------------------------------------------------------------------
(* The protocol invariant *)

LEMMA InitInvariant == Init => IInv
<1> SUFFICES ASSUME Init PROVE IInv
  OBVIOUS
<1>1. TypeOK
  BY InitType
<1>2. PhaseOf /\ WriteAheadCovers /\ CommittedWhole /\ Verified /\ Swept
  BY DEF Init, PhaseOf, WriteAheadCovers, ArenaBytes, CommittedWhole, Verified, Swept,
         Admitting, Restoring, Undoing
<1> QED
  BY <1>1, <1>2 DEF IInv

LEMMA StepInvariant ==
  ASSUME IInv, Step
  PROVE  (PhaseOf /\ WriteAheadCovers /\ CommittedWhole /\ Verified /\ Swept)'
<1> USE DEF IInv, PhaseOf, WriteAheadCovers, ArenaBytes, CommittedWhole, Verified, Swept,
            WrittenTracked, WrittenFresh, Admitting, Restoring, Undoing, Incomplete, TypeOK, Goto
<1>1. CASE AssertOriginal
  BY <1>1 DEF AssertOriginal, vars, checkout, durable, local, bounds
<1>2. CASE Preflight
  BY <1>2 DEF Preflight, vars, checkout, durable, local, bounds
<1>3. CASE Revalidate
  BY <1>3 DEF Revalidate, vars, checkout, durable, local, bounds
<1>4. CASE Prepare
  BY <1>4 DEF Prepare, Publish, vars, checkout, durable, local, bounds
<1>5. CASE Start
  BY <1>5 DEF Start, Publish, vars, checkout, durable, local, bounds
<1>6. CASE Apply
  BY <1>6 DEF Apply, Patch, PatchApplies, vars, checkout, durable, local, bounds
<1>7. CASE CopyCheck
  BY <1>7 DEF CopyCheck, vars, checkout, durable, local, bounds
<1>8. CASE \E f \in Fresh : Copy(f)
  BY <1>8 DEF Copy, Copied, vars, checkout, durable, local, bounds
<1>9. CASE CopyDone
  BY <1>9 DEF CopyDone, vars, checkout, durable, local, bounds
<1>10. CASE Uncopy
  BY <1>10 DEF Uncopy, Removed, vars, checkout, durable, local, bounds
<1>11. CASE VerifyTracked
  BY <1>11 DEF VerifyTracked, OnError, DiffCand, vars, checkout, durable, local, bounds
<1>12. CASE VerifyFresh
  <2>1. CASE \E f \in Fresh : ~SealedBytes(f)
    BY <1>12, <2>1 DEF VerifyFresh, OnError, vars, checkout, durable, local, bounds
  <2>2. CASE \A f \in Fresh : SealedBytes(f)
    <3>1. WrittenFresh
      BY <2>2 DEF SealedBytes
    <3>2. pc' = IF by = "confirm" THEN "mark" ELSE "commit"
      BY <1>12, <2>2 DEF VerifyFresh
    <3>3. UNCHANGED <<tracked, fresh, txn, promotion, by>>
      BY <1>12 DEF VerifyFresh, checkout, durable
    <3>4. pc = "verifyFresh"
      BY <1>12 DEF VerifyFresh
    <3> QED
      BY <3>1, <3>2, <3>3, <3>4
  <2> QED
    BY <2>1, <2>2
<1>13. CASE Mark
  BY <1>13 DEF Mark, Publish, vars, checkout, durable, local, bounds
<1>14. CASE Commit
  BY <1>14 DEF Commit, Publish, OnError, vars, checkout, durable, local, bounds
<1>15. CASE RollbackDiff
  BY <1>15 DEF RollbackDiff, Seen, vars, checkout, durable, local, bounds
<1>16. CASE RollbackNames
  BY <1>16 DEF RollbackNames, vars, checkout, durable, local, bounds
<1>17. CASE RollbackFresh
  BY <1>17 DEF RollbackFresh, ArenaFiles, vars, checkout, durable, local, bounds
<1>18. CASE RollbackRemove
  BY <1>18 DEF RollbackRemove, Removed, vars, checkout, durable, local, bounds
<1>19. CASE RollbackReverse
  BY <1>19 DEF RollbackReverse, Unpatch, PatchReverses, vars, checkout, durable, local, bounds
<1>20. CASE RollbackCheckout
  BY <1>20 DEF RollbackCheckout, vars, checkout, durable, local, bounds
<1>21. CASE RollbackAdd
  BY <1>21 DEF RollbackAdd, vars, checkout, durable, local, bounds
<1>22. CASE RollbackFinal
  BY <1>22 DEF RollbackFinal, OriginalUnchanged, Absent, vars, checkout, durable, local, bounds
<1>23. CASE RolledBack
  BY <1>23 DEF RolledBack, Publish, vars, checkout, durable, local, bounds
<1>24. CASE Attention
  BY <1>24 DEF Attention, Publish, vars, checkout, durable, local, bounds
<1>25. CASE RecoverRead
  BY <1>25 DEF RecoverRead, vars, checkout, durable, local, bounds
<1>26. CASE RecoverTracked
  BY <1>26 DEF RecoverTracked, Seen, vars, checkout, durable, local, bounds
<1>27. CASE RecoverFresh
  <2>1. pc' \in {"verify", "rb.diff", "rb.final"} /\ by' = by /\ pc = "rc.fresh"
    BY <1>27 DEF RecoverFresh
  <2>2. UNCHANGED <<tracked, fresh, txn, promotion>>
    BY <1>27 DEF RecoverFresh, checkout, durable
  <2> QED
    BY <2>1, <2>2
<1>28. CASE Throw
  BY <1>28 DEF Throw, OnError, Before, Writing, Verifying, vars, checkout, durable, local, bounds
<1> QED
  BY <1>1, <1>2, <1>3, <1>4, <1>5, <1>6, <1>7, <1>8, <1>9, <1>10, <1>11, <1>12, <1>13, <1>14, <1>15, <1>16, <1>17, <1>18, <1>19, <1>20, <1>21, <1>22, <1>23, <1>24, <1>25, <1>26, <1>27, <1>28 DEF Step

(* The user never writes candidate bytes, and never restores what was verified
   to another state than the user's own *)
LEMMA UserInvariant ==
  ASSUME IInv, User
  PROVE  (PhaseOf /\ WriteAheadCovers /\ CommittedWhole /\ Verified /\ Swept)'
<1>1. ArenaBytes' => ArenaBytes
  BY DEF User, UserPatched, UserClash, UserFresh, UserElsewhere, Damage, checkout, ArenaBytes, IInv, TypeOK
<1>2. WrittenTracked => WrittenTracked'
  BY DEF User, UserPatched, UserClash, UserFresh, UserElsewhere, Damage, checkout, WrittenTracked, IInv, TypeOK
<1>3. WrittenFresh => WrittenFresh'
  BY DEF User, UserPatched, UserClash, UserFresh, UserElsewhere, Damage, checkout, WrittenFresh, Absent, IInv, TypeOK
<1> QED
  BY <1>1, <1>2, <1>3 DEF User, IInv, PhaseOf, Incomplete, WriteAheadCovers, CommittedWhole, Verified, Swept

(* A crash loses the place of control; inside a writing command it leaves some of
   the command's writes, which the phase already covers *)
LEMMA CrashInvariant ==
  ASSUME IInv, Crash
  PROVE  (PhaseOf /\ WriteAheadCovers /\ CommittedWhole /\ Verified /\ Swept)'
<1>1. pc' = "down" /\ txn' = txn /\ promotion' = promotion
  BY DEF Crash, durable
<1>2. (PhaseOf /\ Verified /\ Swept)'
  BY <1>1 DEF PhaseOf, Verified, Swept, Admitting, Restoring, Undoing
<1>3. CASE txn \in {"applying", "applied", "needs-attention"}
  BY <1>1, <1>2, <1>3 DEF IInv, WriteAheadCovers, CommittedWhole
<1>4. CASE txn \notin {"applying", "applied", "needs-attention"}
  <2>1. pc \notin {"apply", "copy", "uncopy"}
    BY <1>4 DEF IInv, PhaseOf
  <2>2. ArenaBytes' => ArenaBytes
    BY <2>1 DEF Crash, CrashedTracked, CrashedFresh, Removed, Unpatch, PatchReverses, ArenaBytes, IInv, TypeOK
  <2>3. txn = "committed" => tracked' = tracked /\ fresh' = fresh
    BY <2>1 DEF Crash, CrashedTracked, CrashedFresh, IInv, PhaseOf, Incomplete, Restoring, Undoing
  <2> QED
    BY <1>1, <1>2, <1>4, <2>2, <2>3 DEF IInv, WriteAheadCovers, CommittedWhole, WrittenTracked, WrittenFresh
<1> QED
  BY <1>3, <1>4

LEMMA NextInvariant ==
  ASSUME IInv, [Next]_vars
  PROVE  IInv'
<1>1. TypeOK'
  BY NextType DEF IInv
<1> SUFFICES (PhaseOf /\ WriteAheadCovers /\ CommittedWhole /\ Verified /\ Swept)'
  BY <1>1 DEF IInv
<1>2. CASE \E t \in Token : Preview(t) \/ Expire(t) \/ Confirm(t)
  BY <1>2 DEF Preview, Expire, Confirm, Admitted, Promotable, checkout, durable, IInv, TypeOK, Phase, PhaseOf,
              Admitting, Restoring, Undoing, Incomplete, WriteAheadCovers, ArenaBytes, CommittedWhole,
              WrittenTracked, WrittenFresh, Verified, Swept
<1>3. CASE Step
  BY <1>3, StepInvariant
<1>4. CASE Boot
  BY <1>4 DEF Boot, BootPromotion, checkout, durable, IInv, PhaseOf, Admitting, Restoring, Undoing, Incomplete,
              WriteAheadCovers, ArenaBytes, CommittedWhole, WrittenTracked, WrittenFresh, Verified, Swept
<1>5. CASE Crash
  BY <1>5, CrashInvariant
<1>6. CASE User
  BY <1>6, UserInvariant
<1>7. CASE UNCHANGED vars
  BY <1>7 DEF vars, checkout, durable, IInv, PhaseOf, Admitting, Restoring, Undoing, Incomplete,
              WriteAheadCovers, ArenaBytes, CommittedWhole, WrittenTracked, WrittenFresh, Verified, Swept
<1> QED
  BY <1>2, <1>3, <1>4, <1>5, <1>6, <1>7 DEF Next

LEMMA PromotionInvariant == Spec => []IInv
<1>1. IInv /\ [Next]_vars => IInv'
  BY NextInvariant
<1> QED
  BY InitInvariant, <1>1, PTL DEF Spec

(* Candidate bytes are in the checkout only under a durable phase that admits it *)
THEOREM PromotionWriteAhead == Spec => []WriteAheadCovers
<1>1. IInv => WriteAheadCovers
  BY DEF IInv
<1> QED
  BY PromotionInvariant, <1>1, PTL

(* What is committed was written whole and verified *)
THEOREM PromotionCommitsWhole == Spec => []CommittedWhole
<1>1. IInv => CommittedWhole
  BY DEF IInv
<1> QED
  BY PromotionInvariant, <1>1, PTL

-----------------------------------------------------------------------------
(* The user's bytes.  Arena decides what to remove from what it has read, so
   the user's work is safe when the user leaves the checkout alone between the
   reading and the writing. *)

Windows == {"copy", "uncopy", "rb.names", "rb.fresh", "rb.remove", "rb.reverse", "rb.checkout"}

QuietWindows == Windows \subseteq QuietPc

(* What Arena is about to remove or to restore is its own *)
CopiedIsArenas ==
  pc \in {"copy", "uncopy", "rb.remove"} => \A f \in copied : fresh[f] # "user"

SeenIsThere ==
  /\ pc \in {"rb.names", "rb.fresh", "rb.remove"} /\ seen = "cand" => DiffCand
  /\ pc = "rb.reverse" => DiffCand

SweepIsArenas ==
  /\ pc \in {"rb.fresh", "rb.remove", "rb.reverse", "rb.checkout"} => ~sweep
  /\ pc = "rb.checkout" => \A p \in Patched : tracked[p] = "base"

QuietInv == TypeOK /\ CopiedIsArenas /\ SeenIsThere /\ SweepIsArenas

(* What a step leaves of the user's work *)
UserKept ==
  /\ \A p \in Patched :
       /\ tracked[p] = "clash" => tracked'[p] = "clash"
       /\ tracked[p] \in {"aside", "asideCand"} => tracked'[p] \in {"aside", "asideCand"}
  /\ \A f \in Fresh : fresh[f] = "user" => fresh'[f] = "user"
  /\ elsewhere' = elsewhere
  /\ index = "staged" => index' = "staged"

LEMMA SeenTells == Seen = "cand" => DiffCand
  BY DEF Seen, DiffCand, DiffClean

LEMMA SameCheckoutKept == UNCHANGED checkout => UserKept
  BY DEF checkout, UserKept

LEMMA QuietStep ==
  ASSUME QuietInv, Step
  PROVE  QuietInv' /\ UserKept
<1>0. TypeOK /\ TypeOK'
  BY StepType DEF QuietInv
<1> USE <1>0 DEF Goto, checkout, local, durable
<1>1. ASSUME UNCHANGED <<checkout, local>>,
             pc' \notin Windows \/ (pc = "copyCheck" /\ pc' = "copy")
      PROVE  UserKept /\ (pc' \notin Windows => QuietInv')
  BY <1>1, SameCheckoutKept
     DEF QuietInv, CopiedIsArenas, SeenIsThere, SweepIsArenas, Windows
<1>2. CASE AssertOriginal \/ Preflight \/ Revalidate \/ CopyDone \/ VerifyTracked
           \/ VerifyFresh \/ RollbackFinal \/ RecoverRead \/ RecoverFresh
  BY <1>1, <1>2
     DEF AssertOriginal, Preflight, Revalidate, CopyDone, VerifyTracked, VerifyFresh,
         RollbackFinal, RecoverRead, RecoverFresh, OnError, Windows
<1>3. CASE Prepare \/ Start \/ Mark \/ Commit \/ RolledBack \/ Attention
  BY <1>1, <1>3
     DEF Prepare, Start, Mark, Commit, RolledBack, Attention, Publish, OnError, Windows
<1>4. CASE Apply
  <2>1. /\ PatchApplies /\ tracked' = [p \in Patched |-> Patch(tracked[p])]
        /\ pc' = "copyCheck" /\ UNCHANGED <<fresh, elsewhere, index>>
    BY <1>4 DEF Apply
  <2>2. UserKept
    BY <2>1 DEF UserKept, PatchApplies, Patch
  <2>3. QED
    BY <2>1, <2>2 DEF QuietInv, CopiedIsArenas, SeenIsThere, SweepIsArenas
<1>5. CASE CopyCheck
  <2>1. UNCHANGED checkout /\ copied' = {} /\ pc' \in {"copy", "rb.diff"}
    BY <1>5 DEF CopyCheck
  <2>2. QED
    BY <2>1, SameCheckoutKept DEF QuietInv, CopiedIsArenas, SeenIsThere, SweepIsArenas
<1>6. ASSUME NEW f \in Fresh, Copy(f) PROVE QuietInv' /\ UserKept
  <2>1. /\ pc = "copy" /\ pc' = "copy" /\ Absent(f) /\ Copied \in {"torn", "exact"}
        /\ fresh' = [fresh EXCEPT ![f] = Copied] /\ copied' = copied \cup {f}
        /\ UNCHANGED <<tracked, elsewhere, index>>
    BY <1>6 DEF Copy, Copied
  <2>2. fresh'[f] # "user" /\ \A g \in Fresh : g # f => fresh'[g] = fresh[g]
    BY <2>1 DEF TypeOK
  <2>3. UserKept
    BY <2>1, <2>2 DEF UserKept, Absent
  <2>4. CopiedIsArenas'
    BY <2>1, <2>2 DEF QuietInv, CopiedIsArenas, TypeOK
  <2>5. QED
    BY <2>1, <2>3, <2>4 DEF QuietInv, SeenIsThere, SweepIsArenas
<1>7. CASE Uncopy \/ RollbackRemove
  <2>1. /\ fresh' = Removed(copied) /\ UNCHANGED <<tracked, elsewhere, index, local>>
        /\ pc \in {"uncopy", "rb.remove"}
        /\ pc' \in {"rb.diff", "rb.reverse", "rb.final"}
        /\ pc' = "rb.reverse" => pc = "rb.remove" /\ seen = "cand"
    BY <1>7 DEF Uncopy, RollbackRemove
  <2>2. \A f \in copied : fresh[f] # "user"
    BY <2>1 DEF QuietInv, CopiedIsArenas
  <2>3. UserKept
    BY <2>1, <2>2 DEF UserKept, Removed
  <2>4. SeenIsThere'
    BY <2>1 DEF QuietInv, SeenIsThere, DiffCand
  <2>5. QED
    BY <2>1, <2>3, <2>4 DEF QuietInv, CopiedIsArenas, SweepIsArenas
<1>8. CASE RollbackDiff
  <2>1. /\ UNCHANGED <<checkout, sweep, copied>> /\ seen' = Seen
        /\ pc' \in {"attention", "rb.names"}
    BY <1>8 DEF RollbackDiff
  <2>2. SeenIsThere'
    BY <2>1, SeenTells DEF SeenIsThere, DiffCand
  <2>3. QED
    BY <2>1, <2>2, SameCheckoutKept DEF QuietInv, CopiedIsArenas, SweepIsArenas
<1>9. CASE RollbackNames
  <2>1. /\ UNCHANGED <<checkout, seen, copied>> /\ pc = "rb.names" /\ pc' = "rb.fresh"
        /\ sweep' = (seen = "cand" /\ elsewhere = "tracked")
    BY <1>9 DEF RollbackNames
  <2>2. ~sweep'
    BY <2>1 DEF QuietInv, SeenIsThere, DiffCand
  <2>3. SeenIsThere'
    BY <2>1 DEF QuietInv, SeenIsThere, DiffCand
  <2>4. QED
    BY <2>1, <2>2, <2>3, SameCheckoutKept DEF QuietInv, CopiedIsArenas, SweepIsArenas
<1>10. CASE RollbackFresh
  <2>1. /\ UNCHANGED <<checkout, seen, sweep>> /\ pc = "rb.fresh" /\ copied' = ArenaFiles
        /\ pc' \in {"rb.remove", "attention"}
    BY <1>10 DEF RollbackFresh
  <2>2. CopiedIsArenas'
    BY <2>1 DEF CopiedIsArenas, ArenaFiles, SealedBytes
  <2>3. SeenIsThere'
    BY <2>1 DEF QuietInv, SeenIsThere, DiffCand
  <2>4. QED
    BY <2>1, <2>2, <2>3, SameCheckoutKept DEF QuietInv, SweepIsArenas
<1>11. CASE RollbackReverse
  <2>1. /\ pc = "rb.reverse" /\ pc' = "rb.checkout"
        /\ tracked' = [p \in Patched |-> Unpatch(tracked[p])]
        /\ UNCHANGED <<fresh, elsewhere, index, local>>
    BY <1>11 DEF RollbackReverse
  <2>2. \A p \in Patched : tracked[p] = "cand" /\ tracked'[p] = "base"
    BY <2>1 DEF QuietInv, SeenIsThere, DiffCand, Unpatch
  <2>3. UserKept
    BY <2>1, <2>2 DEF UserKept
  <2>4. QED
    BY <2>1, <2>2, <2>3 DEF QuietInv, CopiedIsArenas, SeenIsThere, SweepIsArenas
<1>12. CASE RollbackCheckout
  <2>1. /\ pc = "rb.checkout" /\ pc' = "rb.add"
        /\ tracked' = [p \in Patched |-> "base"]
        /\ elsewhere' = IF sweep /\ elsewhere = "tracked" THEN "clean" ELSE elsewhere
        /\ UNCHANGED <<fresh, index, local>>
    BY <1>12 DEF RollbackCheckout
  <2>2. ~sweep /\ \A p \in Patched : tracked[p] = "base"
    BY <2>1 DEF QuietInv, SweepIsArenas
  <2>3. UserKept
    BY <2>1, <2>2 DEF UserKept
  <2>4. QED
    BY <2>1, <2>3 DEF QuietInv, CopiedIsArenas, SeenIsThere, SweepIsArenas
<1>13. CASE RollbackAdd
  <2>1. /\ pc' \in {"rb.final", "attention"} /\ UNCHANGED <<tracked, fresh, elsewhere>>
        /\ index = "staged" => index' = "staged"
    BY <1>13 DEF RollbackAdd, TypeOK
  <2>2. QED
    BY <2>1 DEF UserKept, QuietInv, CopiedIsArenas, SeenIsThere, SweepIsArenas
<1>14. CASE RecoverTracked
  BY <1>14, SameCheckoutKept
     DEF RecoverTracked, QuietInv, CopiedIsArenas, SeenIsThere, SweepIsArenas
<1>15. CASE Throw
  <2>1. /\ UNCHANGED <<checkout, local>>
        /\ pc' \notin Windows \/ (pc = "copy" /\ pc' = "uncopy")
    BY <1>15 DEF Throw, OnError, Windows
  <2>2. QED
    BY <1>1, <2>1, SameCheckoutKept
       DEF QuietInv, CopiedIsArenas, SeenIsThere, SweepIsArenas
<1> QED
  BY <1>2, <1>3, <1>4, <1>5, <1>6, <1>7, <1>8, <1>9, <1>10, <1>11, <1>12, <1>13, <1>14, <1>15
     DEF Step

LEMMA QuietCrash ==
  ASSUME QuietInv, Crash
  PROVE  QuietInv' /\ UserKept
<1>1. /\ TypeOK /\ TypeOK' /\ pc' = "down"
      /\ tracked' \in CrashedTracked /\ fresh' \in CrashedFresh
      /\ UNCHANGED <<elsewhere, index>>
  BY NextType DEF Crash, QuietInv, Next
<1>2. \A p \in Patched :
        /\ tracked[p] = "clash" => tracked'[p] = "clash"
        /\ tracked[p] \in {"aside", "asideCand"} => tracked'[p] \in {"aside", "asideCand"}
  <2>1. CASE pc = "apply" /\ PatchApplies
    <3>1. PICK S \in SUBSET Patched :
            tracked' = [p \in Patched |-> IF p \in S THEN Patch(tracked[p]) ELSE tracked[p]]
      BY <1>1, <2>1 DEF CrashedTracked
    <3>2. QED
      BY <2>1, <3>1 DEF PatchApplies, Patch
  <2>2. CASE pc = "rb.reverse" /\ PatchReverses
    <3>1. PICK S \in SUBSET Patched :
            tracked' = [p \in Patched |-> IF p \in S THEN Unpatch(tracked[p]) ELSE tracked[p]]
      BY <1>1, <2>2 DEF CrashedTracked
    <3>2. QED
      BY <2>2, <3>1 DEF PatchReverses, Unpatch
  <2>3. CASE ~(pc = "apply" /\ PatchApplies) /\ ~(pc = "rb.reverse" /\ PatchReverses)
    BY <1>1, <2>3 DEF CrashedTracked
  <2>4. QED
    BY <2>1, <2>2, <2>3
<1>3. \A f \in Fresh : fresh[f] = "user" => fresh'[f] = "user"
  <2>1. CASE pc = "copy"
    <3>1. fresh' = fresh \/ \E f \in {g \in Fresh \ copied : Absent(g)}, c \in {"torn", "unmoded", Copied} :
            fresh' = [fresh EXCEPT ![f] = c]
      BY <1>1, <2>1 DEF CrashedFresh
    <3>2. QED
      BY <1>1, <3>1 DEF Absent, TypeOK
  <2>2. CASE pc \in {"uncopy", "rb.remove"}
    <3>1. PICK S \in SUBSET copied : fresh' = Removed(S)
      BY <1>1, <2>2 DEF CrashedFresh
    <3>2. \A f \in S : fresh[f] # "user"
      BY <2>2 DEF QuietInv, CopiedIsArenas
    <3>3. QED
      BY <3>1, <3>2 DEF Removed
  <2>3. CASE pc \notin {"copy", "uncopy", "rb.remove"}
    BY <1>1, <2>3 DEF CrashedFresh
  <2>4. QED
    BY <2>1, <2>2, <2>3
<1>4. UserKept
  BY <1>1, <1>2, <1>3 DEF UserKept
<1>5. QED
  BY <1>1, <1>4 DEF QuietInv, CopiedIsArenas, SeenIsThere, SweepIsArenas

LEMMA QuietNext ==
  ASSUME QuietWindows
  PROVE  QuietInv /\ [Next]_vars => QuietInv' /\ (edits' = edits => UserKept)
<1> SUFFICES ASSUME QuietInv, [Next]_vars
             PROVE  QuietInv' /\ (edits' = edits => UserKept)
  OBVIOUS
<1>0. TypeOK /\ TypeOK'
  BY NextType DEF QuietInv
<1>1. ASSUME UNCHANGED <<checkout, local>>, pc' \notin Windows \/ pc' = pc
      PROVE  QuietInv' /\ UserKept
  BY <1>0, <1>1, SameCheckoutKept
     DEF checkout, local, Windows, QuietInv, CopiedIsArenas, SeenIsThere, SweepIsArenas,
         DiffCand
<1>2. ASSUME NEW t \in Token, Preview(t) \/ Expire(t) \/ Confirm(t)
      PROVE  QuietInv' /\ UserKept
  BY <1>1, <1>2 DEF Preview, Expire, Confirm, checkout, local, Windows
<1>3. CASE Boot
  BY <1>1, <1>3 DEF Boot, BootPromotion, checkout, local, Windows
<1>4. CASE User
  <2>1. pc \notin Windows /\ pc' = pc /\ edits' = edits + 1 /\ edits \in Nat
    BY <1>0, <1>4, BoundAssumption DEF User, QuietWindows, TypeOK
  <2>2. QuietInv'
    BY <1>0, <2>1 DEF Windows, QuietInv, CopiedIsArenas, SeenIsThere, SweepIsArenas
  <2>3. QED
    BY <2>1, <2>2
<1>5. CASE UNCHANGED vars
  BY <1>1, <1>5 DEF vars
<1>6. QED
  BY <1>2, <1>3, <1>4, <1>5, QuietStep, QuietCrash DEF Next

(* Arena removes and overwrites nothing of the user's in the original checkout,
   neither promoting nor rolling back nor recovering, whatever fails and
   wherever the Host dies, if the user does nothing there between the reads and
   the writes of a rollback and while the untracked files are copied. *)
THEOREM PromotionKeepsUserBytes ==
  ASSUME QuietWindows PROVE Spec => UserBytesKept
<1>1. Init => QuietInv
  BY InitType DEF Init, QuietInv, CopiedIsArenas, SeenIsThere, SweepIsArenas
<1>2. QuietInv /\ [Next]_vars => QuietInv'
  BY QuietNext
<1>3. QuietInv /\ [Next]_vars =>
        [edits' = edits =>
           /\ \A p \in Patched :
                /\ tracked[p] = "clash" => tracked'[p] = "clash"
                /\ tracked[p] \in {"aside", "asideCand"} => tracked'[p] \in {"aside", "asideCand"}
           /\ \A f \in Fresh : fresh[f] = "user" => fresh'[f] = "user"
           /\ elsewhere' = elsewhere
           /\ index = "staged" => index' = "staged"]_vars
  BY QuietNext DEF UserKept
<1> QED
  BY <1>1, <1>2, <1>3, PTL DEF Spec, UserBytesKept
=============================================================================
