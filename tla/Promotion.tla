----------------------------- MODULE Promotion ------------------------------
(***************************************************************************)
(* Two-phase promotion of one approved candidate into the original Git     *)
(* checkout (service.ts previewPromotion, confirmPromotion,                *)
(* recoverPromotion; git.ts applyPatch ... recoverPromotionRollback), with *)
(* a user who works in the same checkout, crashes of the Host at any step, *)
(* and failing commands and state writes.                                  *)
(*                                                                         *)
(* Abstractions.  A path of the tracked patch holds its base bytes, the    *)
(* candidate's, or a user's edit that leaves the patch applicable (aside,  *)
(* alone or with the candidate's hunks) or does not (clash).  An untracked *)
(* target is absent, holds the sealed file, the sealed bytes without the   *)
(* sealed mode (copied but not yet chmod-ed), other bytes of the artifact  *)
(* (torn), or a user's file; gone is absent by the user's hand.  All other *)
(* changes of the checkout are one variable.  A git command reads and      *)
(* writes at one moment; a crash inside one leaves any part of its writes. *)
(***************************************************************************)
EXTENDS Naturals, FiniteSets

CONSTANTS
  Patched,    \* paths of the tracked patch
  Fresh,      \* paths of the candidate's untracked files
  Token,      \* promotion preview tokens
  MaxEdit,    \* bound on what the user does to the checkout and the artifact
  MaxCrash,   \* bound on Host crashes
  MaxFault,   \* bound on failing state events
  QuietPc     \* steps of the promotion during which the user does nothing

ASSUME BoundAssumption == MaxEdit \in Nat /\ MaxCrash \in Nat /\ MaxFault \in Nat

VARIABLES
  tracked, fresh,   \* the candidate's paths in the original checkout
  elsewhere,        \* the rest of it: clean, or with tracked or untracked changes
  head,             \* HEAD is the run's base commit, or has moved
  index,            \* the Git index agrees with the base, or has staged changes
  artifact,         \* the sealed artifact, or what of it was damaged
  txn,              \* promotionTransaction.phase, "none" when undefined
  promotion,        \* state.promotion is set
  pc,               \* where the promotion in progress stands
  by,               \* who runs it: confirmPromotion or recoverPromotion
  grants,           \* promotionGrants
  seen,             \* what the last tracked diff showed
  sweep,            \* trackedPaths read for checkout-index names other paths too
  copied,           \* untracked files copied, or found to be Arena's
  edits, crashes, faults

checkout == <<tracked, fresh, elsewhere, head, index>>
durable == <<artifact, txn, promotion>>
local == <<seen, sweep, copied>>
bounds == <<edits, crashes, faults>>
vars == <<checkout, durable, pc, by, grants, local, bounds>>

Phase == {"none", "prepared", "applying", "applied",
          "committed", "rolled-back", "needs-attention"}

Incomplete == txn \in {"prepared", "applying", "applied"}

-----------------------------------------------------------------------------
(* What Git and the file system show *)

Absent(f) == fresh[f] \in {"absent", "gone"}

(* size and sha256 agree with the manifest; the mode is not compared *)
SealedBytes(f) == fresh[f] \in {"exact", "unmoded"}

DiffClean == (\A p \in Patched : tracked[p] = "base") /\ elsewhere # "tracked"
DiffCand == (\A p \in Patched : tracked[p] = "cand") /\ elsewhere # "tracked"

PatchApplies == \A p \in Patched : tracked[p] \in {"base", "aside"}
PatchReverses == \A p \in Patched : tracked[p] \in {"cand", "asideCand"}

Patch(c) == IF c = "aside" THEN "asideCand" ELSE "cand"
Unpatch(c) == IF c = "asideCand" THEN "aside" ELSE "base"

(* assertOriginalUnchanged: HEAD is the base and git status shows nothing *)
OriginalUnchanged ==
  /\ head = "base" /\ index = "base"
  /\ \A p \in Patched : tracked[p] = "base"
  /\ \A f \in Fresh : Absent(f)
  /\ elsewhere = "clean"

Readable == artifact # "manifest"

-----------------------------------------------------------------------------
Init ==
  /\ tracked = [p \in Patched |-> "base"] /\ fresh = [f \in Fresh |-> "absent"]
  /\ elsewhere = "clean" /\ head = "base" /\ index = "base"
  /\ artifact = "sealed" /\ txn = "none" /\ promotion = FALSE
  /\ pc = "idle" /\ by = "confirm" /\ grants = {}
  /\ seen = "clean" /\ sweep = FALSE /\ copied = {}
  /\ edits = 0 /\ crashes = 0 /\ faults = 0

Goto(label) == pc' = label /\ UNCHANGED by

(* A durable state event, or its failure: then `label` is where control goes *)
Publish(phase, label, failed) ==
  \/ txn' = phase /\ Goto(label) /\ UNCHANGED faults
  \/ faults < MaxFault /\ faults' = faults + 1 /\ txn' = txn /\ Goto(failed)

(* previewPromotion *)
Promotable == ~promotion /\ txn \in {"none", "committed", "rolled-back"}

Preview(t) ==
  /\ pc # "down"
  /\ t \notin grants
  /\ Promotable
  /\ Readable /\ OriginalUnchanged /\ PatchApplies /\ \A f \in Fresh : Absent(f)
  /\ grants' = grants \cup {t}
  /\ UNCHANGED <<checkout, durable, pc, by, local, bounds>>

(* purgeExpiredGrants, once the token's time has passed *)
Expire(t) ==
  /\ t \in grants
  /\ grants' = grants \ {t}
  /\ UNCHANGED <<checkout, durable, pc, by, local, bounds>>

(* confirmPromotion, up to its first await: a token works once, and finding
   the run's lock taken consumes it *)
Admitted == pc = "idle" /\ Promotable

Confirm(t) ==
  /\ pc # "down"
  /\ t \in grants
  /\ grants' = grants \ {t}
  /\ IF Admitted THEN pc' = "original" /\ by' = "confirm" ELSE UNCHANGED <<pc, by>>
  /\ UNCHANGED <<checkout, durable, local, bounds>>

AssertOriginal ==
  /\ pc = "original"
  /\ Goto(IF Readable /\ OriginalUnchanged THEN "preflight" ELSE "idle")
  /\ UNCHANGED <<checkout, durable, grants, local, bounds>>

Preflight ==
  /\ pc = "preflight"
  /\ Goto(IF PatchApplies /\ \A f \in Fresh : Absent(f) THEN "revalidate" ELSE "idle")
  /\ UNCHANGED <<checkout, durable, grants, local, bounds>>

(* The required gates pass again in a fresh worktree, or are not asked for.
   A damaged untracked artifact file shows there, when they are. *)
Revalidate ==
  /\ pc = "revalidate"
  /\ Goto("prepare")
  /\ UNCHANGED <<checkout, durable, grants, local, bounds>>

Prepare ==
  /\ pc = "prepare"
  /\ Publish("prepared", "start", "idle")
  /\ UNCHANGED <<checkout, artifact, promotion, grants, local, edits, crashes>>

MutantApplyBeforeStart ==
  /\ pc = "start"
  /\ PatchApplies
  /\ tracked' = [p \in Patched |-> Patch(tracked[p])]
  /\ Publish("applying", "copyCheck", "rb.diff")
  /\ UNCHANGED <<fresh, elsewhere, head, index, artifact, promotion, grants, local, edits, crashes>>

Start ==
  /\ pc = "start"
  /\ Publish("applying", "apply", "rb.diff")
  /\ UNCHANGED <<checkout, artifact, promotion, grants, local, edits, crashes>>

Apply ==
  /\ pc = "apply"
  /\ PatchApplies
  /\ tracked' = [p \in Patched |-> Patch(tracked[p])]
  /\ Goto("copyCheck")
  /\ UNCHANGED <<fresh, elsewhere, head, index, durable, grants, local, bounds>>

(* copyUntracked *)
CopyCheck ==
  /\ pc = "copyCheck"
  /\ copied' = {}
  /\ Goto(IF \A f \in Fresh : Absent(f) THEN "copy" ELSE "rb.diff")
  /\ UNCHANGED <<checkout, durable, grants, seen, sweep, bounds>>

Copied == IF artifact = "files" THEN "torn" ELSE "exact"

(* COPYFILE_EXCL: an existing target fails the copy *)
Copy(f) ==
  /\ pc = "copy" /\ f \in Fresh \ copied
  /\ Absent(f)
  /\ fresh' = [fresh EXCEPT ![f] = Copied] /\ copied' = copied \cup {f} /\ Goto("copy")
  /\ UNCHANGED <<tracked, elsewhere, head, index, durable, grants, seen, sweep, bounds>>

CopyDone ==
  /\ pc = "copy" /\ copied = Fresh
  /\ Goto("verify")
  /\ UNCHANGED <<checkout, durable, grants, local, bounds>>

Removed(files) == [f \in Fresh |-> IF f \in files THEN "absent" ELSE fresh[f]]

(* A failed copy removes the files copied before it *)
Uncopy ==
  /\ pc = "uncopy"
  /\ fresh' = Removed(copied)
  /\ Goto("rb.diff")
  /\ UNCHANGED <<tracked, elsewhere, head, index, durable, grants, local, bounds>>

MutantErrorEscapes == IF by = "confirm" THEN "rb.diff" ELSE "escaped"
OnError == IF by = "confirm" THEN "rb.diff" ELSE "attention"

(* assertAppliedPatch, then assertUntracked *)
VerifyTracked ==
  /\ pc = "verify"
  /\ Goto(IF DiffCand THEN "verifyFresh" ELSE OnError)
  /\ UNCHANGED <<checkout, durable, grants, local, bounds>>

MutantVerifyNothing ==
  /\ pc = "verifyFresh"
  /\ Goto(IF by = "confirm" THEN "mark" ELSE "commit")
  /\ UNCHANGED <<checkout, durable, grants, local, bounds>>

VerifyFresh ==
  /\ pc = "verifyFresh"
  /\ Goto(IF \E f \in Fresh : ~SealedBytes(f) THEN OnError
          ELSE IF by = "confirm" THEN "mark" ELSE "commit")
  /\ UNCHANGED <<checkout, durable, grants, local, bounds>>

Mark ==
  /\ pc = "mark"
  /\ Publish("applied", "commit", "rb.diff")
  /\ UNCHANGED <<checkout, artifact, promotion, grants, local, edits, crashes>>

(* The transaction and the promotion are committed by one event *)
Commit ==
  /\ pc = "commit"
  /\ Publish("committed", "idle", OnError)
  /\ promotion' = (promotion \/ txn' = "committed")
  /\ UNCHANGED <<checkout, artifact, grants, local, edits, crashes>>

-----------------------------------------------------------------------------
(* recoverPromotionRollback *)

Seen == CASE DiffClean -> "clean" [] DiffCand -> "cand" [] OTHER -> "other"

SeenCand == seen = "cand" \/ (Patched = {} /\ seen = "clean")

RollbackDiff ==
  /\ pc = "rb.diff"
  /\ seen' = Seen
  /\ Goto(IF Seen = "other" \/ index = "staged" THEN "attention" ELSE "rb.names")
  /\ UNCHANGED <<checkout, durable, grants, sweep, copied, bounds>>

(* git diff --name-only reads the paths to restore a second time *)
RollbackNames ==
  /\ pc = "rb.names"
  /\ sweep' = (seen = "cand" /\ elsewhere = "tracked")
  /\ Goto("rb.fresh")
  /\ UNCHANGED <<checkout, durable, grants, seen, copied, bounds>>

MutantFoundPresent == {f \in Fresh : ~Absent(f)}
ArenaFiles == {f \in Fresh : SealedBytes(f)}

RollbackFresh ==
  /\ pc = "rb.fresh"
  /\ copied' = ArenaFiles
  /\ Goto(IF \A f \in Fresh : Absent(f) \/ f \in ArenaFiles THEN "rb.remove" ELSE "attention")
  /\ UNCHANGED <<checkout, durable, grants, seen, sweep, bounds>>

RollbackRemove ==
  /\ pc = "rb.remove"
  /\ fresh' = Removed(copied)
  /\ Goto(IF seen = "cand" THEN "rb.reverse" ELSE "rb.final")
  /\ UNCHANGED <<tracked, elsewhere, head, index, durable, grants, local, bounds>>

RollbackReverse ==
  /\ pc = "rb.reverse"
  /\ PatchReverses
  /\ tracked' = [p \in Patched |-> Unpatch(tracked[p])]
  /\ Goto("rb.checkout")
  /\ UNCHANGED <<fresh, elsewhere, head, index, durable, grants, local, bounds>>

(* checkout-index --force over the paths read before *)
RollbackCheckout ==
  /\ pc = "rb.checkout"
  /\ tracked' = [p \in Patched |-> "base"]
  /\ elsewhere' = IF sweep /\ elsewhere = "tracked" THEN "clean" ELSE elsewhere
  /\ Goto("rb.add")
  /\ UNCHANGED <<fresh, head, index, durable, grants, local, bounds>>

(* git add of those paths must leave the index at the base *)
RollbackAdd ==
  /\ pc = "rb.add"
  /\ index' = IF DiffClean THEN index ELSE "staged"
  /\ Goto(IF index' = "base" THEN "rb.final" ELSE "attention")
  /\ UNCHANGED <<tracked, fresh, elsewhere, head, durable, grants, local, bounds>>

RollbackFinal ==
  /\ pc = "rb.final"
  /\ Goto(IF OriginalUnchanged THEN "rolled" ELSE "attention")
  /\ UNCHANGED <<checkout, durable, grants, local, bounds>>

RolledBack ==
  /\ pc = "rolled"
  /\ Publish("rolled-back", "idle", "attention")
  /\ UNCHANGED <<checkout, artifact, promotion, grants, local, edits, crashes>>

(* If this last event fails too, a confirm logs it and a recovery fails
   initialize, which leaves the plugin down. *)
Attention ==
  /\ pc = "attention"
  /\ Publish("needs-attention", "idle", IF by = "confirm" THEN "idle" ELSE "down")
  /\ UNCHANGED <<checkout, artifact, promotion, grants, local, edits, crashes>>

(* A command or file operation of the current step fails *)
Before == {"original", "preflight", "revalidate"}
Writing == {"apply", "copyCheck"}
Verifying == {"verify", "verifyFresh"}
Undoing == {"rb.diff", "rb.names", "rb.fresh", "rb.remove", "rb.reverse", "rb.checkout",
            "rb.add", "rb.final", "rc.read", "rc.tracked", "rc.fresh"}

Throw ==
  /\ \/ pc \in Before /\ Goto("idle")
     \/ pc \in Writing /\ Goto("rb.diff")
     \/ pc = "copy" /\ Goto("uncopy")
     \/ pc \in Verifying /\ Goto(OnError)
     \/ pc \in Undoing /\ Goto("attention")
  /\ UNCHANGED <<checkout, durable, grants, local, bounds>>

-----------------------------------------------------------------------------
(* Restart: recoverPromotion for a transaction that is not terminal *)

MutantBootForgets == pc = "down" /\ pc' = "idle"
BootPromotion == pc = "down" /\ pc' = IF Incomplete THEN "rc.read" ELSE "idle"

Boot ==
  /\ BootPromotion
  /\ by' = "recover"
  /\ UNCHANGED <<checkout, durable, grants, local, bounds>>

RecoverRead ==
  /\ pc = "rc.read"
  /\ Goto(IF Readable THEN "rc.tracked" ELSE "attention")
  /\ UNCHANGED <<checkout, durable, grants, local, bounds>>

(* promotionState reads the tracked diff, then the untracked targets *)
RecoverTracked ==
  /\ pc = "rc.tracked"
  /\ seen' = Seen
  /\ Goto("rc.fresh")
  /\ UNCHANGED <<checkout, durable, grants, sweep, copied, bounds>>

Observed ==
  LET present == {f \in Fresh : ~Absent(f)} IN
  CASE \E f \in present : ~SealedBytes(f)   -> "partial"
    [] seen = "clean" /\ present = {}       -> "clean"
    [] SeenCand /\ present = Fresh          -> "exact"
    [] OTHER                                -> "partial"

EmptyCandidate == Patched = {} /\ Fresh = {}

RecoverFresh ==
  /\ pc = "rc.fresh"
  /\ Goto(CASE Observed = "exact" \/ (EmptyCandidate /\ txn = "applied") -> "verify"
            [] Observed = "partial" -> "rb.diff"
            [] OTHER                -> "rb.final")
  /\ UNCHANGED <<checkout, durable, grants, local, bounds>>

(* A crash keeps the checkout and the durable state.  Inside a command that
   writes, any part of its writes has happened. *)
CrashedTracked ==
  CASE pc = "apply" /\ PatchApplies ->
         {[p \in Patched |-> IF p \in S THEN Patch(tracked[p]) ELSE tracked[p]] : S \in SUBSET Patched}
    [] pc = "rb.reverse" /\ PatchReverses ->
         {[p \in Patched |-> IF p \in S THEN Unpatch(tracked[p]) ELSE tracked[p]] : S \in SUBSET Patched}
    [] OTHER -> {tracked}

CrashedFresh ==
  CASE pc = "copy" ->
         {fresh} \cup {[fresh EXCEPT ![f] = c] :
                         f \in {g \in Fresh \ copied : Absent(g)}, c \in {"torn", "unmoded", Copied}}
    [] pc \in {"uncopy", "rb.remove"} -> {Removed(S) : S \in SUBSET copied}
    [] OTHER -> {fresh}

Crash ==
  /\ pc # "down" /\ crashes < MaxCrash
  /\ crashes' = crashes + 1
  /\ pc' = "down" /\ by' = "recover" /\ grants' = {}
  /\ seen' = "clean" /\ sweep' = FALSE /\ copied' = {}
  /\ tracked' \in CrashedTracked
  /\ fresh' \in CrashedFresh
  /\ UNCHANGED <<elsewhere, head, index, durable, edits, faults>>

-----------------------------------------------------------------------------
(* The user, in the same checkout; and damage to the artifact store *)

UserPatched(p) ==
  /\ tracked' = [tracked EXCEPT ![p] =
       CASE @ = "base" -> "aside" [] @ = "cand" -> "asideCand" [] OTHER -> "clash"]
  /\ UNCHANGED <<fresh, elsewhere, head, index, artifact>>

UserClash(p) ==
  /\ tracked[p] # "clash"
  /\ tracked' = [tracked EXCEPT ![p] = "clash"]
  /\ UNCHANGED <<fresh, elsewhere, head, index, artifact>>

UserFresh(f) ==
  /\ \/ fresh[f] # "user" /\ fresh' = [fresh EXCEPT ![f] = "user"]
     \/ ~Absent(f) /\ fresh' = [fresh EXCEPT ![f] = "gone"]
  /\ UNCHANGED <<tracked, elsewhere, head, index, artifact>>

UserElsewhere ==
  /\ \/ elsewhere' \in {"clean", "tracked", "untracked"} \ {elsewhere} /\ UNCHANGED <<head, index>>
     \/ head = "base" /\ head' = "moved" /\ UNCHANGED <<elsewhere, index>>
     \/ index = "base" /\ index' = "staged" /\ UNCHANGED <<elsewhere, head>>
  /\ UNCHANGED <<tracked, fresh, artifact>>

Damage ==
  /\ artifact = "sealed"
  /\ artifact' \in {"manifest", "files"}
  /\ UNCHANGED checkout

User ==
  /\ pc \notin QuietPc
  /\ edits < MaxEdit
  /\ edits' = edits + 1
  /\ \/ \E p \in Patched : UserPatched(p) \/ UserClash(p)
     \/ \E f \in Fresh : UserFresh(f)
     \/ UserElsewhere
     \/ Damage
  /\ UNCHANGED <<txn, promotion, pc, by, grants, local, crashes, faults>>

-----------------------------------------------------------------------------
Step ==
  \/ AssertOriginal \/ Preflight \/ Revalidate \/ Prepare \/ Start
  \/ Apply \/ CopyCheck \/ (\E f \in Fresh : Copy(f)) \/ CopyDone \/ Uncopy
  \/ VerifyTracked \/ VerifyFresh \/ Mark \/ Commit
  \/ RollbackDiff \/ RollbackNames \/ RollbackFresh \/ RollbackRemove \/ RollbackReverse
  \/ RollbackCheckout \/ RollbackAdd \/ RollbackFinal \/ RolledBack \/ Attention
  \/ RecoverRead \/ RecoverTracked \/ RecoverFresh
  \/ Throw

Next ==
  \/ \E t \in Token : Preview(t) \/ Expire(t) \/ Confirm(t)
  \/ Step
  \/ Boot
  \/ Crash
  \/ User

(* Awaited commands return or fail, and a stopped Host is started again *)
Spec == Init /\ [][Next]_vars /\ WF_vars(Step) /\ WF_vars(Boot)
-----------------------------------------------------------------------------
(* Properties *)

Pc == {"idle", "original", "preflight", "revalidate", "prepare", "start", "apply",
       "copyCheck", "copy", "uncopy", "verify", "verifyFresh", "mark", "commit",
       "rb.diff", "rb.names", "rb.fresh", "rb.remove", "rb.reverse", "rb.checkout",
       "rb.add", "rb.final", "rolled", "attention", "down",
       "rc.read", "rc.tracked", "rc.fresh"}

(* Every variable has its type. *)
TypeOK ==
  /\ tracked \in [Patched -> {"base", "cand", "aside", "asideCand", "clash"}]
  /\ fresh \in [Fresh -> {"absent", "exact", "unmoded", "torn", "user", "gone"}]
  /\ elsewhere \in {"clean", "tracked", "untracked"}
  /\ head \in {"base", "moved"} /\ index \in {"base", "staged"}
  /\ artifact \in {"sealed", "manifest", "files"}
  /\ txn \in Phase /\ promotion \in BOOLEAN
  /\ pc \in Pc /\ by \in {"confirm", "recover"} /\ grants \subseteq Token
  /\ seen \in {"clean", "cand", "other"} /\ sweep \in BOOLEAN /\ copied \subseteq Fresh
  /\ edits \in 0 .. MaxEdit /\ crashes \in 0 .. MaxCrash /\ faults \in 0 .. MaxFault

ArenaBytes ==
  \/ \E p \in Patched : tracked[p] \in {"cand", "asideCand"}
  \/ \E f \in Fresh : fresh[f] \in {"exact", "unmoded", "torn"}

(* The write-ahead rule: whatever crashes, fails or interferes, bytes that
   Arena wrote are in the original checkout only while the durable transaction
   says that there may be some.  A transaction that is only prepared, or is
   declared rolled back, has left none. *)
WriteAheadCovers ==
  ArenaBytes => txn \in {"applying", "applied", "committed", "needs-attention"}

WrittenTracked == \A p \in Patched : tracked[p] \in {"cand", "asideCand", "clash"}
WrittenFresh == \A f \in Fresh : fresh[f] \in {"exact", "unmoded", "user", "gone"}

(* A committed transaction is the promotion, and a whole one: every path of the
   candidate was written and verified, and what differs is a later edit of the
   user.  No promotion exists without a committed transaction. *)
CommittedWhole ==
  /\ promotion <=> txn = "committed"
  /\ txn = "committed" => WrittenTracked /\ WrittenFresh

(* No step of Arena changes or removes what the user wrote in the checkout,
   neither a promotion, nor its rollback, nor a recovery after a restart. *)
UserBytesKept ==
  [][edits' = edits =>
       /\ \A p \in Patched :
            /\ tracked[p] = "clash" => tracked'[p] = "clash"
            /\ tracked[p] \in {"aside", "asideCand"} => tracked'[p] \in {"aside", "asideCand"}
       /\ \A f \in Fresh : fresh[f] = "user" => fresh'[f] = "user"
       /\ elsewhere' = elsewhere
       /\ index = "staged" => index' = "staged"]_vars

(* A transaction that was begun is resolved: committed, rolled back, or left to
   a human with needs-attention.  Only a failed state event can leave it open,
   in an idle Host, and then a restart resolves it. *)
TransactionsResolve ==
  /\ Incomplete ~> (~Incomplete \/ (pc = "idle" /\ faults > 0))
  /\ (Incomplete /\ by = "recover") ~> ~Incomplete
=============================================================================
