----------------------------- MODULE SetupPolicy ----------------------------
(***************************************************************************)
(* The repository policy and the setup reports of the Host (policy.ts;     *)
(* service.ts preflight, prepareSetup, writeSetupPolicy and the admission  *)
(* part of start; git.ts inspect and discover), as calls that interleave   *)
(* with each other and with people who edit and commit in the checkout.    *)
(*                                                                         *)
(* Abstractions.  A policy is a document: its layout is left out, so a     *)
(* text, its digest and its parsed form are one value, and a text that     *)
(* does not parse, like a file that cannot be read safely, is Broken.  The *)
(* policy file stands for the checkout: it is clean when the file is as in *)
(* HEAD, which assumes that Git does not ignore the file.  Preflight's     *)
(* looks at status and policy are one step: discover looks at the status   *)
(* again.  Credentials, routes and identities raise no blocker here.       *)
(* Of a report the Host keeps what it has read; the copy on disk is read   *)
(* after a restart only, so there is one.                                  *)
(***************************************************************************)
EXTENDS FiniteSets

CONSTANTS
  Workspace,
  Doc,        \* policy documents
  Template,   \* the document written from the Host's fallback rules
  Untrusted,  \* documents whose signature the Host's signature mode refuses
  Unmet,      \* documents that require a test command or a Reviewer not configured
  Required,   \* policyPackMode is "required"
  Absent, Broken, None

ASSUME DocAssumption ==
  /\ Template \in Doc /\ Untrusted \subseteq Doc /\ Unmet \subseteq Doc
  /\ Required \in BOOLEAN
  /\ Cardinality({Absent, Broken, None}) = 3
  /\ {Absent, Broken, None} \cap Doc = {}

VARIABLES
  file,      \* the policy file of a workspace
  head,      \* the policy in HEAD
  reports,   \* what the last setup report of a workspace has read
  reported,  \* history: revisions that some report of the workspace has read
  calls      \* calls in flight

hostVars == <<file, head, reports, reported, calls>>

-----------------------------------------------------------------------------
Content == Doc \cup {Absent, Broken}

(* Who calls: the launch form, the setup card, a start, a save, and the setup
   card again when a credential was saved or its first read failed *)
Caller == {"launch", "card", "begin", "save", "refresh"} \X Workspace

Idle == [at |-> "idle", text |-> None, read |-> None, ready |-> FALSE, raced |-> None]

(* The call c goes on at another step *)
At(c, step) == [calls EXCEPT ![c].at = step]

(* Between a check of a call and what it was for *)
Windows == {"write", "status", "discover", "resolve"}

ASSUME NoneAssumption == None \notin Windows

(* The file changes under calls that have already looked at it.  That a call
   has raced, and where, is history. *)
Racing(w) ==
  [c \in Caller |->
     IF c[2] = w /\ calls[c].at \in Windows THEN [calls[c] EXCEPT !.raced = calls[c].at] ELSE calls[c]]

(* resolveArenaPolicy: the text offered to the editor, the rules in force, and
   whether nothing blocks.  A broken file never falls back silently. *)
TextOf(x) == IF x \in Doc THEN x ELSE Template

Resolves(x) ==
  \/ x \in Doc \ Untrusted
  \/ x = Absent /\ ~Required

RulesMet(x) == TextOf(x) \notin Unmet

(* git status, of a file that Git does not ignore *)
Clean(w) == file[w] = head[w]

(* preflight.ready *)
Ready(w) == Clean(w) /\ Resolves(file[w]) /\ RulesMet(file[w])

(* The first half of writeArenaPolicy: a file that is there must parse and have
   the digest of the report, a missing one must be missing there too *)
MutantAnyRevision(w) ==
  \/ file[w] \in Doc /\ reports[w] \in Doc
  \/ file[w] = Absent /\ reports[w] \notin Doc
AsReported(w) ==
  \/ file[w] \in Doc /\ reports[w] = file[w]
  \/ file[w] = Absent /\ reports[w] \notin Doc

-----------------------------------------------------------------------------
(* prepareSetup reads the text, and then the preflight reads the file again ... *)
Prepare(c) ==
  /\ calls[c].at = "prepare"
  /\ calls' = [calls EXCEPT ![c].at = "publish", ![c].read = file[c[2]]]
  /\ UNCHANGED <<file, head, reports, reported>>

(* ... before the report replaces the last one, whichever was begun first.  A
   write that found no report goes on from here. *)
Publish(c) ==
  /\ calls[c].at = "publish"
  /\ reports' = [reports EXCEPT ![c[2]] = calls[c].read]
  /\ reported' = [reported EXCEPT ![c[2]] = @ \cup {calls[c].read}]
  /\ calls' = [calls EXCEPT ![c].at = IF calls[c].text = None THEN "answered" ELSE "compare",
                            ![c].ready = Ready(c[2])]
  /\ UNCHANGED <<file, head>>

(* writeSetupPolicy compares the file with the Host's report, not with what the
   caller was shown *)
Compare(c) ==
  /\ calls[c].at = "compare"
  /\ \/ /\ calls[c].text \in Doc
        /\ AsReported(c[2])
        /\ calls' = At(c, "write")
     \/ /\ calls[c].text \notin Doc \/ ~AsReported(c[2])
        /\ calls' = At(c, "failed")
  /\ UNCHANGED <<file, head, reports, reported>>

Write(c) ==
  /\ calls[c].at = "write"
  /\ file' = [file EXCEPT ![c[2]] = calls[c].text]
  /\ calls' = [Racing(c[2]) EXCEPT ![c] = [calls[c] EXCEPT !.at = "reload", !.text = None]]
  /\ UNCHANGED <<head, reports, reported>>

(* What was written must load again; then the report is prepared anew *)
Reload(c) ==
  /\ calls[c].at = "reload"
  /\ calls' = At(c, IF file[c[2]] \in Doc THEN "prepare" ELSE "failed")
  /\ UNCHANGED <<file, head, reports, reported>>

(* start: preflight, then discover, then the policy again *)
Check(c) ==
  /\ calls[c].at = "check"
  /\ calls' = At(c, IF Ready(c[2]) THEN "status" ELSE "failed")
  /\ UNCHANGED <<file, head, reports, reported>>

(* inspect has two commands: git status refuses a checkout that is not clean ... *)
MutantStatusIgnored(c) ==
  /\ calls[c].at = "status"
  /\ calls' = At(c, "discover")
  /\ UNCHANGED <<file, head, reports, reported>>
InspectStatus(c) ==
  /\ calls[c].at = "status"
  /\ calls' = At(c, IF Clean(c[2]) THEN "discover" ELSE "failed")
  /\ UNCHANGED <<file, head, reports, reported>>

(* ... and git rev-parse freezes HEAD, whatever the checkout is by then *)
Discover(c) ==
  /\ calls[c].at = "discover"
  /\ calls' = [calls EXCEPT ![c].at = "resolve", ![c].read = head[c[2]]]
  /\ UNCHANGED <<file, head, reports, reported>>

(* Only the blockers of the policy itself are looked at a second time *)
Resolve(c) ==
  /\ calls[c].at = "resolve"
  /\ calls' = At(c, IF Resolves(file[c[2]]) THEN "answered" ELSE "failed")
  /\ UNCHANGED <<file, head, reports, reported>>

SetupStep(c) ==
  \/ Prepare(c) \/ Publish(c) \/ Compare(c) \/ Write(c) \/ Reload(c)
  \/ Check(c) \/ InspectStatus(c) \/ Discover(c)

-----------------------------------------------------------------------------
(* People in the checkout *)

Edit(w) ==
  /\ \E x \in Content \ {file[w]} : file' = [file EXCEPT ![w] = x]
  /\ calls' = Racing(w)
  /\ UNCHANGED <<head, reports, reported>>

Commit(w) ==
  /\ ~Clean(w)
  /\ head' = [head EXCEPT ![w] = file[w]]
  /\ UNCHANGED <<file, reports, reported, calls>>

-----------------------------------------------------------------------------
(* A caller asks, and takes the answer *)

Ask(c, step) == [calls EXCEPT ![c] = [Idle EXCEPT !.at = step]]

Free(c) == calls[c] = Idle
Over(c) == calls[c].at \in {"answered", "failed"}
Answered(c) == calls[c].at = "answered"

HostInit(found) ==
  /\ file \in [Workspace -> found]
  /\ head = file
  /\ reports = [w \in Workspace |-> None]
  /\ reported = [w \in Workspace |-> {}]
=============================================================================
