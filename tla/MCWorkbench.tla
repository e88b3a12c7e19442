----------------------------- MODULE MCWorkbench ----------------------------
(* The workbench in one of two scopes, which the initial state chooses: with r1
   on record, two runs of one workspace whose policy is the plain one; without,
   one new run, two workspaces, and a second policy that cannot be met.  What
   the run card does and what the setup card does meet in the start of a run
   only, which both have. *)
EXTENDS Workbench

CONSTANTS w1, w2, r1, r2, plain, strict

TwoRuns == run[r1] # None

Within ==
  TwoRuns =>
    /\ ws = w1 /\ run[r1].ws = w1
    /\ strict \notin {editor.text, file[w1]} /\ file[w2] = plain

MCInit == Init /\ Within

MCNext ==
  /\ Next
  /\ TwoRuns' = TwoRuns
  /\ Within'

MCSpec == MCInit /\ [][MCNext]_vars /\ Fairness
=============================================================================
