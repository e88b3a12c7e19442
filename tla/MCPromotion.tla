---------------------------- MODULE MCPromotion -----------------------------
EXTENDS Promotion, TLC

CONSTANTS p1, p2, f1, f2, k1, k2

(* Nothing is assumed of when the user works in the checkout *)
NeverQuiet == {}

(* The user leaves the checkout alone from the moment a rollback has read the
   tracked diff, and while untracked files are copied or removed again *)
WriteWindows ==
  {"copy", "uncopy", "rb.names", "rb.fresh", "rb.remove", "rb.reverse", "rb.checkout"}

Paths == Permutations({p1, p2}) \cup Permutations({f1, f2})
=============================================================================
