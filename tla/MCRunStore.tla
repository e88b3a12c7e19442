----------------------------- MODULE MCRunStore -----------------------------
(* Small instances of RunStore: the disk either fails cleanly or fails after
   any part of a write.  Seq(...) in the type invariant only needs membership. *)
EXTENDS RunStore

CleanFaults == {"nothing"}
AllFaults == WriteExtent
ShortWrites == {"nothing", "part"}
=============================================================================
