----------------------------- MODULE MCArenaHost ----------------------------
(* The Host with bounds that depend on what happens.  The first run to start is
   r1, since runs have no names before.  As long as it is alone, everything may
   happen, with MaxTrouble troubles.  With a second run there are starts and
   promotions only, and one trouble: what else is done with a run does not
   touch another one, and two calls at a time come before the trouble.  None of
   the bounds stops an action that fairness speaks of. *)
EXTENDS ArenaHost

CONSTANTS r1, r2

Unused(r) == status[r] = "none" /\ \A g \in Generation : starting[<<r, g>>] = "none"

InFlightCalls == Cardinality({j \in Job : Called(j)})

Together ==
  /\ trouble' <= 1
  /\ cancelling' = {} /\ cleaned' = {} /\ strays' = {}
  /\ \A j \in Job : aside'[j] = "none"
  /\ InFlightCalls' <= InFlightCalls \/ InFlightCalls' + trouble' <= 2

MCNext ==
  /\ Next
  /\ Unused(r1) /\ Unused(r2) => Unused(r2)'
  /\ ~Unused(r2)' => Together

MCSpec == Init /\ [][MCNext]_vars /\ Fairness
=============================================================================
