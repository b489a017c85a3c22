----------------------------- MODULE MCChecker -----------------------------
(***************************************************************************)
(* One instance of BoardChecker for safety and liveness: a worker left to  *)
(* itself, with a restart and a skipped tick, or two of a request, a       *)
(* change on GitHub and a new launch of the card; a request and a change   *)
(* on GitHub meet on plans for a pull request that merges by itself.       *)
(***************************************************************************)
EXTENDS BoardChecker

\* The session at work first; which one does not matter.
TheSession == CHOOSE s \in Session : TRUE

Disturbed == relaunches + acts + prChanges

GreenPr(k) ==
  HasPlan(k) => k.evaluation.plan.deliverable = "pr" /\ k.evaluation.plan.review = "green"

Situation ==
  /\ Disturbed' <= 2
  /\ acts' > 0 /\ prChanges' > 0 => \A c \in CardId : GreenPr(cards'[c])
  /\ crashes' + skips' > 0 => Disturbed' = 0

MCSpec ==
  /\ Init /\ sessions[TheSession] = "busy"
  /\ [][Next /\ Situation]_vars
  /\ Fairness
=============================================================================
