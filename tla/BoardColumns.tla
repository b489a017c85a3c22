---------------------------- MODULE BoardColumns ----------------------------
(***************************************************************************)
(* What the board promises about its columns (board/DOCUMENTATION.md,      *)
(* Columns and Contract): every column has an owner, and a card changes    *)
(* column on a request of a person or along one of the pipeline's edges.   *)
(* The process modules implement this specification; how a card gets from  *)
(* one end of an edge to the other is their business.                      *)
(***************************************************************************)
EXTENDS Naturals

CONSTANTS CardId, MaxAttempts

VARIABLES
  column,   \* the column of each card; "removed" when it was deleted
  attempts, \* dispatch attempts each card has used up
  claiming, \* cards with a claim whose worker session is not recorded yet
  requests  \* requests of people so far

vars == <<column, attempts, claiming, requests>>

\* The columns a request can put a card into: by hand, or by return and merge.
HandColumns == {"backlog", "planning", "queued", "review", "done", "blocked"}

Init ==
  /\ column \in [CardId -> HandColumns \cup {"checking", "removed"}]
  /\ attempts = [c \in CardId |-> 0]
  /\ claiming = {}
  /\ requests = 0

Goes(c, to) == column' = [column EXCEPT ![c] = to]
Pipeline    == UNCHANGED requests

\* update, taskAction, remove, or something else that moves no card.
Request(c) ==
  /\ requests' = requests + 1
  /\ UNCHANGED <<attempts, claiming>>
  /\ \/ UNCHANGED column
     \/ column[c] # "removed" /\ \E to \in HandColumns : Goes(c, to)
     \/ column[c] = "review" /\ \E to \in {"running", "merging"} : Goes(c, to)
     \/ column[c] \notin {"running", "merging"} /\ Goes(c, "removed")

\* queued -> running, before the session exists.
Reserve(c) ==
  /\ column[c] = "queued" /\ Goes(c, "running")
  /\ claiming' = claiming \cup {c}
  /\ Pipeline /\ UNCHANGED attempts

\* One attempt more: back to the queue within the budget, past it blocked.
Retried(set) ==
  /\ attempts' = [c \in CardId |-> attempts[c] + IF c \in set THEN 1 ELSE 0]
  /\ column' = [c \in CardId |->
       IF c \notin set THEN column[c]
       ELSE IF attempts[c] + 1 > MaxAttempts THEN "blocked" ELSE "queued"]

\* The session of a claim is recorded, or the claim was lost in a restart.
Settle == claiming' \in SUBSET claiming /\ Pipeline /\ UNCHANGED <<column, attempts>>

\* The session could not be created, wherever the card is by now.
RollBack(c) ==
  /\ c \in claiming /\ column[c] # "removed"
  /\ Retried({c})
  /\ claiming' \in {claiming, claiming \ {c}}
  /\ Pipeline

\* Claims whose lease ran out, several at once.
Recycle(set) ==
  /\ \A c \in set : column[c] = "running"
  /\ Retried(set)
  /\ Pipeline /\ UNCHANGED claiming

\* The worker stopped, reported, or was interrupted; the checker's verdict; the
\* merge bot.  blockTask and markMerged look at no column: the pipeline may end
\* a card it was busy with wherever people have moved it.
Work(c) ==
  /\ Pipeline /\ UNCHANGED <<attempts, claiming>>
  /\ \/ column[c] = "running" /\ \E to \in {"checking", "review", "blocked"} : Goes(c, to)
     \/ column[c] = "checking" /\ \E to \in {"running", "review", "merging", "blocked"} : Goes(c, to)
     \/ column[c] = "review" /\ Goes(c, "merging")
     \/ column[c] = "merging" /\ Goes(c, "blocked")
     \/ column[c] # "removed" /\ Goes(c, "done")

Next ==
  \/ \E c \in CardId : Request(c) \/ Reserve(c) \/ RollBack(c) \/ Work(c)
  \/ \E set \in SUBSET CardId : Recycle(set)
  \/ Settle

Spec == Init /\ [][Next]_vars
=============================================================================
