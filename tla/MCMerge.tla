------------------------------ MODULE MCMerge ------------------------------
(***************************************************************************)
(* The run of BoardMerge, over two situations: two cards in the queue      *)
(* while the base moves, each with or without a project, and one card with *)
(* refused merges, lost answers, requests of people and a restart.         *)
(***************************************************************************)
EXTENDS BoardMerge

\* The card of the second situation; which one does not matter.
TheCard == CHOOSE c \in CardId : TRUE
OneCard == \A c \in CardId \ {TheCard} : ~Exists(cards[c])

Board == {c \in CardId : Exists(cards[c])}

Within ==
  /\ lost' \subseteq lost \cup Board
  /\ OneCard \/ UNCHANGED <<refusals, acts, crashes>>

MCSpec ==
  /\ Init /\ TheCard \in Board /\ (OneCard \/ Board = CardId) /\ lost \subseteq Board
  /\ [][Next /\ Within]_vars
  /\ Fairness
=============================================================================
