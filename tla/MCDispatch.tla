----------------------------- MODULE MCDispatch -----------------------------
(***************************************************************************)
(* The run of BoardDispatch, over five situations: three cards that two    *)
(* passes compete for; two cards, in any state of their projects, that     *)
(* take turns in one slot; one card that two passes meet on; and one card, *)
(* worked on by one pass at a time, that people act on, twice only before  *)
(* an attempt has failed, or that a restart and a lease that lapses under  *)
(* a live worker disturb.                                                  *)
(***************************************************************************)
EXTENDS BoardDispatch

VARIABLE situation

\* Nothing distinguishes cards, sessions or passes: cards are queued in one order,
\* one session is made first, and one pass works where one does.
TheOrder   == CHOOSE order \in [CardId -> 1..Cardinality(CardId)] :
                \A c, d \in CardId : order[c] = order[d] => c = d
TheSession == CHOOSE s \in Session : TRUE
ThePass    == CHOOSE p \in Pass : TRUE

Board == {c \in CardId : Exists(cards[c])}
Used  == {s \in Session : sessions[s] # "unused"}
Busy  == {p \in Pass : passes[p].pc # "idle"}

Untried     == \A c \in CardId : cards[c].attempts = 0
Plain       == \A c \in CardId : project[c] = "known" /\ cards[c].text = 0
OneSession  == Used \subseteq {TheSession}
OnePassAtATime == Busy \subseteq {ThePass}

Within ==
  /\ Used # {} => TheSession \in Used
  /\ situation # "faults" => expiries = 0 /\ crashes = 0
  /\ situation # "people" => acts = 0
  /\ CASE situation = "race" -> OneSession /\ Untried
       [] situation = "turns" -> OneSession /\ OnePassAtATime
       [] situation = "twins" -> TRUE
       [] situation = "people" -> OnePassAtATime /\ (acts < 2 \/ (OneSession /\ Plain /\ Untried))
       [] situation = "faults" -> OnePassAtATime /\ (expiries + crashes < 2 \/ OneSession)

\* The project of the single card changes at most once, as the first request.
Projects ==
  \A c \in CardId : project'[c] = project[c] \/ (acts = 0 /\ c \in Board)

MCInit ==
  /\ Init
  /\ situation \in {"race", "turns", "twins", "people", "faults"}
  /\ LET size == CASE situation = "race" -> 3 [] situation = "turns" -> 2 [] OTHER -> 1 IN
     /\ Board = {c \in CardId : TheOrder[c] <= size}
     /\ \A c \in CardId : \/ project[c] = "known"
                          \/ situation = "turns" /\ c \in Board
  /\ \A c \in Board : cards[c].queuedAt = TheOrder[c]

MCSpec ==
  /\ MCInit
  /\ [][Next /\ UNCHANGED situation /\ Projects /\ Within']_<<vars, situation>>
  /\ Fairness
=============================================================================
