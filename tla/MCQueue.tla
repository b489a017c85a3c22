------------------------------ MODULE MCQueue ------------------------------
(* One instance for several situations, so that no two disturbances        *)
(* multiply each other's states.                                           *)
EXTENDS MessageQueue

VARIABLE situation
CONSTANT Situations

One(condition) == IF condition THEN 1 ELSE 0

Spent == acts + lost + reruns + gaps + crashes

\* Two messages and one disturbance, which is a restart or is not; a message more
\* than the queue takes; two sessions where only one may have a queue.
Situation ==
  /\ situation' = situation
  /\ crashes' > 0 \/ file' # file => situation = "restart"
  /\ Spent' > 0 => situation \in {"disturbed", "restart"}
  /\ Spent' > 0 => Spent' = IF situation = "restart" THEN crashes' ELSE 1
  /\ made' > QueueLimit => situation = "full"

MCInit ==
  /\ Init
  /\ situation \in Situations
  /\ alive = [s \in Session |-> situation = "two" \/ s = CHOOSE x \in Session : TRUE]
MCSpec == MCInit /\ [][Next /\ Situation]_<<vars, situation>>
=============================================================================
