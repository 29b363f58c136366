---------------------------- MODULE MessageLife ----------------------------
(***************************************************************************)
(* What the room promises about the work it accepts, with no queue, no     *)
(* turn log, no seats and no delegation: every accepted message is waiting, *)
(* running in exactly one turn, or finished for good, and a destination    *)
(* replaces its running turn only once every message of it is finished     *)
(* ("Exactly one turn per destination runs at a time; everything else for  *)
(* that destination stacks visibly in the queue").                         *)
(***************************************************************************)
CONSTANTS Ids,      \* identities of the messages the room may accept
          Dests     \* destinations: the local channel and the agent seats

VARIABLES fate,     \* what has become of each message
          running   \* the messages of the turn running at each destination

Final == {"ended", "rejected", "dropped"}

Init == /\ fate = [m \in Ids |-> "new"]
        /\ running = [d \in Dests |-> {}]

\* The moves a message may make. One handler may take several of them, so the
\* relation is closed under composition; nothing leaves a final fate and
\* nothing returns to the queue.
Onward(a, b) == \/ a = "new"     /\ b \in {"queued", "running", "rejected"}
                \/ a = "queued"  /\ b \in {"running", "rejected", "dropped"}
                \/ a = "running" /\ b \in {"ended", "rejected"}

Moves == \A m \in Ids : fate'[m] = fate[m] \/ Onward(fate[m], fate'[m])

\* A message is running exactly when one destination is running it.
OneTurnEach == \A m \in Ids :
    /\ (fate'[m] = "running") <=> (\E d \in Dests : m \in running'[d])
    /\ \A d, e \in Dests : m \in running'[d] \cap running'[e] => d = e

\* A running turn is never added to, split or displaced: it is over, message
\* by message, before its destination runs anything else.
Serial == \A d \in Dests :
    running'[d] # running[d] => \A m \in running[d] : fate'[m] \in Final

Next == Moves /\ OneTurnEach /\ Serial

Spec == Init /\ [][Next]_<<fate, running>>
=============================================================================
