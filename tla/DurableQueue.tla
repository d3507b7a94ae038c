----------------------------- MODULE DurableQueue -----------------------------
(***************************************************************************)
(* What the operation queue promises the user, without workers, sessions,  *)
(* servers or crashes: every accepted operation stays pending until it is  *)
(* done or rejected, is settled by a step of its own, and can be submitted *)
(* again only if it was rejected; messages disappear from view only when a *)
(* command is accepted, and come back only when an operation is settled.   *)
(***************************************************************************)
EXTENDS Naturals

CONSTANTS Operations,   \* operation identities
          Locations     \* what can be hidden: a message in a mailbox

VARIABLES state,        \* of each operation
          hidden        \* the locations out of the user's sight

queue == <<state, hidden>>

States == {"none", "pending", "done", "rejected"}

DQInit == /\ state = [i \in Operations |-> "none"]
          /\ hidden = {}

Move(i, from, to) == /\ state[i] = from
                     /\ state' = [state EXCEPT ![i] = to]

Accept(i) == /\ Move(i, "none", "pending")
             /\ hidden' \in SUBSET Locations /\ hidden \subseteq hidden'

\* A location stops being hidden because it is gone or because it is shown.
Settle(i) == /\ Move(i, "pending", "done") \/ Move(i, "pending", "rejected")
             /\ hidden' \in SUBSET hidden

Resubmit(i) == Move(i, "rejected", "pending") /\ UNCHANGED hidden

DQNext == \E i \in Operations : Accept(i) \/ Settle(i) \/ Resubmit(i)

DQSpec == DQInit /\ [][DQNext]_queue

=============================================================================
