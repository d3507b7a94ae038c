------------------------ MODULE MCPendingOperations ------------------------
(* Instances of PendingOperations for TLC: what the environment may do. *)
EXTENDS PendingOperations

Calm == [crashes |-> 0, retries |-> 0, external |-> 0, lost |-> 0,
         store |-> 0, recovery |-> 0, renumber |-> 0]

\* One kill, one failed outcome write, one renumbered mailbox, a network
\* error and a user's retry, in every order.
Dying == [Calm EXCEPT !.crashes = 1, !.retries = 1, !.lost = 1, !.store = 1,
                      !.renumber = 1]
\* The account is edited, and another mail client is at work, while its
\* operations are replayed.
Restarted == [Calm EXCEPT !.retries = 1, !.lost = 1, !.external = 1]
\* A kill, a network error and a failed recovery.
Troubled == [Calm EXCEPT !.crashes = 1, !.lost = 1, !.recovery = 1]
=============================================================================
