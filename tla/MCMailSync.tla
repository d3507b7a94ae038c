----------------------------- MODULE MCMailSync -----------------------------
(* Instances of MailSync for TLC: what the environment may do. *)
EXTENDS MailSync

Quiet == [arrivals |-> 0, changes |-> 0, renumber |-> 0, faults |-> 0, crashes |-> 0,
          reads |-> 0, operations |-> 0, all |-> 2]

\* Any two of: an arrival, a change by another client, a renumbering, a failure, a
\* kill, a request for a body, an operation of the user.
Busy == [Quiet EXCEPT !.arrivals = 1, !.changes = 1, !.renumber = 1, !.faults = 1,
                      !.reads = 1, !.crashes = 1,
                      !.operations = 1]
=============================================================================
