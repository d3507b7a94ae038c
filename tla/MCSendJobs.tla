----------------------------- MODULE MCSendJobs -----------------------------
(* Instances of SendJobs for TLC: who owns the drafts, what may go wrong. *)
EXTENDS SendJobs, TLC

CONSTANTS d1, d2, d3

OneAccount  == [d \in Drafts |-> 1]
TwoAccounts == [d \in Drafts |-> IF d = d3 THEN 2 ELSE 1]

Calm == [crashes |-> 0, refused |-> 0, lost |-> 0, store |-> 0,
         retries |-> 0, mailboxes |-> 0]
\* Two kills, two refusals, a lost answer, a database error, a user's retry
\* and a deleted Sent mailbox.
Dying == [k \in DOMAIN Calm |-> IF k \in {"crashes", "refused"} THEN 2 ELSE 1]
\* A kill and a refusal.
Deferring == [Calm EXCEPT !.crashes = 1, !.refused = 1]

\* Drafts of account 1 are interchangeable.
SameAccount == Permutations({d1, d2})
=============================================================================
