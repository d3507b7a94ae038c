--------------------------- MODULE MCImapSessions ---------------------------
(* ImapSessions on a small instance: three callers of one account, two permits *)
(* for a synchronization out of three.                                         *)
EXTENDS ImapSessions, TLC

\* Tasks are interchangeable.
TaskSymmetry == Permutations(Tasks)

=============================================================================
