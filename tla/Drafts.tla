------------------------------- MODULE Drafts -------------------------------
(***************************************************************************)
(* Drafts of one account: rows of drafts, the composer windows that edit   *)
(* them, drafts imported from the server, and what the pending operations  *)
(* append_draft and append_sent put into the server's Drafts and Sent      *)
(* mailboxes (composer_runtime.rs, draft_repository.rs, ComposerApp.tsx,   *)
(* operation_repository.rs, mail_runtime/operations.rs, imap/session.rs).  *)
(*                                                                         *)
(* A version is its revision; what is written in it, its attachments and   *)
(* its delivery are left out (SendJobs has those).  An operation waits     *)
(* while it is 'queued' or 'retry_wait', which are claimed alike.          *)
(* Operations run one at a time (AccountRuntime); a copy marked \Deleted   *)
(* counts as gone.                                                         *)
(***************************************************************************)
EXTENDS Naturals, FiniteSets, Sequences

CONSTANTS
    Source,          \* drafts of other clients in the Drafts mailbox
    MaxDrafts,       \* bound: drafts ever created
    MaxSaves,        \* bound: revision at which a draft is saved no more
    MaxImports,      \* bound: imports of one source at a time
    MaxCopies        \* bound: copies at which a replacement is cut off no more

VARIABLES
    drafts,          \* rows of drafts, by number; a deleted one stays as a tombstone
    composers,       \* revision each composer window holds, 0: no window
    imports,         \* imports of each source that wait for the network
    appends,         \* those rows of pending_operations, finished ones aside
    appending,       \* the operation that runs, and the step it has come to
    server_copies,   \* versions in the Drafts mailbox that carry X-NextMail-Draft-ID
    archived,        \* messages with the Message-ID of a draft in the Sent mailbox
    written,         \* history: drafts saved with something in them, and not dropped
    latest           \* history: the last revision queued for the server

vars == <<drafts, composers, imports, appends, appending, server_copies,
          archived, written, latest>>

windows == <<composers, imports>>
remote == <<appends, appending, server_copies, archived, latest>>

Draft == 1 .. MaxDrafts
Revision == 1 .. MaxSaves + 2
Row == [status : {"editing", "queued", "sent", "deleted"}, revision : Revision,
        user_edited : BOOLEAN, empty : BOOLEAN, discard_if_untouched : BOOLEAN,
        source : Source \cup {"none"}]
Operation == [kind : {"append_draft", "append_sent"}, draft : Draft,
              revision : Revision, status : {"waiting", "running", "failed"}]
Resting == [at |-> "rest", old |-> {}]

TypeOK ==
    /\ Len(drafts) <= MaxDrafts /\ \A d \in 1 .. Len(drafts) : drafts[d] \in Row
    /\ composers \in [Draft -> {0} \cup Revision]
    /\ written \subseteq Draft
    /\ imports \in [Source -> 0 .. MaxImports]
    /\ appends \subseteq Operation
    /\ appending.at \in {"rest", "search", "append", "replace", "done"}
    /\ \A c \in server_copies : c.uid \in Nat \ {0} /\ c.draft \in Draft /\ c.revision \in Revision
    /\ latest \in [Draft -> {0} \cup Revision] /\ archived \in [Draft -> 0 .. 2]

Init ==
    /\ drafts = <<>> /\ composers = [d \in Draft |-> 0]
    /\ imports = [s \in Source |-> 0]
    /\ appends = {} /\ appending = Resting /\ server_copies = {}
    /\ archived = [d \in Draft |-> 0]
    /\ written = {} /\ latest = [d \in Draft |-> 0]

Rows == DOMAIN drafts
Editing(d) == d \in Rows /\ drafts[d].status = "editing"
Tombstone == [status |-> "deleted", revision |-> 1, user_edited |-> FALSE, empty |-> TRUE,
              discard_if_untouched |-> FALSE, source |-> "none"]
Deleted(d) == [drafts EXCEPT ![d] = Tombstone]

\* discard_empty_draft: what the user never saved, or what is empty.
Discardable(row) ==
    /\ row.status = "editing"
    /\ (row.discard_if_untouched /\ ~row.user_edited) \/ row.empty

\* show_composer_window: one window a draft, which loads the stored revision.
Show(d) ==
    composers' = [composers EXCEPT ![d] = IF @ = 0 THEN drafts'[d].revision ELSE @]

NewRow(empty, discard, source) ==
    [status |-> "editing", revision |-> 1, user_edited |-> FALSE, empty |-> empty,
     discard_if_untouched |-> discard, source |-> source]

-----------------------------------------------------------------------------
(* Composer windows *)

\* open_composer: with what the rule of the scene puts in.  A window that cannot be
\* created leaves a draft that is not empty behind.
OpenComposer(empty) ==
    /\ Len(drafts) < MaxDrafts
    /\ LET d == Len(drafts) + 1
           row == NewRow(empty, FALSE, "none")
       IN  \/ drafts' = Append(drafts, row) /\ Show(d)
           \/ /\ drafts' = Append(drafts, IF Discardable(row) THEN Tombstone ELSE row)
              /\ UNCHANGED composers
    /\ UNCHANGED <<imports, remote, written>>

\* persist_message_action_draft: what a reply, a forward or a message sent before put in
\* counts for nothing until the user changes it.
MessageActionDraft == NewRow(FALSE, TRUE, "none")

\* open_message_action_composer and edit_sent_message: a window that cannot be
\* created takes the new draft with it.
OpenFromMessage ==
    /\ Len(drafts) < MaxDrafts
    /\ LET row == MessageActionDraft
       IN  \/ drafts' = Append(drafts, row) /\ Show(Len(drafts) + 1)
           \/ drafts' = Append(drafts, Tombstone) /\ UNCHANGED composers
    /\ UNCHANGED <<imports, remote, written>>

open_existing_composer(d) ==
    /\ Editing(d) /\ UNCHANGED drafts /\ Show(d)
    /\ UNCHANGED <<imports, remote, written>>

Imported(s) == {d \in Rows : drafts[d].source = s /\ drafts[d].status # "deleted"}

\* open_remote_draft: the draft that was imported before, or the network.
BeginImport(s) ==
    /\ \/ \E d \in Imported(s) : Editing(d) /\ UNCHANGED drafts /\ Show(d) /\ UNCHANGED imports
       \/ /\ \A d \in Imported(s) : ~Editing(d)
          /\ imports[s] < MaxImports /\ imports' = [imports EXCEPT ![s] = @ + 1]
          /\ UNCHANGED <<drafts, composers>>
    /\ UNCHANGED <<remote, written>>

\* persist_imported_draft looks again; drafts_source_message_idx refuses a second row
\* for a source, whatever became of the first.  A window that cannot be created
\* discards the draft it was for, which may be the other import's.
EndImport(s) ==
    /\ imports[s] > 0 /\ imports' = [imports EXCEPT ![s] = @ - 1]
    /\ \/ UNCHANGED <<drafts, composers>>                 \* no message, or draft.import_failed
       \/ \E d \in Imported(s) :
            /\ Editing(d)
            /\ \/ UNCHANGED drafts /\ Show(d)
               \/ /\ drafts' = IF Discardable(drafts[d]) THEN Deleted(d) ELSE drafts
                  /\ UNCHANGED composers
       \/ /\ Imported(s) = {} /\ Len(drafts) < MaxDrafts
          /\ LET row == NewRow(FALSE, TRUE, s)
             IN  \/ drafts' = Append(drafts, row) /\ Show(Len(drafts) + 1)
                 \/ drafts' = Append(drafts, Tombstone) /\ UNCHANGED composers
    /\ UNCHANGED <<remote, written>>

\* save_draft: the revision is compared, a draft that is gone or sent is not saved.
Saves(d) ==
    /\ composers[d] # 0 /\ Editing(d) /\ drafts[d].revision = composers[d]
    /\ composers[d] < MaxSaves
    /\ \E empty \in BOOLEAN :
         /\ drafts' = [drafts EXCEPT ![d].revision = @ + 1, ![d].user_edited = TRUE,
                                     ![d].empty = empty]
         /\ written' = IF empty THEN written \ {d} ELSE written \cup {d}

Save(d) ==
    /\ Saves(d) /\ composers' = [composers EXCEPT ![d] = @ + 1]
    /\ UNCHANGED <<imports, remote>>

\* queue_draft_append: older versions that wait or failed go, one that runs stays.
Superseded(d) ==
    {o \in appends : o.kind = "append_draft" /\ o.draft = d /\ o.status # "running"}

Queued(kind, d, revision) ==
    [kind |-> kind, draft |-> d, revision |-> revision, status |-> "waiting"]

\* saveAndClose: save, queue_remote_draft, and the window closes; one that cannot be
\* queued (Drafts is not mapped) stays open.
SaveAndClose(d) ==
    /\ Saves(d)
    /\ \/ /\ composers' = [composers EXCEPT ![d] = 0]
          /\ appends' = (appends \ Superseded(d)) \cup
                        {Queued("append_draft", d, drafts'[d].revision)}
          /\ latest' = [latest EXCEPT ![d] = drafts'[d].revision]
       \/ composers' = [composers EXCEPT ![d] = @ + 1] /\ UNCHANGED <<appends, latest>>
    /\ UNCHANGED <<imports, appending, server_copies, archived>>

\* discardAndClose.
DiscardAndClose(d) ==
    /\ composers[d] # 0 /\ Editing(d)
    /\ drafts' = Deleted(d) /\ composers' = [composers EXCEPT ![d] = 0]
    /\ written' = written \ {d}
    /\ UNCHANGED <<imports, remote>>

\* delete_draft, from the list: refused while a window is open.  A window that opens
\* between that check and the deletion finds nothing to save.
DeleteDraft(d) ==
    /\ Editing(d) /\ composers[d] = 0
    /\ drafts' = Deleted(d) /\ written' = written \ {d}
    /\ UNCHANGED <<windows, remote>>

\* queue_send; the window closes when the message has been sent.
QueueSend(d) ==
    /\ composers[d] # 0 /\ Editing(d)
    /\ drafts' = [drafts EXCEPT ![d].status = "queued", ![d].revision = @ + 1]
    /\ UNCHANGED <<windows, remote, written>>

\* complete_send_job_and_queue_sent, for an account with a Sent mailbox and without.
Sent(d) ==
    /\ d \in Rows /\ drafts[d].status = "queued"
    /\ drafts' = [drafts EXCEPT ![d].status = "sent", ![d].revision = @ + 1]
    /\ composers' = [composers EXCEPT ![d] = 0]
    /\ \/ appends' = appends \cup {Queued("append_sent", d, drafts'[d].revision)}
       \/ UNCHANGED appends
    /\ UNCHANGED <<imports, appending, server_copies, archived, written, latest>>

-----------------------------------------------------------------------------
(* What is on the server *)

local == <<drafts, composers, imports, written, latest>>
Running == CHOOSE o \in appends : o.status = "running"
Runs(kind, at) == appending.at = at /\ Running.kind = kind
Copies(d) == {c \in server_copies : c.draft = d}

Claim(o) ==
    /\ appending.at = "rest" /\ o.status = "waiting"
    /\ appends' = (appends \ {o}) \cup {[o EXCEPT !.status = "running"]}
    /\ appending' = [Resting EXCEPT !.at = "search"]
    /\ UNCHANGED <<local, server_copies, archived>>

\* Mutant: the copies there are go before the new version comes.
RemoveFirst ==
    /\ Runs("append_draft", "search")
    /\ appending' = [at |-> "append", old |-> {}]
    /\ server_copies' = server_copies \ Copies(Running.draft)
    /\ UNCHANGED <<local, appends, archived>>

\* replace_draft_session: the copies there are ...
SearchCopies ==
    /\ Runs("append_draft", "search")
    /\ appending' = [at |-> "append", old |-> {c.uid : c \in Copies(Running.draft)}]
    /\ UNCHANGED <<local, appends, server_copies, archived>>

\* A copy is named by a free number, not by its UID.
Free == CHOOSE uid \in 1 .. Cardinality(server_copies) + 1 :
            \A c \in server_copies : c.uid # uid

\* ... the new version ...
AppendVersion ==
    /\ Runs("append_draft", "append") /\ appending' = [appending EXCEPT !.at = "replace"]
    /\ server_copies' = server_copies \cup
         {[uid |-> Free, draft |-> Running.draft, revision |-> Running.revision]}
    /\ UNCHANGED <<local, appends, archived>>

\* ... and away with the ones there were.
RemoveOld ==
    /\ Runs("append_draft", "replace") /\ appending' = [appending EXCEPT !.at = "done"]
    /\ server_copies' = {c \in server_copies : c.uid \notin appending.old}
    /\ UNCHANGED <<local, appends, archived>>

\* append_message_session: a message that is there is not appended again.
SearchSent ==
    /\ Runs("append_sent", "search")
    /\ appending' = [appending EXCEPT !.at = IF archived[Running.draft] > 0 THEN "done" ELSE "append"]
    /\ UNCHANGED <<local, appends, server_copies, archived>>

\* The answer may be lost: "replace" is the wait for it.
AppendSent ==
    /\ Runs("append_sent", "append") /\ appending' = [appending EXCEPT !.at = "replace"]
    /\ archived' = [archived EXCEPT ![Running.draft] = @ + 1]
    /\ UNCHANGED <<local, appends, server_copies>>

AppendAnswered ==
    /\ Runs("append_sent", "replace") /\ appending' = [appending EXCEPT !.at = "done"]
    /\ UNCHANGED <<local, appends, server_copies, archived>>

Complete ==
    /\ appending.at = "done" /\ appending' = Resting
    /\ appends' = appends \ {Running}
    /\ UNCHANGED <<local, server_copies, archived>>

\* The connection is lost, or the server refuses: what it did stays done.  While there
\* are attempts left and the error is not final, the operation is tried again.
CutOff == appending.at = "replace" => Cardinality(server_copies) < MaxCopies

Fail ==
    /\ CutOff /\ appending.at \in {"search", "append", "replace"} /\ appending' = Resting
    /\ \E status \in {"waiting", "failed"} :
         appends' = (appends \ {Running}) \cup {[Running EXCEPT !.status = status]}
    /\ UNCHANGED <<local, server_copies, archived>>

\* The user tries an operation that failed for good again.
retry_pending_operation(o) ==
    /\ o.status = "failed"
    /\ appends' = (appends \ {o}) \cup {[o EXCEPT !.status = "waiting"]}
    /\ UNCHANGED <<local, appending, server_copies, archived>>

\* The process ends and starts again: recover_pending_operations.
Crash ==
    /\ CutOff
    /\ composers' = [d \in Draft |-> 0] /\ imports' = [s \in Source |-> 0]
    /\ appending' = Resting
    /\ appends' = {IF o.status = "running" THEN [o EXCEPT !.status = "waiting"] ELSE o :
                       o \in appends}
    /\ UNCHANGED <<drafts, server_copies, archived, written, latest>>

Next ==
    \/ \E empty \in BOOLEAN : OpenComposer(empty)
    \/ OpenFromMessage
    \/ \E s \in Source : BeginImport(s) \/ EndImport(s)
    \/ \E d \in Rows :
         \/ open_existing_composer(d) \/ Save(d) \/ SaveAndClose(d) \/ DiscardAndClose(d)
         \/ DeleteDraft(d) \/ QueueSend(d) \/ Sent(d)
    \/ \E o \in appends : Claim(o) \/ retry_pending_operation(o)
    \/ SearchCopies \/ AppendVersion \/ RemoveOld
    \/ SearchSent \/ AppendSent \/ AppendAnswered
    \/ Complete \/ Fail
    \/ Crash

Spec == Init /\ [][Next]_vars

-----------------------------------------------------------------------------
(* Properties *)

\* What the user saved is there until the user drops it, whatever windows failed to
\* open and whichever imports met.
WrittenDraftsSurvive == \A d \in written : drafts[d].status # "deleted"

\* A version on the server is replaced, never lost: once a version of a draft reached
\* it there is one at every moment, an interrupted update included
\* (docs/iterations/0004), and a single one when nothing is left to do for the draft.
Replaces ==
    \A d \in Draft :
        /\ Copies(d) # {} => Copies(d)' # {}
        /\ (\A o \in appends' : o.kind = "append_draft" => o.draft # d) => Cardinality(Copies(d)') <= 1

\* A message is archived once, however often append_sent is cut off and replayed, and
\* what is reported as archived is in the Sent mailbox.
ArchivedOnce ==
    /\ \A d \in Draft : archived[d] <= 1
    /\ appending.at = "done" /\ Running.kind = "append_sent" => archived[Running.draft] = 1

\* docs/iterations/0004: once online again only the latest version remains on the
\* server.  It does not: a version that fails while a newer one waits is tried again
\* after the newer one and replaces it.
LatestVersionRemains ==
    \A d \in Draft : \A c \in Copies(d) :
        (\A o \in appends : o.kind = "append_draft" => o.draft # d) => c.revision = latest[d]

=============================================================================
