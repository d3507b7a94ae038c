---------------------------- MODULE ComposerWindow ----------------------------
(***************************************************************************)
(* One draft and the Composer window that edits it: what the window shows, *)
(* the commands it waits for, and the steps those take in the database     *)
(* beside each other (ComposerApp.tsx, composer_runtime.rs,                *)
(* composer_runtime/delivery.rs, draft_repository.rs).                     *)
(*                                                                         *)
(* Recipients, subject and text are one content, numbered by its changes;  *)
(* what is saved is sanitized, and stands for the content it was made of.  *)
(* A command goes on in the process when its window is gone, its answer is *)
(* for nobody then.  The commands of Save and of Send run one after the    *)
(* other (flow); attachments, templates and signatures beside them         *)
(* (calls).  Sizes of files are left out: a file may be refused.           *)
(***************************************************************************)
EXTENDS Naturals, FiniteSets

CONSTANTS
    File,        \* files that can be attached
    Call,        \* commands that run at the same time
    MaxEdits, MaxSaved,      \* bounds: changes, the revision that is saved no more,
    MaxOpens, MaxReports     \* windows, reports on their way at a time

VARIABLES
    draft,       \* the row: status, content, revision
    attached,    \* rows of draft_attachments
    mail,        \* the MIME that was queued: what it was made of, and what the window showed
    delivery,    \* status of the send job
    window,      \* what the window shows, the revision it knows; history: whether it lost
                 \* an answer, and what an earlier window was removing when it loaded
    flow,        \* Save, Don't save or Send: how far it is, and what the window showed
    calls,       \* the other commands of this window and of those before it
    reports,     \* answers to get_send_job on their way, in any order
    closed       \* history: how the window went, what it showed, how many there were

vars == <<draft, attached, mail, delivery, window, flow, calls, reports, closed>>

Idle == [kind |-> "none", at |-> "none", todo |-> {}, done |-> {}, mine |-> FALSE]
Blank == [content |-> 0, files |-> {}]
AtRest == [why |-> "none", at |-> "none", seen |-> Blank, read |-> Blank]
NoMail == [made |-> Blank, seen |-> Blank]
NoWindow == [open |-> FALSE, content |-> 0, valid |-> TRUE, listed |-> {}, revision |-> 0,
             sending |-> "none", asking |-> FALSE, lost |-> FALSE, leaving |-> {}]

submitting == flow.why = "send"
editable == window.open /\ window.sending = "none" /\ ~submitting
Free == editable /\ ~window.asking /\ flow.why = "none"
Goes(how) ==
    /\ window' = NoWindow /\ reports' = {}
    /\ closed' = [closed EXCEPT !.how = how, !.seen = flow.seen]
    /\ calls' = [c \in Call |-> [calls[c] EXCEPT !.mine = FALSE]]

backend == <<draft, attached, mail, delivery>>
\* get_draft, with its attachments.
Stored == [content |-> draft.content, files |-> attached]
Leaving == UNION {calls[c].todo : c \in {c \in Call : calls[c].kind = "remove"}}
Shown == [content |-> window.content, files |-> window.listed \ (Leaving \cup window.leaving)]
\* Changes that are made when a command answers count as made.
Room == window.content + Cardinality({c \in Call : calls[c].kind \in {"image", "render"}})
            < MaxEdits

-----------------------------------------------------------------------------
(* The window *)

\* get_bootstrap: the window loads the draft as it is stored.
get_bootstrap ==
    /\ ~window.open /\ draft.status = "editing" /\ closed.count < MaxOpens
    /\ window' = [NoWindow EXCEPT !.open = TRUE, !.content = Stored.content,
                                  !.listed = Stored.files, !.revision = draft.revision,
                                  !.leaving = Leaving]
    /\ closed' = [how |-> "open", seen |-> Blank, count |-> closed.count + 1]
    /\ UNCHANGED <<backend, flow, calls, reports>>

\* The user changes a field; what stands in a recipient field may not be an address.
markDirty ==
    /\ Free /\ Room
    /\ \E valid \in BOOLEAN :
         window' = [window EXCEPT !.content = @ + 1, !.valid = valid]
    /\ UNCHANGED <<backend, flow, calls, reports, closed>>

\* The window manager, or close_account_windows, asks the window to close.
onCloseRequested ==
    /\ window.open
    /\ \/ window.sending = "sent" /\ Goes("sent") /\ UNCHANGED <<backend, flow>>
       \/ /\ editable /\ window' = [window EXCEPT !.asking = TRUE]
          /\ UNCHANGED <<backend, flow, calls, reports, closed>>

cancelClose ==
    /\ window.asking /\ flow.why = "none"
    /\ window' = [window EXCEPT !.asking = FALSE]
    /\ UNCHANGED <<backend, flow, calls, reports, closed>>

Begin(why, at) == flow' = [AtRest EXCEPT !.why = why, !.at = at, !.seen = Shown]

\* resolveAllRecipients refuses what is not an address; the question is withdrawn.
saveAndClose ==
    /\ editable /\ window.asking /\ flow.why = "none"
    /\ IF window.valid
       THEN window.revision < MaxSaved /\ Begin("save", "save") /\ UNCHANGED window
       ELSE window' = [window EXCEPT !.asking = FALSE] /\ UNCHANGED flow
    /\ UNCHANGED <<backend, calls, reports, closed>>

discardAndClose ==
    /\ editable /\ window.asking /\ flow.why = "none"
    /\ Begin("discard", "delete")
    /\ UNCHANGED <<backend, window, calls, reports, closed>>

sendMessage ==
    /\ Free /\ window.valid /\ window.revision < MaxSaved
    /\ Begin("send", "save")
    /\ UNCHANGED <<backend, window, calls, reports, closed>>

-----------------------------------------------------------------------------
(* Save, Don't save and Send, one command after the other *)

At(place) == flow.at = place
To(place) == flow' = [flow EXCEPT !.at = place]

\* Without a look at the number of rows: a save that meets another revision succeeds.
save_draft_unchecked ==
    /\ At("save")
    /\ \/ /\ draft.status = "editing" /\ draft.revision = window.revision
          /\ draft' = [draft EXCEPT !.content = flow.seen.content, !.revision = @ + 1]
          /\ \/ To("saved") /\ UNCHANGED window
             \/ To("failed") /\ window' = [window EXCEPT !.lost = TRUE]
       \/ To("saved") /\ UNCHANGED <<draft, window>>
    /\ UNCHANGED <<attached, mail, delivery, calls, reports, closed>>

\* save_draft: the revision the window knows, and the status, are compared in the
\* update.  The row is read again for the answer, which may fail.
save_draft ==
    /\ At("save")
    /\ \/ /\ draft.status = "editing" /\ draft.revision = window.revision
          /\ draft' = [draft EXCEPT !.content = flow.seen.content, !.revision = @ + 1]
          /\ \/ To("saved") /\ UNCHANGED window
             \/ To("failed") /\ window' = [window EXCEPT !.lost = TRUE]
       \/ To("failed") /\ UNCHANGED <<draft, window>>
    /\ UNCHANGED <<attached, mail, delivery, calls, reports, closed>>

saveNow ==
    /\ At("saved")
    /\ window' = [window EXCEPT !.revision = draft.revision]
    /\ To(IF flow.why = "send" THEN "read" ELSE "append")
    /\ UNCHANGED <<backend, calls, reports, closed>>

\* Drafts is not mapped, a part cannot be read, the operation cannot be queued.
queue_remote_draft ==
    /\ At("append") /\ (To("close") \/ To("failed"))
    /\ UNCHANGED <<backend, window, calls, reports, closed>>

discard_draft_session ==
    /\ At("delete")
    /\ \/ /\ draft.status = "editing"
          /\ draft' = [draft EXCEPT !.status = "gone"] /\ attached' = {} /\ To("close")
       \/ To("failed") /\ UNCHANGED <<draft, attached>>
    /\ UNCHANGED <<mail, delivery, window, calls, reports, closed>>

destroy ==
    /\ At("close") /\ Goes(flow.why) /\ flow' = AtRest
    /\ UNCHANGED backend

\* The error is shown, and the window can be used again.
Failed ==
    /\ At("failed") /\ flow' = AtRest
    /\ window' = [window EXCEPT !.asking = FALSE]
    /\ UNCHANGED <<backend, calls, reports, closed>>

\* queue_send reads the draft and its attachments ...
queue_send ==
    /\ At("read")
    /\ \/ flow' = [flow EXCEPT !.at = "queue", !.read = Stored]
       \/ To("failed")
    /\ UNCHANGED <<backend, window, calls, reports, closed>>

\* ... and writes the message before the transaction that takes the draft out of
\* editing.  The job is read again for the answer, which may fail.
queue_send_job ==
    /\ At("queue")
    /\ \/ /\ draft.status = "editing"
          /\ draft' = [draft EXCEPT !.status = "queued", !.revision = @ + 1]
          /\ mail' = [made |-> flow.read, seen |-> flow.seen]
          /\ delivery' = "queued"
          /\ \/ To("queued") /\ UNCHANGED window
             \/ To("failed") /\ window' = [window EXCEPT !.lost = TRUE]
       \/ To("failed") /\ UNCHANGED <<draft, mail, delivery, window>>
    /\ UNCHANGED <<attached, calls, reports, closed>>

setSendJob ==
    /\ At("queued") /\ flow' = AtRest
    /\ window' = [window EXCEPT !.sending = delivery]
    /\ UNCHANGED <<backend, calls, reports, closed>>

-----------------------------------------------------------------------------
(* After that: the window follows the send job *)

\* The sender of the account (SendJobs).
deliver ==
    /\ \/ delivery = "queued" /\ delivery' = "sending" /\ UNCHANGED draft
       \/ delivery = "sending" /\ delivery' \in {"queued", "failed"} /\ UNCHANGED draft
       \/ /\ delivery = "sending" /\ delivery' = "sent"
          /\ draft' = [draft EXCEPT !.status = "sent", !.revision = @ + 1]
    /\ UNCHANGED <<attached, mail, window, flow, calls, reports, closed>>

\* At the event send-job-changed, and every 1.5 seconds.
get_send_job ==
    /\ window.open /\ window.sending # "none" /\ Cardinality(reports) < MaxReports
    /\ reports' = reports \cup {delivery}
    /\ UNCHANGED <<backend, window, flow, calls, closed>>

TakeReport ==
    /\ \E status \in reports :
         /\ window' = [window EXCEPT !.sending = status]
         /\ reports' = reports \ {status}
    /\ UNCHANGED <<backend, flow, calls, closed>>

\* A job that did not fail, or no longer, is refused.
retry_send ==
    /\ window.open /\ window.sending = "failed" /\ delivery = "failed"
    /\ Cardinality(reports) < MaxReports
    /\ delivery' = "queued" /\ reports' = reports \cup {"queued"}
    /\ UNCHANGED <<draft, attached, mail, window, flow, calls, closed>>

\* 80 milliseconds after the window has learnt it, unless an older answer comes.
closeWhenSent ==
    /\ window.open /\ window.sending = "sent" /\ Goes("sent")
    /\ UNCHANGED <<backend, flow>>

-----------------------------------------------------------------------------
(* Attachments, templates and signatures *)

Start(c, kind, at, todo) ==
    /\ calls[c] = Idle
    /\ calls' = [calls EXCEPT ![c] =
                   [kind |-> kind, at |-> at, todo |-> todo, done |-> {}, mine |-> TRUE]]
    /\ UNCHANGED <<backend, window, flow, reports, closed>>

\* A name is used again once nothing refers to it: identifiers never are.
New == File \ (attached \cup window.listed \cup
                UNION {calls[c].todo \cup calls[c].done : c \in Call})

\* Files are dropped on the window even while it asks, saves or discards.
addAttachmentPaths(c) ==
    editable /\ \E files \in (SUBSET New) \ {{}} : Start(c, "add", "read", files)
addInlineImage(c) == Free /\ Room /\ \E f \in New : Start(c, "image", "read", {f})
removeAttachment(c) == Free /\ \E f \in window.listed : Start(c, "remove", "delete", {f})
\* One at a time (switchingDefinition).
selectTemplate(c) ==
    /\ Free /\ Room /\ ~\E d \in Call : calls[d].kind = "render" /\ calls[d].mine
    /\ Start(c, "render", "answer", {})

CallAt(c, place) == calls[c].at = place
Proceed(c, place) == calls' = [calls EXCEPT ![c].at = place]
Fail(c) == calls' = [calls EXCEPT ![c] = Idle]
beside == <<draft, mail, delivery, flow, reports, closed>>

\* The draft must be there, whatever its status; its sizes are summed up.
Begins(c, kind) ==
    /\ CallAt(c, "read") /\ calls[c].kind = kind
    /\ IF draft.status = "gone" THEN Fail(c) ELSE Proceed(c, "check")
    /\ UNCHANGED <<beside, window, attached>>

add_attachments(c) == Begins(c, "add")
add_inline_image(c) == Begins(c, "image")

\* One file after the other: each is checked, its draft too, and its content written ...
CheckEditable(c) ==
    /\ CallAt(c, "check")
    /\ \/ draft.status = "editing" /\ Proceed(c, "insert")
       \/ Fail(c)
    /\ UNCHANGED <<beside, window, attached>>

\* ... before the row, which needs no more than that the draft is there.  What fails
\* leaves the files before it where they are.
Insert(c, kind) ==
    /\ CallAt(c, "insert") /\ calls[c].kind = kind
    /\ IF draft.status = "gone"
       THEN Fail(c) /\ UNCHANGED attached
       ELSE \E f \in calls[c].todo :
              /\ attached' = attached \cup {f}
              /\ calls' = [calls EXCEPT
                             ![c].todo = @ \ {f}, ![c].done = @ \cup {f},
                             ![c].at = IF calls[c].todo = {f} THEN "answer" ELSE "check"]
    /\ UNCHANGED <<beside, window>>

add_draft_attachment(c) == Insert(c, "add")
add_draft_inline_image(c) == Insert(c, "image")

remove_draft_attachment(c) ==
    /\ CallAt(c, "delete")
    /\ IF draft.status = "editing" /\ calls[c].todo \subseteq attached
       THEN attached' = attached \ calls[c].todo /\ Proceed(c, "answer")
       ELSE Fail(c) /\ UNCHANGED attached
    /\ UNCHANGED <<beside, window>>

Listed(c) ==
    IF calls[c].kind = "remove" THEN window.listed \ calls[c].todo
    ELSE window.listed \cup calls[c].done

\* The window shows what the command did, whatever it does itself by now: what is
\* rendered replaces the recipients that are typed as well.
Answer(c) ==
    /\ CallAt(c, "answer") /\ Fail(c)
    /\ \/ ~calls[c].mine /\ UNCHANGED window
       \/ /\ calls[c].mine /\ calls[c].kind \in {"add", "remove"}
          /\ window' = [window EXCEPT !.listed = Listed(c)]
       \/ /\ calls[c].mine /\ calls[c].kind \in {"image", "render"}
          /\ \E valid \in {window.valid, calls[c].kind = "render" \/ window.valid} :
               window' = [window EXCEPT !.listed = Listed(c), !.content = @ + 1, !.valid = valid]
       \/ calls[c].kind = "render" /\ UNCHANGED window        \* it cannot be rendered
    /\ UNCHANGED <<beside, attached>>

-----------------------------------------------------------------------------

\* The process ends; a job that was being sent is queued again.
EndProcess ==
    /\ window.open /\ window' = NoWindow /\ flow' = AtRest /\ reports' = {}
    /\ calls' = [c \in Call |-> Idle]
    /\ closed' = [closed EXCEPT !.how = "ended"]
    /\ delivery' = IF delivery = "sending" THEN "queued" ELSE delivery
    /\ UNCHANGED <<draft, attached, mail>>

Init ==
    /\ draft = [status |-> "editing", content |-> 0, revision |-> 1]
    /\ attached = {} /\ mail = NoMail /\ delivery = "none"
    /\ window = NoWindow /\ flow = AtRest /\ calls = [c \in Call |-> Idle]
    /\ reports = {} /\ closed = [how |-> "new", seen |-> Blank, count |-> 0]

Next ==
    \/ get_bootstrap \/ markDirty \/ onCloseRequested \/ cancelClose
    \/ saveAndClose \/ discardAndClose \/ sendMessage
    \/ save_draft \/ saveNow \/ queue_remote_draft \/ discard_draft_session \/ destroy
    \/ Failed \/ queue_send \/ queue_send_job \/ setSendJob
    \/ deliver \/ get_send_job \/ TakeReport \/ retry_send \/ closeWhenSent
    \/ \E c \in Call :
         \/ addAttachmentPaths(c) \/ addInlineImage(c) \/ removeAttachment(c)
         \/ selectTemplate(c)
         \/ add_attachments(c) \/ add_inline_image(c) \/ CheckEditable(c)
         \/ add_draft_attachment(c) \/ add_draft_inline_image(c)
         \/ remove_draft_attachment(c) \/ Answer(c)
    \/ EndProcess

Spec == Init /\ [][Next]_vars

-----------------------------------------------------------------------------
(* Properties *)

TypeOK ==
    /\ draft \in [status : {"editing", "queued", "sent", "gone"}, content : 0 .. MaxEdits,
                  revision : 1 .. MaxSaved + 2]
    /\ attached \subseteq File
    /\ delivery \in {"none", "queued", "sending", "sent", "failed"}
    /\ window.content \in 0 .. MaxEdits /\ window.listed \subseteq File
    /\ window.sending \in {"none", "queued", "sending", "sent", "failed"}
    /\ flow.why \in {"none", "save", "discard", "send"}
    /\ \A c \in Call : calls[c].todo \cup calls[c].done \subseteq File
    /\ closed.count \in 0 .. MaxOpens

\* A window that closed with "save as draft" has stored what it showed when the user
\* asked for it, its attachments included (docs/iterations/0003); one that closed
\* without leaves nothing, and one that closed by itself has its message sent.
ClosesAsAsked ==
    /\ closed.how = "save" =>
         draft.content = closed.seen.content /\ closed.seen.files \subseteq attached
    /\ closed.how = "discard" => draft.status = "gone" /\ attached = {}
    /\ closed.how = "sent" => delivery = "sent"

\* A message that is queued is what the window showed when Send was pressed, with every
\* attachment that it listed and that was not being removed, whatever was attached,
\* rendered or refused meanwhile.
SentIsShown ==
    mail # NoMail =>
        /\ mail.made.content = mail.seen.content
        /\ mail.seen.files \subseteq mail.made.files

\* An attachment that is listed is stored, or its removal is about to be shown.
ListedIsStored ==
    window.open /\ draft.status # "gone" =>
        window.listed \subseteq attached \cup window.leaving \cup
            UNION {calls[c].todo : c \in {c \in Call : calls[c].kind = "remove"
                                                       /\ CallAt(c, "answer")}}

\* A window that can be edited can be saved, unless an answer was lost: nothing else
\* moves the revision on, and what is queued cannot be edited.
EditableCanBeSaved ==
    editable /\ flow.why = "none" /\ ~window.lost =>
        draft.status = "editing" /\ draft.revision = window.revision
=============================================================================
