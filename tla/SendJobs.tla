------------------------------ MODULE SendJobs ------------------------------
(***************************************************************************)
(* Sending mail: the drafts and send_jobs tables, the command that turns a *)
(* draft into a job (queue_send), the dispatcher of ComposerRuntime::start *)
(* that gives each account one sender task, the SMTP server, and the       *)
(* append_sent operation that a sent job leaves in pending_operations.     *)
(*                                                                         *)
(* A draft has at most one job (send_jobs.draft_id is UNIQUE and a draft   *)
(* never becomes editable again), so a job is named by its draft.  What is *)
(* sent is represented by the attachments: the text is saved by the same   *)
(* window before it asks for sending, and cannot change in between.        *)
(***************************************************************************)
EXTENDS Naturals, FiniteSets

CONSTANTS
    Drafts,       \* draft identities
    Accounts,     \* account_slot_id: numbers, as the slots are ordered
    AccountOf,    \* the account a draft belongs to
    Files,        \* attachments the user may add to a draft
    MaxAttempts,  \* attempts after which a retryable error is final (3)
    MaxActive,    \* accounts that send at the same time (2)
    MaxClock,     \* bound: the last second created_at is stamped with
    Budget        \* bounds on what the environment may do, see BudgetType

\* crashes: kills of the process; refused: deliveries the server did not
\* take; lost: deliveries it took without the client learning it; store:
\* failed SQLite statements; retries: the user's "retry"; mailboxes: Sent
\* mailboxes the user deletes.
BudgetType == [crashes: Nat, refused: Nat, lost: Nat, store: Nat,
               retries: Nat, mailboxes: Nat]

NoAccount == 0

ASSUME SendAssumption ==
    /\ Accounts \subseteq Nat \ {0} /\ IsFiniteSet(Accounts)
    /\ IsFiniteSet(Drafts)
    /\ AccountOf \in [Drafts -> Accounts]
    /\ MaxAttempts \in Nat \ {0}
    /\ MaxActive \in Nat \ {0}
    /\ MaxClock \in Nat
    /\ Budget \in BudgetType

VARIABLES
    draft,      \* drafts: status and draft_attachments
    job,        \* send_jobs, by draft
    archive,    \* append_sent operations inserted for a draft
    clock,      \* seconds, as now() stamps created_at
    sentBox,    \* accounts with a mailbox for the Sent role
    accepted,   \* deliveries of a draft's MIME the SMTP server accepted
    adding,     \* attachments a command has checked but not yet inserted
    built,      \* what queue_send has read and not yet stored: at most one set
    dispatcher, \* the dispatcher task of this process
    active,     \* active_accounts
    sender,     \* the sender task of each claimed job
    budget      \* what is left of Budget

disk    == <<draft, job, archive, clock, sentBox>>
windows == <<adding, built>>
tasks   == <<dispatcher, active, sender>>
vars    == <<disk, accepted, windows, tasks, budget>>

-----------------------------------------------------------------------------
(* Types *)

DraftRow == [status: {"editing", "queued", "sent", "deleted"},
             files: SUBSET Files]

\* due: next_attempt_at is NULL or reached; seq: the rowid.
Job == [status: {"queued", "sending", "sent", "failed"}, files: SUBSET Files,
        attempts: Nat, due: BOOLEAN, stamp: Nat, seq: Nat]
Absent == [status |-> "absent"]

Dispatcher == [pc: {"off", "opening", "choosing", "claiming", "waiting"},
               slot: Nat, cursor: Nat]
DispatcherOff == [pc |-> "off", slot |-> NoAccount, cursor |-> 0]

\* "delivering" is before the server's answer, "accepted" after its success,
\* "completing" after the Sent mailbox was looked up; "refused" holds an
\* error to be written; "finished" is a task not yet joined.
SenderStage == {"idle", "delivering", "accepted", "completing", "refused",
                "finished"}
Sender == [pc: SenderStage, attempt: Nat, archives: BOOLEAN,
           retryable: BOOLEAN]
Idle == [pc |-> "idle", attempt |-> 0, archives |-> FALSE,
         retryable |-> FALSE]

TypeOK ==
    /\ draft \in [Drafts -> DraftRow]
    /\ job \in [Drafts -> Job \cup {Absent}]
    /\ archive \in [Drafts -> Nat]
    /\ clock \in Nat
    /\ sentBox \subseteq Accounts
    /\ accepted \in [Drafts -> Nat]
    /\ adding \in [Drafts -> SUBSET Files]
    /\ built \in [Drafts -> SUBSET SUBSET Files]
    /\ dispatcher \in Dispatcher
    /\ active \subseteq Accounts
    /\ sender \in [Drafts -> Sender]
    /\ budget \in BudgetType

Spend(what) == /\ budget[what] > 0
               /\ budget' = [budget EXCEPT ![what] = @ - 1]
Spent(what) == Budget[what] - budget[what]

-----------------------------------------------------------------------------
(* The Composer window *)

\* add_draft_attachment checks the status, writes the file's content, and
\* inserts the row without checking again.
CheckAttachment(d, f) ==
    /\ draft[d].status = "editing"
    /\ f \notin draft[d].files \cup adding[d]
    /\ adding' = [adding EXCEPT ![d] = @ \cup {f}]
    /\ UNCHANGED <<disk, accepted, built, tasks, budget>>

\* The insertion into a deleted draft fails on its foreign key.
InsertAttachment(d, f) ==
    /\ f \in adding[d]
    /\ adding' = [adding EXCEPT ![d] = @ \ {f}]
    /\ draft' = IF draft[d].status = "deleted" THEN draft
                ELSE [draft EXCEPT ![d].files = @ \cup {f}]
    /\ UNCHANGED <<job, archive, clock, sentBox, accepted, built, tasks, budget>>

RemoveAttachment(d, f) ==
    /\ draft[d].status = "editing"
    /\ f \in draft[d].files
    /\ draft' = [draft EXCEPT ![d].files = @ \ {f}]
    /\ UNCHANGED <<job, archive, clock, sentBox, accepted, windows, tasks, budget>>

\* delete_draft is refused while the draft's window is open, and the window
\* does not discard the draft while it submits it.
DeleteEditingDraft(d) ==
    /\ draft[d].status = "editing" /\ built[d] = {}
    /\ draft' = [draft EXCEPT ![d] = [status |-> "deleted", files |-> {}]]
    /\ UNCHANGED <<job, archive, clock, sentBox, accepted, windows, tasks, budget>>

\* queue_send reads the draft and its attachments and builds the MIME.
ReadDraft(d) ==
    /\ draft[d].status = "editing" /\ built[d] = {}
    /\ built' = [built EXCEPT ![d] = {draft[d].files}]
    /\ UNCHANGED <<disk, accepted, adding, tasks, budget>>

Jobs == {d \in Drafts : job[d].status # "absent"}

QueueSendJob(d) ==
    /\ draft[d].status = "editing"
    /\ \E files \in built[d], t \in {clock, clock + 1} :
          /\ t <= MaxClock
          /\ clock' = t
          /\ job' = [job EXCEPT ![d] =
                [status |-> "queued", files |-> files, attempts |-> 0,
                 due |-> TRUE, stamp |-> t, seq |-> Cardinality(Jobs) + 1]]
    /\ draft' = [draft EXCEPT ![d].status = "queued"]
    /\ built' = [built EXCEPT ![d] = {}]
    /\ UNCHANGED <<archive, sentBox, accepted, adding, tasks, budget>>

RetryAnyJob(d) ==           \* mutant: the status is not checked
    /\ Spend("retries")
    /\ job[d].status \in {"sending", "sent", "failed"}
    /\ job' = [job EXCEPT ![d].status = "queued", ![d].due = TRUE]
    /\ UNCHANGED <<draft, archive, clock, sentBox, accepted, windows, tasks>>

\* attempt_count is kept.
RetrySendJob(d) ==
    /\ Spend("retries")
    /\ job[d].status = "failed"
    /\ job' = [job EXCEPT ![d].status = "queued", ![d].due = TRUE]
    /\ UNCHANGED <<draft, archive, clock, sentBox, accepted, windows, tasks>>

\* The user deletes the Sent mailbox of an account.
DeleteMailbox(a) ==
    /\ Spend("mailboxes")
    /\ a \in sentBox
    /\ sentBox' = sentBox \ {a}
    /\ UNCHANGED <<draft, job, archive, clock, accepted, windows, tasks>>

\* next_attempt_at of a deferred job is reached.
BackoffElapses(d) ==
    /\ job[d].status = "queued" /\ ~job[d].due
    /\ job' = [job EXCEPT ![d].due = TRUE]
    /\ UNCHANGED <<draft, archive, clock, sentBox, accepted, windows, tasks, budget>>

-----------------------------------------------------------------------------
(* The dispatcher *)

\* start: when a dispatcher runs already it is only woken up.
Start ==
    /\ dispatcher.pc = "off"
    /\ dispatcher' = [DispatcherOff EXCEPT !.pc = "opening"]
    /\ UNCHANGED <<disk, accepted, windows, active, sender, budget>>

\* The database cannot be opened: the task ends and resets started.
OpenFails ==
    /\ dispatcher.pc = "opening"
    /\ Spend("store")
    /\ dispatcher' = DispatcherOff
    /\ UNCHANGED <<disk, accepted, windows, active, sender>>

RecoverNothing ==           \* mutant: 'sending' jobs are left alone
    /\ dispatcher.pc = "opening"
    /\ dispatcher' = [dispatcher EXCEPT !.pc = "choosing"]
    /\ UNCHANGED <<disk, accepted, windows, active, sender, budget>>

\* Jobs that were being sent go back to the queue; a failure is only logged.
RecoverInterruptedSendJobs ==
    /\ dispatcher.pc = "opening"
    /\ dispatcher' = [dispatcher EXCEPT !.pc = "choosing"]
    /\ \/ /\ job' = [d \in Drafts |-> IF job[d].status = "sending"
                        THEN [job[d] EXCEPT !.status = "queued", !.due = TRUE]
                        ELSE job[d]]
          /\ UNCHANGED budget
       \/ Spend("store") /\ UNCHANGED job
    /\ UNCHANGED <<draft, archive, clock, sentBox, accepted, windows, active,
                   sender>>

Ready(a) == {d \in Drafts : /\ AccountOf[d] = a
                            /\ job[d].status = "queued" /\ job[d].due}

\* ready_send_account_slots, ORDER BY MIN(created_at), account_slot_id.
ReadySlots == {a \in Accounts : Ready(a) # {}}
OldestStamp(a) == CHOOSE t \in {job[d].stamp : d \in Ready(a)} :
                     \A d \in Ready(a) : t <= job[d].stamp
SlotBefore(a, b) == \/ OldestStamp(a) < OldestStamp(b)
                    \/ OldestStamp(a) = OldestStamp(b) /\ a < b
SlotIndex(a) == Cardinality({b \in ReadySlots : SlotBefore(b, a)})

SelectAnyAccount ==         \* mutant: accounts that send are not skipped
    /\ dispatcher.pc = "choosing"
    /\ Cardinality(active) < MaxActive
    /\ \E a \in ReadySlots :
          dispatcher' = [dispatcher EXCEPT !.pc = "claiming", !.slot = a]
    /\ UNCHANGED <<disk, accepted, windows, active, sender, budget>>

\* select_ready_account: from the cursor on, around the list, the first
\* account that is not sending.
SelectAccount ==
    /\ dispatcher.pc = "choosing"
    /\ Cardinality(active) < MaxActive
    /\ LET n == Cardinality(ReadySlots)
           Offset(a) == (SlotIndex(a) + n - (dispatcher.cursor % n)) % n
       IN \E a \in ReadySlots \ active :
             /\ \A b \in ReadySlots \ active : Offset(a) <= Offset(b)
             /\ dispatcher' = [pc |-> "claiming", slot |-> a,
                               cursor |-> (SlotIndex(a) + 1) % n]
    /\ UNCHANGED <<disk, accepted, windows, active, sender, budget>>

ClaimAny ==                 \* mutant: no ORDER BY
    /\ dispatcher.pc = "claiming"
    /\ dispatcher' = [dispatcher EXCEPT !.pc = "choosing"]
    /\ LET a == dispatcher.slot IN
       \E d \in Ready(a) :
          /\ job' = [job EXCEPT ![d].status = "sending", ![d].attempts = @ + 1]
          /\ active' = active \cup {a}
          /\ sender' = [sender EXCEPT ![d] =
                [Idle EXCEPT !.pc = "delivering",
                             !.attempt = job[d].attempts + 1]]
    /\ UNCHANGED <<draft, archive, clock, sentBox, accepted, windows, budget>>

\* claim_next_send_job_for_account: the oldest ready job of the account, in a
\* transaction after the one that listed the accounts.  It starts the sender.
ClaimSendJob ==
    /\ dispatcher.pc = "claiming"
    /\ dispatcher' = [dispatcher EXCEPT !.pc = "choosing"]
    /\ LET a == dispatcher.slot IN
       \E d \in Ready(a) :
          /\ \A e \in Ready(a) : job[d].seq <= job[e].seq
          /\ job' = [job EXCEPT ![d].status = "sending", ![d].attempts = @ + 1]
          /\ active' = active \cup {a}
          /\ sender' = [sender EXCEPT ![d] =
                [Idle EXCEPT !.pc = "delivering",
                             !.attempt = job[d].attempts + 1]]
    /\ UNCHANGED <<draft, archive, clock, sentBox, accepted, windows, budget>>

ClaimFails ==
    /\ dispatcher.pc = "claiming"
    /\ Spend("store")
    /\ dispatcher' = [dispatcher EXCEPT !.pc = "waiting"]
    /\ UNCHANGED <<disk, accepted, windows, active, sender>>

Selectable == Cardinality(active) < MaxActive /\ ReadySlots \ active # {}

\* The dispatcher claims until nothing can be claimed or a query fails.
StopClaiming ==
    /\ dispatcher.pc = "choosing"
    /\ \/ ~Selectable /\ UNCHANGED budget
       \/ Spend("store")
    /\ dispatcher' = [dispatcher EXCEPT !.pc = "waiting"]
    /\ UNCHANGED <<disk, accepted, windows, active, sender>>

\* A notification or two seconds without one; a round that finds nothing to
\* claim changes nothing.
WakeUp ==
    /\ dispatcher.pc = "waiting"
    /\ Selectable
    /\ dispatcher' = [dispatcher EXCEPT !.pc = "choosing"]
    /\ UNCHANGED <<disk, accepted, windows, active, sender, budget>>

\* workers.join_next(): a sender has ended; its account may send again.
JoinSender(d) ==
    /\ dispatcher.pc = "waiting"
    /\ sender[d].pc = "finished"
    /\ dispatcher' = [dispatcher EXCEPT !.pc = "choosing"]
    /\ active' = active \ {AccountOf[d]}
    /\ sender' = [sender EXCEPT ![d] = Idle]
    /\ UNCHANGED <<disk, accepted, windows, budget>>

-----------------------------------------------------------------------------
(* process_send_job: the sender task of the job of draft d *)

At(d, pc) == sender[d].pc = pc
Goto(d, pc) == sender' = [sender EXCEPT ![d].pc = pc]
Refuse(d) == \E retryable \in BOOLEAN :
                sender' = [sender EXCEPT ![d].pc = "refused",
                                         ![d].retryable = retryable]

\* The server takes the message.  Its answer may be lost: a timeout is
\* retryable, a broken connection is reported as a rejection.
SmtpAccepts(d) ==
    /\ At(d, "delivering")
    /\ accepted' = [accepted EXCEPT ![d] = @ + 1]
    /\ \/ Goto(d, "accepted") /\ UNCHANGED budget
       \/ Refuse(d) /\ Spend("lost")
    /\ UNCHANGED <<disk, windows, dispatcher, active>>

AcceptRefused(d) ==         \* mutant: the server's reply is not looked at
    /\ At(d, "delivering")
    /\ Spend("refused")
    /\ Goto(d, "accepted")
    /\ UNCHANGED <<disk, accepted, windows, dispatcher, active>>

\* The account, its password or the MIME cannot be read, there is no
\* connection, or the server refuses the message for now or for good.
SmtpRefuses(d) ==
    /\ At(d, "delivering")
    /\ Refuse(d) /\ Spend("refused")
    /\ UNCHANGED <<disk, accepted, windows, dispatcher, active>>

ArchiveFirst(d) ==          \* mutant: the operation has its own transaction
    /\ At(d, "accepted")
    /\ Goto(d, "completing")
    /\ archive' = [archive EXCEPT ![d] =
                     IF AccountOf[d] \in sentBox THEN @ + 1 ELSE @]
    /\ UNCHANGED <<draft, job, clock, sentBox, accepted, windows, dispatcher,
                   active, budget>>

\* A failure to read the role mapping counts as no mapping.
LookUpSentMailbox(d) ==
    /\ At(d, "accepted")
    /\ \/ /\ sender' = [sender EXCEPT ![d].pc = "completing",
                                      ![d].archives = AccountOf[d] \in sentBox]
          /\ UNCHANGED budget
       \/ Goto(d, "completing") /\ Spend("store")
    /\ UNCHANGED <<disk, accepted, windows, dispatcher, active>>

\* One transaction marks job and draft as sent and inserts the append_sent
\* operation.  It fails as a whole, also when the mailbox found for Sent was
\* deleted meanwhile (its id is a foreign key): the job stays 'sending'.
CompleteSendJob(d) ==
    /\ At(d, "completing")
    /\ Goto(d, "finished")
    /\ LET mailboxGone == sender[d].archives /\ AccountOf[d] \notin sentBox IN
       \/ /\ ~mailboxGone
          /\ job' = [job EXCEPT ![d].status = "sent"]
          /\ draft' = [draft EXCEPT ![d].status = "sent"]
          /\ archive' = [archive EXCEPT ![d] = IF sender[d].archives
                                               THEN @ + 1 ELSE @]
          /\ UNCHANGED budget
       \/ mailboxGone /\ UNCHANGED <<job, draft, archive, budget>>
       \/ Spend("store") /\ UNCHANGED <<job, draft, archive>>
    /\ UNCHANGED <<clock, sentBox, accepted, windows, dispatcher, active>>

DeferAsWaiting(d) ==        \* mutant: the status of pending_operations
    /\ At(d, "refused")
    /\ Goto(d, "finished")
    /\ job' = [job EXCEPT ![d].status = "retry_wait",
                          ![d].due = FALSE]
    /\ UNCHANGED <<draft, archive, clock, sentBox, accepted, windows,
                   dispatcher, active, budget>>

\* defer_send_job or fail_send_job; when it fails the job stays 'sending'.
RecordRefusal(d) ==
    /\ At(d, "refused")
    /\ Goto(d, "finished")
    /\ LET retry == sender[d].retryable /\ sender[d].attempt < MaxAttempts IN
       \/ /\ job' = IF retry
                    THEN [job EXCEPT ![d].status = "queued", ![d].due = FALSE]
                    ELSE [job EXCEPT ![d].status = "failed"]
          /\ UNCHANGED budget
       \/ Spend("store") /\ UNCHANGED job
    /\ UNCHANGED <<draft, archive, clock, sentBox, accepted, windows,
                   dispatcher, active>>

-----------------------------------------------------------------------------
(* Specification *)

\* The process dies; the tables and what the server accepted survive.
Crash ==
    /\ Spend("crashes")
    /\ adding' = [d \in Drafts |-> {}] /\ built' = [d \in Drafts |-> {}]
    /\ dispatcher' = DispatcherOff
    /\ active' = {}
    /\ sender' = [d \in Drafts |-> Idle]
    /\ UNCHANGED <<disk, accepted>>

Init ==
    /\ draft = [d \in Drafts |-> [status |-> "editing", files |-> {}]]
    /\ job = [d \in Drafts |-> Absent]
    /\ archive = [d \in Drafts |-> 0]
    /\ clock = 0
    /\ sentBox \in SUBSET Accounts
    /\ accepted = [d \in Drafts |-> 0]
    /\ adding = [d \in Drafts |-> {}] /\ built = [d \in Drafts |-> {}]
    /\ dispatcher = DispatcherOff
    /\ active = {}
    /\ sender = [d \in Drafts |-> Idle]
    /\ budget = Budget

UserStep ==
    \/ \E d \in Drafts, f \in Files :
          CheckAttachment(d, f) \/ RemoveAttachment(d, f)
    \/ \E d \in Drafts :
          DeleteEditingDraft(d) \/ ReadDraft(d) \/ RetrySendJob(d)
    \/ \E a \in Accounts : DeleteMailbox(a)

\* The second half of a command of the user's.
CommandEnds == \E d \in Drafts : \/ QueueSendJob(d)
                                 \/ \E f \in Files : InsertAttachment(d, f)

DispatcherStep ==
    \/ Start \/ OpenFails \/ RecoverInterruptedSendJobs
    \/ SelectAccount \/ ClaimSendJob \/ ClaimFails \/ StopClaiming \/ WakeUp

SenderStep(d) ==
    \/ SmtpAccepts(d) \/ SmtpRefuses(d) \/ LookUpSentMailbox(d)
    \/ CompleteSendJob(d) \/ RecordRefusal(d)

Next ==
    \/ UserStep \/ CommandEnds
    \/ DispatcherStep
    \/ \E d \in Drafts : BackoffElapses(d) \/ JoinSender(d) \/ SenderStep(d)
    \/ Crash

Spec == Init /\ [][Next]_vars

\* The runtime polls every task, SMTP is bounded by a timeout, the dispatcher
\* looks at the queue at least every two seconds, and the application is
\* started again after a crash.  The user owes nothing.
Fairness ==
    /\ WF_vars(DispatcherStep)
    /\ \A d \in Drafts : /\ WF_vars(BackoffElapses(d))
                         /\ WF_vars(JoinSender(d)) /\ WF_vars(SenderStep(d))

FairSpec == Spec /\ Fairness

-----------------------------------------------------------------------------
(* Properties *)

Busy(d) == sender[d].pc \notin {"idle", "finished"}

\* docs/project.md:279: at most two messages are sent at a time, and one per
\* account.  A sender at work is the only one of its account, is counted as
\* active, and has a 'sending' job at the attempt it claimed: recovery,
\* retries and a stale list of ready accounts never start a second one.
SendersAreExclusive ==
    /\ Cardinality(active) <= MaxActive
    /\ \A d \in Drafts : Busy(d) =>
          /\ AccountOf[d] \in active
          /\ job[d].status = "sending" /\ job[d].attempts = sender[d].attempt
          /\ \A e \in Drafts \ {d} : AccountOf[e] = AccountOf[d] => ~Busy(e)

\* A message is delivered twice only after a kill of the process or a lost
\* answer, and each of these costs at most one more copy: no combination of
\* retries, deferrals and recoveries delivers an acknowledged message again.
DuplicatesNeedFaults ==
    \A d \in Drafts : accepted[d] <= 1 + Spent("crashes") + Spent("lost")

\* A job is tried MaxAttempts times, and once more for each kill of the
\* process and each explicit retry: deferral and recovery do not reset or
\* bypass the count.
AttemptsAreBounded ==
    \A d \in Jobs :
        job[d].attempts <= MaxAttempts + Spent("crashes") + Spent("retries")

\* Jobs of one account are tried for the first time in the order they were
\* queued, whatever is deferred, retried or recovered meanwhile.
FirstAttemptsInOrder ==
    \A d, e \in Jobs :
        (/\ AccountOf[d] = AccountOf[e] /\ job[d].seq < job[e].seq
         /\ job[e].attempts > 0)
        => job[d].attempts > 0

\* A message in 'sent' has its append_sent operation exactly once and a
\* message that is not has none, also when it was delivered several times
\* (in accounts with a Sent mailbox, while the database works).
ArchivedOnce ==
    Spent("store") = 0 =>
        \A d \in Jobs : AccountOf[d] \in sentBox =>
            archive[d] = IF job[d].status = "sent" THEN 1 ELSE 0

\* What is queued is eventually sent or reported as failed, with kills, lost
\* answers and refusals, and more accounts than may send at a time.
EverySendSettles ==
    \A d \in Drafts : (job[d].status \in {"queued", "sending"})
                         ~> (job[d].status \in {"sent", "failed"})

StateOf(status) == CASE status = "absent"               -> "none"
                     [] status \in {"queued", "sending"} -> "pending"
                     [] status = "sent"                  -> "sent"
                     [] OTHER                            -> "rejected"

\* The queue implements Outbox: nothing is delivered before it was queued,
\* after it was reported as sent, or between a reported failure and the
\* user's retry; nothing is reported as sent that was not delivered.
Out == INSTANCE Outbox WITH
          Messages  <- Drafts,
          state     <- [d \in Drafts |-> StateOf(job[d].status)],
          delivered <- accepted

ImplementsOutbox == Out!OutboxSpec

=============================================================================
