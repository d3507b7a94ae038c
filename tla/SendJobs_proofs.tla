-------------------------- MODULE SendJobs_proofs --------------------------
(* Theorems about SendJobs, for every value of its constants. *)
EXTENDS SendJobs, FiniteSetTheorems, TLAPS

-----------------------------------------------------------------------------
(* Type correctness *)

Limits == {"crashes", "refused", "lost", "store", "retries", "mailboxes"}

LEMMA SpendingIsTyped ==
    ASSUME budget \in BudgetType, NEW what \in Limits, Spend(what)
    PROVE  /\ budget' \in BudgetType
           /\ budget'[what] = budget[what] - 1
           /\ \A k \in Limits \ {what} : budget'[k] = budget[k]
  BY DEF Spend, BudgetType, Limits

\* A sender task is at work only while the dispatcher that started it runs,
\* and its job is 'sending' at the attempt it claimed.
SendersHoldJobs ==
    \A d \in Drafts :
        /\ dispatcher.pc \in {"off", "opening"} => sender[d].pc = "idle"
        /\ Busy(d) => /\ job[d].status = "sending"
                      /\ job[d].attempts = sender[d].attempt

\* A job of the table is a record, not the absent one.
LEMMA StoredIsJob ==
    ASSUME TypeOK, NEW d \in Drafts, job[d].status # "absent"
    PROVE  job[d] \in Job
  BY DEF TypeOK, Absent

LEMMA InitType == Init => TypeOK
<1> SUFFICES ASSUME Init PROVE TypeOK
  OBVIOUS
<1>1. draft \in [Drafts -> DraftRow] /\ job \in [Drafts -> Job \cup {Absent}]
  BY DEF Init, DraftRow
<1>2. sender \in [Drafts -> Sender]
  BY DEF Init, Sender, Idle, SenderStage
<1>3. dispatcher \in Dispatcher /\ budget \in BudgetType
  BY SendAssumption DEF Init, Dispatcher, DispatcherOff, NoAccount
<1>4. /\ adding \in [Drafts -> SUBSET Files]
      /\ built \in [Drafts -> SUBSET SUBSET Files]
      /\ archive \in [Drafts -> Nat] /\ accepted \in [Drafts -> Nat]
      /\ clock \in Nat /\ sentBox \subseteq Accounts /\ active \subseteq Accounts
  BY DEF Init
<1> QED
  BY <1>1, <1>2, <1>3, <1>4 DEF TypeOK

LEMMA UserType == TypeOK /\ UserStep => TypeOK'
<1> SUFFICES ASSUME TypeOK, UserStep PROVE TypeOK'
  OBVIOUS
<1>1. ASSUME NEW d \in Drafts, NEW f \in Files, CheckAttachment(d, f)
      PROVE  TypeOK'
  BY <1>1 DEF CheckAttachment, TypeOK, disk, tasks
<1>2. ASSUME NEW d \in Drafts, NEW f \in Files, RemoveAttachment(d, f)
      PROVE  TypeOK'
  <2>1. draft' \in [Drafts -> DraftRow]
    BY <1>2 DEF RemoveAttachment, TypeOK, DraftRow
  <2> QED
    BY <1>2, <2>1 DEF RemoveAttachment, TypeOK, windows, tasks
<1>3. ASSUME NEW d \in Drafts, DeleteEditingDraft(d) PROVE TypeOK'
  <2>1. draft' \in [Drafts -> DraftRow]
    BY <1>3 DEF DeleteEditingDraft, TypeOK, DraftRow
  <2> QED
    BY <1>3, <2>1 DEF DeleteEditingDraft, TypeOK, windows, tasks
<1>4. ASSUME NEW d \in Drafts, ReadDraft(d) PROVE TypeOK'
  <2>1. draft[d].files \in SUBSET Files
    BY DEF TypeOK, DraftRow
  <2>2. built' \in [Drafts -> SUBSET SUBSET Files]
    BY <1>4, <2>1 DEF ReadDraft, TypeOK
  <2> QED
    BY <1>4, <2>2 DEF ReadDraft, TypeOK, disk, tasks
<1>5. ASSUME NEW d \in Drafts, RetrySendJob(d) PROVE TypeOK'
  <2>1. job[d] \in Job
    BY <1>5, StoredIsJob DEF RetrySendJob
  <2>2. job' \in [Drafts -> Job \cup {Absent}]
    BY <1>5, <2>1 DEF RetrySendJob, TypeOK, Job
  <2>3. budget' \in BudgetType
    BY <1>5, SpendingIsTyped DEF RetrySendJob, TypeOK, Limits
  <2> QED
    BY <1>5, <2>2, <2>3 DEF RetrySendJob, TypeOK, windows, tasks
<1>6. ASSUME NEW a \in Accounts, DeleteMailbox(a) PROVE TypeOK'
  <2>1. budget' \in BudgetType
    BY <1>6, SpendingIsTyped DEF DeleteMailbox, TypeOK, Limits
  <2> QED
    BY <1>6, <2>1 DEF DeleteMailbox, TypeOK, windows, tasks
<1> QED
  BY <1>1, <1>2, <1>3, <1>4, <1>5, <1>6 DEF UserStep


LEMMA CommandEndType == TypeOK /\ CommandEnds => TypeOK'
<1> SUFFICES ASSUME TypeOK, CommandEnds PROVE TypeOK'
  OBVIOUS
<1>1. ASSUME NEW d \in Drafts, QueueSendJob(d) PROVE TypeOK'
  <2>1. PICK files \in built[d], t \in {clock, clock + 1} :
          /\ clock' = t
          /\ job' = [job EXCEPT ![d] =
                [status |-> "queued", files |-> files, attempts |-> 0,
                 due |-> TRUE, stamp |-> t, seq |-> Cardinality(Jobs) + 1]]
    BY <1>1 DEF QueueSendJob
  <2>2. files \subseteq Files /\ clock' \in Nat /\ t \in Nat
    BY <2>1 DEF TypeOK
  <2>3. Cardinality(Jobs) \in Nat
    BY SendAssumption, FS_Subset, FS_CardinalityType DEF Jobs
  <2>4. job' \in [Drafts -> Job \cup {Absent}]
    BY <2>1, <2>2, <2>3 DEF TypeOK, Job
  <2>5. draft' \in [Drafts -> DraftRow]
    BY <1>1 DEF QueueSendJob, TypeOK, DraftRow
  <2> QED
    BY <1>1, <2>2, <2>4, <2>5 DEF QueueSendJob, TypeOK, tasks
<1>2. ASSUME NEW d \in Drafts, NEW f \in Files, InsertAttachment(d, f)
      PROVE  TypeOK'
  <2>1. draft' \in [Drafts -> DraftRow]
    BY <1>2 DEF InsertAttachment, TypeOK, DraftRow
  <2> QED
    BY <1>2, <2>1 DEF InsertAttachment, TypeOK, tasks
<1> QED
  BY <1>1, <1>2 DEF CommandEnds

LEMMA DispatcherType == TypeOK /\ DispatcherStep => TypeOK'
<1> SUFFICES ASSUME TypeOK, DispatcherStep PROVE TypeOK'
  OBVIOUS
<1>1. CASE Start
  BY <1>1 DEF Start, TypeOK, Dispatcher, DispatcherOff, NoAccount, disk, windows
<1>2. CASE OpenFails
  <2>1. budget' \in BudgetType
    BY <1>2, SpendingIsTyped DEF OpenFails, TypeOK, Limits
  <2> QED
    BY <1>2, <2>1 DEF OpenFails, TypeOK, Dispatcher, DispatcherOff, NoAccount,
                      disk, windows
<1>3. CASE RecoverInterruptedSendJobs
  <2>1. budget' \in BudgetType
    BY <1>3, SpendingIsTyped DEF RecoverInterruptedSendJobs, TypeOK, Limits
  <2>2. job' \in [Drafts -> Job \cup {Absent}]
    <3>1. ASSUME NEW d \in Drafts, job[d].status = "sending"
          PROVE  [job[d] EXCEPT !.status = "queued", !.due = TRUE] \in Job
      BY <3>1, StoredIsJob DEF Job
    <3>2. CASE UNCHANGED job
      BY <3>2 DEF TypeOK
    <3>3. CASE job' = [d \in Drafts |-> IF job[d].status = "sending"
                        THEN [job[d] EXCEPT !.status = "queued", !.due = TRUE]
                        ELSE job[d]]
      BY <3>1, <3>3 DEF TypeOK
    <3> QED
      BY <1>3, <3>2, <3>3 DEF RecoverInterruptedSendJobs
  <2>3. dispatcher' \in Dispatcher
    BY <1>3 DEF RecoverInterruptedSendJobs, TypeOK, Dispatcher
  <2> QED
    BY <1>3, <2>1, <2>2, <2>3 DEF RecoverInterruptedSendJobs, TypeOK, windows
<1>4. CASE SelectAccount
  <2>1. PICK a \in ReadySlots \ active :
           dispatcher' = [pc |-> "claiming", slot |-> a,
                          cursor |-> (SlotIndex(a) + 1) % Cardinality(ReadySlots)]
    BY <1>4 DEF SelectAccount
  <2>2. /\ IsFiniteSet(ReadySlots)
        /\ IsFiniteSet({b \in ReadySlots : SlotBefore(b, a)})
    BY SendAssumption, FS_Subset DEF ReadySlots
  <2>3. /\ SlotIndex(a) \in Nat
        /\ Cardinality(ReadySlots) \in Nat /\ Cardinality(ReadySlots) # 0
    BY <2>1, <2>2, FS_CardinalityType, FS_EmptySet DEF SlotIndex
  <2>4. dispatcher' \in Dispatcher
    BY <2>1, <2>3, SendAssumption DEF Dispatcher, ReadySlots
  <2> QED
    BY <1>4, <2>4 DEF SelectAccount, TypeOK, disk, windows
<1>5. CASE ClaimSendJob
  <2>1. PICK d \in Ready(dispatcher.slot) :
          /\ job' = [job EXCEPT ![d].status = "sending", ![d].attempts = @ + 1]
          /\ sender' = [sender EXCEPT ![d] =
                [Idle EXCEPT !.pc = "delivering",
                             !.attempt = job[d].attempts + 1]]
          /\ active' = active \cup {dispatcher.slot}
    BY <1>5 DEF ClaimSendJob
  <2>2. d \in Drafts /\ AccountOf[d] = dispatcher.slot /\ job[d] \in Job
    BY <2>1, StoredIsJob DEF Ready
  <2>3. job' \in [Drafts -> Job \cup {Absent}]
    BY <2>1, <2>2 DEF TypeOK, Job
  <2>4. sender' \in [Drafts -> Sender]
    BY <2>1, <2>2 DEF TypeOK, Sender, Idle, Job, SenderStage
  <2>5. active' \subseteq Accounts
    BY <2>1, <2>2, SendAssumption DEF TypeOK
  <2>6. dispatcher' \in Dispatcher
    BY <1>5 DEF ClaimSendJob, TypeOK, Dispatcher
  <2> QED
    BY <1>5, <2>3, <2>4, <2>5, <2>6 DEF ClaimSendJob, TypeOK, windows
<1>6. CASE ClaimFails \/ StopClaiming
  <2>1. budget' \in BudgetType
    BY <1>6, SpendingIsTyped DEF ClaimFails, StopClaiming, TypeOK, Limits
  <2>2. dispatcher' \in Dispatcher
    BY <1>6 DEF ClaimFails, StopClaiming, TypeOK, Dispatcher
  <2> QED
    BY <1>6, <2>1, <2>2 DEF ClaimFails, StopClaiming, TypeOK, disk, windows
<1>7. CASE WakeUp
  BY <1>7 DEF WakeUp, TypeOK, Dispatcher, disk, windows
<1> QED
  BY <1>1, <1>2, <1>3, <1>4, <1>5, <1>6, <1>7 DEF DispatcherStep

LEMMA SenderType ==
    ASSUME TypeOK, SendersHoldJobs, NEW d \in Drafts,
           SenderStep(d) \/ BackoffElapses(d) \/ JoinSender(d)
    PROVE  TypeOK'
<1>1. ASSUME NEW pc \in SenderStage, Goto(d, pc)
      PROVE  sender' \in [Drafts -> Sender]
  BY <1>1 DEF Goto, TypeOK, Sender
<1>2. ASSUME Refuse(d) PROVE sender' \in [Drafts -> Sender]
  <2>1. PICK retryable \in BOOLEAN :
           sender' = [sender EXCEPT ![d].pc = "refused",
                                    ![d].retryable = retryable]
    BY <1>2 DEF Refuse
  <2>2. [sender[d] EXCEPT !.pc = "refused", !.retryable = retryable] \in Sender
    BY DEF TypeOK, Sender, SenderStage
  <2> QED
    BY <2>1, <2>2 DEF TypeOK
<1>3. CASE SmtpAccepts(d)
  <2>1. budget' \in BudgetType
    BY <1>3, SpendingIsTyped DEF SmtpAccepts, TypeOK, Limits
  <2>2. sender' \in [Drafts -> Sender]
    BY <1>1, <1>2, <1>3 DEF SmtpAccepts, SenderStage
  <2>3. accepted' \in [Drafts -> Nat]
    BY <1>3 DEF SmtpAccepts, TypeOK
  <2> QED
    BY <1>3, <2>1, <2>2, <2>3 DEF SmtpAccepts, TypeOK, disk, windows
<1>4. CASE SmtpRefuses(d)
  <2>1. budget' \in BudgetType
    BY <1>4, SpendingIsTyped DEF SmtpRefuses, TypeOK, Limits
  <2> QED
    BY <1>2, <1>4, <2>1 DEF SmtpRefuses, TypeOK, disk, windows
<1>5. CASE LookUpSentMailbox(d)
  <2>1. budget' \in BudgetType
    BY <1>5, SpendingIsTyped DEF LookUpSentMailbox, TypeOK, Limits
  <2>2. (AccountOf[d] \in sentBox) \in BOOLEAN
    OBVIOUS
  <2>3. sender' \in [Drafts -> Sender]
    BY <1>1, <1>5, <2>2 DEF LookUpSentMailbox, TypeOK, Sender, SenderStage
  <2> QED
    BY <1>5, <2>1, <2>3 DEF LookUpSentMailbox, TypeOK, disk, windows
<1>6. CASE BackoffElapses(d)
  <2>1. job[d] \in Job
    BY <1>6, StoredIsJob DEF BackoffElapses
  <2>2. job' \in [Drafts -> Job \cup {Absent}]
    BY <1>6, <2>1 DEF BackoffElapses, TypeOK, Job
  <2> QED
    BY <1>6, <2>2 DEF BackoffElapses, TypeOK, windows, tasks
<1>7. CASE JoinSender(d)
  <2>1. dispatcher' \in Dispatcher
    BY <1>7 DEF JoinSender, TypeOK, Dispatcher
  <2>2. sender' \in [Drafts -> Sender]
    BY <1>7 DEF JoinSender, TypeOK, Sender, Idle, SenderStage
  <2> QED
    BY <1>7, <2>1, <2>2 DEF JoinSender, TypeOK, disk, windows
<1>8. CASE CompleteSendJob(d)
  <2>1. job[d] \in Job
    BY <1>8, StoredIsJob DEF CompleteSendJob, At, SendersHoldJobs, Busy
  <2>2. job' \in [Drafts -> Job \cup {Absent}]
    BY <1>8, <2>1 DEF CompleteSendJob, TypeOK, Job
  <2>3. draft' \in [Drafts -> DraftRow] /\ archive' \in [Drafts -> Nat]
    BY <1>8 DEF CompleteSendJob, TypeOK, DraftRow
  <2>4. budget' \in BudgetType
    BY <1>8, SpendingIsTyped DEF CompleteSendJob, TypeOK, Limits
  <2> QED
    BY <1>1, <1>8, <2>2, <2>3, <2>4
    DEF CompleteSendJob, TypeOK, windows, SenderStage
<1>9. CASE RecordRefusal(d)
  <2>1. job[d] \in Job
    BY <1>9, StoredIsJob DEF RecordRefusal, At, SendersHoldJobs, Busy
  <2>2. job' \in [Drafts -> Job \cup {Absent}]
    BY <1>9, <2>1 DEF RecordRefusal, TypeOK, Job
  <2>3. budget' \in BudgetType
    BY <1>9, SpendingIsTyped DEF RecordRefusal, TypeOK, Limits
  <2> QED
    BY <1>1, <1>9, <2>2, <2>3 DEF RecordRefusal, TypeOK, windows, SenderStage
<1> QED
  BY <1>3, <1>4, <1>5, <1>6, <1>7, <1>8, <1>9 DEF SenderStep

LEMMA CrashType == TypeOK /\ Crash => TypeOK'
<1> SUFFICES ASSUME TypeOK, Crash PROVE TypeOK'
  OBVIOUS
<1>1. budget' \in BudgetType
  BY SpendingIsTyped DEF Crash, TypeOK, Limits
<1>2. sender' \in [Drafts -> Sender] /\ dispatcher' \in Dispatcher
  BY DEF Crash, Sender, Idle, SenderStage, Dispatcher, DispatcherOff, NoAccount
<1> QED
  BY <1>1, <1>2 DEF Crash, TypeOK, disk

LEMMA NextType == TypeOK /\ SendersHoldJobs /\ [Next]_vars => TypeOK'
<1>1. ASSUME TypeOK, UNCHANGED vars PROVE TypeOK'
  BY <1>1 DEF TypeOK, vars, disk, windows, tasks
<1> QED
  BY <1>1, UserType, CommandEndType, DispatcherType, SenderType, CrashType
  DEF Next

-----------------------------------------------------------------------------
(* Exclusion: who may send *)

\* A draft without a job is the only one that a window may change or discard.
DraftsPrecedeJobs ==
    \A d \in Drafts : draft[d].status \in {"editing", "deleted"}
                        => job[d].status = "absent"

\* A task, at work or not yet joined, is the only one of an active account.
TasksAreExclusive ==
    /\ \A d \in Drafts : sender[d].pc # "idle" => AccountOf[d] \in active
    /\ \A d, e \in Drafts :
          (/\ sender[d].pc # "idle" /\ sender[e].pc # "idle"
           /\ AccountOf[d] = AccountOf[e]) => d = e

\* What the dispatcher has selected is still free when it claims: only the
\* dispatcher adds to active_accounts.
ActiveIsBounded ==
    /\ Cardinality(active) <= MaxActive
    /\ dispatcher.pc \in {"off", "opening"} => active = {}
    /\ dispatcher.pc = "claiming" =>
          dispatcher.slot \notin active /\ Cardinality(active) < MaxActive

Exclusion == /\ DraftsPrecedeJobs /\ SendersHoldJobs
             /\ TasksAreExclusive /\ ActiveIsBounded

ExInv == TypeOK /\ Exclusion

LEMMA InitExclusion == Init => Exclusion
  BY SendAssumption, FS_EmptySet
  DEF Init, Exclusion, DraftsPrecedeJobs, SendersHoldJobs, TasksAreExclusive,
      ActiveIsBounded, Idle, Busy, DispatcherOff, Absent

\* Steps that change neither the tasks nor a job that is being sent.
LEMMA TasksRest ==
    ASSUME Exclusion, DraftsPrecedeJobs', UNCHANGED tasks,
           \A d \in Drafts : job[d].status = "sending" =>
              job'[d].status = "sending" /\ job'[d].attempts = job[d].attempts
    PROVE  Exclusion'
  BY DEF Exclusion, SendersHoldJobs, TasksAreExclusive, ActiveIsBounded, tasks,
         Busy

LEMMA UserExclusion == ExInv /\ (UserStep \/ CommandEnds) => Exclusion'
<1> SUFFICES ASSUME ExInv, UserStep \/ CommandEnds PROVE Exclusion'
  OBVIOUS
<1> USE DEF ExInv
<1>1. ASSUME UNCHANGED <<job, tasks>>,
             \A d \in Drafts : draft'[d].status \in {"editing", "deleted"}
                                => draft[d].status \in {"editing", "deleted"}
      PROVE  Exclusion'
  <2>1. DraftsPrecedeJobs'
    BY <1>1 DEF Exclusion, DraftsPrecedeJobs
  <2> QED
    BY <1>1, <2>1, TasksRest
<1>2. ASSUME NEW d \in Drafts, NEW f \in Files, CheckAttachment(d, f)
      PROVE  Exclusion'
  BY <1>1, <1>2 DEF CheckAttachment, disk
<1>3. ASSUME NEW d \in Drafts, NEW f \in Files,
             RemoveAttachment(d, f) \/ InsertAttachment(d, f)
      PROVE  Exclusion'
  <2>1. \A e \in Drafts : draft'[e].status = draft[e].status
    BY <1>3 DEF RemoveAttachment, InsertAttachment, TypeOK, DraftRow
  <2> QED
    BY <1>1, <1>3, <2>1 DEF RemoveAttachment, InsertAttachment
<1>4. ASSUME NEW d \in Drafts, DeleteEditingDraft(d) PROVE Exclusion'
  BY <1>1, <1>4 DEF DeleteEditingDraft, TypeOK
<1>5. ASSUME NEW d \in Drafts, ReadDraft(d) PROVE Exclusion'
  BY <1>1, <1>5 DEF ReadDraft, disk
<1>6. ASSUME NEW a \in Accounts, DeleteMailbox(a) PROVE Exclusion'
  BY <1>1, <1>6 DEF DeleteMailbox
<1>7. ASSUME NEW d \in Drafts, RetrySendJob(d) PROVE Exclusion'
  <2>1. job[d] \in Job
    BY <1>7, StoredIsJob DEF RetrySendJob
  <2>2. \A e \in Drafts : job'[e] = job[e] \/ e = d
    BY <1>7 DEF RetrySendJob, TypeOK
  <2>3. DraftsPrecedeJobs'
    BY <1>7, <2>2 DEF RetrySendJob, Exclusion, DraftsPrecedeJobs
  <2> QED
    BY <1>7, <2>2, <2>3, TasksRest DEF RetrySendJob
<1>8. ASSUME NEW d \in Drafts, QueueSendJob(d) PROVE Exclusion'
  <2>1. \A e \in Drafts : (job'[e] = job[e] /\ draft'[e] = draft[e]) \/ e = d
    BY <1>8 DEF QueueSendJob, TypeOK
  <2>2. draft'[d].status = "queued"
    BY <1>8 DEF QueueSendJob, TypeOK, DraftRow
  <2>3. DraftsPrecedeJobs'
    BY <2>1, <2>2 DEF Exclusion, DraftsPrecedeJobs
  <2>4. job[d].status # "sending"
    BY <1>8 DEF QueueSendJob, Exclusion, DraftsPrecedeJobs
  <2> QED
    BY <1>8, <2>1, <2>3, <2>4, TasksRest DEF QueueSendJob
<1> QED
  BY <1>2, <1>3, <1>4, <1>5, <1>6, <1>7, <1>8 DEF UserStep, CommandEnds

\* active_accounts is finite, so its size follows its changes.
LEMMA ActiveSize ==
    ASSUME TypeOK, NEW a
    PROVE  /\ Cardinality(active) \in Nat
           /\ a \notin active =>
                 Cardinality(active \cup {a}) = Cardinality(active) + 1
           /\ Cardinality(active \ {a}) <= Cardinality(active)
<1>1. IsFiniteSet(active)
  BY SendAssumption, FS_Subset DEF TypeOK
<1>2. Cardinality(active) \in Nat
  BY <1>1, FS_CardinalityType
<1>3. a \notin active => Cardinality(active \cup {a}) = Cardinality(active) + 1
  BY <1>1, FS_AddElement
<1>4. Cardinality(active \ {a}) <= Cardinality(active)
  BY <1>1, FS_Subset
<1> QED
  BY <1>2, <1>3, <1>4

LEMMA DispatcherExclusion == ExInv /\ DispatcherStep => Exclusion'
<1> SUFFICES ASSUME ExInv, DispatcherStep PROVE Exclusion'
  OBVIOUS
<1> USE DEF ExInv
<1>1. CASE Start \/ OpenFails
  BY <1>1 DEF Start, OpenFails, DispatcherOff, Exclusion, DraftsPrecedeJobs,
              SendersHoldJobs, TasksAreExclusive, ActiveIsBounded, Busy, disk
<1>2. CASE RecoverInterruptedSendJobs
  <2>1. dispatcher.pc = "opening" /\ dispatcher'.pc = "choosing"
    BY <1>2 DEF RecoverInterruptedSendJobs, TypeOK, Dispatcher
  <2>2. \A d \in Drafts : job[d].status = "absent" => job'[d] = job[d]
    BY <1>2 DEF RecoverInterruptedSendJobs, TypeOK
  <2>3. DraftsPrecedeJobs'
    BY <1>2, <2>2 DEF RecoverInterruptedSendJobs, Exclusion, DraftsPrecedeJobs
  <2>4. SendersHoldJobs'
    BY <1>2, <2>1 DEF RecoverInterruptedSendJobs, Exclusion, SendersHoldJobs,
                      Busy
  <2> QED
    BY <1>2, <2>1, <2>3, <2>4 DEF RecoverInterruptedSendJobs, Exclusion,
                                  TasksAreExclusive, ActiveIsBounded
<1>3. CASE SelectAccount
  <2>1. PICK a \in ReadySlots \ active :
           dispatcher' = [pc |-> "claiming", slot |-> a,
                          cursor |-> (SlotIndex(a) + 1) % Cardinality(ReadySlots)]
    BY <1>3 DEF SelectAccount
  <2>2. /\ dispatcher'.pc = "claiming" /\ dispatcher'.slot \notin active
        /\ dispatcher.pc = "choosing"
        /\ UNCHANGED <<draft, job, active, sender>>
        /\ Cardinality(active) < MaxActive
    BY <1>3, <2>1 DEF SelectAccount, disk
  <2> QED
    BY <2>2 DEF Exclusion, DraftsPrecedeJobs, SendersHoldJobs, Busy,
                TasksAreExclusive, ActiveIsBounded
<1>4. CASE ClaimSendJob
  <2>1. PICK d \in Ready(dispatcher.slot) :
          /\ job' = [job EXCEPT ![d].status = "sending", ![d].attempts = @ + 1]
          /\ sender' = [sender EXCEPT ![d] =
                [Idle EXCEPT !.pc = "delivering",
                             !.attempt = job[d].attempts + 1]]
          /\ active' = active \cup {dispatcher.slot}
    BY <1>4 DEF ClaimSendJob
  <2>2. /\ d \in Drafts /\ AccountOf[d] = dispatcher.slot /\ job[d] \in Job
        /\ job[d].status = "queued"
    BY <2>1, StoredIsJob DEF Ready
  <2>3. /\ dispatcher.pc = "claiming" /\ dispatcher'.pc = "choosing"
        /\ UNCHANGED draft
    BY <1>4 DEF ClaimSendJob, TypeOK, Dispatcher
  <2>4. /\ job'[d].status = "sending" /\ job'[d].attempts = job[d].attempts + 1
        /\ \A e \in Drafts \ {d} : job'[e] = job[e]
    BY <2>1, <2>2 DEF TypeOK, Job
  <2>5. /\ sender'[d].pc = "delivering"
        /\ sender'[d].attempt = job[d].attempts + 1
        /\ \A e \in Drafts \ {d} : sender'[e] = sender[e]
    BY <2>1, <2>2 DEF TypeOK, Idle
  <2>6. DraftsPrecedeJobs'
    BY <2>2, <2>3, <2>4 DEF Exclusion, DraftsPrecedeJobs
  <2>7. SendersHoldJobs'
    BY <2>3, <2>4, <2>5 DEF Exclusion, SendersHoldJobs, Busy
  <2>8. TasksAreExclusive'
    BY <2>1, <2>2, <2>3, <2>5 DEF Exclusion, TasksAreExclusive, ActiveIsBounded
  <2>9. ActiveIsBounded'
    <3>1. Cardinality(active') = Cardinality(active) + 1
      BY <2>1, <2>3, ActiveSize DEF Exclusion, ActiveIsBounded
    <3>2. Cardinality(active) \in Nat /\ Cardinality(active) < MaxActive
      BY <2>3, ActiveSize DEF Exclusion, ActiveIsBounded
    <3> QED
      BY <2>3, <3>1, <3>2, SendAssumption DEF ActiveIsBounded
  <2> QED
    BY <2>6, <2>7, <2>8, <2>9 DEF Exclusion
<1>5. CASE ClaimFails \/ StopClaiming \/ WakeUp
  <2>1. /\ dispatcher'.pc \in {"waiting", "choosing"}
        /\ dispatcher.pc \notin {"off", "opening"}
        /\ UNCHANGED <<draft, job, active, sender>>
    BY <1>5 DEF ClaimFails, StopClaiming, WakeUp, TypeOK, Dispatcher, disk
  <2> QED
    BY <2>1 DEF Exclusion, DraftsPrecedeJobs, SendersHoldJobs, Busy,
                TasksAreExclusive, ActiveIsBounded
<1> QED
  BY <1>1, <1>2, <1>3, <1>4, <1>5 DEF DispatcherStep

\* A step of a sender task that is at work: it goes on, or it ends and what
\* becomes of its job is recorded.
LEMMA SenderGoesOn ==
    ASSUME ExInv, NEW d \in Drafts, Busy(d),
           UNCHANGED <<dispatcher, active>>,
           \A e \in Drafts \ {d} :
              /\ sender'[e] = sender[e] /\ job'[e] = job[e]
              /\ draft'[e].status = draft[e].status,
           draft'[d].status \in {draft[d].status, "sent"},
           sender'[d].attempt = sender[d].attempt,
           sender'[d].pc # "idle",
           job'[d] = job[d] \/ sender'[d].pc = "finished"
    PROVE  Exclusion'
<1> USE DEF ExInv
<1>1. job[d].status = "sending" /\ draft[d].status \notin {"editing", "deleted"}
  BY DEF Exclusion, SendersHoldJobs, DraftsPrecedeJobs
<1>2. DraftsPrecedeJobs'
  BY <1>1 DEF Exclusion, DraftsPrecedeJobs
<1>3. SendersHoldJobs'
  BY <1>1 DEF Exclusion, SendersHoldJobs, Busy
<1>4. TasksAreExclusive'
  BY DEF Exclusion, TasksAreExclusive, Busy
<1>5. ActiveIsBounded'
  BY DEF Exclusion, ActiveIsBounded
<1> QED
  BY <1>2, <1>3, <1>4, <1>5 DEF Exclusion

LEMMA SenderExclusion ==
    ASSUME ExInv, NEW d \in Drafts,
           SenderStep(d) \/ BackoffElapses(d) \/ JoinSender(d)
    PROVE  Exclusion'
<1> USE DEF ExInv
<1>1. ASSUME NEW pc \in SenderStage \ {"idle"}, Goto(d, pc)
      PROVE  /\ sender'[d].pc = pc /\ sender'[d].pc # "idle"
             /\ sender'[d].attempt = sender[d].attempt
             /\ \A e \in Drafts \ {d} : sender'[e] = sender[e]
  BY <1>1 DEF Goto, TypeOK, Sender
<1>2. ASSUME Refuse(d)
      PROVE  /\ sender'[d].pc = "refused"
             /\ sender'[d].attempt = sender[d].attempt
             /\ \A e \in Drafts \ {d} : sender'[e] = sender[e]
  <2>1. PICK retryable \in BOOLEAN :
           sender' = [sender EXCEPT ![d].pc = "refused",
                                    ![d].retryable = retryable]
    BY <1>2 DEF Refuse
  <2> QED
    BY <2>1 DEF TypeOK, Sender
<1>3. CASE SmtpAccepts(d) \/ SmtpRefuses(d)
  <2>1. Goto(d, "accepted") \/ Refuse(d)
    BY <1>3 DEF SmtpAccepts, SmtpRefuses
  <2>2. /\ Busy(d) /\ UNCHANGED <<draft, job, dispatcher, active>>
    BY <1>3 DEF SmtpAccepts, SmtpRefuses, At, Busy, disk
  <2> QED
    BY <1>1, <1>2, <2>1, <2>2, SenderGoesOn DEF SenderStage
<1>4. CASE LookUpSentMailbox(d)
  <2>1. /\ Busy(d) /\ UNCHANGED <<draft, job, dispatcher, active>>
    BY <1>4 DEF LookUpSentMailbox, At, Busy, disk
  <2>2. /\ sender'[d].pc = "completing"
        /\ sender'[d].attempt = sender[d].attempt
        /\ \A e \in Drafts \ {d} : sender'[e] = sender[e]
    BY <1>4 DEF LookUpSentMailbox, Goto, TypeOK, Sender
  <2> QED
    BY <2>1, <2>2, SenderGoesOn
<1>5. CASE CompleteSendJob(d)
  <2>1. Busy(d) /\ UNCHANGED <<dispatcher, active>> /\ Goto(d, "finished")
    BY <1>5 DEF CompleteSendJob, At, Busy
  <2>2. \A e \in Drafts \ {d} :
           job'[e] = job[e] /\ draft'[e].status = draft[e].status
    BY <1>5 DEF CompleteSendJob, TypeOK
  <2>3. draft'[d].status \in {draft[d].status, "sent"}
    BY <1>5 DEF CompleteSendJob, TypeOK, DraftRow
  <2> QED
    BY <1>1, <2>1, <2>2, <2>3, SenderGoesOn DEF SenderStage
<1>6. CASE RecordRefusal(d)
  <2>1. /\ Busy(d) /\ UNCHANGED <<draft, dispatcher, active>>
        /\ Goto(d, "finished")
    BY <1>6 DEF RecordRefusal, At, Busy
  <2>2. \A e \in Drafts \ {d} : job'[e] = job[e]
    BY <1>6 DEF RecordRefusal, TypeOK
  <2> QED
    BY <1>1, <2>1, <2>2, SenderGoesOn DEF SenderStage
<1>7. CASE BackoffElapses(d)
  <2>1. job[d] \in Job
    BY <1>7, StoredIsJob DEF BackoffElapses
  <2>2. \A e \in Drafts : job'[e].status = job[e].status
    BY <1>7, <2>1 DEF BackoffElapses, TypeOK, Job
  <2>3. \A e \in Drafts : job'[e] = job[e] \/ e = d
    BY <1>7 DEF BackoffElapses, TypeOK
  <2>4. DraftsPrecedeJobs'
    BY <1>7, <2>2 DEF BackoffElapses, Exclusion, DraftsPrecedeJobs
  <2> QED
    BY <1>7, <2>3, <2>4, TasksRest DEF BackoffElapses
<1>8. CASE JoinSender(d)
  <2>1. /\ sender[d].pc = "finished" /\ sender'[d].pc = "idle"
        /\ \A e \in Drafts \ {d} : sender'[e] = sender[e]
        /\ active' = active \ {AccountOf[d]}
        /\ UNCHANGED <<draft, job>>
        /\ dispatcher.pc = "waiting" /\ dispatcher'.pc = "choosing"
    BY <1>8 DEF JoinSender, TypeOK, Idle, disk, Dispatcher
  <2>2. SendersHoldJobs' /\ DraftsPrecedeJobs'
    BY <2>1 DEF Exclusion, SendersHoldJobs, DraftsPrecedeJobs, Busy
  <2>3. TasksAreExclusive'
    BY <2>1, SendAssumption DEF Exclusion, TasksAreExclusive
  <2>4. ActiveIsBounded'
    <3>1. /\ Cardinality(active') <= Cardinality(active)
          /\ Cardinality(active) \in Nat
      BY <2>1, ActiveSize
    <3>2. Cardinality(active') \in Nat
      BY <2>1, SendAssumption, FS_Subset, FS_CardinalityType DEF TypeOK
    <3> QED
      BY <2>1, <3>1, <3>2, SendAssumption DEF Exclusion, ActiveIsBounded
  <2> QED
    BY <2>2, <2>3, <2>4 DEF Exclusion
<1> QED
  BY <1>3, <1>4, <1>5, <1>6, <1>7, <1>8 DEF SenderStep

LEMMA NextExclusion == ExInv /\ [Next]_vars => ExInv'
<1> SUFFICES ASSUME ExInv, [Next]_vars PROVE ExInv'
  OBVIOUS
<1>1. TypeOK'
  BY NextType DEF ExInv, Exclusion
<1>2. CASE UNCHANGED vars
  BY <1>1, <1>2 DEF ExInv, Exclusion, DraftsPrecedeJobs, SendersHoldJobs, Busy,
                    TasksAreExclusive, ActiveIsBounded, vars, disk, tasks
<1>3. CASE Crash
  BY <1>1, <1>3, FS_EmptySet, SendAssumption
  DEF Crash, ExInv, Exclusion, DraftsPrecedeJobs, SendersHoldJobs, Busy,
      TasksAreExclusive, ActiveIsBounded, disk, Idle, DispatcherOff
<1> QED
  BY <1>1, <1>2, <1>3, UserExclusion, DispatcherExclusion, SenderExclusion
  DEF Next, ExInv

LEMMA ExclusionSuffices == ExInv => SendersAreExclusive
  BY DEF ExInv, Exclusion, SendersHoldJobs, TasksAreExclusive, ActiveIsBounded,
         SendersAreExclusive, Busy

\* Every reachable state of the send queue is well-typed.
THEOREM SendTypeCorrect == Spec => []TypeOK
<1>1. Init => ExInv
  BY InitType, InitExclusion DEF ExInv
<1>2. ExInv /\ [Next]_vars => ExInv'
  BY NextExclusion
<1>3. ExInv => TypeOK
  BY DEF ExInv
<1> QED
  BY <1>1, <1>2, <1>3, PTL DEF Spec

\* docs/project.md:279, the dispatcher's active_accounts: whatever crashes,
\* is recovered, retried or queued meanwhile, at most MaxActive accounts send
\* at a time, each one message, with the job marked 'sending'.
THEOREM SendsExclusively == Spec => []SendersAreExclusive
<1>1. Init => ExInv
  BY InitType, InitExclusion DEF ExInv
<1>2. ExInv /\ [Next]_vars => ExInv'
  BY NextExclusion
<1> QED
  BY <1>1, <1>2, ExclusionSuffices, PTL DEF Spec

-----------------------------------------------------------------------------
(* The steps as a job sees them *)

Up == dispatcher.pc \notin {"off", "opening"}

\* What a step does to the job of d, to its sender and to the count of
\* deliveries; the attachments, stamps and windows are left out.
Keeps(d) == /\ job'[d].status = job[d].status
            /\ job'[d].attempts = job[d].attempts
Stays(d) == sender'[d].pc = sender[d].pc
Turns(d, from, to) == /\ job[d].status = from /\ job'[d].status = to
                      /\ job'[d].attempts = job[d].attempts
Moves(d, from, to) == sender[d].pc = from /\ sender'[d].pc = to

Enters(d) == /\ job[d].status = "absent" /\ job'[d].status = "queued"
             /\ job'[d].attempts = 0
             /\ Stays(d) /\ UNCHANGED <<accepted, budget>>
Returns(d) == /\ Turns(d, "failed", "queued") /\ Spend("retries")
              /\ Stays(d) /\ UNCHANGED accepted
Claims(d) == /\ Up /\ job[d].status = "queued" /\ job'[d].status = "sending"
             /\ job'[d].attempts = job[d].attempts + 1
             /\ sender'[d].pc = "delivering" /\ UNCHANGED <<accepted, budget>>
Delivers(d) == /\ Keeps(d)
               /\ accepted' = [accepted EXCEPT ![d] = @ + 1]
               /\ \/ Moves(d, "delivering", "accepted") /\ UNCHANGED budget
                  \/ Moves(d, "delivering", "refused") /\ Spend("lost")
Proceeds(d) == /\ Keeps(d) /\ UNCHANGED accepted
               /\ \/ Moves(d, "delivering", "refused")
                  \/ Moves(d, "accepted", "completing")
                  \/ Moves(d, "finished", "idle")
Completes(d) == /\ Moves(d, "completing", "finished") /\ UNCHANGED accepted
                /\ Keeps(d) \/ Turns(d, "sending", "sent")
Records(d) == /\ Moves(d, "refused", "finished") /\ UNCHANGED accepted
              /\ \/ Keeps(d) \/ Turns(d, "sending", "failed")
                 \/ /\ Turns(d, "sending", "queued")
                    /\ job[d].attempts < MaxAttempts

OneJob(d) == /\ \/ Enters(d) \/ Returns(d) \/ Claims(d) \/ Delivers(d)
                \/ Proceeds(d) \/ Completes(d) \/ Records(d)
             /\ \A e \in Drafts \ {d} : Keeps(e) /\ Stays(e)
             /\ Up' = Up
NoJob == /\ \A d \in Drafts : Keeps(d) /\ Stays(d)
         /\ UNCHANGED accepted /\ Up' = Up
Recovery == /\ ~Up /\ UNCHANGED <<accepted, sender>>
            /\ \A d \in Drafts : Keeps(d) \/ Turns(d, "sending", "queued")
Kill == /\ UNCHANGED <<job, accepted>> /\ Spend("crashes")
        /\ \A d \in Drafts : sender'[d].pc = "idle"

Shape == (\E d \in Drafts : OneJob(d)) \/ NoJob \/ Recovery \/ Kill

LEMMA UserShape == ExInv /\ (UserStep \/ CommandEnds) => Shape
<1> SUFFICES ASSUME ExInv, UserStep \/ CommandEnds PROVE Shape
  OBVIOUS
<1> USE DEF ExInv
<1>1. ASSUME UNCHANGED <<job, tasks, accepted>> PROVE NoJob
  BY <1>1 DEF NoJob, Keeps, Stays, Up, tasks
<1>2. ASSUME NEW d \in Drafts, NEW f \in Files,
             \/ CheckAttachment(d, f) \/ RemoveAttachment(d, f)
             \/ InsertAttachment(d, f)
      PROVE  NoJob
  BY <1>1, <1>2 DEF CheckAttachment, RemoveAttachment, InsertAttachment, disk
<1>3. ASSUME NEW d \in Drafts, DeleteEditingDraft(d) \/ ReadDraft(d)
      PROVE  NoJob
  BY <1>1, <1>3 DEF DeleteEditingDraft, ReadDraft, disk
<1>4. ASSUME NEW a \in Accounts, DeleteMailbox(a) PROVE NoJob
  BY <1>1, <1>4 DEF DeleteMailbox
<1>5. ASSUME NEW d \in Drafts, RetrySendJob(d) PROVE OneJob(d)
  <2>1. job[d] \in Job
    BY <1>5, StoredIsJob DEF RetrySendJob
  <2>2. \A e \in Drafts \ {d} : job'[e] = job[e]
    BY <1>5 DEF RetrySendJob, TypeOK
  <2>3. Turns(d, "failed", "queued")
    BY <1>5, <2>1 DEF RetrySendJob, Turns, TypeOK, Job
  <2> QED
    BY <1>5, <2>2, <2>3
    DEF RetrySendJob, OneJob, Returns, Keeps, Stays, Up, tasks
<1>6. ASSUME NEW d \in Drafts, QueueSendJob(d) PROVE OneJob(d)
  <2>1. /\ job[d].status = "absent" /\ job'[d].status = "queued"
        /\ job'[d].attempts = 0
        /\ \A e \in Drafts \ {d} : job'[e] = job[e]
    BY <1>6 DEF QueueSendJob, TypeOK, Exclusion, DraftsPrecedeJobs
  <2> QED
    BY <1>6, <2>1 DEF QueueSendJob, OneJob, Enters, Keeps, Stays, Up, tasks
<1> QED
  BY <1>2, <1>3, <1>4, <1>5, <1>6 DEF UserStep, CommandEnds, Shape

LEMMA DispatcherShape == ExInv /\ DispatcherStep => Shape
<1> SUFFICES ASSUME ExInv, DispatcherStep PROVE Shape
  OBVIOUS
<1> USE DEF ExInv
<1>1. CASE Start \/ OpenFails
  <2>1. Up' = Up /\ UNCHANGED <<job, sender, accepted>>
    BY <1>1 DEF Start, OpenFails, Up, DispatcherOff, TypeOK, Dispatcher, disk
  <2> QED
    BY <2>1 DEF Shape, NoJob, Keeps, Stays
<1>2. CASE RecoverInterruptedSendJobs
  <2>1. ASSUME NEW d \in Drafts
        PROVE  Keeps(d) \/ Turns(d, "sending", "queued")
    <3>1. CASE UNCHANGED job
      BY <3>1 DEF Keeps
    <3>2. CASE job' = [e \in Drafts |-> IF job[e].status = "sending"
                        THEN [job[e] EXCEPT !.status = "queued", !.due = TRUE]
                        ELSE job[e]]
      <4>1. CASE job[d].status = "sending"
        <5>1. job[d] \in Job
          BY <4>1, StoredIsJob
        <5>2. job'[d] = [job[d] EXCEPT !.status = "queued", !.due = TRUE]
          BY <3>2, <4>1
        <5> QED
          BY <4>1, <5>1, <5>2 DEF Turns, Job
      <4>2. CASE job[d].status # "sending"
        BY <3>2, <4>2 DEF Keeps
      <4> QED
        BY <4>1, <4>2
    <3> QED
      BY <1>2, <3>1, <3>2 DEF RecoverInterruptedSendJobs
  <2> QED
    BY <1>2, <2>1 DEF RecoverInterruptedSendJobs, Shape, Recovery, Up
<1>3. CASE SelectAccount \/ ClaimFails \/ StopClaiming \/ WakeUp
  <2>1. Up /\ Up'
    BY <1>3 DEF SelectAccount, ClaimFails, StopClaiming, WakeUp, Up, TypeOK,
                Dispatcher
  <2>2. UNCHANGED <<job, sender, accepted>>
    BY <1>3 DEF SelectAccount, ClaimFails, StopClaiming, WakeUp, disk
  <2> QED
    BY <2>1, <2>2 DEF Shape, NoJob, Keeps, Stays
<1>4. CASE ClaimSendJob
  <2>1. PICK d \in Ready(dispatcher.slot) :
          /\ job' = [job EXCEPT ![d].status = "sending", ![d].attempts = @ + 1]
          /\ sender' = [sender EXCEPT ![d] =
                [Idle EXCEPT !.pc = "delivering",
                             !.attempt = job[d].attempts + 1]]
    BY <1>4 DEF ClaimSendJob
  <2>2. d \in Drafts /\ job[d] \in Job /\ job[d].status = "queued"
    BY <2>1, StoredIsJob DEF Ready
  <2>3. /\ job'[d].status = "sending" /\ job'[d].attempts = job[d].attempts + 1
        /\ \A e \in Drafts \ {d} : job'[e] = job[e]
    BY <2>1, <2>2 DEF TypeOK, Job
  <2>4. /\ sender'[d].pc = "delivering"
        /\ \A e \in Drafts \ {d} : sender'[e] = sender[e]
    BY <2>1, <2>2 DEF TypeOK, Idle
  <2>5. Up /\ Up' /\ UNCHANGED <<accepted, budget>>
    BY <1>4 DEF ClaimSendJob, Up, TypeOK, Dispatcher
  <2> QED
    BY <2>2, <2>3, <2>4, <2>5 DEF Shape, OneJob, Claims, Keeps, Stays
<1> QED
  BY <1>1, <1>2, <1>3, <1>4 DEF DispatcherStep

LEMMA SenderShape ==
    ASSUME ExInv, NEW d \in Drafts,
           SenderStep(d) \/ BackoffElapses(d) \/ JoinSender(d)
    PROVE  Shape
<1> USE DEF ExInv
<1>1. ASSUME NEW pc \in SenderStage, Goto(d, pc)
      PROVE  sender'[d].pc = pc /\ \A e \in Drafts \ {d} : Stays(e)
  BY <1>1 DEF Goto, TypeOK, Sender, Stays
<1>2. ASSUME Refuse(d)
      PROVE  sender'[d].pc = "refused" /\ \A e \in Drafts \ {d} : Stays(e)
  <2>1. PICK retryable \in BOOLEAN :
           sender' = [sender EXCEPT ![d].pc = "refused",
                                    ![d].retryable = retryable]
    BY <1>2 DEF Refuse
  <2> QED
    BY <2>1 DEF TypeOK, Sender, Stays
<1>3. CASE SmtpAccepts(d)
  <2>1. \A e \in Drafts : Keeps(e)
    BY <1>3 DEF SmtpAccepts, disk, Keeps
  <2>2. Delivers(d) /\ \A e \in Drafts \ {d} : Stays(e)
    BY <1>1, <1>2, <1>3, <2>1 DEF SmtpAccepts, Delivers, Moves, At, SenderStage
  <2> QED
    BY <1>3, <2>1, <2>2 DEF SmtpAccepts, Shape, OneJob, Up
<1>4. CASE SmtpRefuses(d) \/ LookUpSentMailbox(d)
  <2>1. (\A e \in Drafts : Keeps(e)) /\ UNCHANGED <<accepted, dispatcher>>
    BY <1>4 DEF SmtpRefuses, LookUpSentMailbox, disk, Keeps
  <2>2. \/ Moves(d, "delivering", "refused") \/ Moves(d, "accepted", "completing")
    BY <1>1, <1>2, <1>4
    DEF SmtpRefuses, LookUpSentMailbox, Moves, At, Goto, SenderStage, TypeOK,
        Sender
  <2>3. \A e \in Drafts \ {d} : Stays(e)
    BY <1>1, <1>2, <1>4
    DEF SmtpRefuses, LookUpSentMailbox, Stays, TypeOK, SenderStage
  <2> QED
    BY <2>1, <2>2, <2>3 DEF Shape, OneJob, Proceeds, Up
<1>5. CASE CompleteSendJob(d)
  <2>1. job[d] \in Job /\ job[d].status = "sending"
    BY <1>5, StoredIsJob DEF CompleteSendJob, At, Exclusion, SendersHoldJobs,
                             Busy
  <2>2. \A e \in Drafts \ {d} : Keeps(e)
    BY <1>5 DEF CompleteSendJob, TypeOK, Keeps
  <2>3. Keeps(d) \/ Turns(d, "sending", "sent")
    BY <1>5, <2>1 DEF CompleteSendJob, TypeOK, Keeps, Turns, Job
  <2>4. Moves(d, "completing", "finished") /\ \A e \in Drafts \ {d} : Stays(e)
    BY <1>1, <1>5 DEF CompleteSendJob, Moves, At, SenderStage
  <2> QED
    BY <1>5, <2>2, <2>3, <2>4 DEF CompleteSendJob, Shape, OneJob, Completes, Up
<1>6. CASE RecordRefusal(d)
  <2>1. /\ job[d] \in Job /\ job[d].status = "sending"
        /\ job[d].attempts = sender[d].attempt
    BY <1>6, StoredIsJob DEF RecordRefusal, At, Exclusion, SendersHoldJobs, Busy
  <2>2. \A e \in Drafts \ {d} : Keeps(e)
    BY <1>6 DEF RecordRefusal, TypeOK, Keeps
  <2>3. \/ Keeps(d) \/ Turns(d, "sending", "failed")
        \/ Turns(d, "sending", "queued") /\ job[d].attempts < MaxAttempts
    BY <1>6, <2>1 DEF RecordRefusal, TypeOK, Keeps, Turns, Job
  <2>4. Moves(d, "refused", "finished") /\ \A e \in Drafts \ {d} : Stays(e)
    BY <1>1, <1>6 DEF RecordRefusal, Moves, At, SenderStage
  <2> QED
    BY <1>6, <2>2, <2>3, <2>4 DEF RecordRefusal, Shape, OneJob, Records, Up
<1>7. CASE BackoffElapses(d)
  <2>1. job[d] \in Job
    BY <1>7, StoredIsJob DEF BackoffElapses
  <2>2. \A e \in Drafts : Keeps(e)
    BY <1>7, <2>1 DEF BackoffElapses, TypeOK, Job, Keeps
  <2> QED
    BY <1>7, <2>2 DEF BackoffElapses, Shape, NoJob, Stays, Up, tasks
<1>8. CASE JoinSender(d)
  <2>1. Moves(d, "finished", "idle") /\ \A e \in Drafts \ {d} : Stays(e)
    BY <1>8 DEF JoinSender, TypeOK, Idle, Moves, Stays
  <2>2. Up /\ Up' /\ UNCHANGED <<job, accepted>>
    BY <1>8 DEF JoinSender, TypeOK, Dispatcher, Up, disk
  <2> QED
    BY <2>1, <2>2 DEF Shape, OneJob, Proceeds, Keeps
<1> QED
  BY <1>3, <1>4, <1>5, <1>6, <1>7, <1>8 DEF SenderStep

LEMMA NextShape == ExInv /\ [Next]_vars => Shape
<1> SUFFICES ASSUME ExInv, [Next]_vars PROVE Shape
  OBVIOUS
<1>1. CASE UNCHANGED vars
  BY <1>1 DEF Shape, NoJob, Keeps, Stays, Up, vars, disk, tasks
<1>2. CASE Crash
  BY <1>2 DEF Crash, Shape, Kill, Idle, disk
<1> QED
  BY <1>1, <1>2, UserShape, DispatcherShape, SenderShape DEF Next

-----------------------------------------------------------------------------
(* What faults and retries cost *)

BudgetShrinks == \A k \in Limits : budget[k] <= Budget[k]

\* A job that has been acknowledged and not recorded stays 'sending' until
\* the process is killed: only then may it be delivered once more.
MayBeDelivered(d) ==
    \/ job[d].status \in {"absent", "queued", "failed"}
    \/ sender[d].pc \in {"delivering", "refused"}
    \/ ~Up /\ job[d].status # "sent"

DeliveriesCounted ==
    \A d \in Drafts :
        /\ accepted[d] <= 1 + Spent("crashes") + Spent("lost")
        /\ MayBeDelivered(d) => accepted[d] <= Spent("crashes") + Spent("lost")

\* A job that can be claimed again has an attempt left, or had one added by
\* the kill or the retry that put it back.
AttemptsCounted ==
    \A d \in Jobs :
        /\ job[d].attempts <= MaxAttempts + Spent("crashes") + Spent("retries")
        /\ job[d].status = "queued" \/ (~Up /\ job[d].status # "sent") =>
              job[d].attempts < MaxAttempts + Spent("crashes") + Spent("retries")

\* What a sender has to confirm has been delivered.
Acknowledged ==
    \A d \in Drafts : sender[d].pc \in {"accepted", "completing"}
                        => accepted[d] > 0

IInv == ExInv /\ BudgetShrinks /\ DeliveriesCounted /\ AttemptsCounted
              /\ Acknowledged

LEMMA SpentIsNat ==
    ASSUME TypeOK, BudgetShrinks, NEW k \in Limits
    PROVE  Spent(k) \in Nat
  BY SendAssumption DEF BudgetShrinks, TypeOK, BudgetType, Limits, Spent

LEMMA OneMoreIsSpent ==
    ASSUME TypeOK, NEW what \in Limits, Spend(what)
    PROVE  /\ Spent(what)' = Spent(what) + 1
           /\ \A k \in Limits \ {what} : Spent(k)' = Spent(k)
  BY SpendingIsTyped, SendAssumption DEF TypeOK, BudgetType, Limits, Spent

LEMMA NextSpends ==
    ASSUME TypeOK, [Next]_vars
    PROVE  (UNCHANGED budget) \/ \E what \in Limits : Spend(what)
<1>1. ASSUME UserStep \/ CommandEnds
      PROVE  (UNCHANGED budget) \/ \E what \in Limits : Spend(what)
  BY <1>1 DEF UserStep, CommandEnds, CheckAttachment, RemoveAttachment,
              DeleteEditingDraft, ReadDraft, RetrySendJob, DeleteMailbox,
              QueueSendJob, InsertAttachment, Limits
<1>2. ASSUME DispatcherStep
      PROVE  (UNCHANGED budget) \/ \E what \in Limits : Spend(what)
  BY <1>2 DEF DispatcherStep, Start, OpenFails, RecoverInterruptedSendJobs,
              SelectAccount, ClaimSendJob, ClaimFails, StopClaiming, WakeUp,
              Limits
<1>3. ASSUME NEW d \in Drafts,
             BackoffElapses(d) \/ JoinSender(d) \/ SenderStep(d)
      PROVE  (UNCHANGED budget) \/ \E what \in Limits : Spend(what)
  BY <1>3 DEF BackoffElapses, JoinSender, SenderStep, SmtpAccepts, SmtpRefuses,
              LookUpSentMailbox, CompleteSendJob, RecordRefusal, Limits
<1>4. ASSUME Crash \/ UNCHANGED vars
      PROVE  (UNCHANGED budget) \/ \E what \in Limits : Spend(what)
  BY <1>4 DEF Crash, vars, Limits
<1> QED
  BY <1>1, <1>2, <1>3, <1>4 DEF Next

LEMMA SpentGrows ==
    ASSUME TypeOK, TypeOK', BudgetShrinks, [Next]_vars
    PROVE  /\ BudgetShrinks'
           /\ \A k \in Limits : Spent(k)' \in Nat /\ Spent(k) <= Spent(k)'
<1>1. \A k \in Limits : budget'[k] <= budget[k]
  BY NextSpends, SpendingIsTyped DEF TypeOK, BudgetType, Limits
<1>2. BudgetShrinks'
  BY <1>1, SendAssumption DEF BudgetShrinks, TypeOK, BudgetType, Limits
<1>3. \A k \in Limits : Spent(k)' \in Nat /\ Spent(k) <= Spent(k)'
  BY <1>1, <1>2, SendAssumption
  DEF BudgetShrinks, TypeOK, BudgetType, Limits, Spent
<1> QED
  BY <1>2, <1>3

LEMMA DeliveriesStep ==
    ASSUME ExInv, ExInv', BudgetShrinks, DeliveriesCounted, [Next]_vars
    PROVE  DeliveriesCounted'
<1> DEFINE Faults == Spent("crashes") + Spent("lost")
<1>0. /\ Spent("crashes") \in Nat /\ Spent("lost") \in Nat
      /\ Spent("crashes")' \in Nat /\ Spent("lost")' \in Nat
      /\ Spent("crashes") <= Spent("crashes")'
      /\ Spent("lost") <= Spent("lost")'
  BY SpentIsNat, SpentGrows DEF ExInv, Limits
<1>1. /\ Faults \in Nat /\ Faults' \in Nat /\ Faults <= Faults'
      /\ Spend("crashes") \/ Spend("lost") => Faults' = Faults + 1
  <2>1. Spend("crashes") => /\ Spent("crashes")' = Spent("crashes") + 1
                            /\ Spent("lost")' = Spent("lost")
    BY OneMoreIsSpent DEF ExInv, Limits
  <2>2. Spend("lost") => /\ Spent("lost")' = Spent("lost") + 1
                         /\ Spent("crashes")' = Spent("crashes")
    BY OneMoreIsSpent DEF ExInv, Limits
  <2> QED
    BY <1>0, <2>1, <2>2
<1>2. \A d \in Drafts : /\ accepted[d] \in Nat /\ accepted'[d] \in Nat
                        /\ accepted[d] <= 1 + Faults
                        /\ MayBeDelivered(d) => accepted[d] <= Faults
  BY <1>0 DEF ExInv, TypeOK, DeliveriesCounted
<1> HIDE DEF Faults
<1>3. \A d \in Drafts : /\ accepted'[d] <= 1 + Faults'
                        /\ MayBeDelivered(d)' => accepted'[d] <= Faults'
  <2>1. ASSUME NEW d \in Drafts, accepted'[d] = accepted[d],
               MayBeDelivered(d)' => MayBeDelivered(d) \/ Spend("crashes")
        PROVE  /\ accepted'[d] <= 1 + Faults'
               /\ MayBeDelivered(d)' => accepted'[d] <= Faults'
    BY <1>1, <1>2, <2>1
  <2>2. CASE NoJob \/ Recovery
    <3>1. UNCHANGED accepted
      BY <2>2 DEF NoJob, Recovery
    <3>2. \A d \in Drafts : MayBeDelivered(d)' => MayBeDelivered(d)
      BY <2>2 DEF NoJob, Recovery, MayBeDelivered, Keeps, Stays, Turns
    <3> QED
      BY <2>1, <3>1, <3>2
  <2>3. CASE Kill
    BY <2>1, <2>3 DEF Kill
  <2>4. ASSUME NEW d \in Drafts, OneJob(d), NEW e \in Drafts
        PROVE  /\ accepted'[e] <= 1 + Faults'
               /\ MayBeDelivered(e)' => accepted'[e] <= Faults'
    <3>1. CASE e # d
      <4>1. accepted'[e] = accepted[e]
        BY <2>4, <3>1
        DEF OneJob, Enters, Returns, Claims, Delivers, Proceeds, Completes,
            Records, ExInv, TypeOK
      <4>2. MayBeDelivered(e)' => MayBeDelivered(e)
        BY <2>4, <3>1 DEF OneJob, MayBeDelivered, Keeps, Stays
      <4> QED
        BY <2>1, <4>1, <4>2
    <3>2. CASE e = d /\ Delivers(d)
      <4>1. accepted'[d] = accepted[d] + 1
        BY <3>2 DEF Delivers, ExInv, TypeOK
      <4>2. sender[d].pc = "delivering"
        BY <3>2 DEF Delivers, Moves
      <4>3. accepted[d] <= Faults
        BY <1>2, <4>2 DEF MayBeDelivered
      <4>4. CASE Spend("lost")
        BY <1>1, <1>2, <3>2, <4>1, <4>3, <4>4
      <4>5. CASE Moves(d, "delivering", "accepted")
        <5>1. job'[d].status = "sending" /\ sender'[d].pc = "accepted" /\ Up'
          BY <2>4, <3>2, <4>2, <4>5
          DEF ExInv, Exclusion, SendersHoldJobs, Busy, Delivers, Keeps, Moves,
              OneJob, Up
        <5>2. ~MayBeDelivered(d)'
          BY <5>1 DEF MayBeDelivered
        <5> QED
          BY <1>1, <1>2, <3>2, <4>1, <4>3, <5>2
      <4> QED
        BY <3>2, <4>4, <4>5 DEF Delivers
    <3>3. CASE e = d /\ ~Delivers(d)
      <4>1. UNCHANGED accepted
        BY <2>4, <3>3
        DEF OneJob, Enters, Returns, Claims, Proceeds, Completes, Records
      <4>2. MayBeDelivered(d)' => MayBeDelivered(d)
        BY <2>4, <3>3
        DEF OneJob, Enters, Returns, Claims, Proceeds, Completes, Records,
            MayBeDelivered, Keeps, Stays, Turns, Moves
      <4> QED
        BY <2>1, <3>3, <4>1, <4>2
    <3> QED
      BY <3>1, <3>2, <3>3
  <2> QED
    BY <2>2, <2>3, <2>4, NextShape DEF Shape
<1> QED
  BY <1>0, <1>2, <1>3 DEF DeliveriesCounted, Faults

LEMMA AttemptsStep ==
    ASSUME ExInv, ExInv', BudgetShrinks, AttemptsCounted, [Next]_vars
    PROVE  AttemptsCounted'
<1> DEFINE Limit == MaxAttempts + Spent("crashes") + Spent("retries")
<1> DEFINE Claimable(d) == \/ job[d].status = "queued"
                           \/ ~Up /\ job[d].status # "sent"
<1>0. /\ Spent("crashes") \in Nat /\ Spent("retries") \in Nat
      /\ Spent("crashes")' \in Nat /\ Spent("retries")' \in Nat
      /\ Spent("crashes") <= Spent("crashes")'
      /\ Spent("retries") <= Spent("retries")'
  BY SpentIsNat, SpentGrows DEF ExInv, Limits
<1>1. /\ Limit \in Nat /\ Limit' \in Nat /\ Limit <= Limit'
      /\ MaxAttempts <= Limit /\ 0 < MaxAttempts /\ MaxAttempts \in Nat
      /\ Spend("crashes") \/ Spend("retries") => Limit < Limit'
  <2>1. Spend("crashes") => /\ Spent("crashes")' = Spent("crashes") + 1
                            /\ Spent("retries")' = Spent("retries")
    BY OneMoreIsSpent DEF ExInv, Limits
  <2>2. Spend("retries") => /\ Spent("retries")' = Spent("retries") + 1
                            /\ Spent("crashes")' = Spent("crashes")
    BY OneMoreIsSpent DEF ExInv, Limits
  <2> QED
    BY <1>0, <2>1, <2>2, SendAssumption
<1>2. \A d \in Drafts : job[d].status # "absent" =>
         /\ job[d].attempts \in Nat /\ job[d].attempts <= Limit
         /\ Claimable(d) => job[d].attempts < Limit
  <2>1. \A d \in Drafts : job[d].status # "absent" => job[d].attempts \in Nat
    BY StoredIsJob DEF ExInv, Job
  <2> QED
    BY <2>1 DEF AttemptsCounted, Jobs
<1> HIDE DEF Limit
<1>3. ASSUME NEW d \in Drafts, job'[d].status # "absent"
      PROVE  /\ job'[d].attempts <= Limit'
             /\ Claimable(d)' => job'[d].attempts < Limit'
  <2>1. CASE Keeps(d) /\ (Claimable(d)' => Claimable(d))
    BY <1>1, <1>2, <1>3, <2>1 DEF Keeps
  <2>2. CASE NoJob
    BY <2>1, <2>2 DEF NoJob, Keeps
  <2>3. CASE Recovery
    BY <1>1, <1>2, <1>3, <2>3 DEF Recovery, Keeps, Turns
  <2>4. CASE Kill
    BY <1>1, <1>2, <1>3, <2>4 DEF Kill
  <2>5. ASSUME NEW e \in Drafts, OneJob(e), e # d
        PROVE  Keeps(d) /\ (Claimable(d)' => Claimable(d))
    BY <2>5 DEF OneJob, Keeps
  <2>6. CASE OneJob(d)
    <3>1. CASE Enters(d)
      BY <1>1, <3>1 DEF Enters
    <3>2. CASE Returns(d)
      BY <1>1, <1>2, <3>2 DEF Returns, Turns
    <3>3. CASE Claims(d)
      BY <1>1, <1>2, <2>6, <3>3 DEF Claims, OneJob
    <3>4. CASE Keeps(d)
      BY <2>1, <2>6, <3>4 DEF OneJob, Keeps
    <3>5. CASE Completes(d) \/ Records(d)
      BY <1>1, <1>2, <2>1, <2>6, <3>5 DEF Completes, Records, OneJob, Keeps, Turns
    <3> QED
      BY <2>6, <3>1, <3>2, <3>3, <3>4, <3>5 DEF OneJob, Delivers, Proceeds
  <2> QED
    BY <2>1, <2>2, <2>3, <2>4, <2>5, <2>6, NextShape DEF Shape
<1> QED
  BY <1>3 DEF AttemptsCounted, Limit, Jobs

LEMMA AcknowledgedStep ==
    ASSUME ExInv, ExInv', Acknowledged, [Next]_vars
    PROVE  Acknowledged'
<1>1. \A d \in Drafts : accepted[d] \in Nat
  BY DEF ExInv, TypeOK
<1>2. CASE NoJob \/ Recovery \/ Kill
  BY <1>2 DEF NoJob, Recovery, Kill, Stays, Acknowledged
<1>3. ASSUME NEW d \in Drafts, OneJob(d) PROVE Acknowledged'
  <2>1. \A e \in Drafts : accepted'[e] >= accepted[e]
    BY <1>1, <1>3
    DEF OneJob, Enters, Returns, Claims, Delivers, Proceeds, Completes, Records,
        ExInv, TypeOK
  <2>2. \A e \in Drafts \ {d} : sender'[e].pc = sender[e].pc
    BY <1>3 DEF OneJob, Stays
  <2>3. Delivers(d) => accepted'[d] > 0
    BY <1>1 DEF Delivers, ExInv, TypeOK
  <2>4. sender'[d].pc \in {"accepted", "completing"} /\ ~Delivers(d)
           => sender[d].pc \in {"accepted", "completing"}
    BY <1>3 DEF OneJob, Enters, Returns, Claims, Proceeds, Completes, Records,
                Stays, Moves
  <2>5. \A e \in Drafts : accepted[e] > 0 => accepted'[e] > 0
    BY <1>1, <2>1 DEF ExInv, TypeOK
  <2> QED
    BY <2>2, <2>3, <2>4, <2>5 DEF Acknowledged
<1> QED
  BY <1>2, <1>3, NextShape DEF Shape

LEMMA InitIInv == Init => IInv
<1> SUFFICES ASSUME Init PROVE IInv
  OBVIOUS
<1>1. ExInv
  BY InitType, InitExclusion DEF ExInv
<1>2. BudgetShrinks
  BY SendAssumption DEF Init, BudgetShrinks, BudgetType, Limits
<1>3. Spent("crashes") \in Nat /\ Spent("lost") \in Nat
  BY <1>1, <1>2, SpentIsNat DEF ExInv, Limits
<1>4. DeliveriesCounted /\ Acknowledged
  BY <1>3 DEF Init, DeliveriesCounted, Acknowledged, Idle
<1>5. AttemptsCounted
  BY DEF Init, AttemptsCounted, Jobs, Absent
<1> QED
  BY <1>1, <1>2, <1>4, <1>5 DEF IInv

LEMMA NextIInv == IInv /\ [Next]_vars => IInv'
<1> SUFFICES ASSUME IInv, [Next]_vars PROVE IInv'
  OBVIOUS
<1>1. ExInv'
  BY NextExclusion DEF IInv
<1>2. BudgetShrinks'
  BY <1>1, SpentGrows DEF IInv, ExInv
<1> QED
  BY <1>1, <1>2, DeliveriesStep, AttemptsStep, AcknowledgedStep DEF IInv

\* Retries, deferrals, recoveries and a dispatcher that selects from a stale
\* list never deliver a message again by themselves: every copy beyond the
\* first has cost a kill of the process or a lost answer of its own.
THEOREM DuplicatesCostFaults == Spec => []DuplicatesNeedFaults
<1>1. IInv => DuplicatesNeedFaults
  BY DEF IInv, DeliveriesCounted, DuplicatesNeedFaults
<1> QED
  BY <1>1, InitIInv, NextIInv, PTL DEF Spec

\* attempt_count, compared with its maximum only when an error is recorded,
\* bounds what claim_next_send_job_for_account does: MaxAttempts
\* claims, and one more for each kill and each retry of the user's.
THEOREM AttemptsStayBounded == Spec => []AttemptsAreBounded
<1>1. IInv => AttemptsAreBounded
  BY DEF IInv, AttemptsCounted, AttemptsAreBounded
<1> QED
  BY <1>1, InitIInv, NextIInv, PTL DEF Spec

-----------------------------------------------------------------------------
(* The queue implements Outbox *)

Abstract == [d \in Drafts |-> StateOf(job[d].status)]

LEMMA InitOutbox == Init => Out!OutboxInit
  BY DEF Init, Out!OutboxInit, StateOf, Absent

\* One message moves from one state to another.
LEMMA AbstractMove ==
    ASSUME NEW d \in Drafts, NEW to,
           \A e \in Drafts \ {d} : Keeps(e),
           StateOf(job'[d].status) = to
    PROVE  Abstract' = [Abstract EXCEPT ![d] = to]
  BY DEF Abstract, Keeps

LEMMA NextOutbox ==
    ASSUME IInv, IInv', [Next]_vars
    PROVE  [Out!OutboxNext]_(Out!outbox)
<1> USE DEF Abstract
<1>1. ASSUME \A d \in Drafts : StateOf(job'[d].status) = StateOf(job[d].status),
             UNCHANGED accepted
      PROVE  UNCHANGED Out!outbox
  BY <1>1 DEF Out!outbox
<1>2. CASE NoJob
  BY <1>1, <1>2 DEF NoJob, Keeps
<1>3. CASE Recovery
  BY <1>1, <1>3 DEF Recovery, Keeps, Turns, StateOf
<1>4. CASE Kill
  BY <1>1, <1>4 DEF Kill
<1>5. ASSUME NEW d \in Drafts, OneJob(d)
      PROVE  Out!OutboxNext \/ UNCHANGED Out!outbox
  <2>0. \A e \in Drafts \ {d} : Keeps(e)
    BY <1>5 DEF OneJob
  <2>1. CASE Enters(d)
    <3>1. Abstract' = [Abstract EXCEPT ![d] = "pending"]
      BY <2>0, <2>1, AbstractMove DEF Enters, StateOf
    <3>2. Abstract[d] = "none" /\ UNCHANGED accepted
      BY <2>1 DEF Enters, StateOf
    <3> QED
      BY <3>1, <3>2 DEF Out!OutboxNext, Out!Queue, Out!Move
  <2>2. CASE Returns(d)
    <3>1. Abstract' = [Abstract EXCEPT ![d] = "pending"]
      BY <2>0, <2>2, AbstractMove DEF Returns, Turns, StateOf
    <3>2. Abstract[d] = "rejected" /\ UNCHANGED accepted
      BY <2>2 DEF Returns, Turns, StateOf
    <3> QED
      BY <3>1, <3>2 DEF Out!OutboxNext, Out!Retry, Out!Move
  <2>3. CASE Claims(d)
    BY <1>1, <2>0, <2>3 DEF Claims, Keeps, StateOf
  <2>4. CASE Delivers(d)
    <3>1. job[d].status = "sending"
      BY <2>4 DEF Delivers, Moves, IInv, ExInv, Exclusion, SendersHoldJobs, Busy
    <3>2. Abstract[d] = "pending" /\ UNCHANGED Abstract
      BY <2>0, <2>4, <3>1 DEF Delivers, Keeps, StateOf
    <3>3. accepted' = [accepted EXCEPT ![d] = @ + 1]
      BY <2>4 DEF Delivers
    <3> QED
      BY <3>2, <3>3 DEF Out!OutboxNext, Out!Deliver
  <2>5. CASE Keeps(d) /\ UNCHANGED accepted
    BY <1>1, <2>0, <2>5 DEF Keeps
  <2>6. CASE Turns(d, "sending", "queued") /\ UNCHANGED accepted
    BY <1>1, <2>0, <2>6 DEF Keeps, Turns, StateOf
  <2>7. CASE Completes(d) /\ Turns(d, "sending", "sent")
    <3>1. Abstract' = [Abstract EXCEPT ![d] = "sent"]
      BY <2>0, <2>7, AbstractMove DEF Turns, StateOf
    <3>2. Abstract[d] = "pending" /\ UNCHANGED accepted /\ accepted[d] > 0
      BY <2>7 DEF Completes, Moves, Turns, StateOf, IInv, Acknowledged
    <3> QED
      BY <3>1, <3>2 DEF Out!OutboxNext, Out!Confirm, Out!Move
  <2>8. CASE Records(d) /\ Turns(d, "sending", "failed")
    <3>1. Abstract' = [Abstract EXCEPT ![d] = "rejected"]
      BY <2>0, <2>8, AbstractMove DEF Turns, StateOf
    <3>2. Abstract[d] = "pending" /\ UNCHANGED accepted
      BY <2>8 DEF Records, Turns, StateOf
    <3> QED
      BY <3>1, <3>2 DEF Out!OutboxNext, Out!Reject, Out!Move
  <2> QED
    BY <1>5, <2>1, <2>2, <2>3, <2>4, <2>5, <2>6, <2>7, <2>8
    DEF OneJob, Proceeds, Completes, Records
<1> QED
  BY <1>2, <1>3, <1>4, <1>5, NextShape DEF Shape, IInv

\* A message is delivered only between its queueing and its confirmation or
\* rejection, and confirmed only after a delivery, with kills, lost answers
\* and failed transactions in any order.
THEOREM QueueImplementsOutbox == Spec => ImplementsOutbox
<1>1. IInv /\ IInv' /\ [Next]_vars => [Out!OutboxNext]_(Out!outbox)
  BY NextOutbox
<1> QED
  BY <1>1, InitOutbox, InitIInv, NextIInv, PTL
  DEF Spec, Out!OutboxSpec, ImplementsOutbox

-----------------------------------------------------------------------------
(* Order of the first attempts *)

\* A job that was never tried is ready, so that the oldest ready job of an
\* account is not younger than it; a new job has the highest rowid.
UntriedAreReady ==
    \A d \in Jobs : /\ job[d].seq <= Cardinality(Jobs)
                    /\ job[d].attempts = 0 =>
                          job[d].status = "queued" /\ job[d].due

OrderInv == ExInv /\ UntriedAreReady /\ FirstAttemptsInOrder

\* Steps that neither insert nor claim a job.
LEMMA OrderRests ==
    ASSUME OrderInv,
           \A d \in Drafts :
              /\ job'[d].status = "absent" <=> job[d].status = "absent"
              /\ job'[d].seq = job[d].seq /\ job'[d].attempts = job[d].attempts
              /\ (/\ job[d].attempts = 0
                  /\ job[d].status = "queued" /\ job[d].due)
                 => job'[d].status = "queued" /\ job'[d].due
    PROVE  UntriedAreReady' /\ FirstAttemptsInOrder'
<1>1. Jobs' = Jobs
  BY DEF Jobs
<1>2. UntriedAreReady'
  BY <1>1 DEF OrderInv, UntriedAreReady, Jobs
<1>3. FirstAttemptsInOrder'
  BY <1>1 DEF OrderInv, FirstAttemptsInOrder, Jobs
<1> QED
  BY <1>2, <1>3

\* The same for a step that changes the job of one draft.
LEMMA OrderRestsFor ==
    ASSUME OrderInv, NEW d \in Drafts, job[d] \in Job,
           \A e \in Drafts \ {d} : job'[e] = job[e],
           job'[d].status # "absent",
           job'[d].seq = job[d].seq, job'[d].attempts = job[d].attempts,
           \/ job[d].status # "queued"
           \/ job'[d].status = "queued" /\ job'[d].due
    PROVE  UntriedAreReady' /\ FirstAttemptsInOrder'
<1>1. job[d].status # "absent"
  BY DEF Job
<1> QED
  BY <1>1, OrderRests

LEMMA OrderStep ==
    ASSUME OrderInv, ExInv', [Next]_vars
    PROVE  UntriedAreReady' /\ FirstAttemptsInOrder'
<1> USE DEF OrderInv, ExInv
<1>0. ASSUME UNCHANGED job PROVE UntriedAreReady' /\ FirstAttemptsInOrder'
  BY <1>0, OrderRests
<1>1. ASSUME NEW d \in Drafts, QueueSendJob(d)
      PROVE  UntriedAreReady' /\ FirstAttemptsInOrder'
  <2>1. /\ job[d].status = "absent" /\ job'[d].status = "queued"
        /\ job'[d].attempts = 0 /\ job'[d].due
        /\ job'[d].seq = Cardinality(Jobs) + 1
        /\ \A e \in Drafts \ {d} : job'[e] = job[e]
    BY <1>1 DEF QueueSendJob, TypeOK, Exclusion, DraftsPrecedeJobs
  <2>2. Jobs' = Jobs \cup {d} /\ d \notin Jobs
    BY <2>1 DEF Jobs
  <2>3. IsFiniteSet(Jobs) /\ Cardinality(Jobs) \in Nat
    BY SendAssumption, FS_Subset, FS_CardinalityType DEF Jobs
  <2>4. Cardinality(Jobs') = Cardinality(Jobs) + 1
    BY <2>2, <2>3, FS_AddElement
  <2>5. \A e \in Jobs : job[e].seq \in Nat /\ job[e].seq <= Cardinality(Jobs)
    BY StoredIsJob DEF UntriedAreReady, Jobs, Job
  <2>6. UntriedAreReady'
    <3> SUFFICES ASSUME NEW e \in Jobs'
                 PROVE  /\ job'[e].seq <= Cardinality(Jobs')
                        /\ job'[e].attempts = 0 =>
                              job'[e].status = "queued" /\ job'[e].due
      BY DEF UntriedAreReady
    <3>1. CASE e = d
      BY <2>1, <2>3, <2>4, <3>1
    <3>2. CASE e # d
      <4>1. e \in Jobs /\ job'[e] = job[e]
        BY <2>1, <2>2, <3>2 DEF Jobs
      <4> QED
        BY <2>3, <2>4, <2>5, <4>1 DEF UntriedAreReady
    <3> QED
      BY <3>1, <3>2
  <2>7. FirstAttemptsInOrder'
    <3> SUFFICES ASSUME NEW x \in Jobs', NEW y \in Jobs',
                        AccountOf[x] = AccountOf[y],
                        job'[x].seq < job'[y].seq, job'[y].attempts > 0
                 PROVE  job'[x].attempts > 0
      BY DEF FirstAttemptsInOrder
    <3>1. y # d /\ y \in Jobs /\ job'[y] = job[y]
      BY <2>1, <2>2 DEF Jobs
    <3>2. x # d
      BY <2>1, <2>3, <2>5, <3>1
    <3>3. x \in Jobs /\ job'[x] = job[x]
      BY <2>1, <2>2, <3>2 DEF Jobs
    <3> QED
      BY <3>1, <3>3 DEF FirstAttemptsInOrder
  <2> QED
    BY <2>6, <2>7
<1>2. ASSUME ClaimSendJob
      PROVE  UntriedAreReady' /\ FirstAttemptsInOrder'
  <2>1. PICK d \in Ready(dispatcher.slot) :
          /\ \A e \in Ready(dispatcher.slot) : job[d].seq <= job[e].seq
          /\ job' = [job EXCEPT ![d].status = "sending", ![d].attempts = @ + 1]
    BY <1>2 DEF ClaimSendJob
  <2>2. /\ d \in Drafts /\ AccountOf[d] = dispatcher.slot /\ job[d] \in Job
        /\ job[d].status = "queued"
    BY <2>1, StoredIsJob DEF Ready
  <2>3. /\ job'[d].status = "sending" /\ job'[d].attempts = job[d].attempts + 1
        /\ job'[d].seq = job[d].seq
        /\ \A e \in Drafts \ {d} : job'[e] = job[e]
    BY <2>1, <2>2 DEF TypeOK, Job
  <2>4. Jobs' = Jobs /\ d \in Jobs
    BY <2>2, <2>3 DEF Jobs
  <2>5. \A e \in Jobs : /\ e \in Drafts /\ job[e].attempts \in Nat
                        /\ job[e].seq \in Nat
    BY StoredIsJob DEF Jobs, Job
  <2>6. UntriedAreReady'
    BY <2>3, <2>4, <2>5 DEF UntriedAreReady
  <2>7. FirstAttemptsInOrder'
    <3> SUFFICES ASSUME NEW x \in Jobs, NEW y \in Jobs,
                        AccountOf[x] = AccountOf[y],
                        job'[x].seq < job'[y].seq, job'[y].attempts > 0
                 PROVE  job'[x].attempts > 0
      BY <2>4 DEF FirstAttemptsInOrder
    <3>1. job'[x].seq = job[x].seq /\ job'[y].seq = job[y].seq
      BY <2>3, <2>5
    <3>2. CASE x = d
      BY <2>3, <2>4, <2>5, <3>2
    <3>3. CASE x # d /\ y # d
      BY <2>3, <2>5, <3>1, <3>3 DEF FirstAttemptsInOrder
    <3>4. CASE x # d /\ y = d
      <4>1. x \notin Ready(dispatcher.slot)
        BY <2>1, <2>5, <3>1, <3>4
      <4>2. job[x].attempts # 0
        BY <2>2, <2>5, <3>4, <4>1 DEF Ready, UntriedAreReady
      <4> QED
        BY <2>3, <2>5, <3>4, <4>2
    <3> QED
      BY <3>2, <3>3, <3>4
  <2> QED
    BY <2>6, <2>7
<1>3. ASSUME RecoverInterruptedSendJobs
      PROVE  UntriedAreReady' /\ FirstAttemptsInOrder'
  <2>1. CASE UNCHANGED job
    BY <1>0, <2>1
  <2>2. CASE job' = [d \in Drafts |-> IF job[d].status = "sending"
                        THEN [job[d] EXCEPT !.status = "queued", !.due = TRUE]
                        ELSE job[d]]
    <3>1. ASSUME NEW d \in Drafts, job[d].status = "sending"
          PROVE  /\ job'[d].status = "queued" /\ job'[d].due
                 /\ job'[d].seq = job[d].seq
                 /\ job'[d].attempts = job[d].attempts
      <4>1. job[d] \in Job
        BY <3>1, StoredIsJob
      <4>2. job'[d] = [job[d] EXCEPT !.status = "queued", !.due = TRUE]
        BY <2>2, <3>1
      <4> QED
        BY <4>1, <4>2 DEF Job
    <3>2. \A d \in Drafts : job[d].status # "sending" => job'[d] = job[d]
      BY <2>2
    <3> QED
      BY <3>1, <3>2, OrderRests
  <2> QED
    BY <1>3, <2>1, <2>2 DEF RecoverInterruptedSendJobs
<1>4. ASSUME NEW d \in Drafts,
             \/ RetrySendJob(d) \/ BackoffElapses(d)
             \/ CompleteSendJob(d) \/ RecordRefusal(d)
      PROVE  UntriedAreReady' /\ FirstAttemptsInOrder'
  <2>1. job[d] \in Job
    BY <1>4, StoredIsJob
    DEF RetrySendJob, BackoffElapses, CompleteSendJob, RecordRefusal, At,
        Exclusion, SendersHoldJobs, Busy
  <2>2. CompleteSendJob(d) \/ RecordRefusal(d) => job[d].status = "sending"
    BY DEF CompleteSendJob, RecordRefusal, At, Exclusion, SendersHoldJobs, Busy
  <2>3. \A e \in Drafts \ {d} : job'[e] = job[e]
    BY <1>4
    DEF RetrySendJob, BackoffElapses, CompleteSendJob, RecordRefusal, TypeOK
  <2>4. /\ job'[d].status # "absent"
        /\ job'[d].seq = job[d].seq /\ job'[d].attempts = job[d].attempts
    BY <1>4, <2>1
    DEF RetrySendJob, BackoffElapses, CompleteSendJob, RecordRefusal, TypeOK, Job
  <2>5. \/ job[d].status # "queued"
        \/ job'[d].status = "queued" /\ job'[d].due
    BY <1>4, <2>1, <2>2 DEF RetrySendJob, BackoffElapses, TypeOK, Job
  <2> QED
    BY <2>1, <2>3, <2>4, <2>5, OrderRestsFor
<1>5. CASE UNCHANGED vars \/ Crash
  BY <1>0, <1>5 DEF vars, disk, Crash
<1>6. CASE UserStep \/ CommandEnds
  BY <1>0, <1>1, <1>4, <1>6
  DEF UserStep, CommandEnds, CheckAttachment, RemoveAttachment,
      DeleteEditingDraft, ReadDraft, DeleteMailbox, InsertAttachment, disk
<1>7. CASE DispatcherStep
  BY <1>0, <1>2, <1>3, <1>7
  DEF DispatcherStep, Start, OpenFails, SelectAccount, ClaimFails,
      StopClaiming, WakeUp, disk
<1>8. ASSUME NEW d \in Drafts,
             BackoffElapses(d) \/ JoinSender(d) \/ SenderStep(d)
      PROVE  UntriedAreReady' /\ FirstAttemptsInOrder'
  BY <1>0, <1>4, <1>8
  DEF SenderStep, JoinSender, SmtpAccepts, SmtpRefuses, LookUpSentMailbox, disk
<1> QED
  BY <1>5, <1>6, <1>7, <1>8 DEF Next

\* claim_next_send_job_for_account, ORDER BY created_at, rowid, never tries a
\* job for the first time before an older one of its account, although jobs
\* are put back by deferrals, retries and recoveries at any moment (created_at
\* does not decrease, as clock does not, so that the rowid decides).
THEOREM FirstAttemptsKeepOrder == Spec => []FirstAttemptsInOrder
<1>1. Init => OrderInv
  BY InitType, InitExclusion
  DEF Init, OrderInv, ExInv, UntriedAreReady, FirstAttemptsInOrder, Jobs, Absent
<1>2. OrderInv /\ [Next]_vars => OrderInv'
  BY OrderStep, NextExclusion DEF OrderInv
<1>3. OrderInv => FirstAttemptsInOrder
  BY DEF OrderInv
<1> QED
  BY <1>1, <1>2, <1>3, PTL DEF Spec

-----------------------------------------------------------------------------
(* Archiving *)

\* What is not 'sent' has no append_sent operation; a sender that is about to
\* record success knows of the Sent mailbox, and 'sent' has the operation.
ArchiveFollowsJob ==
    \A d \in Drafts :
        /\ job[d].status # "sent" => archive[d] = 0
        /\ Spent("store") = 0 /\ AccountOf[d] \in sentBox =>
              /\ sender[d].pc = "completing" => sender[d].archives
              /\ job[d].status = "sent" => archive[d] = 1

ArchInv == ExInv /\ BudgetShrinks /\ ArchiveFollowsJob

\* Steps that archive nothing, look up no mailbox and confirm nothing.
LEMMA ArchiveRests ==
    ASSUME ArchInv, Spent("store") <= Spent("store")',
           Spent("store") \in Nat, Spent("store")' \in Nat,
           UNCHANGED archive, sentBox' \subseteq sentBox,
           \A d \in Drafts :
              /\ job'[d].status = "sent" <=> job[d].status = "sent"
              /\ sender'[d].pc = "completing" =>
                    sender'[d].archives = sender[d].archives
                    /\ sender[d].pc = "completing"
    PROVE  ArchiveFollowsJob'
  BY DEF ArchInv, ArchiveFollowsJob

LEMMA ArchiveStep ==
    ASSUME ArchInv, ExInv', [Next]_vars
    PROVE  ArchiveFollowsJob'
<1> USE DEF ArchInv, ExInv
<1>0. /\ Spent("store") \in Nat /\ Spent("store")' \in Nat
      /\ Spent("store") <= Spent("store")'
      /\ Spend("store") => Spent("store")' # 0
  <2>1. /\ Spent("store") \in Nat /\ Spent("store")' \in Nat
        /\ Spent("store") <= Spent("store")'
    BY SpentIsNat, SpentGrows DEF Limits
  <2>2. Spend("store") => Spent("store")' = Spent("store") + 1
    BY OneMoreIsSpent DEF Limits
  <2> QED
    BY <2>1, <2>2
<1>1. ASSUME UNCHANGED <<job, archive, sender>>, sentBox' \subseteq sentBox
      PROVE  ArchiveFollowsJob'
  BY <1>0, <1>1, ArchiveRests
<1>2. ASSUME NEW d \in Drafts, UNCHANGED <<archive, sentBox>>,
             job[d].status # "sent", job'[d].status # "sent",
             \A e \in Drafts \ {d} : job'[e] = job[e] /\ sender'[e] = sender[e],
             sender'[d].pc = "completing" => sender'[d] = sender[d]
      PROVE  ArchiveFollowsJob'
  BY <1>0, <1>2, ArchiveRests
<1>3. ASSUME NEW d \in Drafts, RetrySendJob(d) \/ BackoffElapses(d)
      PROVE  ArchiveFollowsJob'
  <2>1. /\ job[d].status # "sent" /\ job'[d].status # "sent"
        /\ \A e \in Drafts \ {d} : job'[e] = job[e]
    <3>1. job[d] \in Job
      BY <1>3, StoredIsJob DEF RetrySendJob, BackoffElapses
    <3> QED
      BY <1>3, <3>1 DEF RetrySendJob, BackoffElapses, TypeOK, Job
  <2> QED
    BY <1>2, <1>3, <2>1 DEF RetrySendJob, BackoffElapses, tasks
<1>4. ASSUME NEW d \in Drafts, QueueSendJob(d) PROVE ArchiveFollowsJob'
  <2>1. /\ job[d].status = "absent" /\ job'[d].status = "queued"
        /\ \A e \in Drafts \ {d} : job'[e] = job[e]
    BY <1>4 DEF QueueSendJob, TypeOK, Exclusion, DraftsPrecedeJobs
  <2> QED
    BY <1>2, <1>4, <2>1 DEF QueueSendJob, tasks
<1>5. CASE ClaimSendJob
  <2>1. PICK d \in Ready(dispatcher.slot) :
          /\ job' = [job EXCEPT ![d].status = "sending", ![d].attempts = @ + 1]
          /\ sender' = [sender EXCEPT ![d] =
                [Idle EXCEPT !.pc = "delivering",
                             !.attempt = job[d].attempts + 1]]
    BY <1>5 DEF ClaimSendJob
  <2>2. d \in Drafts /\ job[d] \in Job /\ job[d].status = "queued"
    BY <2>1, StoredIsJob DEF Ready
  <2>3. /\ job'[d].status = "sending" /\ sender'[d].pc = "delivering"
        /\ \A e \in Drafts \ {d} : job'[e] = job[e] /\ sender'[e] = sender[e]
    BY <2>1, <2>2 DEF TypeOK, Job, Idle
  <2> QED
    BY <1>2, <1>5, <2>2, <2>3 DEF ClaimSendJob
<1>6. CASE RecoverInterruptedSendJobs
  <2>1. ASSUME NEW d \in Drafts
        PROVE  job'[d].status = "sent" <=> job[d].status = "sent"
    <3>1. CASE UNCHANGED job
      BY <3>1
    <3>2. CASE job' = [e \in Drafts |-> IF job[e].status = "sending"
                        THEN [job[e] EXCEPT !.status = "queued", !.due = TRUE]
                        ELSE job[e]]
      <4>1. CASE job[d].status = "sending"
        <5>1. job[d] \in Job
          BY <4>1, StoredIsJob
        <5>2. job'[d] = [job[d] EXCEPT !.status = "queued", !.due = TRUE]
          BY <3>2, <4>1
        <5> QED
          BY <4>1, <5>1, <5>2 DEF Job
      <4>2. CASE job[d].status # "sending"
        BY <3>2, <4>2
      <4> QED
        BY <4>1, <4>2
    <3> QED
      BY <1>6, <3>1, <3>2 DEF RecoverInterruptedSendJobs
  <2> QED
    BY <1>0, <1>6, <2>1, ArchiveRests DEF RecoverInterruptedSendJobs
<1>7. ASSUME NEW d \in Drafts,
             SmtpAccepts(d) \/ SmtpRefuses(d) \/ JoinSender(d)
      PROVE  ArchiveFollowsJob'
  <2>1. UNCHANGED <<job, archive, sentBox>>
    BY <1>7 DEF SmtpAccepts, SmtpRefuses, JoinSender, disk
  <2>2. Goto(d, "accepted") \/ Refuse(d) \/ sender' = [sender EXCEPT ![d] = Idle]
    BY <1>7 DEF SmtpAccepts, SmtpRefuses, JoinSender
  <2>3. /\ sender'[d].pc # "completing"
        /\ \A e \in Drafts \ {d} : sender'[e] = sender[e]
    BY <2>2 DEF Goto, Refuse, TypeOK, Sender, Idle
  <2> QED
    BY <1>0, <2>1, <2>3, ArchiveRests
<1>8. ASSUME NEW d \in Drafts, LookUpSentMailbox(d) PROVE ArchiveFollowsJob'
  <2>1. UNCHANGED <<job, archive, sentBox>>
    BY <1>8 DEF LookUpSentMailbox, disk
  <2>2. \A e \in Drafts \ {d} : sender'[e] = sender[e]
    BY <1>8 DEF LookUpSentMailbox, Goto, TypeOK
  <2>3. (AccountOf[d] \in sentBox => sender'[d].archives) \/ Spend("store")
    BY <1>8 DEF LookUpSentMailbox, TypeOK, Sender
  <2>4. CASE Spend("store")
    BY <1>0, <2>1, <2>4 DEF ArchiveFollowsJob
  <2>5. CASE AccountOf[d] \in sentBox => sender'[d].archives
    BY <1>0, <2>1, <2>2, <2>5 DEF ArchiveFollowsJob
  <2> QED
    BY <2>3, <2>4, <2>5
<1>9. ASSUME NEW d \in Drafts, CompleteSendJob(d) PROVE ArchiveFollowsJob'
  <2>1. /\ job[d] \in Job /\ job[d].status = "sending"
        /\ sender[d].pc = "completing"
    BY <1>9, StoredIsJob DEF CompleteSendJob, At, Exclusion, SendersHoldJobs,
                             Busy
  <2>2. /\ sender'[d].pc = "finished" /\ UNCHANGED sentBox
        /\ \A e \in Drafts \ {d} : /\ sender'[e] = sender[e] /\ job'[e] = job[e]
                                   /\ archive'[e] = archive[e]
    BY <1>9 DEF CompleteSendJob, Goto, TypeOK, Sender
  <2>3. CASE UNCHANGED <<job, archive>>
    BY <1>0, <2>2, <2>3, ArchiveRests
  <2>4. CASE /\ job' = [job EXCEPT ![d].status = "sent"]
             /\ archive' = [archive EXCEPT ![d] = IF sender[d].archives
                                                  THEN @ + 1 ELSE @]
    <3>1. job'[d].status = "sent"
      BY <2>1, <2>4 DEF TypeOK, Job
    <3>2. sender[d].archives => archive'[d] = 1
      BY <2>1, <2>4 DEF TypeOK, ArchiveFollowsJob
    <3>3. Spent("store")' = 0 => Spent("store") = 0
      BY <1>0
    <3> QED
      BY <2>1, <2>2, <3>1, <3>2, <3>3 DEF ArchiveFollowsJob
  <2> QED
    BY <1>9, <2>3, <2>4 DEF CompleteSendJob
<1>10. ASSUME NEW d \in Drafts, RecordRefusal(d) PROVE ArchiveFollowsJob'
  <2>1. job[d] \in Job /\ job[d].status = "sending"
    BY <1>10, StoredIsJob DEF RecordRefusal, At, Exclusion, SendersHoldJobs,
                              Busy
  <2>2. /\ job'[d].status # "sent"
        /\ \A e \in Drafts \ {d} : job'[e] = job[e]
    BY <1>10, <2>1 DEF RecordRefusal, TypeOK, Job
  <2>3. /\ sender'[d].pc = "finished"
        /\ \A e \in Drafts \ {d} : sender'[e] = sender[e]
    BY <1>10 DEF RecordRefusal, Goto, TypeOK, Sender
  <2> QED
    BY <1>2, <1>10, <2>1, <2>2, <2>3 DEF RecordRefusal
<1>11. CASE Crash
  BY <1>0, <1>11, ArchiveRests DEF Crash, disk, Idle
<1>12. CASE UNCHANGED vars
  BY <1>1, <1>12 DEF vars, disk, tasks
<1>13. CASE UserStep \/ CommandEnds
  BY <1>1, <1>3, <1>4, <1>13
  DEF UserStep, CommandEnds, CheckAttachment, RemoveAttachment,
      DeleteEditingDraft, ReadDraft, DeleteMailbox, InsertAttachment, disk,
      tasks
<1>14. CASE DispatcherStep
  BY <1>1, <1>5, <1>6, <1>14
  DEF DispatcherStep, Start, OpenFails, SelectAccount, ClaimFails,
      StopClaiming, WakeUp, disk
<1> QED
  BY <1>3, <1>7, <1>8, <1>9, <1>10, <1>11, <1>12, <1>13, <1>14
  DEF Next, SenderStep

\* complete_send_job writes the result and the append_sent operation in one
\* transaction: while the database works, no kill, duplicate delivery or
\* retry archives a message twice or leaves a sent one without its operation.
THEOREM SentIsArchivedOnce == Spec => []ArchivedOnce
<1>1. Init => ArchInv
  BY InitIInv DEF IInv, ArchInv, Init, ArchiveFollowsJob, Absent, Idle
<1>2. ArchInv /\ [Next]_vars => ArchInv'
  BY ArchiveStep, NextExclusion, SpentGrows DEF ArchInv, ExInv
<1>3. ArchInv => ArchivedOnce
  BY DEF ArchInv, ArchiveFollowsJob, ArchivedOnce, Jobs
<1> QED
  BY <1>1, <1>2, <1>3, PTL DEF Spec

=============================================================================
