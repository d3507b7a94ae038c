------------------------- MODULE PendingOperations -------------------------
(***************************************************************************)
(* The durable IMAP operation queue of one account: the pending_operations *)
(* table and the optimistic local projection (message_locations) that the  *)
(* user's commands write in one transaction, the loops that drain the      *)
(* table (one per AccountSupervisor generation), the IMAP session that     *)
(* replays an operation command by command, and the server it acts on.     *)
(*                                                                         *)
(* A row of message_locations, an entry of the server and an operation     *)
(* carry only what the replay logic reads.  \Seen stands for both flags    *)
(* the queue handles (set_read and set_flagged differ in the column).      *)
(***************************************************************************)
EXTENDS Naturals, FiniteSets

CONSTANTS
    Messages,      \* message identities (messages.id)
    Mailboxes,     \* mailbox identities (mailboxes.id)
    Trash,         \* the mailbox mapped to the Trash role
    OpIds,         \* operation ids: random UUIDs, only their order matters
    Kinds,         \* the kinds the user issues, out of AllKinds
    MaxAttempts,   \* attempts after which a retryable error is final (8)
    MaxGeneration, \* bound: supervisors started in one run of the process
    HasMove,       \* the server advertises MOVE
    HasUidPlus,    \* the server advertises UIDPLUS
    Budget         \* bounds on what the environment may do, see BudgetType

AllKinds == {"set_read", "copy", "move", "delete"}
NoMailbox == "no mailbox"
Generations == 1..MaxGeneration

\* crashes: kills of the process; retries: the user's "retry" on a failed
\* operation; external: acts of other mail clients; lost: network errors;
\* store: failed SQLite writes of an outcome; recovery: failed recoveries;
\* renumber: UIDVALIDITY changes.
BudgetType == [crashes: Nat, retries: Nat, external: Nat, lost: Nat,
               store: Nat, recovery: Nat, renumber: Nat]

ASSUME ConstantsAssumption ==
    /\ Trash \in Mailboxes
    /\ NoMailbox \notin Mailboxes
    /\ IsFiniteSet(Messages) /\ Messages # {}
    /\ OpIds \subseteq Nat \ {0} /\ IsFiniteSet(OpIds)
    /\ Kinds \subseteq AllKinds
    /\ MaxAttempts \in Nat \ {0}
    /\ MaxGeneration \in Nat \ {0}
    /\ HasMove \in BOOLEAN /\ HasUidPlus \in BOOLEAN
    /\ Budget \in BudgetType

VARIABLES
    ops,        \* pending_operations, by id
    local,      \* message_locations: what the user sees
    remote,     \* the entries of the server's mailboxes
    validity,   \* UIDVALIDITY of each mailbox on the server
    uidNext,    \* UIDNEXT of each mailbox on the server
    worker,     \* the pending_operations_loop of each generation
    requested,  \* pending_operations_requested of each supervisor
    current,    \* generation in the supervisors map, 0 for none
    nextGen,    \* next_generation
    recovered,  \* the recovery OnceCell is initialised
    clock,      \* seconds, as now() stamps created_at
    budget      \* what is left of Budget

disk   == <<ops, local, clock>>
server == <<remote, validity, uidNext>>
memory == <<requested, current, nextGen, recovered>>
vars   == <<disk, server, memory, worker, budget>>

-----------------------------------------------------------------------------
(* Types *)

Active  == {"queued", "running", "retry_wait"}
Settled == {"succeeded", "failed"}

Operation ==
    [kind: AllKinds, msg: Messages, src: Mailboxes,
     dst: Mailboxes \cup {NoMailbox}, uid: Nat, validity: Nat,
     value: BOOLEAN, previous: BOOLEAN, status: Active \cup Settled,
     attempts: Nat, due: BOOLEAN, stamp: Nat, seq: Nat, cleanup: BOOLEAN]
Absent == [status |-> "absent"]

\* local: one row per (mailbox, uid_validity, uid); read is NOT unread.
Location == [msg: Messages, mb: Mailboxes, validity: Nat, uid: Nat,
             read: BOOLEAN, hidden: BOOLEAN]
\* remote: one entry per (mailbox, uidvalidity, uid) that is not expunged.
Entry == [msg: Messages, mb: Mailboxes, validity: Nat, uid: Nat,
          read: BOOLEAN, deleted: BOOLEAN]

\* pc: where the loop of a generation stands.  "waiting" awaits a request,
\* "entering" is past recovery and before drain_pending_operations' checks,
\* "draining" is about to claim; the others are one IMAP command or one
\* database write of the claimed operation.
Stage == {"absent", "waiting", "entering", "draining", "claimed", "select",
          "store_flag", "copy", "move", "mark_deleted", "expunge",
          "completing", "failing"}
NoOp == 0
Worker == [pc: Stage, op: Nat, attempt: Nat, cleanup: BOOLEAN,
           retryable: BOOLEAN]
Nobody == [pc |-> "absent", op |-> NoOp, attempt |-> 0,
           cleanup |-> FALSE, retryable |-> FALSE]

TypeOK ==
    /\ ops \in [OpIds -> Operation \cup {Absent}]
    /\ local \subseteq Location
    /\ remote \subseteq Entry
    /\ validity \in [Mailboxes -> Nat]
    /\ uidNext \in [Mailboxes -> Nat]
    /\ worker \in [Generations -> Worker]
    /\ requested \in [Generations -> BOOLEAN]
    /\ current \in Nat /\ current <= MaxGeneration
    /\ nextGen \in Nat \ {0}
    /\ recovered \in BOOLEAN
    /\ clock \in Nat
    /\ budget \in BudgetType

Spend(what) == /\ budget[what] > 0
               /\ budget' = [budget EXCEPT ![what] = @ - 1]

-----------------------------------------------------------------------------
(* The database: reads and updates shared by the operations *)

\* A message can have several rows in one mailbox; only rows with
\* local_hidden = 0 accept a new operation.
VisibleRows(m, mb) ==
    {row \in local : row.msg = m /\ row.mb = mb /\ ~row.hidden}

\* UPDATE message_locations ... WHERE message_id = ? AND mailbox_id = ?
UpdateRows(m, mb, Change(_)) ==
    {IF row.msg = m /\ row.mb = mb THEN Change(row) ELSE row : row \in local}
SetRead(m, mb, v) == UpdateRows(m, mb, LAMBDA row : [row EXCEPT !.read = v])
SetHidden(m, mb, v) ==
    UpdateRows(m, mb, LAMBDA row : [row EXCEPT !.hidden = v])
DeleteRows(m, mb) == {row \in local : ~(row.msg = m /\ row.mb = mb)}

Stored == {i \in OpIds : ops[i].status # "absent"}

BeforeById(i, j) == i < j   \* mutant: ORDER BY id

\* ORDER BY created_at, id
Before(i, j) == \/ ops[i].stamp < ops[j].stamp
                \/ ops[i].stamp = ops[j].stamp /\ i < j

Eligible == {i \in OpIds : \/ ops[i].status = "queued"
                           \/ ops[i].status = "retry_wait" /\ ops[i].due}

\* The flag is stored before the loop is notified, so no request is missed.
RequestPendingOperations ==
    requested' = [g \in Generations |-> requested[g] \/ g = current]

\* INSERT of an operation aimed at row.  The id is random; the second it is
\* stamped with is that of the previous insertion or a later one.
InsertOperation(kind, row, dst, value) ==
    \E i \in OpIds \ Stored, t \in {clock, clock + 1} :
        /\ clock' = t
        /\ ops' = [ops EXCEPT ![i] =
              [kind |-> kind, msg |-> row.msg, src |-> row.mb, dst |-> dst,
               uid |-> row.uid, validity |-> row.validity, value |-> value,
               previous |-> row.read, status |-> "queued", attempts |-> 0,
               due |-> FALSE, stamp |-> t, seq |-> Cardinality(Stored) + 1,
               cleanup |-> FALSE]]

-----------------------------------------------------------------------------
(* The user's commands *)

SetMessageRead(m, mb, v) ==
    /\ "set_read" \in Kinds
    /\ \E row \in VisibleRows(m, mb) :
          InsertOperation("set_read", row, NoMailbox, v)
    /\ local' = SetRead(m, mb, v)
    /\ RequestPendingOperations
    /\ UNCHANGED <<server, current, nextGen, recovered, worker, budget>>

QueueTransfer(m, src, dst, copy) ==
    /\ src # dst
    /\ \E row \in VisibleRows(m, src) :
          InsertOperation(IF copy THEN "copy" ELSE "move", row, dst, FALSE)
    /\ local' = IF copy THEN local ELSE SetHidden(m, src, TRUE)

QueuePermanentDelete(m, mb) ==
    /\ \E row \in VisibleRows(m, mb) :
          InsertOperation("delete", row, NoMailbox, FALSE)
    /\ local' = SetHidden(m, mb, TRUE)

\* transfer_messages; archive_messages is a move to the Archive mailbox.
TransferMessages(m, src, dst, copy) ==
    /\ IF copy THEN "copy" \in Kinds ELSE "move" \in Kinds
    /\ QueueTransfer(m, src, dst, copy)
    /\ RequestPendingOperations
    /\ UNCHANGED <<server, current, nextGen, recovered, worker, budget>>

\* Deleting moves to the trash, and from the trash is permanent.
DeleteMessages(m, mb) ==
    /\ "delete" \in Kinds
    /\ IF mb = Trash THEN QueuePermanentDelete(m, mb)
                     ELSE QueueTransfer(m, mb, Trash, FALSE)
    /\ RequestPendingOperations
    /\ UNCHANGED <<server, current, nextGen, recovered, worker, budget>>

\* Only the status changes: attempts, created_at and the projection stay.
RetryPendingOperation(i) ==
    /\ Spend("retries")
    /\ ops[i].status = "failed"
    /\ ops' = [ops EXCEPT ![i].status = "queued"]
    /\ RequestPendingOperations
    /\ UNCHANGED <<local, clock, server, current, nextGen, recovered, worker>>

-----------------------------------------------------------------------------
(* Supervisors and the process *)

StartSupervisor ==
    /\ nextGen <= MaxGeneration
    /\ current' = nextGen
    /\ nextGen' = nextGen + 1
    /\ requested' = [requested EXCEPT ![nextGen] = TRUE]
    /\ worker' = [worker EXCEPT ![nextGen] = [Nobody EXCEPT !.pc = "waiting"]]

EnsureSupervisor ==
    /\ current = 0
    /\ StartSupervisor
    /\ UNCHANGED <<disk, server, recovered, budget>>

\* An edited or re-authenticated account: the loop of the old generation is
\* told to stop and a new one starts, without waiting for the old one.
RestartAccount ==
    /\ current # 0
    /\ StartSupervisor
    /\ UNCHANGED <<disk, server, recovered, budget>>

\* The process dies; tables and server survive.
Crash ==
    /\ Spend("crashes")
    /\ worker' = [g \in Generations |-> Nobody]
    /\ requested' = [g \in Generations |-> FALSE]
    /\ current' = 0
    /\ nextGen' = 1
    /\ recovered' = FALSE
    /\ UNCHANGED <<disk, server>>

\* The supervisor loop asks for a drain after every completed sync.
SyncRequestsOperations ==
    /\ current # 0
    /\ ~requested[current]
    /\ RequestPendingOperations
    /\ UNCHANGED <<disk, server, current, nextGen, recovered, worker, budget>>

\* next_attempt_at of an operation that waits for a retry is reached.
BackoffElapses(i) ==
    /\ ops[i].status = "retry_wait" /\ ~ops[i].due
    /\ ops' = [ops EXCEPT ![i].due = TRUE]
    /\ UNCHANGED <<local, clock, server, memory, worker, budget>>

-----------------------------------------------------------------------------
(* pending_operations_loop and drain_pending_operations of generation g *)

At(g, pc) == worker[g].pc = pc
Op(g) == ops[worker[g].op]

Goto(g, pc) == worker' = [worker EXCEPT ![g].pc = pc]
\* The drain returns: the loop lets go of the operation and waits again.
Return(g) == worker' = [worker EXCEPT ![g] = [Nobody EXCEPT !.pc = "waiting"]]
GiveUp(g, retryable) ==
    worker' = [worker EXCEPT ![g].pc = "failing", ![g].retryable = retryable]

LeaveLoop(g) ==
    /\ At(g, "waiting") /\ g # current
    /\ worker' = [worker EXCEPT ![g] = Nobody]
    /\ UNCHANGED <<disk, server, memory, budget>>

RecoverNothing == UNCHANGED ops   \* mutant: 'running' rows are left alone

\* Every running operation of the database goes back to the queue.
RecoverPendingOperations ==
    ops' = [i \in OpIds |-> IF ops[i].status = "running"
                            THEN [ops[i] EXCEPT !.status = "queued"]
                            ELSE ops[i]]

TakeRequestRecovering(g) == \* mutant: every supervisor runs the recovery
    /\ At(g, "waiting") /\ g = current
    /\ requested[g]
    /\ requested' = [requested EXCEPT ![g] = FALSE]
    /\ recovered' = TRUE
    /\ RecoverPendingOperations
    /\ Goto(g, "entering")
    /\ UNCHANGED <<local, clock, server, current, nextGen, budget>>

\* The request is consumed; the first loop to get here in this process runs
\* the recovery, and a failure of it is only logged.
TakeRequest(g) ==
    /\ At(g, "waiting") /\ g = current
    /\ requested[g]
    /\ requested' = [requested EXCEPT ![g] = FALSE]
    /\ \/ /\ recovered
          /\ UNCHANGED <<ops, recovered, budget>>
       \/ /\ ~recovered /\ recovered' = TRUE
          /\ RecoverPendingOperations
          /\ UNCHANGED budget
       \/ /\ ~recovered /\ Spend("recovery")
          /\ UNCHANGED <<ops, recovered>>
    /\ Goto(g, "entering")
    /\ UNCHANGED <<local, clock, server, current, nextGen>>

\* Opening the database fails, before the recovery and never after it (it is
\* opened once): the request is consumed all the same.
RequestDropped(g) ==
    /\ At(g, "waiting") /\ g = current
    /\ requested[g] /\ ~recovered
    /\ requested' = [requested EXCEPT ![g] = FALSE]
    /\ Spend("store")
    /\ UNCHANGED <<disk, server, current, nextGen, recovered, worker>>

EnterDrain(g) ==
    /\ At(g, "entering")
    /\ IF g = current THEN Goto(g, "draining") ELSE Return(g)
    /\ UNCHANGED <<disk, server, memory, budget>>

\* Reading the account's configuration or claiming fails.
DrainFails(g) ==
    /\ worker[g].pc \in {"entering", "draining"}
    /\ Spend("store")
    /\ Return(g)
    /\ UNCHANGED <<disk, server, memory>>

ClaimPendingOperation(g) ==
    /\ At(g, "draining")
    /\ \E i \in Eligible :
          /\ \A j \in Eligible \ {i} : Before(i, j)
          /\ ops' = [ops EXCEPT ![i].status = "running",
                                ![i].attempts = @ + 1]
          /\ worker' = [worker EXCEPT ![g] =
                [Nobody EXCEPT !.pc = "claimed", !.op = i,
                               !.attempt = ops[i].attempts + 1]]
    /\ UNCHANGED <<local, clock, server, memory, budget>>

NothingToClaim(g) ==
    /\ At(g, "draining") /\ Eligible = {}
    /\ Return(g)
    /\ UNCHANGED <<disk, server, memory, budget>>

\* A superseded generation returns and leaves what it claimed 'running'.
CheckGeneration(g) ==
    /\ At(g, "claimed")
    /\ IF g = current THEN Goto(g, "select") ELSE Return(g)
    /\ UNCHANGED <<disk, server, memory, budget>>

-----------------------------------------------------------------------------
(* apply_operation_session: one command of the session per step *)

Commands == {"select", "store_flag", "copy", "move", "mark_deleted", "expunge"}

IsTarget(e, o) == e.mb = o.src /\ e.validity = o.validity /\ e.uid = o.uid
Targets(o) == {e \in remote : IsTarget(e, o)}
IsTransfer(o) == o.kind \in {"move", "delete"}

\* The answer of a command that took effect arrives, or is lost.
Answered(g, next) ==
    \/ Goto(g, next) /\ UNCHANGED budget
    \/ GiveUp(g, TRUE) /\ Spend("lost")

\* The server never executes the command: refused, or the connection broke.
CommandFails(g) ==
    /\ worker[g].pc \in Commands
    /\ Spend("lost")
    /\ GiveUp(g, TRUE)
    /\ UNCHANGED <<disk, server, memory>>

MarkFirst(o) ==             \* mutant: the source is deleted before the COPY
    CASE o.kind = "set_read" -> "store_flag"
      [] o.kind = "copy"     -> "copy"
      [] IsTransfer(o)       -> "mark_deleted"

CopyAlways(o) ==            \* mutant: the MOVE capability is not used
    CASE o.kind = "set_read" -> "store_flag"
      [] o.kind = "delete"   -> "mark_deleted"
      [] OTHER               -> "copy"

FirstCommand(o) ==
    CASE o.kind = "set_read" -> "store_flag"
      [] o.kind = "copy"     -> "copy"
      [] o.kind = "move"     -> IF HasMove THEN "move" ELSE "copy"
      [] o.kind = "delete"   -> "mark_deleted"

\* SELECT and UID SEARCH: a message already gone ends a move or a delete
\* with success and every other kind with a final error.
SelectSource(g) ==
    /\ At(g, "select")
    /\ LET o == Op(g) IN
       \/ /\ validity[o.src] # o.validity
          /\ GiveUp(g, FALSE)
       \/ /\ validity[o.src] = o.validity /\ Targets(o) = {}
          /\ IF IsTransfer(o) THEN Goto(g, "completing") ELSE GiveUp(g, FALSE)
       \/ /\ validity[o.src] = o.validity /\ Targets(o) # {}
          /\ Goto(g, FirstCommand(o))
    /\ UNCHANGED <<disk, server, memory, budget>>

StoreFlag(g) ==
    /\ At(g, "store_flag")
    /\ LET o == Op(g) IN
       remote' = {IF IsTarget(e, o) THEN [e EXCEPT !.read = o.value] ELSE e :
                     e \in remote}
    /\ Answered(g, "completing")
    /\ UNCHANGED <<disk, validity, uidNext, memory>>

\* The destination gives a copy its next UID and keeps the flags.
ArrivalOf(e, dst) == [e EXCEPT !.mb = dst, !.validity = validity[dst],
                               !.uid = uidNext[dst]]
AllocateUid(o) == uidNext' = [uidNext EXCEPT ![o.dst] =
                                 IF Targets(o) = {} THEN @ ELSE @ + 1]

CopyMessage(g) ==
    /\ At(g, "copy")
    /\ LET o == Op(g) IN
       /\ remote' = remote \cup {ArrivalOf(e, o.dst) : e \in Targets(o)}
       /\ AllocateUid(o)
       /\ Answered(g, IF o.kind = "copy" THEN "completing" ELSE "mark_deleted")
    /\ UNCHANGED <<disk, validity, memory>>

MoveMessage(g) ==
    /\ At(g, "move")
    /\ LET o == Op(g) IN
       /\ remote' = (remote \ Targets(o))
                       \cup {ArrivalOf(e, o.dst) : e \in Targets(o)}
       /\ AllocateUid(o)
    /\ Answered(g, "completing")
    /\ UNCHANGED <<disk, validity, memory>>

MarkForgetting(g) ==        \* mutant: the pending cleanup is not recorded
    /\ At(g, "mark_deleted")
    /\ LET o == Op(g) IN
       remote' = {IF IsTarget(e, o) THEN [e EXCEPT !.deleted = TRUE] ELSE e :
                     e \in remote}
    /\ Answered(g, IF HasUidPlus THEN "expunge" ELSE "completing")
    /\ UNCHANGED <<disk, validity, uidNext, memory>>

\* Without UIDPLUS the source stays marked, for others to clean up.
MarkDeleted(g) ==
    /\ At(g, "mark_deleted")
    /\ LET o == Op(g) IN
       remote' = {IF IsTarget(e, o) THEN [e EXCEPT !.deleted = TRUE] ELSE e :
                     e \in remote}
    /\ \/ HasUidPlus /\ Goto(g, "expunge") /\ UNCHANGED budget
       \/ /\ ~HasUidPlus /\ UNCHANGED budget
          /\ worker' = [worker EXCEPT ![g].pc = "completing",
                                      ![g].cleanup = TRUE]
       \/ GiveUp(g, TRUE) /\ Spend("lost")
    /\ UNCHANGED <<disk, validity, uidNext, memory>>

ExpungeUid(g) ==
    /\ At(g, "expunge")
    /\ remote' = {e \in remote : ~(IsTarget(e, Op(g)) /\ e.deleted)}
    /\ Answered(g, "completing")
    /\ UNCHANGED <<disk, validity, uidNext, memory>>

-----------------------------------------------------------------------------
(* The outcome is written, and the drain goes on or ends *)

CompletePendingOperation(g) ==
    /\ At(g, "completing")
    /\ LET o == Op(g) IN
       /\ local' = IF IsTransfer(o) THEN DeleteRows(o.msg, o.src) ELSE local
       /\ ops' = [ops EXCEPT ![worker[g].op].status = "succeeded",
                             ![worker[g].op].cleanup = worker[g].cleanup]
    /\ worker' = [worker EXCEPT ![g] = [Nobody EXCEPT !.pc = "draining"]]
    /\ UNCHANGED <<clock, server, memory, budget>>

RollbackFlagsOnly(o) ==     \* mutant: a failed move or delete stays hidden
    IF o.kind = "set_read" THEN SetRead(o.msg, o.src, o.previous) ELSE local

\* The projection an operation that finally failed had changed.
RollbackProjection(o) ==
    CASE o.kind = "set_read" -> SetRead(o.msg, o.src, o.previous)
      [] IsTransfer(o)       -> SetHidden(o.msg, o.src, FALSE)
      [] OTHER               -> local

ReconcileStatus(retry) ==   \* mutant: a status nothing picks up
    IF retry THEN "retry_wait" ELSE "needs_reconcile"

FailedStatus(retry) == IF retry THEN "retry_wait" ELSE "failed"

FailRollingBack(g) ==       \* mutant: rolled back although it will be retried
    /\ At(g, "failing")
    /\ LET w == worker[g]
           retry == w.retryable /\ w.attempt < MaxAttempts
       IN /\ local' = RollbackProjection(Op(g))
          /\ ops' = [ops EXCEPT ![w.op].status = FailedStatus(retry),
                                ![w.op].due = FALSE]
          /\ IF w.retryable
             THEN Return(g)
             ELSE worker' = [worker EXCEPT ![g] =
                                [Nobody EXCEPT !.pc = "draining"]]
    /\ UNCHANGED <<clock, server, memory, budget>>

FailPendingOperation(g) ==
    /\ At(g, "failing")
    /\ LET w == worker[g]
           retry == w.retryable /\ w.attempt < MaxAttempts
       IN /\ local' = IF retry THEN local ELSE RollbackProjection(Op(g))
          /\ ops' = [ops EXCEPT ![w.op].status = FailedStatus(retry),
                                ![w.op].due = FALSE]
          /\ IF w.retryable
             THEN Return(g)
             ELSE worker' = [worker EXCEPT ![g] =
                                [Nobody EXCEPT !.pc = "draining"]]
    /\ UNCHANGED <<clock, server, memory, budget>>

\* The transaction fails: the drain ends and the operation stays 'running'.
OutcomeLost(g) ==
    /\ worker[g].pc \in {"completing", "failing"}
    /\ Spend("store")
    /\ Return(g)
    /\ UNCHANGED <<disk, server, memory>>

-----------------------------------------------------------------------------
(* Other mail clients, and the administrator of the server *)

OtherClientExpunges(e) ==
    /\ Spend("external")
    /\ remote' = remote \ {e}
    /\ UNCHANGED <<disk, validity, uidNext, memory, worker>>

OtherClientSetsRead(e) ==
    /\ Spend("external")
    /\ remote' = (remote \ {e}) \cup {[e EXCEPT !.read = ~@]}
    /\ UNCHANGED <<disk, validity, uidNext, memory, worker>>

RenumberMailbox(mb) ==
    /\ Spend("renumber")
    /\ validity' = [validity EXCEPT ![mb] = @ + 1]
    /\ remote' = {IF e.mb = mb THEN [e EXCEPT !.validity = @ + 1] ELSE e :
                     e \in remote}
    /\ UNCHANGED <<disk, uidNext, memory, worker>>

-----------------------------------------------------------------------------
(* Specification *)

\* Messages already synchronised into mailboxes, at distinct UIDs.
Init ==
    \E place \in [Messages -> Mailboxes],
       uid \in [Messages -> 1..Cardinality(Messages)] :
      /\ \A m, n \in Messages : m # n => uid[m] # uid[n]
      /\ local = {[msg |-> m, mb |-> place[m], validity |-> 1, uid |-> uid[m],
                   read |-> FALSE, hidden |-> FALSE] : m \in Messages}
      /\ remote = {[msg |-> m, mb |-> place[m], validity |-> 1,
                    uid |-> uid[m], read |-> FALSE, deleted |-> FALSE] :
                      m \in Messages}
      /\ validity = [mb \in Mailboxes |-> 1]
      /\ uidNext = [mb \in Mailboxes |-> Cardinality(Messages) + 1]
      /\ ops = [i \in OpIds |-> Absent]
      /\ worker = [g \in Generations |-> Nobody]
      /\ requested = [g \in Generations |-> FALSE]
      /\ current = 0 /\ nextGen = 1 /\ recovered = FALSE
      /\ clock = 0 /\ budget = Budget

UserStep ==
    \/ \E m \in Messages, mb \in Mailboxes :
          \/ \E v \in BOOLEAN : SetMessageRead(m, mb, v)
          \/ \E dst \in Mailboxes, copy \in BOOLEAN :
                TransferMessages(m, mb, dst, copy)
          \/ DeleteMessages(m, mb)
    \/ \E i \in OpIds : RetryPendingOperation(i)
    \/ RestartAccount

DrainStep(g) ==
    \/ TakeRequest(g) \/ RequestDropped(g) \/ EnterDrain(g) \/ DrainFails(g)
    \/ ClaimPendingOperation(g) \/ NothingToClaim(g) \/ CheckGeneration(g)
    \/ SelectSource(g) \/ StoreFlag(g) \/ CopyMessage(g) \/ MoveMessage(g)
    \/ MarkDeleted(g) \/ ExpungeUid(g) \/ CommandFails(g)
    \/ CompletePendingOperation(g) \/ FailPendingOperation(g)
    \/ OutcomeLost(g)

LoopStep(g) == LeaveLoop(g) \/ DrainStep(g)

WorldStep ==
    \/ Crash
    \/ \E e \in remote : OtherClientExpunges(e) \/ OtherClientSetsRead(e)
    \/ \E mb \in Mailboxes : RenumberMailbox(mb)

Next ==
    \/ UserStep
    \/ EnsureSupervisor
    \/ SyncRequestsOperations
    \/ \E i \in OpIds : BackoffElapses(i)
    \/ \E g \in Generations : LoopStep(g)
    \/ WorldStep

Spec == Init /\ [][Next]_vars

\* Every network command ends (TimeoutStream) and the runtime polls every
\* task; the application is started again after a crash; the account has a
\* sync interval other than "manual".  The user and the world owe nothing, nor
\* does a stopped loop: stop_account's notify_waiters may miss it.
Fairness ==
    /\ WF_vars(EnsureSupervisor)
    /\ WF_vars(SyncRequestsOperations)
    /\ \A i \in OpIds : WF_vars(BackoffElapses(i))
    /\ \A g \in Generations : WF_vars(DrainStep(g))

FairSpec == Spec /\ Fairness

-----------------------------------------------------------------------------
(* Properties *)

OperationOf(i, row) == ops[i].msg = row.msg /\ ops[i].src = row.mb

\* A message is hidden only while an unfinished move or delete of it is in
\* the queue: whatever crashes, fails, is retried or raced by a restarted
\* loop, no message stays invisible with nothing left that would either
\* remove it or show it again (queue_transfer, rollback_projection).
HiddenHasOperation ==
    \A row \in local : row.hidden =>
        \E i \in OpIds : /\ ops[i].status \in Active
                         /\ IsTransfer(ops[i])
                         /\ OperationOf(i, row)

\* Two loops never have the same operation in hand, and what a loop has in
\* hand is marked running: claims, generation changes and the recovery at
\* process start do not run an operation twice at the same time.  It needs
\* the recovery not to fail (see README).
ExclusiveClaim ==
    \A g \in Generations : worker[g].op # NoOp =>
        /\ ops[worker[g].op].status = "running"
        /\ \A h \in Generations : worker[h].op = worker[g].op => h = g

\* Moves and copies lose no mail: unless its permanent deletion was asked
\* for, an undeleted copy of each message is on the server at every moment,
\* between any two commands of the COPY, STORE, EXPUNGE fallback and after
\* any number of lost answers, retries and restarts.
NothingLost ==
    \A m \in Messages :
        \/ \E i \in Stored : ops[i].kind = "delete" /\ ops[i].msg = m
        \/ \E e \in remote : e.msg = m /\ ~e.deleted

\* With UID MOVE a move never duplicates a message, however often it is
\* retried: a message nobody copied has one entry on the whole server.
MoveNeverDuplicates ==
    \A m \in Messages :
        \/ \E i \in Stored : ops[i].kind = "copy" /\ ops[i].msg = m
        \/ Cardinality({e \in remote : e.msg = m}) <= 1

\* When every operation on a location succeeded at its first attempt, and no
\* two of them were queued in the same second, the server has the flag the
\* user sees, if no other client changed it: they were replayed in the order
\* they were queued.
FirstAttemptsAgree ==
    \A row \in local, e \in remote :
        LET mine == {i \in Stored : OperationOf(i, row)} IN
        (/\ budget.external = Budget.external
         /\ e.mb = row.mb /\ e.validity = row.validity /\ e.uid = row.uid
         /\ \A i \in mine : ops[i].status = "succeeded" /\ ops[i].attempts = 1
         /\ \A i, j \in mine : ops[i].stamp = ops[j].stamp => i = j)
        => e.read = row.read

\* A move or delete that is done and does not report a pending cleanup has
\* taken its source off the server, also when the deletion was marked by an
\* attempt whose answer was lost and the retry finds the message still there.
CleanupIsReported ==
    \A i \in Stored :
        (/\ IsTransfer(ops[i])
         /\ ops[i].status = "succeeded" /\ ~ops[i].cleanup)
        => Targets(ops[i]) = {}

\* Every operation the user queued is eventually done or reported as failed,
\* although any command may fail and the process may die at any point: lost
\* requests, backoff and recovery always lead back to a drain.
EveryOperationSettles ==
    \A i \in OpIds : (ops[i].status \in Active) ~> (ops[i].status \in Settled)

\* The queue implements DurableQueue: crashes, recoveries, restarts, claims
\* and IMAP commands change nothing the user was promised.
StateOf(status) == CASE status = "absent"    -> "none"
                     [] status \in Active    -> "pending"
                     [] status = "succeeded" -> "done"
                     [] status = "failed"    -> "rejected"

Queue == INSTANCE DurableQueue WITH
            Operations <- OpIds,
            Locations  <- Messages \X Mailboxes,
            state      <- [i \in OpIds |-> StateOf(ops[i].status)],
            hidden     <- {<<row.msg, row.mb>> :
                             row \in {r \in local : r.hidden}}

ImplementsDurableQueue == Queue!DQSpec

=============================================================================
