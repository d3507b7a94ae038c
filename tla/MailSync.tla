------------------------------ MODULE MailSync ------------------------------
(***************************************************************************)
(* Synchronization of one mailbox of one account: rounds of sync_session   *)
(* (protocols/imap.rs) that write locations and bodies through the sink    *)
(* (storage/message_sync_repository.rs), the notification baseline and the *)
(* candidates of run_sync (mail_runtime.rs), while the user's pending      *)
(* operations run on another session, message bodies are requested         *)
(* (mail_runtime/content.rs) and the mailbox changes on the server.        *)
(*                                                                         *)
(* One SQL transaction is one step, one IMAP command is one step.  The     *)
(* mailbox is any but Drafts: full rounds of an account exclude each other *)
(* (ImapSessions), and only Drafts is synchronized beside them.  Every     *)
(* message has a Message-ID, so that a message found again under a new     *)
(* UIDVALIDITY gets the messages row it had, and rows of messages, which   *)
(* are never deleted, need no variable.  The user's operations are those   *)
(* of PendingOperations, reduced to their effect on this mailbox: one runs *)
(* at a time, in any order (retries overtake).                             *)
(***************************************************************************)
EXTENDS Naturals, FiniteSets

CONSTANTS
    Last,                  \* the messages are 1 .. Last, and so are the UIDs
    Validities,            \* UIDVALIDITY values 1, 2, ...
    Workers,               \* sessions of a round; 1 is session 0 of the code
    BatchSize,             \* FETCH_BATCH_SIZE
    DownloadFullMessages,  \* the account's download_full_messages
    OpIds,                 \* bound: operations the user makes
    Budget                 \* bound: what the environment does, per kind

ASSUME MailSyncAssumption ==
    /\ Last \in Nat \ {0} /\ BatchSize \in Nat \ {0}
    /\ Validities \subseteq Nat \ {0} /\ IsFiniteSet(Validities) /\ 1 \in Validities
    /\ 1 \in Workers
    /\ DownloadFullMessages \in BOOLEAN

VARIABLES
    server,      \* the mailbox on the server
    mailbox,     \* mailboxes row: uid_validity (0 = precreated) and counts
    rows,        \* message_locations by <<uid_validity, uid>>
    bodies,      \* per message, whose body is stored for it (0 = none)
    ops,         \* pending_operations
    round,       \* the round of synchronization in progress
    workers,     \* fetch_summaries_worker of each session
    reader,      \* a request for the body of a message
    compatible,  \* not in bodystructure_incompatible_accounts
    baseline,    \* notification_baseline_at is set
    announced,   \* per message, how often it was announced as new
    history,     \* what the properties remember
    budget

vars == <<server, mailbox, rows, bodies, ops, round, workers, reader, compatible,
          baseline, announced, history, budget>>

-----------------------------------------------------------------------------
(* State *)

Messages == 1 .. Last
Uids == 1 .. Last
Keys == Validities \X Uids

\* Which message a UID names: the server renumbers under a new UIDVALIDITY.
MessageAt(v, u) == IF v % 2 = 1 THEN u ELSE Last + 1 - u
UidOf(v, m) == MessageAt(v, m)
MessageOf(k) == MessageAt(k[1], k[2])

\* A message_locations row, or none.
Row == [stored : BOOLEAN, unread : BOOLEAN, hidden : BOOLEAN]
NoRow == [stored |-> FALSE, unread |-> FALSE, hidden |-> FALSE]
Stored == {k \in Keys : rows[k].stored}
Visible(rs) == {k \in Keys : rs[k].stored /\ ~rs[k].hidden}
RowsOf(m) == {k \in Stored : MessageOf(k) = m}

Counts == [total : 0 .. Cardinality(Keys), unread : 0 .. Cardinality(Keys)]
\* refresh_mailbox_counts.
CountsOf(rs) == [total |-> Cardinality(Visible(rs)),
                 unread |-> Cardinality({k \in Visible(rs) : rs[k].unread})]

Operation == [kind : {"none", "set_read", "delete"}, key : Keys, value : BOOLEAN,
              previous : BOOLEAN, status : {"none", "queued", "running", "succeeded", "failed"}]
NoOperation == [kind |-> "none", key |-> <<1, 1>>, value |-> FALSE, previous |-> FALSE,
                status |-> "none"]
Active(o) == ops[o].status \in {"queued", "running"}
ActiveOn(m) == {o \in OpIds : Active(o) /\ MessageOf(ops[o].key) = m}
ActiveFlagOn(m) == {o \in ActiveOn(m) : ops[o].kind = "set_read"}

Place == {"idle", "open", "upsert", "search", "diff", "headers", "bodies", "body",
          "reconcile", "commit", "complete", "end"}
Round == [at : Place, ready : BOOLEAN, selective : BOOLEAN, validity : Validities,
          required : BOOLEAN, counts : Counts, remote : SUBSET Uids, left : SUBSET Uids,
          seen : SUBSET Uids, uid : Uids, incompatible : BOOLEAN,
          candidates : SUBSET Messages]
NoRound == [at |-> "idle", ready |-> FALSE, selective |-> FALSE, validity |-> 1,
            required |-> FALSE, counts |-> [total |-> 0, unread |-> 0], remote |-> {},
            left |-> {}, seen |-> {}, uid |-> 1, incompatible |-> FALSE, candidates |-> {}]

Worker == [at : {"take", "store", "structure", "again", "done", "unusable", "failed"},
           batch : SUBSET Uids, unread : SUBSET Uids, done : SUBSET Uids, new : SUBSET Uids]
NoWorker == [at |-> "take", batch |-> {}, unread |-> {}, done |-> {}, new |-> {}]
NoWorkers == [w \in Workers |-> NoWorker]

Reader == [at : {"idle", "fetch", "store", "fetch_whole", "store_whole"}, message : Messages,
           key : Keys, content : 0 .. Last, unread : BOOLEAN]
NoReader == [at |-> "idle", message |-> 1, key |-> <<1, 1>>, content |-> 0, unread |-> FALSE]

Expenses == {"arrivals", "changes", "renumber", "faults", "crashes", "reads",
             "operations", "all"}
ASSUME BudgetAssumption == Budget \in [Expenses -> Nat]

TypeOK ==
    /\ server \in [validity : Validities, there : SUBSET Messages, seen : SUBSET Messages,
                   unborn : SUBSET Messages]
    /\ mailbox \in [validity : Validities \cup {0}, counts : Counts]
    /\ rows \in [Keys -> Row]
    /\ bodies \in [Messages -> 0 .. Last]
    /\ ops \in [OpIds -> Operation]
    /\ round \in Round
    /\ workers \in [Workers -> Worker]
    /\ reader \in Reader
    /\ compatible \in BOOLEAN
    /\ baseline \in BOOLEAN
    /\ announced \in [Messages -> 0 .. 2]
    /\ history \in [calm : BOOLEAN, lost : BOOLEAN, rebuilt : BOOLEAN,
                    old : SUBSET Messages, new : SUBSET Messages]
    /\ budget \in [Expenses -> Nat]

\* The user had mail before the account was added.
Init ==
    /\ \E there \in SUBSET Messages : \E seen \in SUBSET there :
        /\ server = [validity |-> 1, there |-> there, seen |-> seen,
                     unborn |-> Messages \ there]
        /\ history = [calm |-> FALSE, lost |-> FALSE, rebuilt |-> FALSE, old |-> there,
                      new |-> {}]
    /\ mailbox = [validity |-> 0, counts |-> [total |-> 0, unread |-> 0]]
    /\ rows = [k \in Keys |-> NoRow]
    /\ bodies = [m \in Messages |-> 0]
    /\ ops = [o \in OpIds |-> NoOperation]
    /\ round = NoRound
    /\ workers = NoWorkers
    /\ reader = NoReader
    /\ compatible = TRUE
    /\ baseline \in BOOLEAN      \* a mailbox found on an account that was synchronized before
    /\ announced = [m \in Messages |-> 0]
    /\ budget = Budget

Spend(kind) ==
    /\ budget[kind] > 0 /\ budget["all"] > 0
    /\ budget' = [budget EXCEPT ![kind] = @ - 1, !["all"] = @ - 1]
\* Something happened that the round in progress need not see.
Disturb == history' = [history EXCEPT !.calm = FALSE]

There(k) == server.validity = k[1] /\ MessageOf(k) \in server.there
UnreadThere(k) == There(k) /\ MessageOf(k) \notin server.seen

\* The account and the mailbox are past their first round under this UIDVALIDITY.
Announcing == baseline /\ mailbox.validity = server.validity /\ ~round.required

-----------------------------------------------------------------------------
(* The server, and the account's other mail clients *)

Arrive(m) ==
    /\ Spend("arrivals")
    /\ m \in server.unborn
    /\ server' = [server EXCEPT !.there = @ \cup {m}, !.unborn = @ \ {m}]
    /\ history' = [history EXCEPT !.calm = FALSE,
                                  !.new = IF Announcing THEN @ \cup {m} ELSE @]
    /\ UNCHANGED <<mailbox, rows, bodies, ops, round, workers, reader, compatible, baseline,
                   announced>>

OtherClientSetsRead(m, read) ==
    /\ Spend("changes")
    /\ m \in server.there
    /\ read # (m \in server.seen)
    /\ server' = [server EXCEPT !.seen = IF read THEN @ \cup {m} ELSE @ \ {m}]
    /\ history' = [history EXCEPT !.calm = FALSE, !.new = @ \ {m}]
    /\ UNCHANGED <<mailbox, rows, bodies, ops, round, workers, reader, compatible, baseline,
                   announced>>

OtherClientExpunges(m) ==
    /\ Spend("changes")
    /\ m \in server.there
    /\ server' = [server EXCEPT !.there = @ \ {m}, !.seen = @ \ {m}]
    /\ Disturb
    /\ UNCHANGED <<mailbox, rows, bodies, ops, round, workers, reader, compatible, baseline,
                   announced>>

\* The mailbox gets a new UIDVALIDITY; sessions that had selected it end.
RenumberMailbox ==
    /\ Spend("renumber")
    /\ server.validity + 1 \in Validities
    /\ server' = [server EXCEPT !.validity = @ + 1]
    /\ history' = [history EXCEPT !.calm = FALSE, !.new = {}]
    /\ UNCHANGED <<mailbox, rows, bodies, ops, round, workers, reader, compatible, baseline,
                   announced>>

-----------------------------------------------------------------------------
(* The user's operations (storage/operation_repository.rs, session.rs) *)

Hide(rs, m, hidden) ==
    [k \in Keys |-> IF rs[k].stored /\ MessageOf(k) = m
                    THEN [rs[k] EXCEPT !.hidden = hidden] ELSE rs[k]]
MarkRead(rs, m, read) ==
    [k \in Keys |-> IF rs[k].stored /\ MessageOf(k) = m
                    THEN [rs[k] EXCEPT !.unread = ~read] ELSE rs[k]]
Remove(rs, m) == [k \in Keys |-> IF MessageOf(k) = m THEN NoRow ELSE rs[k]]

Project(rs) ==
    /\ rows' = rs
    /\ mailbox' = [mailbox EXCEPT !.counts = CountsOf(rs)]

QueueSetRead(o, k, read) ==
    /\ Spend("operations")
    /\ ops[o].status = "none"
    /\ k \in Visible(rows)
    /\ ops' = [ops EXCEPT ![o] = [kind |-> "set_read", key |-> k, value |-> read,
                                  previous |-> ~rows[k].unread, status |-> "queued"]]
    /\ Project(MarkRead(rows, MessageOf(k), read))
    /\ Disturb
    /\ UNCHANGED <<server, bodies, round, workers, reader, compatible, baseline, announced>>

QueueDelete(o, k) ==
    /\ Spend("operations")
    /\ ops[o].status = "none"
    /\ k \in Visible(rows)
    /\ ops' = [ops EXCEPT ![o] = [kind |-> "delete", key |-> k, value |-> FALSE,
                                  previous |-> FALSE, status |-> "queued"]]
    /\ Project(Hide(rows, MessageOf(k), TRUE))
    /\ Disturb
    /\ UNCHANGED <<server, bodies, round, workers, reader, compatible, baseline, announced>>

\* The server executes the operation; the answer is not yet recorded.  A message that
\* is gone needs no deletion.
ApplyOperation(o) ==
    LET m == MessageOf(ops[o].key) IN
    /\ ops[o].status = "queued"
    /\ \A p \in OpIds : ops[p].status # "running"
    /\ server.validity = ops[o].key[1]
    /\ \/ /\ ops[o].kind = "set_read" /\ m \in server.there
          /\ server' = [server EXCEPT !.seen = IF ops[o].value THEN @ \cup {m} ELSE @ \ {m}]
          /\ history' = [history EXCEPT !.calm = FALSE, !.new = @ \ {m}]
       \/ /\ ops[o].kind = "delete"
          /\ server' = [server EXCEPT !.there = @ \ {m}, !.seen = @ \ {m}]
          /\ Disturb
    /\ ops' = [ops EXCEPT ![o].status = "running"]
    /\ UNCHANGED <<mailbox, rows, bodies, round, workers, reader, compatible, baseline,
                   announced, budget>>

CompletePendingOperation(o) ==
    /\ ops[o].status = "running"
    /\ ops' = [ops EXCEPT ![o].status = "succeeded"]
    /\ \/ /\ ops[o].kind = "delete"
          /\ Project(Remove(rows, MessageOf(ops[o].key)))
       \/ /\ ops[o].kind = "set_read"
          /\ UNCHANGED <<rows, mailbox>>
    /\ Disturb
    /\ UNCHANGED <<server, bodies, round, workers, reader, compatible, baseline, announced,
                   budget>>

\* The server refuses for good, or the message is not there any more under this
\* UIDVALIDITY: the projection gets back what it had (rollback_projection).
FailPendingOperation(o) ==
    /\ ops[o].status = "queued"
    /\ \/ ~There(ops[o].key) /\ UNCHANGED budget
       \/ There(ops[o].key) /\ Spend("faults")
    /\ ops' = [ops EXCEPT ![o].status = "failed"]
    /\ \/ /\ ops[o].kind = "delete"
          /\ Project(Hide(rows, MessageOf(ops[o].key), FALSE))
       \/ /\ ops[o].kind = "set_read"
          /\ Project(MarkRead(rows, MessageOf(ops[o].key), ops[o].previous))
    /\ Disturb
    /\ UNCHANGED <<server, bodies, round, workers, reader, compatible, baseline, announced>>

-----------------------------------------------------------------------------
(* A round: sync_session and sync_folder *)

\* run_sync.
StartRound ==
    /\ round.at = "idle"
    /\ round' = [NoRound EXCEPT !.at = "open", !.ready = baseline, !.selective = compatible]
    /\ history' = [history EXCEPT !.calm = (\A o \in OpIds : ~Active(o)) /\ reader.at = "idle"]
    /\ UNCHANGED <<server, mailbox, rows, bodies, ops, workers, reader, compatible, baseline,
                   announced, budget>>

\* The sessions have the mailbox selected; a renumbering ends them.
Connected == server.validity = round.validity

\* SELECT and SEARCH UNSEEN, then the first half of upsert_mailbox: what is known of
\* the mailbox is read, and locations of another UIDVALIDITY are deleted.
OpenMailbox ==
    LET changed == mailbox.validity # 0 /\ mailbox.validity # server.validity IN
    /\ round.at = "open"
    /\ round' = [round EXCEPT
           !.at = "upsert", !.validity = server.validity,
           !.required = mailbox.validity = 0 \/ changed,
           !.counts = [total |-> Cardinality(server.there),
                       unread |-> Cardinality(server.there \ server.seen)]]
    /\ rows' = IF changed THEN [k \in Keys |-> NoRow] ELSE rows
    /\ UNCHANGED <<server, mailbox, bodies, ops, workers, reader, compatible, baseline,
                   announced, history, budget>>

UpsertMailbox ==
    /\ round.at = "upsert"
    /\ mailbox' = [validity |-> round.validity, counts |-> round.counts]
    /\ round' = [round EXCEPT !.at = "search", !.counts = NoRound.counts]
    /\ UNCHANGED <<server, rows, bodies, ops, workers, reader, compatible, baseline,
                   announced, history, budget>>

\* UID SEARCH ALL.
SearchAll ==
    /\ round.at = "search" /\ Connected
    /\ round' = [round EXCEPT !.at = "diff",
                     !.remote = {UidOf(server.validity, m) : m \in server.there}]
    /\ UNCHANGED <<server, mailbox, rows, bodies, ops, workers, reader, compatible, baseline,
                   announced, history, budget>>

\* stored_uids: only what is not stored under this UIDVALIDITY is fetched.
Missing == {u \in round.remote : ~rows[<<round.validity, u>>].stored}

DiffStoredUids ==
    /\ round.at = "diff"
    /\ round' = [round EXCEPT !.at = "headers", !.left = Missing]
    /\ workers' = NoWorkers
    /\ UNCHANGED <<server, mailbox, rows, bodies, ops, reader, compatible, baseline,
                   announced, history, budget>>

\* upsert_message: unread of a row with an active flag operation is kept, a new row
\* takes the server's.
UpsertLocation(rs, k, unread) ==
    [rs EXCEPT ![k] = [stored |-> TRUE, hidden |-> rs[k].hidden,
                       unread |-> IF rs[k].stored /\ ActiveFlagOn(MessageOf(k)) # {}
                                  THEN rs[k].unread ELSE unread]]
\* The next batch is the lowest UIDs left.
IsNextBatch(b) ==
    /\ b \subseteq round.left
    /\ Cardinality(b) = IF Cardinality(round.left) < BatchSize THEN Cardinality(round.left)
                        ELSE BatchSize
    /\ \A u \in b, x \in round.left \ b : u < x

\* fetch_summaries_worker takes a batch and fetches its headers: UIDs that are gone
\* are not in the answer.
FetchSummaries(w) ==
    /\ round.at = "headers" /\ workers[w].at = "take"
    /\ \/ /\ round.left = {}
          /\ workers' = [workers EXCEPT ![w].at = "done"]
          /\ UNCHANGED round
       \/ /\ round.left # {} /\ Connected
          /\ \E b \in SUBSET round.left :
                /\ IsNextBatch(b)
                /\ round' = [round EXCEPT !.left = @ \ b]
                /\ workers' = [workers EXCEPT ![w] =
                       [NoWorker EXCEPT !.at = "store",
                            !.batch = {u \in b : There(<<round.validity, u>>)},
                            !.unread = {u \in b : UnreadThere(<<round.validity, u>>)}]]
    /\ UNCHANGED <<server, mailbox, rows, bodies, ops, reader, compatible, baseline,
                   announced, history, budget>>

\* Each header is committed on its own.
UpsertMessage(w, u) ==
    LET k == <<round.validity, u>> IN
    /\ round.at = "headers" /\ workers[w].at = "store"
    /\ u \in workers[w].batch \ workers[w].done
    /\ rows' = UpsertLocation(rows, k, u \in workers[w].unread)
    /\ workers' = [workers EXCEPT ![w].done = @ \cup {u},
                                  ![w].new = IF rows[k].stored THEN @ ELSE @ \cup {u}]
    /\ UNCHANGED <<server, mailbox, bodies, ops, round, reader, compatible, baseline,
                   announced, history, budget>>

\* mutant: positions in the answer count from zero
ArrivalsFromZero(w) ==
    {MessageAt(round.validity, u - 1) : u \in workers[w].new \cap workers[w].unread}

\* notify_arrivals: what a worker's batch adds to the candidates.
Arrivals(w) == {MessageAt(round.validity, u) : u \in workers[w].new \cap workers[w].unread}
\* RuntimeObserver.notify, of a supervisor that is not replaced (see RoundReplaced).
notify(candidates) == [round EXCEPT !.candidates = @ \cup candidates]

\* mutant: the mailbox's own baseline is not asked for
NotifyAllArrivals(w) == notify(Arrivals(w))

NotifyArrivals(w) == IF round.required THEN round ELSE notify(Arrivals(w))

\* Without BODYSTRUCTURE the batch is announced as it is.
HeadersOnly(w) ==
    /\ round.at = "headers" /\ workers[w].at = "store"
    /\ workers[w].batch = workers[w].done
    /\ \/ /\ round.selective
          /\ workers' = [workers EXCEPT ![w].at = "structure"]
          /\ UNCHANGED round
       \/ /\ ~round.selective
          /\ workers' = [workers EXCEPT ![w] = NoWorker]
          /\ round' = NotifyArrivals(w)
    /\ UNCHANGED <<server, mailbox, rows, bodies, ops, reader, compatible, baseline,
                   announced, history, budget>>

\* BODYSTRUCTURE and previews arrived: messages with attachments or a preview are
\* written once more, with the flags fetched before.
FetchBodystructures(w) ==
    /\ round.at = "headers" /\ workers[w].at = "structure" /\ Connected
    /\ \E changed \in {{}, workers[w].batch} :
        workers' = [workers EXCEPT ![w].at = "again", ![w].done = @ \ changed]
    /\ UNCHANGED <<server, mailbox, rows, bodies, ops, round, reader, compatible, baseline,
                   announced, history, budget>>

UpsertAgain(w, u) ==
    /\ round.at = "headers" /\ workers[w].at = "again"
    /\ u \in workers[w].batch \ workers[w].done
    /\ rows' = UpsertLocation(rows, <<round.validity, u>>, u \in workers[w].unread)
    /\ workers' = [workers EXCEPT ![w].done = @ \cup {u}]
    /\ UNCHANGED <<server, mailbox, bodies, ops, round, reader, compatible, baseline,
                   announced, history, budget>>

\* mutant: the worker is emptied before its batch is announced
EmptiedFirst(w) ==
    /\ round.at = "headers" /\ workers[w].at = "again"
    /\ workers[w].batch = workers[w].done
    /\ workers' = [workers EXCEPT ![w] = NoWorker]
    /\ UNCHANGED round
    /\ UNCHANGED <<server, mailbox, rows, bodies, ops, reader, compatible, baseline,
                   announced, history, budget>>

BatchDone(w) ==
    /\ round.at = "headers" /\ workers[w].at = "again"
    /\ workers[w].batch = workers[w].done
    /\ workers' = [workers EXCEPT ![w] = NoWorker]
    /\ round' = NotifyArrivals(w)
    /\ UNCHANGED <<server, mailbox, rows, bodies, ops, reader, compatible, baseline,
                   announced, history, budget>>

\* Any error of the BODYSTRUCTURE fetch: the session is given up, its batch announced.
BodystructureFails(w) ==
    /\ round.at = "headers" /\ workers[w].at = "structure"
    /\ Spend("faults")
    /\ workers' = [workers EXCEPT ![w].at = "unusable"]
    /\ round' = NotifyArrivals(w)
    /\ UNCHANGED <<server, mailbox, rows, bodies, ops, reader, compatible, baseline,
                   announced, history>>

\* Another error ends the worker; the round fails when all have ended (join_all).
WorkerFails(w) ==
    /\ round.at = "headers" /\ workers[w].at \in {"take", "store", "structure", "again"}
    /\ \/ ~Connected /\ UNCHANGED budget
       \/ Connected /\ Spend("faults")
    /\ workers' = [workers EXCEPT ![w].at = "failed"]
    /\ UNCHANGED <<server, mailbox, rows, bodies, ops, round, reader, compatible, baseline,
                   announced, history>>

\* pending_body_locations of this UIDVALIDITY that the server lists.
MissingBodies == {u \in round.remote : /\ rows[<<round.validity, u>>].stored
                                       /\ bodies[MessageAt(round.validity, u)] = 0}
Incompatible == \E w \in Workers : workers[w].at = "unusable"

JoinWorkers ==
    /\ round.at = "headers"
    /\ \A w \in Workers : workers[w].at \in {"done", "unusable"}
    /\ workers' = [NoWorkers EXCEPT ![1].at = workers[1].at]
    /\ round' = IF DownloadFullMessages /\ ~Incompatible
                THEN [round EXCEPT !.at = "bodies", !.left = MissingBodies]
                ELSE [round EXCEPT !.at = "reconcile", !.left = {}, !.incompatible = Incompatible]
    /\ UNCHANGED <<server, mailbox, rows, bodies, ops, reader, compatible, baseline,
                   announced, history, budget>>

\* fetch_bodies_worker, one body at a time (which worker does it does not matter): a
\* message that is gone is skipped.
FetchBody(u) ==
    /\ round.at = "bodies" /\ u \in round.left /\ Connected
    /\ round' = IF There(<<round.validity, u>>)
                THEN [round EXCEPT !.at = "body", !.left = @ \ {u}, !.uid = u,
                          !.seen = IF UnreadThere(<<round.validity, u>>) THEN {} ELSE {u}]
                ELSE [round EXCEPT !.left = @ \ {u}]
    /\ UNCHANGED <<server, mailbox, rows, bodies, ops, workers, reader, compatible, baseline,
                   announced, history, budget>>

\* Without BODYSTRUCTURE the whole message is fetched and upserted.
StoreBody ==
    LET k == <<round.validity, round.uid>> IN
    /\ round.at = "body"
    /\ bodies' = [bodies EXCEPT ![MessageOf(k)] = MessageOf(k)]
    /\ rows' = IF round.selective THEN rows
               ELSE UpsertLocation(rows, k, round.uid \notin round.seen)
    /\ round' = [round EXCEPT !.at = "bodies", !.uid = 1, !.seen = {}]
    /\ UNCHANGED <<server, mailbox, ops, workers, reader, compatible, baseline, announced,
                   history, budget>>

BodiesDone ==
    /\ round.at = "bodies"
    /\ \/ round.left = {} /\ round' = [round EXCEPT !.at = "reconcile"] /\ UNCHANGED budget
       \/ /\ round.left # {} /\ round.selective     \* SELECTIVE_FETCH_UNSUPPORTED
          /\ Spend("faults")
          /\ round' = [round EXCEPT !.at = "reconcile", !.left = {}, !.incompatible = TRUE]
    /\ UNCHANGED <<server, mailbox, rows, bodies, ops, workers, reader, compatible, baseline,
                   announced, history>>

\* FETCH 1:* (UID FLAGS), on session 0 if that is usable.
FetchFlags ==
    /\ round.at = "reconcile"
    /\ \/ /\ workers[1].at = "done" /\ Connected
          /\ round' = [round EXCEPT !.at = "commit",
                 !.remote = {UidOf(server.validity, m) : m \in server.there},
                 !.seen = {UidOf(server.validity, m) : m \in server.seen}]
       \/ /\ workers[1].at # "done"
          /\ round' = [round EXCEPT !.at = "complete"]
    /\ UNCHANGED <<server, mailbox, rows, bodies, ops, workers, reader, compatible, baseline,
                   announced, history, budget>>

\* mutant: rows the server does not list are kept
ReconciledFlags ==
    [k \in Keys |->
        IF /\ k[1] = round.validity /\ rows[k].stored /\ k[2] \in round.remote
           /\ ~rows[k].hidden /\ ActiveFlagOn(MessageOf(k)) = {}
        THEN [rows[k] EXCEPT !.unread = k[2] \notin round.seen]
        ELSE rows[k]]

\* reconcile_mailbox: rows the server lists take its flags, unless hidden or changed by
\* an active operation; rows it does not list go, unless an operation is active.
Reconciled ==
    [k \in Keys |->
        IF k[1] # round.validity \/ ~rows[k].stored THEN rows[k]
        ELSE IF k[2] \notin round.remote /\ ActiveOn(MessageOf(k)) = {} THEN NoRow
        ELSE IF k[2] \in round.remote /\ ~rows[k].hidden /\ ActiveFlagOn(MessageOf(k)) = {}
        THEN [rows[k] EXCEPT !.unread = k[2] \notin round.seen]
        ELSE rows[k]]

ReconcileMailbox ==
    /\ round.at = "commit"
    /\ Project(Reconciled)
    /\ round' = [round EXCEPT !.at = "complete", !.remote = {}, !.seen = {}]
    /\ UNCHANGED <<server, bodies, ops, workers, reader, compatible, baseline, announced,
                   history, budget>>

\* The mailbox gets its locations anew on an account that announces new mail.
Rebuilding == round.required /\ round.ready

\* complete_mailbox; an incompatible server makes the provider start over once without
\* BODYSTRUCTURE, with the same observer.
CompleteMailbox ==
    /\ round.at = "complete"
    /\ workers' = NoWorkers
    /\ \/ /\ round.incompatible
          /\ compatible' = FALSE
          /\ history' = [history EXCEPT !.rebuilt = @ \/ Rebuilding]
          /\ round' = [NoRound EXCEPT !.at = "open", !.ready = round.ready,
                                      !.candidates = round.candidates]
       \/ /\ ~round.incompatible
          /\ round' = [round EXCEPT !.at = "end"]
          /\ UNCHANGED <<compatible, history>>
    /\ UNCHANGED <<server, mailbox, rows, bodies, ops, reader, baseline, announced, budget>>

\* The account baseline is complete; candidates are announced if it was so before.
EndRound ==
    /\ round.at = "end"
    /\ baseline' = TRUE
    /\ announced' = [m \in Messages |-> IF round.ready /\ m \in round.candidates /\ announced[m] < 2
                                        THEN announced[m] + 1 ELSE announced[m]]
    /\ round' = NoRound
    /\ UNCHANGED <<server, mailbox, rows, bodies, ops, workers, reader, compatible, history,
                   budget>>
\* What is lost with a round that does not announce its candidates.
Losing ==
    history' = [history EXCEPT
        !.lost = TRUE,
        !.rebuilt = @ \/ (Rebuilding /\ round.at \notin {"open", "upsert", "end"})]
NoMoreRound == round' = NoRound /\ workers' = NoWorkers /\ Losing

\* An error of any command or statement, or of a worker.
RoundFails ==
    /\ round.at # "idle"
    /\ \/ /\ round.at = "headers" /\ UNCHANGED budget
          /\ \A w \in Workers : workers[w].at \in {"done", "unusable", "failed"}
          /\ \E w \in Workers : workers[w].at = "failed"
       \/ round.at \in {"search", "bodies", "reconcile"} /\ ~Connected /\ UNCHANGED budget
       \/ round.at \notin {"headers", "end"} /\ Spend("faults")
    /\ NoMoreRound
    /\ UNCHANGED <<server, mailbox, rows, bodies, ops, reader, compatible, baseline,
                   announced>>

\* The account was restarted meanwhile: the round completes the baseline and says nothing.
RoundReplaced ==
    /\ round.at = "end"
    /\ Spend("faults")
    /\ baseline' = TRUE
    /\ NoMoreRound
    /\ UNCHANGED <<server, mailbox, rows, bodies, ops, reader, compatible, announced>>

\* The process ends and starts again: interrupted operations are queued.
Crash ==
    /\ Spend("crashes")
    /\ round' = NoRound /\ workers' = NoWorkers /\ reader' = NoReader
    /\ compatible' = TRUE
    /\ ops' = [o \in OpIds |-> IF ops[o].status = "running"
                               THEN [ops[o] EXCEPT !.status = "queued"] ELSE ops[o]]
    /\ IF round.at = "idle" THEN UNCHANGED history ELSE Losing
    /\ UNCHANGED <<server, mailbox, rows, bodies, baseline, announced>>

-----------------------------------------------------------------------------
(* Requests for a message's body (mail_runtime/content.rs) *)

\* request_message_body: the location is read, and used after the wait for the network.
RequestMessageBody(k) ==
    /\ Spend("reads")
    /\ reader.at = "idle"
    /\ k \in Stored
    /\ bodies[MessageOf(k)] = 0
    /\ reader' = [NoReader EXCEPT !.at = IF compatible THEN "fetch" ELSE "fetch_whole",
                                  !.message = MessageOf(k), !.key = k]
    /\ Disturb
    /\ UNCHANGED <<server, mailbox, rows, bodies, ops, round, workers, compatible, baseline,
                   announced>>

\* mutant: the UIDVALIDITY of the location is not compared
FetchByUid ==
    /\ reader.at \in {"fetch", "fetch_whole"}
    /\ MessageAt(server.validity, reader.key[2]) \in server.there
    /\ reader' = [reader EXCEPT !.at = IF reader.at = "fetch" THEN "store" ELSE "store_whole",
                                !.content = MessageAt(server.validity, reader.key[2]),
                                !.unread = UnreadThere(reader.key)]
    /\ Disturb
    /\ UNCHANGED <<server, mailbox, rows, bodies, ops, round, workers, compatible, baseline,
                   announced, budget>>

FetchMessageBody ==
    /\ reader.at \in {"fetch", "fetch_whole"}
    /\ There(reader.key)
    /\ reader' = [reader EXCEPT !.at = IF reader.at = "fetch" THEN "store" ELSE "store_whole",
                                !.content = MessageAt(server.validity, reader.key[2]),
                                !.unread = UnreadThere(reader.key)]
    /\ Disturb
    /\ UNCHANGED <<server, mailbox, rows, bodies, ops, round, workers, compatible, baseline,
                   announced, budget>>

\* A server or a message that does not support it: the whole message is fetched, from
\* where it is then.
SelectiveFetchUnsupported ==
    /\ reader.at = "fetch"
    /\ Spend("faults")
    /\ compatible' \in {compatible, FALSE}
    /\ \E k \in RowsOf(reader.message) :
        reader' = [reader EXCEPT !.at = "fetch_whole", !.key = k]
    /\ Disturb
    /\ UNCHANGED <<server, mailbox, rows, bodies, ops, round, workers, baseline, announced>>

\* replace_message_body.
ReplaceMessageBody ==
    /\ reader.at = "store"
    /\ bodies' = [bodies EXCEPT ![reader.message] = reader.content]
    /\ reader' = NoReader
    /\ Disturb
    /\ UNCHANGED <<server, mailbox, rows, ops, round, workers, compatible, baseline,
                   announced, budget>>

\* fetch_and_store_message: upsert_message writes the location again, wherever that
\* has gone since.
StoreWholeMessage ==
    /\ reader.at = "store_whole"
    /\ rows' = UpsertLocation(rows, reader.key, reader.unread)
    /\ bodies' = [bodies EXCEPT ![MessageOf(reader.key)] = reader.content]
    /\ reader' = NoReader
    /\ Disturb
    /\ UNCHANGED <<server, mailbox, ops, round, workers, compatible, baseline, announced,
                   budget>>

\* Gone, renumbered or offline.
RequestFails ==
    /\ reader.at \in {"fetch", "fetch_whole"}
    /\ \/ ~There(reader.key) /\ UNCHANGED budget
       \/ There(reader.key) /\ Spend("faults")
    /\ reader' = NoReader
    /\ Disturb
    /\ UNCHANGED <<server, mailbox, rows, bodies, ops, round, workers, compatible, baseline,
                   announced>>

-----------------------------------------------------------------------------
(* Specification *)

Server ==
    \/ \E m \in Messages : Arrive(m) \/ OtherClientExpunges(m)
    \/ \E m \in Messages, read \in BOOLEAN : OtherClientSetsRead(m, read)
    \/ RenumberMailbox

User ==
    \/ \E o \in OpIds, k \in Keys : QueueDelete(o, k)
    \/ \E o \in OpIds, k \in Keys, read \in BOOLEAN : QueueSetRead(o, k, read)
    \/ \E k \in Keys : RequestMessageBody(k)

Operations ==
    \E o \in OpIds : ApplyOperation(o) \/ CompletePendingOperation(o) \/ FailPendingOperation(o)

Headers ==
    \/ \E w \in Workers :
        \/ FetchSummaries(w) \/ HeadersOnly(w) \/ FetchBodystructures(w) \/ BatchDone(w)
        \/ BodystructureFails(w) \/ WorkerFails(w)
    \/ \E w \in Workers, u \in Uids : UpsertMessage(w, u) \/ UpsertAgain(w, u)

Synchronize ==
    \/ StartRound \/ OpenMailbox \/ UpsertMailbox \/ SearchAll \/ DiffStoredUids
    \/ Headers \/ JoinWorkers
    \/ \E u \in Uids : FetchBody(u)
    \/ StoreBody \/ BodiesDone \/ FetchFlags \/ ReconcileMailbox \/ CompleteMailbox
    \/ EndRound \/ RoundFails \/ RoundReplaced

Read ==
    \/ FetchMessageBody \/ SelectiveFetchUnsupported \/ ReplaceMessageBody
    \/ StoreWholeMessage \/ RequestFails

Next == Server \/ User \/ Operations \/ Synchronize \/ Read \/ Crash

Spec == Init /\ [][Next]_vars

-----------------------------------------------------------------------------
(* Properties *)

\* The projection shows the mailbox: the messages of the server, unread as they are
\* there, with the counts that follow.
Exact ==
    /\ {k \in Visible(rows) : k[1] = mailbox.validity} =
           {<<server.validity, UidOf(server.validity, m)>> : m \in server.there}
    /\ \A k \in Visible(rows) : k[1] = mailbox.validity => (rows[k].unread <=> UnreadThere(k))
    /\ mailbox.counts = CountsOf(rows)
    /\ DownloadFullMessages => \A m \in server.there : bodies[m] # 0

\* A round that ends well leaves the projection exact if nothing disturbed it, whatever
\* failed, restarted or half-done rounds, operations and requests left before it.
CompleteRoundIsExact == [][round.at = "end" /\ round'.at = "idle" /\ history.calm => Exact]_vars

\* The body shown for a message is its own, although UIDs are read before the network
\* is used and may be renumbered meanwhile.
BodiesFit == \A m \in Messages : bodies[m] \in {0, m}

\* Mail that was there before the first synchronization is not announced, and nothing is
\* announced twice, unless the rebuild of a renumbered mailbox was interrupted.
NewMailIsNew ==
    ~history.rebuilt => \A m \in Messages : announced[m] <= (IF m \in history.old THEN 0 ELSE 1)

\* Mail that arrived later and nobody has read is announced by the round that stores
\* it, if no round was lost: in whatever batch it came, with whatever sessions broke.
ArrivalsAreAnnounced ==
    (~history.lost /\ round.at = "idle" /\ baseline)
    => \A k \in Stored : MessageOf(k) \in history.new => announced[MessageOf(k)] > 0

=============================================================================
