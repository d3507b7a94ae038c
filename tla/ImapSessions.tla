---------------------------- MODULE ImapSessions ----------------------------
(***************************************************************************)
(* The IMAP provider of one account: the lock between full                 *)
(* synchronizations, the lock on mailbox paths, the session permits, the   *)
(* three kept synchronization sessions with the tasks that close them, and *)
(* the calls that go through all of these (protocols/imap/provider.rs,     *)
(* session_budget.rs, path_lock.rs, connection.rs).                        *)
(*                                                                         *)
(* Every registry is keyed by the account, and an entry lives as long as a *)
(* guard, a permit or a waiter refers to it: accounts do not interact, and *)
(* one lock of each kind stands for the registry.  tokio's Mutex, RwLock   *)
(* and Semaphore serve their waiters first come, first served.  What is    *)
(* said over a session is MailSync and PendingOperations; here it succeeds *)
(* or fails.                                                               *)
(***************************************************************************)
EXTENDS Integers, Sequences, FiniteSets

CONSTANTS
    Tasks,                 \* callers: supervisors, commands, windows
    AccountSessionLimit,   \* ACCOUNT_SESSION_LIMIT
    SyncSessionCount,      \* SYNC_SESSION_COUNT
    MaxCalls,              \* bound: calls made
    MaxCredentials         \* bound: changes of server or password

ASSUME SessionsAssumption ==
    /\ IsFiniteSet(Tasks)
    /\ AccountSessionLimit \in Nat
    /\ SyncSessionCount \in 1 .. AccountSessionLimit - 1
    /\ MaxCalls \in Nat /\ MaxCredentials \in Nat

VARIABLES
    call,          \* what each task is doing
    syncQueue,     \* waiting for sync_lock
    pathQueue,     \* waiting for the path lock
    permitQueue,   \* waiting for a permit; a synchronization waits three times
    pool,          \* sync_sessions: the kept sessions
    reapers,       \* per stored pool, the task that closes it
    incompatible,  \* bodystructure_incompatible_accounts
    credentials,   \* version of the account's server settings and password
    made           \* calls made so far

vars == <<call, syncQueue, pathQueue, permitQueue, pool, reapers, incompatible,
          credentials, made>>

-----------------------------------------------------------------------------
(* State *)

Kind == {"synchronize", "synchronize_mailbox", "fetch_message_body",
         "fetch_message", "apply_mailbox_operation"}
Place == {"idle", "sync_lock", "path_lock", "checkout", "noop", "permits",
          "connect", "work"}

Credentials == 0 .. MaxCredentials
Stamps == 1 .. MaxCalls

\* A call holds permits and has opened sessions with the credentials "with".
Call == [kind : Kind, at : Place, account : Credentials, selective : BOOLEAN,
         permits : 0 .. SyncSessionCount, sessions : 0 .. SyncSessionCount,
         with : Credentials]
NoCall == [kind |-> "fetch_message", at |-> "idle", account |-> 0, selective |-> TRUE,
           permits |-> 0, sessions |-> 0, with |-> 0]

\* CachedSyncSessions; idle_since identifies a pool.
NoPool == [stamp |-> 0, fingerprint |-> 0, permits |-> 0, sessions |-> 0]
CachedSyncSessions == [stamp : Stamps, fingerprint : Credentials,
                       permits : 0 .. SyncSessionCount, sessions : 0 .. SyncSessionCount]

TypeOK ==
    /\ call \in [Tasks -> Call]
    /\ syncQueue \in Seq(Tasks) /\ pathQueue \in Seq(Tasks) /\ permitQueue \in Seq(Tasks)
    /\ pool \in CachedSyncSessions \cup {NoPool}
    /\ reapers \in [Stamps -> {"unborn", "sleeping", "due", "done"}]
    /\ incompatible \in BOOLEAN
    /\ credentials \in Credentials
    /\ made \in 0 .. MaxCalls

Init ==
    /\ call = [t \in Tasks |-> NoCall]
    /\ syncQueue = <<>> /\ pathQueue = <<>> /\ permitQueue = <<>>
    /\ pool = NoPool
    /\ reapers = [s \in Stamps |-> "unborn"]
    /\ incompatible = FALSE
    /\ credentials = 0
    /\ made = 0

\* Who is past a lock; the guards live until the call returns.
PastSyncLock(t) == call[t].kind = "synchronize" /\ call[t].at \notin {"idle", "sync_lock"}
UsesPaths(t) == call[t].at \in {"checkout", "noop", "permits", "connect", "work"}
ChangesPaths(t) == UsesPaths(t) /\ call[t].kind = "apply_mailbox_operation"

Wanted(t) == IF call[t].kind = "synchronize" THEN SyncSessionCount ELSE 1
\* The permits that calls hold, and their sessions, each with its number.
PermitsHeld == {p \in Tasks \X (1 .. SyncSessionCount) : p[2] <= call[p[1]].permits}
SessionsHeld == {p \in Tasks \X (1 .. SyncSessionCount) : p[2] <= call[p[1]].sessions}
PermitsInUse == pool.permits + Cardinality(PermitsHeld)
OpenSessions == pool.sessions + Cardinality(SessionsHeld)

-----------------------------------------------------------------------------
(* The calls *)

\* A call returns: its session, permits and guards are dropped.
Return(t) == call' = [call EXCEPT ![t] = NoCall]

\* The sessions and permits of an attempt are dropped, the guards are kept.
DropSessions(t, place, selective) ==
    call' = [call EXCEPT ![t].at = place, ![t].selective = selective,
                         ![t].permits = 0, ![t].sessions = 0]

\* account_fingerprint is compared for equality only.
AccountFingerprint(t) == call[t].account

\* bodystructure_mode = Enabled.
Selective == ~incompatible

\* A call begins, with the account's settings read just before (imap_config).
Begin(t, kind, place) ==
    /\ call[t].at = "idle"
    /\ made < MaxCalls
    /\ made' = made + 1
    /\ call' = [call EXCEPT ![t] = [NoCall EXCEPT !.kind = kind, !.at = place,
                                                  !.account = credentials]]
    /\ UNCHANGED <<permitQueue, pool, reapers, incompatible, credentials>>

QueueForPaths(t, kind) ==
    /\ Begin(t, kind, "path_lock")
    /\ pathQueue' = Append(pathQueue, t)
    /\ UNCHANGED syncQueue

Synchronize(t) ==
    /\ Begin(t, "synchronize", "sync_lock")
    /\ syncQueue' = Append(syncQueue, t)
    /\ UNCHANGED pathQueue

SynchronizeMailbox(t) == QueueForPaths(t, "synchronize_mailbox")

\* Refused at once for an account that is known to be incompatible.
FetchMessageBody(t) == Selective /\ QueueForPaths(t, "fetch_message_body")

\* fetch_message, fetch_attachment, apply_operation, append_message, replace_draft:
\* one session, used for whatever it is.
FetchMessage(t) == QueueForPaths(t, "fetch_message")

ApplyMailboxOperation(t) == QueueForPaths(t, "apply_mailbox_operation")

LockSync(t) ==
    /\ call[t].at = "sync_lock" /\ Head(syncQueue) = t
    /\ ~\E u \in Tasks : PastSyncLock(u)
    /\ syncQueue' = Tail(syncQueue)
    /\ pathQueue' = Append(pathQueue, t)
    /\ call' = [call EXCEPT ![t].at = "path_lock"]
    /\ UNCHANGED <<permitQueue, pool, reapers, incompatible, credentials, made>>

\* mutant: the path lock is taken shared by everyone
LockPathsShared(t) ==
    /\ call[t].at = "path_lock" /\ Head(pathQueue) = t
    /\ pathQueue' = Tail(pathQueue)
    /\ call' = [call EXCEPT ![t].selective = Selective,
                    ![t].at = IF call[t].kind = "synchronize" THEN "checkout" ELSE "permits"]
    /\ permitQueue' = IF call[t].kind = "synchronize" THEN permitQueue ELSE Append(permitQueue, t)
    /\ UNCHANGED <<syncQueue, pool, reapers, incompatible, credentials, made>>

\* Readers share the lock, a writer is alone, and nobody passes a waiter.  Then a
\* full synchronization looks for kept sessions, the others ask for one permit.
LockPaths(t) ==
    /\ call[t].at = "path_lock" /\ Head(pathQueue) = t
    /\ IF call[t].kind = "apply_mailbox_operation"
       THEN ~\E u \in Tasks : UsesPaths(u)
       ELSE ~\E u \in Tasks : ChangesPaths(u)
    /\ pathQueue' = Tail(pathQueue)
    /\ call' = [call EXCEPT ![t].selective = Selective,
                    ![t].at = IF call[t].kind = "synchronize" THEN "checkout" ELSE "permits"]
    /\ permitQueue' = IF call[t].kind = "synchronize" THEN permitQueue ELSE Append(permitQueue, t)
    /\ UNCHANGED <<syncQueue, pool, reapers, incompatible, credentials, made>>

\* The three permits of a synchronization are requested at once.
ThreeRequests(t) == permitQueue \o [n \in 1 .. SyncSessionCount |-> t]

\* mutant: the fingerprint is not compared
ReusableByAnyone(t) ==
    /\ pool # NoPool
    /\ reapers[pool.stamp] = "sleeping"
    /\ pool.permits = SyncSessionCount
    /\ pool.sessions = SyncSessionCount

\* What the synchronization may take over without opening a session.
IsReusable(t) ==
    /\ pool # NoPool
    /\ pool.fingerprint = AccountFingerprint(t)
    /\ reapers[pool.stamp] = "sleeping"
    /\ pool.permits = SyncSessionCount
    /\ pool.sessions = SyncSessionCount

\* mutant: a pool that does not fit is left in place
CheckoutLeavesPool(t) ==
    /\ call[t].at = "checkout"
    /\ \/ /\ IsReusable(t)
          /\ pool' = NoPool
          /\ call' = [call EXCEPT ![t].at = "noop", ![t].permits = pool.permits,
                                  ![t].sessions = pool.sessions, ![t].with = pool.fingerprint]
          /\ UNCHANGED permitQueue
       \/ /\ ~IsReusable(t)
          /\ pool' = pool
          /\ call' = [call EXCEPT ![t].at = "permits"]
          /\ permitQueue' = ThreeRequests(t)
    /\ UNCHANGED <<syncQueue, pathQueue, reapers, incompatible, credentials, made>>

\* checkout_sync_sessions: the pool is removed in any case, and dropped, with its
\* permits, unless it can be reused.
CheckoutSyncSessions(t) ==
    /\ call[t].at = "checkout"
    /\ pool' = NoPool
    /\ \/ /\ IsReusable(t)
          /\ call' = [call EXCEPT ![t].at = "noop", ![t].permits = pool.permits,
                                  ![t].sessions = pool.sessions, ![t].with = pool.fingerprint]
          /\ UNCHANGED permitQueue
       \/ /\ ~IsReusable(t)
          /\ call' = [call EXCEPT ![t].at = "permits"]
          /\ permitQueue' = ThreeRequests(t)
    /\ UNCHANGED <<syncQueue, pathQueue, reapers, incompatible, credentials, made>>

\* mutant: the permits of sessions that do not answer are kept
NoopKeepsPermits(t, healthy) ==
    /\ call[t].at = "noop"
    /\ \/ /\ healthy
          /\ call' = [call EXCEPT ![t].at = "work"]
          /\ UNCHANGED permitQueue
       \/ /\ ~healthy
          /\ call' = [call EXCEPT ![t].at = "permits", ![t].sessions = 0]
          /\ permitQueue' = ThreeRequests(t)
    /\ UNCHANGED <<syncQueue, pathQueue, pool, reapers, incompatible, credentials, made>>

\* The sessions are used if each answers NOOP, dropped otherwise.
Noop(t, healthy) ==
    /\ call[t].at = "noop"
    /\ \/ /\ healthy
          /\ call' = [call EXCEPT ![t].at = "work"]
          /\ UNCHANGED permitQueue
       \/ /\ ~healthy
          /\ DropSessions(t, "permits", call[t].selective)
          /\ permitQueue' = ThreeRequests(t)
    /\ UNCHANGED <<syncQueue, pathQueue, pool, reapers, incompatible, credentials, made>>

\* mutant: off by one, the last permit is never given
AcquireOneLess(t) ==
    /\ call[t].at = "permits" /\ Head(permitQueue) = t
    /\ PermitsInUse + 1 < AccountSessionLimit
    /\ permitQueue' = Tail(permitQueue)
    /\ call' = [call EXCEPT ![t].permits = @ + 1,
                    ![t].at = IF call[t].permits + 1 = Wanted(t) THEN "connect" ELSE @]
    /\ UNCHANGED <<syncQueue, pathQueue, pool, reapers, incompatible, credentials, made>>

\* SessionBudgetRegistry::acquire.
Acquire(t) ==
    /\ call[t].at = "permits" /\ Head(permitQueue) = t
    /\ PermitsInUse < AccountSessionLimit
    /\ permitQueue' = Tail(permitQueue)
    /\ call' = [call EXCEPT ![t].permits = @ + 1,
                    ![t].at = IF call[t].permits + 1 = Wanted(t) THEN "connect" ELSE @]
    /\ UNCHANGED <<syncQueue, pathQueue, pool, reapers, incompatible, credentials, made>>

\* One of the sessions is open and logged in.
ConnectSession(t) ==
    /\ call[t].at = "connect"
    /\ call' = [call EXCEPT ![t].sessions = @ + 1, ![t].with = call[t].account,
                    ![t].at = IF call[t].sessions + 1 = Wanted(t) THEN "work" ELSE @]
    /\ UNCHANGED <<syncQueue, pathQueue, permitQueue, pool, reapers, incompatible,
                   credentials, made>>

\* A session cannot be opened, or the work fails: everything is dropped.
Fail(t) ==
    /\ call[t].at \in {"connect", "work"}
    /\ Return(t)
    /\ UNCHANGED <<syncQueue, pathQueue, permitQueue, pool, reapers, incompatible,
                   credentials, made>>

\* A call other than a full synchronization has done its work.
Finish(t) ==
    /\ call[t].at = "work" /\ call[t].kind # "synchronize"
    /\ Return(t)
    /\ UNCHANGED <<syncQueue, pathQueue, permitQueue, pool, reapers, incompatible,
                   credentials, made>>

\* store_sync_sessions: the sessions are kept and a task is started that closes them.
StoreSyncSessions(t) ==
    LET stamp == CHOOSE s \in Stamps : reapers[s] = "unborn" IN
    /\ call[t].at = "work" /\ call[t].kind = "synchronize"
    /\ pool' = [stamp |-> stamp, fingerprint |-> AccountFingerprint(t),
                permits |-> call[t].permits, sessions |-> call[t].sessions]
    /\ reapers' = [reapers EXCEPT ![stamp] = "sleeping"]
    /\ Return(t)
    /\ UNCHANGED <<syncQueue, pathQueue, permitQueue, incompatible, credentials, made>>

\* BODYSTRUCTURE broke the session: the account is remembered and the work starts
\* over on new sessions without it.
Incompatible(t) ==
    /\ call[t].at = "work" /\ call[t].selective
    /\ call[t].kind \in {"synchronize", "synchronize_mailbox"}
    /\ incompatible' = TRUE
    /\ \/ /\ call[t].kind = "synchronize"
          /\ DropSessions(t, "checkout", FALSE)
          /\ UNCHANGED permitQueue
       \/ /\ call[t].kind = "synchronize_mailbox"
          /\ DropSessions(t, "permits", FALSE)
          /\ permitQueue' = Append(permitQueue, t)
    /\ UNCHANGED <<syncQueue, pathQueue, pool, reapers, credentials, made>>

\* fetch_message_body only remembers it and fails.
SelectiveFetchUnsupported(t) ==
    /\ call[t].at = "work" /\ call[t].kind = "fetch_message_body"
    /\ incompatible' = TRUE
    /\ Return(t)
    /\ UNCHANGED <<syncQueue, pathQueue, permitQueue, pool, reapers, credentials, made>>

-----------------------------------------------------------------------------
(* The tasks that close kept sessions, and the user *)

IdleTtlElapses(s) ==
    /\ reapers[s] = "sleeping"
    /\ reapers' = [reapers EXCEPT ![s] = "due"]
    /\ UNCHANGED <<call, syncQueue, pathQueue, permitQueue, pool, incompatible,
                   credentials, made>>

\* mutant: the reaper closes whatever it finds
CloseAnySessions(s) ==
    /\ reapers[s] = "due"
    /\ reapers' = [reapers EXCEPT ![s] = "done"]
    /\ pool' = NoPool
    /\ UNCHANGED <<call, syncQueue, pathQueue, permitQueue, incompatible, credentials, made>>

\* Closes the pool it was started for and no later one.
CloseIdleSessions(s) ==
    /\ reapers[s] = "due"
    /\ reapers' = [reapers EXCEPT ![s] = "done"]
    /\ pool' = IF pool.stamp = s THEN NoPool ELSE pool
    /\ UNCHANGED <<call, syncQueue, pathQueue, permitQueue, incompatible, credentials, made>>

\* The account gets another server or password.
ChangeCredentials ==
    /\ credentials < MaxCredentials
    /\ credentials' = credentials + 1
    /\ UNCHANGED <<call, syncQueue, pathQueue, permitQueue, pool, reapers, incompatible, made>>

-----------------------------------------------------------------------------
(* Specification *)

Proceed(t) ==
    \/ LockSync(t) \/ LockPaths(t) \/ CheckoutSyncSessions(t)
    \/ \E healthy \in BOOLEAN : Noop(t, healthy)
    \/ Acquire(t) \/ ConnectSession(t) \/ Fail(t) \/ Finish(t) \/ StoreSyncSessions(t)
    \/ Incompatible(t) \/ SelectiveFetchUnsupported(t)

Request(t) ==
    \/ Synchronize(t) \/ SynchronizeMailbox(t) \/ FetchMessageBody(t)
    \/ FetchMessage(t) \/ ApplyMailboxOperation(t)

Reap(s) == IdleTtlElapses(s) \/ CloseIdleSessions(s)

Next ==
    \/ \E t \in Tasks : Proceed(t) \/ Request(t)
    \/ \E s \in Stamps : Reap(s)
    \/ ChangeCredentials

\* The tasks are polled and network I/O ends in an answer or a timeout
\* (timeout.rs).  Nothing is assumed of the user and of the reapers' sleep.
Fairness == \A t \in Tasks : WF_vars(Proceed(t))

Spec == Init /\ [][Next]_vars
FairSpec == Spec /\ Fairness

-----------------------------------------------------------------------------
(* Properties *)

\* Every open session has its permit, kept ones included (SessionBudgetRegistry:
\* "Permits cover open connections, including idle reusable sync sessions"), and
\* synchronizations with the sessions kept for them never take more than their share: a
\* slot remains for interactive calls (the comment in synchronize).
InteractiveSlotRemains ==
    /\ OpenSessions <= PermitsInUse /\ PermitsInUse <= AccountSessionLimit
    /\ \A t, u \in Tasks :
        (call[t].kind = "synchronize" /\ call[u].kind = "synchronize")
        => /\ call[t].permits + pool.permits <= SyncSessionCount
           /\ t # u => call[t].permits = 0 \/ call[u].permits = 0

\* While a folder is created, renamed or deleted no other call uses a path
\* (MailboxPathLockRegistry), sessions left over from before it included.
FolderChangesAreAlone ==
    \A t, u \in Tasks :
        (call[t].at = "work" /\ ChangesPaths(t) /\ u # t) => call[u].sessions = 0

\* No call works on a session that was opened with settings other than the ones
\* the call was made with, although sessions are kept from one call to the next.
SessionsFitAccount ==
    \A t \in Tasks : call[t].sessions > 0 => call[t].with = call[t].account

\* Kept sessions end in the hands of a synchronization, which takes or drops them, or
\* after their own idle time: the reaper of an earlier pool never closes them.
ReapersSpareYoungPools ==
    [][pool # NoPool /\ pool' = NoPool /\ (\A t \in Tasks : call'[t] = call[t])
       => reapers[pool.stamp] = "due"]_vars

\* Every call returns: nobody waits for ever for a lock or a permit that another
\* waiter holds.
EveryCallReturns == \A t \in Tasks : call[t].at # "idle" ~> call[t].at = "idle"

=============================================================================
