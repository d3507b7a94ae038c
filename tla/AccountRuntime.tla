--------------------------- MODULE AccountRuntime ---------------------------
(***************************************************************************)
(* The supervisor of one account: its synchronization loop and its loop    *)
(* over pending operations, the permits of the network they share with     *)
(* other accounts, and the commands, the sender and the demo that stop,    *)
(* replace or wake it (mail_runtime.rs, mail_runtime/operations.rs,        *)
(* commands/accounts.rs).                                                  *)
(*                                                                         *)
(* What runs between two awaits is one step.  A supervisor leaves the      *)
(* registry and is marked stopped in one such step, so that "stopped" and  *)
(* "not current" are the same here.  What a round does over the network is *)
(* MailSync, what an operation does is PendingOperations: here a round     *)
(* ends well, with an authentication error or with another error.          *)
(***************************************************************************)
EXTENDS Integers, Sequences, FiniteSets, SequencesExt

CONSTANTS
    MaxGeneration,   \* bound: supervisors created
    MaxVersion,      \* bound: versions of the account's configuration
    MaxCommands,     \* bound: commands on the account
    MaxEvents,       \* bound: wishes of the user, deliveries, refused passwords
    NetworkLimit,    \* permits of network_limit that other accounts leave free
    LateReports      \* a sender may report what it met with a replaced password

ASSUME RuntimeAssumption ==
    /\ MaxGeneration \in Nat \ {0} /\ MaxVersion \in Nat \ {0} /\ MaxCommands \in Nat /\ MaxEvents \in Nat
    /\ NetworkLimit \in 1 .. 2
    /\ LateReports \in BOOLEAN

VARIABLES
    configured,    \* the account is in accounts.json
    version,       \* version of its servers and password
    accepted,      \* versions the servers let in
    interval,      \* sync_interval: "manual" or "periodic"
    started,       \* MailRuntime.started
    demo,          \* AppState.demo
    current,       \* the generation in the registry; 0: none
    supervisors,   \* per generation, its flags and where its loops are
    state,         \* runtime_states
    waiting,       \* first come, first served, for network_limit
    operation,     \* an operation of the account in the durable queue
    command,       \* commands on the account in progress
    sender,        \* version a running delivery has read; 0: none
    spent,         \* of the two bounds
    tried          \* history: versions a synchronization logged in with

vars == <<configured, version, accepted, interval, started, demo, current,
          supervisors, state, waiting, operation, command, sender, spent,
          tried>>

account == <<configured, version, accepted>>
outside == <<interval, started, demo, command, sender, spent>>

-----------------------------------------------------------------------------
(* State *)

Generation == 1 .. MaxGeneration
Version == 1 .. MaxVersion

State == {"starting", "ready", "syncing", "retrying", "offline", "reauth_required",
          "removing", "stopped"}

\* Where a loop is suspended; "parked" is notified().await, "waiting" that or a timer.
SyncPlace == {"none", "spawned", "parked", "interval", "waiting", "queued", "opening",
              "login", "ended"}
OpsPlace == {"none", "spawned", "parked", "queued", "claim", "apply", "ended"}

AccountSupervisor ==
    [sync : SyncPlace, syncWith : 0 .. MaxVersion, sync_wake : BOOLEAN,
     ops : OpsPlace, operations_wake : BOOLEAN,
     manual_sync_requested : BOOLEAN, pending_operations_requested : BOOLEAN,
     startup_sync_attempted : BOOLEAN, every : {"manual", "periodic"}]

NoSupervisor ==
    [sync |-> "none", syncWith |-> 0, sync_wake |-> FALSE,
     ops |-> "none", operations_wake |-> FALSE,
     manual_sync_requested |-> FALSE, pending_operations_requested |-> FALSE,
     startup_sync_attempted |-> FALSE, every |-> "manual"]

\* AccountSupervisor::new, with both of its loops spawned.
NewSupervisor ==
    [NoSupervisor EXCEPT !.sync = "spawned", !.ops = "spawned",
                         !.pending_operations_requested = TRUE]

TypeOK ==
    /\ configured \in BOOLEAN /\ version \in Version /\ accepted \subseteq Version
    /\ interval \in {"manual", "periodic"}
    /\ started \in BOOLEAN /\ demo \in BOOLEAN
    /\ current \in 0 .. MaxGeneration
    /\ supervisors \in [Generation -> AccountSupervisor]
    /\ state \in State
    /\ waiting \in Seq(Generation \X {"sync", "ops"})
    /\ operation \in {"none", "queued", "running", "retry_wait"}
    /\ command \in [update : {"idle", "saved"}, add : {"idle", "saved"},
                    remove : {"idle", "begun", "checked", "removed"}]
    /\ sender \in 0 .. MaxVersion
    /\ spent \in [commands : 0 .. MaxCommands, events : 0 .. MaxEvents]
    /\ tried \subseteq Version

Init ==
    /\ configured \in BOOLEAN
    /\ version = 1 /\ accepted = {1}
    /\ interval = "periodic"
    /\ started = FALSE /\ demo = FALSE
    /\ current = 0
    /\ supervisors = [g \in Generation |-> NoSupervisor]
    /\ state = "stopped"
    /\ waiting = <<>>
    /\ operation \in {"none", "queued"}
    /\ command = [update |-> "idle", add |-> "idle", remove |-> "idle"]
    /\ sender = 0 /\ spent = [commands |-> 0, events |-> 0] /\ tried = {}

is_current_supervisor(g) == current = g

\* Permits of this account's loops.
AtNetwork(g) ==
    (IF supervisors[g].sync \in {"opening", "login"} THEN 1 ELSE 0)
    + (IF supervisors[g].ops \in {"claim", "apply"} THEN 1 ELSE 0)
Held == FoldFunction(LAMBDA g, n : n + AtNetwork(g), 0, [g \in Generation |-> g])

Born == {g \in Generation : supervisors[g].sync # "none"}
Idle == command = [update |-> "idle", add |-> "idle", remove |-> "idle"]

-----------------------------------------------------------------------------
(* The registry *)

\* notify_waiters reaches a loop that waits now; notify_one leaves a permit as well.
\* A supervisor out of the registry is not found by notify_one again, and its loops
\* end before they look at what was requested.
Woken(s) ==
    [s EXCEPT !.sync_wake = @ \/ s.sync \in {"parked", "waiting"},
              !.operations_wake = @ \/ s.ops = "parked",
              !.manual_sync_requested = FALSE, !.pending_operations_requested = FALSE]

\* stop_account, from the supervisors and the state of "from".
StopAccount(from, to) ==
    /\ current' = 0
    /\ supervisors' = [g \in Generation |-> IF g = current THEN Woken(from[g]) ELSE from[g]]
    /\ state' = to

\* stop_account, when asked for, then ensure_supervisor.
Supervise(stopped, there, on) ==
    LET left == IF stopped THEN 0 ELSE current
        base == [g \in Generation |->
                    IF stopped /\ g = current THEN Woken(supervisors[g]) ELSE supervisors[g]]
        next == Cardinality(Born) + 1
    IN  IF demo \/ left # 0 \/ ~there \/ ~on
        THEN /\ current' = left
             /\ supervisors' = base
             /\ state' = IF stopped THEN "stopped" ELSE state
        ELSE /\ next \in Generation
             /\ current' = next
             /\ supervisors' = [base EXCEPT ![next] = NewSupervisor]
             /\ state' = "starting"

restart_account == Supervise(TRUE, configured, started)

\* An account that is not configured any more is stopped; the others get a supervisor.
reconcile_accounts == Supervise(~configured /\ current # 0, configured, started)

\* A drain is requested of a loop that is not woken.
RequestedInSilence(sups) ==
    IF current = 0 THEN sups
    ELSE [sups EXCEPT ![current].pending_operations_requested = TRUE]

\* request_pending_operations, on the supervisor in the registry.
Requested(sups) ==
    IF current = 0 THEN sups
    ELSE [sups EXCEPT ![current].pending_operations_requested = TRUE,
                      ![current].operations_wake = TRUE]

-----------------------------------------------------------------------------
(* supervisor_loop *)

\* A loop keeps what it read only while it needs it.
SyncAt(g, place) == supervisors[g].sync = place

\* A loop that ends is of no interest any more.
SyncEnds(sups, g) ==
    [sups EXCEPT ![g].sync = "ended", ![g].sync_wake = FALSE, ![g].syncWith = 0]

\* run_sync up to network_limit.acquire.
EnterSync(g, sups) ==
    /\ supervisors' = [sups EXCEPT ![g].sync = "queued"]
    /\ waiting' = Append(waiting, <<g, "sync">>)

\* An iteration of the loop up to its first await, with the flags and the state as the
\* step before left them: the account gone, parked after an authentication error, the
\* startup sync, or the interval to be read before the wait.
Iterate(g, sups, now) ==
    \/ /\ ~is_current_supervisor(g)
       /\ supervisors' = SyncEnds(sups, g)
       /\ state' = now /\ UNCHANGED <<current, waiting>>
    \/ /\ is_current_supervisor(g) /\ ~configured
       /\ StopAccount(SyncEnds(sups, g), "stopped")
       /\ UNCHANGED waiting
    \/ /\ is_current_supervisor(g) /\ configured /\ now = "reauth_required"
       /\ supervisors' = [sups EXCEPT ![g].sync = "parked"]
       /\ state' = now /\ UNCHANGED <<current, waiting>>
    \/ /\ is_current_supervisor(g) /\ configured /\ now # "reauth_required"
       /\ ~sups[g].startup_sync_attempted
       /\ EnterSync(g, sups)
       /\ state' = now /\ UNCHANGED current
    \/ /\ is_current_supervisor(g) /\ configured /\ now # "reauth_required"
       /\ sups[g].startup_sync_attempted
       /\ supervisors' = [sups EXCEPT ![g].sync = "interval"]
       /\ state' = now /\ UNCHANGED <<current, waiting>>

\* The task starts, or notified().await after an authentication error returns.
LoopStarts(g) ==
    /\ \/ SyncAt(g, "spawned")
       \/ SyncAt(g, "parked") /\ supervisors[g].sync_wake
    /\ Iterate(g, [supervisors EXCEPT ![g].sync_wake = @ /\ SyncAt(g, "spawned")], state)
    /\ UNCHANGED <<account, outside, operation, tried>>

\* The interval is in: the wait begins, though the supervisor may be stopped by now.
ReadInterval(g) ==
    /\ SyncAt(g, "interval")
    /\ supervisors' = [supervisors EXCEPT ![g].sync = "waiting", ![g].every = interval]
    /\ UNCHANGED <<account, outside, current, state, waiting, operation, tried>>

\* wait_for_supervisor, with the interval it was called with; a wake and the timer may be
\* due together.
wait_for_supervisor(s, wake) ==
    IF wake = "requested" THEN s.sync_wake ELSE s.every = "periodic"

WaitEnds(g, wake) ==
    LET s == supervisors[g]
        sups == [supervisors EXCEPT ![g].sync_wake = @ /\ wake # "requested",
                                    ![g].manual_sync_requested = FALSE,
                                    ![g].every = "manual"]
        should_sync == s.manual_sync_requested \/ wake = "periodic"
    IN  /\ SyncAt(g, "waiting")
        /\ wait_for_supervisor(s, wake)
        /\ \/ /\ is_current_supervisor(g) /\ should_sync
              /\ EnterSync(g, sups)
              /\ UNCHANGED <<current, state>>
           \/ /\ ~(is_current_supervisor(g) /\ should_sync)
              /\ Iterate(g, sups, state)
        /\ UNCHANGED <<account, outside, operation, tried>>

\* run_sync returned in the registry's generation: requests made meanwhile are
\* forgotten after the startup sync, a drain is requested, and the loop goes on.
AfterSync(g) ==
    [Requested(supervisors) EXCEPT
        ![g].manual_sync_requested = @ /\ supervisors[g].startup_sync_attempted,
        ![g].startup_sync_attempted = TRUE, ![g].syncWith = 0]

\* The end of run_sync: a result of an old generation is dropped.
Conclude(g, result) ==
    \/ is_current_supervisor(g) /\ Iterate(g, AfterSync(g), result)
    \/ ~is_current_supervisor(g) /\ Iterate(g, supervisors, state)

\* A permit of the network is granted; the account is looked up again.
SyncGranted(g) ==
    /\ waiting # <<>> /\ Head(waiting) = <<g, "sync">>
    /\ Held < NetworkLimit
    /\ \/ /\ configured
          /\ waiting' = Tail(waiting)
          /\ supervisors' = [supervisors EXCEPT ![g].sync = "opening"]
          /\ UNCHANGED <<current, state>>
       \/ /\ ~configured
          /\ waiting' = Tail(waiting)
          /\ IF is_current_supervisor(g)
             THEN StopAccount(SyncEnds(supervisors, g), "stopped")
             ELSE supervisors' = SyncEnds(supervisors, g) /\ UNCHANGED <<current, state>>
    /\ UNCHANGED <<account, outside, operation, tried>>

\* The version of a login is not recorded.
LoginIsNotRecorded(g) ==
    /\ SyncAt(g, "opening") /\ configured
    /\ state' = "syncing"
    /\ supervisors' = [supervisors EXCEPT ![g].sync = "login"]
    /\ UNCHANGED <<current, waiting, account, outside, operation, tried>>

\* The database answered: whatever happened to the supervisor meanwhile, the state of
\* the account is set, and a login with its present version begins.
StartSyncing(g) ==
    /\ SyncAt(g, "opening")
    /\ \/ /\ configured
          /\ state' = "syncing"
          /\ supervisors' = [supervisors EXCEPT ![g].sync = "login", ![g].syncWith = version]
          /\ UNCHANGED <<current, waiting>>
       \/ /\ ~configured
          /\ Conclude(g, "offline")
    /\ UNCHANGED <<account, outside, operation, tried>>

\* handle_runtime_error: only a refused password, or one that cannot be read, parks the
\* loop.  Errors that are worth a retry and others are the same here.
handle_runtime_error(authentication) ==
    IF authentication THEN "reauth_required" ELSE "offline"

\* What a login with version v, and the work after it, can come to.  The password of a
\* replaced version is deleted: it cannot be read.
Answers(v) ==
    {handle_runtime_error(FALSE),
     IF v \in accepted /\ v = version /\ configured THEN "ready" ELSE handle_runtime_error(TRUE)}

\* synchronize returns.
SyncReturns(g, result) ==
    /\ SyncAt(g, "login") /\ result \in Answers(supervisors[g].syncWith)
    /\ tried' = tried \cup {supervisors[g].syncWith}
    /\ Conclude(g, result)
    /\ UNCHANGED <<account, outside, operation>>

-----------------------------------------------------------------------------
(* pending_operations_loop *)

OpsAt(g, place) == supervisors[g].ops = place
opsUnchanged == <<account, outside, current, state, tried>>

\* An iteration up to its first wait: a drain begins when one was requested.  That its
\* imap_config fails, because the password is being replaced, is left out: the drain
\* ends with its supervisor.
OpsIterate(g, sups) ==
    \/ /\ ~is_current_supervisor(g) \/ ~configured
       /\ supervisors' = [sups EXCEPT ![g].ops = "ended", ![g].operations_wake = FALSE]
       /\ UNCHANGED waiting
    \/ /\ is_current_supervisor(g) /\ configured
       /\ state = "reauth_required" \/ ~sups[g].pending_operations_requested
       /\ supervisors' = [sups EXCEPT ![g].ops = "parked"]
       /\ UNCHANGED waiting
    \/ /\ is_current_supervisor(g) /\ configured
       /\ state # "reauth_required" /\ sups[g].pending_operations_requested
       /\ supervisors' = [sups EXCEPT ![g].ops = "queued", ![g].pending_operations_requested = FALSE]
       /\ waiting' = Append(waiting, <<g, "ops">>)

\* The task starts, or notified().await returns.
OpsStarts(g) ==
    /\ OpsAt(g, "spawned") \/ (OpsAt(g, "parked") /\ supervisors[g].operations_wake)
    /\ OpsIterate(g, [supervisors EXCEPT ![g].operations_wake = @ /\ OpsAt(g, "spawned")])
    /\ UNCHANGED <<opsUnchanged, operation>>

OpsGranted(g) ==
    /\ waiting # <<>> /\ Head(waiting) = <<g, "ops">>
    /\ Held < NetworkLimit
    /\ waiting' = Tail(waiting)
    /\ supervisors' = [supervisors EXCEPT ![g].ops = "claim"]
    /\ UNCHANGED <<opsUnchanged, operation>>

\* claim_pending_operation; an old generation leaves what it claimed "running".
ClaimOperation(g) ==
    /\ OpsAt(g, "claim")
    /\ \/ /\ operation \in {"queued", "retry_wait"} /\ is_current_supervisor(g)
          /\ operation' = "running"
          /\ supervisors' = [supervisors EXCEPT ![g].ops = "apply"]
          /\ UNCHANGED waiting
       \/ /\ operation \in {"queued", "retry_wait"} /\ ~is_current_supervisor(g)
          /\ operation' = "running"
          /\ OpsIterate(g, supervisors)
       \/ /\ operation \in {"none", "running"}
          /\ OpsIterate(g, supervisors)
          /\ UNCHANGED operation
    /\ UNCHANGED opsUnchanged

\* The operation succeeded or failed for good, and the next one is claimed; or it
\* will be retried, and the drain ends.
OperationReturns(g, retry) ==
    /\ OpsAt(g, "apply")
    /\ \/ /\ retry /\ operation' = "retry_wait"
          /\ OpsIterate(g, supervisors)
       \/ /\ ~retry /\ operation' = "none"
          /\ supervisors' = [supervisors EXCEPT ![g].ops = "claim"]
          /\ UNCHANGED waiting
    /\ UNCHANGED opsUnchanged

-----------------------------------------------------------------------------
(* Commands, the sender, other accounts, the demo *)

Begin == spent.commands < MaxCommands /\ spent' = [spent EXCEPT !.commands = @ + 1]
Happens == spent.events < MaxEvents /\ spent' = [spent EXCEPT !.events = @ + 1]
runtimeUnchanged == <<current, supervisors, state>>

\* start_background_services.
Start ==
    /\ ~started /\ ~demo
    /\ started' = TRUE
    /\ Supervise(FALSE, configured, TRUE)
    /\ UNCHANGED <<account, interval, demo, waiting, operation, command, sender,
                   spent, tried>>

\* add_password_account has stored the account, under an identifier never used before;
\* reconcile_accounts follows.
AddAccount ==
    /\ Begin
    /\ ~configured /\ Born = {} /\ Idle
    /\ configured' = TRUE /\ accepted' = {version}
    /\ command' = [command EXCEPT !.add = "saved"]
    /\ UNCHANGED <<version, interval, started, demo, runtimeUnchanged, waiting,
                   operation, sender, tried>>

AddReconciles ==
    /\ command.add = "saved"
    /\ command' = [command EXCEPT !.add = "idle"]
    /\ reconcile_accounts
    /\ UNCHANGED <<account, interval, started, demo, waiting, operation, sender,
                   spent, tried>>

\* update_password_account and reauthenticate_password_account tested the new
\* version, stored it and deleted the password of the old one.
UpdateAccount ==
    /\ Begin
    /\ command.update = "idle" /\ configured /\ version < MaxVersion
    /\ version' = version + 1 /\ accepted' = {version + 1}
    /\ command' = [command EXCEPT !.update = "saved"]
    /\ UNCHANGED <<configured, interval, started, demo, runtimeUnchanged, waiting,
                   operation, sender, tried>>

\* An update only makes sure that there is a supervisor.
UpdateReconciles ==
    /\ command.update = "saved"
    /\ command' = [command EXCEPT !.update = "idle"]
    /\ reconcile_accounts
    /\ UNCHANGED <<account, interval, started, demo, waiting, operation, sender, spent, tried>>

UpdateRestarts ==
    /\ command.update = "saved"
    /\ command' = [command EXCEPT !.update = "idle"]
    /\ restart_account
    /\ UNCHANGED <<account, interval, started, demo, waiting, operation, sender,
                   spent, tried>>

\* begin_remove_account.
BeginRemove ==
    /\ Begin
    /\ command.remove = "idle" /\ configured
    /\ command' = [command EXCEPT !.remove = "begun"]
    /\ StopAccount(supervisors, "removing")
    /\ UNCHANGED <<account, interval, started, demo, waiting, operation, sender, tried>>

\* get_account_removal_impact lets the removal go on.
RemovalAllowed ==
    /\ command.remove = "begun" /\ operation = "none" /\ sender = 0
    /\ command' = [command EXCEPT !.remove = "checked"]
    /\ UNCHANGED <<account, interval, started, demo, runtimeUnchanged, waiting,
                   operation, sender, spent, tried>>

\* A failed removal leaves the account as it is.
RemovalIsForgotten ==
    /\ command.remove \in {"begun", "checked"}
    /\ command' = [command EXCEPT !.remove = "idle"]
    /\ UNCHANGED <<account, interval, started, demo, runtimeUnchanged, waiting, operation,
                   sender, spent, tried>>

\* Work is left, or a step of the removal failed: the account is restarted.
RemovalFails ==
    /\ command.remove \in {"begun", "checked"}
    /\ command' = [command EXCEPT !.remove = "idle"]
    /\ restart_account
    /\ UNCHANGED <<account, interval, started, demo, waiting, operation, sender,
                   spent, tried>>

\* remove_account of the service, then reconcile_accounts.
RemoveAccount ==
    /\ \/ /\ command.remove = "checked"
          /\ command' = [command EXCEPT !.remove = "removed"]
          /\ configured' = FALSE
          /\ UNCHANGED runtimeUnchanged
       \/ /\ command.remove = "removed"
          /\ command' = [command EXCEPT !.remove = "idle"]
          /\ UNCHANGED configured
          /\ reconcile_accounts
    /\ UNCHANGED <<version, accepted, interval, started, demo, waiting, operation,
                   sender, spent, tried>>

\* A command on another account reconciles all of them.
OtherReconciles ==
    /\ reconcile_accounts
    /\ UNCHANGED <<account, outside, waiting, operation, tried>>

\* sync_now.
SyncNow ==
    /\ Happens
    /\ configured /\ state \notin {"removing", "syncing"} /\ current # 0
    /\ supervisors' = [supervisors EXCEPT ![current].manual_sync_requested = TRUE,
                                          ![current].sync_wake = TRUE]
    /\ UNCHANGED <<account, interval, started, demo, current, state, waiting,
                   operation, command, sender, tried>>

\* A new interval is stored without a word to the loop.
SetIntervalSilently ==
    /\ Happens
    /\ configured /\ state # "removing"
    /\ interval' \in {"manual", "periodic"} \ {interval}
    /\ UNCHANGED <<account, started, demo, runtimeUnchanged, waiting, operation, command,
                   sender, tried>>

\* set_account_sync_interval, which also wakes the loop.
SetSyncInterval ==
    /\ Happens
    /\ configured /\ state # "removing"
    /\ interval' \in {"manual", "periodic"} \ {interval}
    /\ supervisors' = IF current = 0 THEN supervisors
                      ELSE [supervisors EXCEPT ![current].sync_wake = TRUE]
    /\ UNCHANGED <<account, started, demo, current, state, waiting, operation,
                   command, sender, tried>>

\* An operation of the user is stored and the drain requested.
QueueOperation ==
    /\ Happens
    /\ configured /\ state # "removing" /\ operation = "none"
    /\ operation' = "queued"
    /\ supervisors' = Requested(supervisors)
    /\ UNCHANGED <<account, interval, started, demo, current, state, waiting,
                   command, sender, tried>>

\* deliver reads the account and its password.
SenderStarts ==
    /\ Happens
    /\ configured /\ sender = 0
    /\ sender' = version
    /\ UNCHANGED <<account, interval, started, demo, runtimeUnchanged, waiting,
                   operation, command, tried>>

\* The delivery ends: the copy for the Sent mailbox is queued, or its error becomes
\* the state of the account (report_account_error_by_slot).
SenderReports ==
    /\ sender # 0
    /\ LateReports \/ sender = version \/ sender \in accepted
    /\ sender' = 0
    /\ \/ /\ sender \in accepted
          /\ operation' = IF operation = "none" THEN "queued" ELSE operation
          /\ supervisors' = IF configured THEN Requested(supervisors) ELSE supervisors
          /\ UNCHANGED state
       \/ /\ configured
          /\ state' = "retrying"
          /\ UNCHANGED <<operation, supervisors>>
       \/ /\ configured /\ sender \notin accepted
          /\ state' = "reauth_required"
          /\ supervisors' = IF current = 0 THEN supervisors
                            ELSE [supervisors EXCEPT ![current].sync_wake = TRUE,
                                                     ![current].operations_wake = TRUE]
          /\ UNCHANGED operation
       \/ /\ ~configured
          /\ UNCHANGED <<state, operation, supervisors>>
    /\ UNCHANGED <<account, interval, started, demo, current, waiting, command,
                   spent, tried>>

\* The servers stop accepting the password.
ServerRefuses ==
    /\ Happens
    /\ accepted # {} /\ accepted' = {}
    /\ UNCHANGED <<configured, version, interval, started, demo, runtimeUnchanged, waiting,
                   operation, command, sender, tried>>

\* enter_demo_mode, for the rest of the process.
EnterDemo ==
    /\ ~demo
    /\ demo' = TRUE /\ started' = FALSE
    /\ IF current = 0 THEN UNCHANGED runtimeUnchanged
       ELSE StopAccount(supervisors, "stopped")
    /\ UNCHANGED <<account, interval, waiting, operation, command, sender, spent,
                   tried>>

-----------------------------------------------------------------------------

SyncLoop(g) ==
    \/ LoopStarts(g) \/ ReadInterval(g)
    \/ \E wake \in {"requested", "periodic"} : WaitEnds(g, wake)
    \/ SyncGranted(g) \/ StartSyncing(g)
    \/ \E result \in State : SyncReturns(g, result)

OpsLoop(g) ==
    \/ OpsStarts(g) \/ OpsGranted(g) \/ ClaimOperation(g)
    \/ \E retry \in BOOLEAN : OperationReturns(g, retry)

Commands ==
    \/ AddReconciles \/ UpdateRestarts \/ RemovalAllowed \/ RemovalFails \/ RemoveAccount

Next ==
    \/ \E g \in Generation : SyncLoop(g) \/ OpsLoop(g)
    \/ Start \/ AddAccount \/ UpdateAccount \/ BeginRemove \/ Commands
    \/ OtherReconciles \/ SyncNow \/ SetSyncInterval \/ QueueOperation
    \/ SenderStarts \/ SenderReports \/ ServerRefuses
    \/ EnterDemo

Spec == Init /\ [][Next]_vars

-----------------------------------------------------------------------------
(* Properties *)

\* While no command is under way, a configured account has its supervisor, whatever
\* removal failed, update restarted or loop gave up before.
ConfiguredIsSupervised ==
    started /\ configured /\ Idle => current # 0

\* A loop waits by the interval in force, or has a wake waiting for it: a change of
\* the interval is never slept through.
ScheduleIsFollowed ==
    \A g \in Generation :
        is_current_supervisor(g) /\ SyncAt(g, "waiting")
        => supervisors[g].every = interval \/ supervisors[g].sync_wake

\* The loop rests only when the account's present configuration was tried, or is
\* refused by the servers, as a delivery may find out before the first login: whatever
\* loop of an older one was under way when it was stored, a login with it follows.
ConfigurationIsTried ==
    \A g \in Generation :
        /\ is_current_supervisor(g) /\ Idle
        /\ SyncAt(g, "parked") \/ SyncAt(g, "interval") \/ SyncAt(g, "waiting")
        => version \in tried \/ version \notin accepted

\* The loop over operations rests beside a queued one only when the servers refuse the
\* account: a request is never lost between two drains.
OperationsAreTaken ==
    \A g \in Generation :
        /\ is_current_supervisor(g) /\ OpsAt(g, "parked") /\ ~supervisors[g].operations_wake
        /\ operation = "queued" /\ Idle
        => version \notin accepted

\* What a replaced supervisor still does leaves the state of the account alone.
LateStateIsDropped ==
    [][\A g \in Generation :
         ~is_current_supervisor(g) /\ supervisors'[g].sync # supervisors[g].sync
         /\ current' = current => state' = state]_vars

=============================================================================
