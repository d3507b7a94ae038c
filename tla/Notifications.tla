--------------------------- MODULE Notifications ---------------------------
(* New-mail notifications: the queue of notification windows that           *)
(* NotificationRuntime owns (src-tauri/src/notification_runtime.rs), their  *)
(* timers, and the targets of system notifications                          *)
(* (src-tauri/src/system_notifications.rs).                                 *)
(*                                                                          *)
(* The queue is behind one lock. Windows are created and destroyed after    *)
(* the lock is released, by the thread that changed the queue: the loops of *)
(* different accounts, timers, commands of windows and of the settings run  *)
(* in between. A window is named by the generation its notification was     *)
(* first presented with (the code's random id); a target by its token.      *)
EXTENDS Naturals, FiniteSets, Sequences, SequencesExt

CONSTANTS Account,      \* accounts whose synchronization presents batches
          MaxVisible,   \* notifications stacked at most
          TargetLimit,  \* targets of system notifications kept at most
          MaxPresented, \* bound: notifications presented in a behaviour
          MaxChanges    \* bound: changes of the preferences

Modes == {"off", "stack", "replace", "system"}

VARIABLES display,    \* the notification preferences in force
          owners,     \* accounts configured
          active,     \* the queue: <<[id, account, generation]>>, oldest first
          generation, \* the last generation given out
          windows,    \* ids of the notification windows that exist
          timers,     \* timers running: {[id, generation]}
          batches,    \* per account: the batch its loop is presenting
          leaving,    \* ids removed from the queue, the window not destroyed yet
          targets,    \* <<[token, account]>>, oldest first
          banners,    \* tokens of the system notifications on screen
          changes
vars == <<display, owners, active, generation, windows, timers, batches, leaving,
              targets, banners, changes>>

Idle == [step |-> "idle"]
Note == [id : 1..MaxPresented, account : Account, generation : 1..MaxPresented]
Timer == [id : 1..MaxPresented, generation : 1..MaxPresented]
TypeOK ==
    /\ display \in Modes
    /\ owners \subseteq Account
    /\ active \in Seq(Note)
    /\ generation \in 0..MaxPresented
    /\ windows \subseteq 1..MaxPresented
    /\ timers \subseteq Timer
    /\ \A a \in Account :
         \/ batches[a] = Idle
         \/ /\ batches[a].step = "read"
            /\ batches[a].mode \in Modes \ {"off"}
            /\ batches[a].size \in 1..MaxVisible
         \/ /\ batches[a].step = "lay_out"
            /\ batches[a].evicted \subseteq 1..MaxPresented
            /\ batches[a].results \in Seq(Timer)
    /\ leaving \subseteq 1..MaxPresented
    /\ targets \in Seq([token : 1..MaxPresented, account : Account])
    /\ banners \subseteq 1..MaxPresented
    /\ changes \in 0..MaxChanges

Init ==
    /\ display \in {"stack", "replace", "system"} /\ owners = Account
    /\ active = <<>> /\ generation = 0
    /\ windows = {} /\ timers = {} /\ leaving = {}
    /\ batches = [a \in Account |-> Idle]
    /\ targets = <<>> /\ banners = {}
    /\ changes = 0

Ids(queue) == {queue[i].id : i \in DOMAIN queue}
Entries == {active[i] : i \in DOMAIN active}

-----------------------------------------------------------------------------
(* Presenting a batch.                                                      *)

\* eligible_new_mail_candidates: none when notifications are off; preferences of accounts
\* and folders make a batch smaller, or empty.
Eligible == display # "off"

\* limit_notification_batch: the newest, as many as can be seen.
Limit(mode) == IF mode = "replace" THEN 1 ELSE MaxVisible

\* A round of an account ended with new mail: the preferences and the account are read,
\* and the batch is clipped to what they allow to be seen.
ReadBatch(a) ==
    /\ batches[a] = Idle /\ a \in owners /\ Eligible
    /\ \E n \in 1..Limit(display) :
         /\ generation + n <= MaxPresented
         /\ batches' = [batches EXCEPT ![a] = [step |-> "read", mode |-> display, size |-> n]]
    /\ UNCHANGED <<display, owners, active, generation, windows, timers, leaving, targets,
                   banners, changes>>

\* One notification enters the queue. In replace mode it takes over the id, and so the
\* window, of the newest one and evicts the others.
Present(s, a, mode) ==
    LET g == s.generation + 1
        replaces == mode = "replace" /\ s.queue # <<>>
        id == IF replaces THEN Last(s.queue).id ELSE g
        entry == [id |-> id, account |-> a, generation |-> g]
        queue == IF replaces THEN <<entry>> ELSE Append(s.queue, entry)
        over == IF Len(queue) > MaxVisible THEN Len(queue) - MaxVisible ELSE 0
        kept == SubSeq(queue, over + 1, Len(queue))
    IN  [queue |-> kept, generation |-> g,
         evicted |-> s.evicted \cup ((Ids(s.queue) \cup {id}) \ Ids(kept)),
         results |-> Append(s.results, [id |-> id, generation |-> g])]

\* All of the batch, under one lock.
PresentBatch(a) ==
    /\ batches[a].step = "read" /\ batches[a].mode # "system"
    /\ generation + batches[a].size <= MaxPresented
    /\ LET start == [queue |-> active, generation |-> generation, evicted |-> {}, results |-> <<>>]
           after == FoldLeft(LAMBDA s, b : Present(s, b, batches[a].mode), start,
                             [i \in 1..batches[a].size |-> a])
       IN  /\ active' = after.queue
           /\ generation' = after.generation
           /\ batches' = [batches EXCEPT ![a] = [step |-> "lay_out", evicted |-> after.evicted,
                                                 results |-> after.results]]
    /\ UNCHANGED <<display, owners, windows, timers, leaving, targets, banners, changes>>

\* The windows of what the batch evicted are destroyed, when they exist.
DestroyEvicted(a) ==
    /\ batches[a].step = "lay_out" /\ batches[a].evicted # {}
    /\ windows' = windows \ batches[a].evicted
    /\ batches' = [batches EXCEPT ![a].evicted = {}]
    /\ UNCHANGED <<display, owners, active, generation, timers, leaving, targets, banners, changes>>

Without(queue, ids) == SelectSeq(queue, LAMBDA e : e.id \notin ids)

\* A window that is there is used again.
ensure_window(id) == windows' = windows \cup {id}

\* The next window is created, or found, and its timer started; a window that cannot be
\* created takes its notification along, whatever that shows by now.
EnsureWindow(a) ==
    /\ batches[a].step = "lay_out" /\ batches[a].evicted = {} /\ batches[a].results # <<>>
    /\ LET result == Head(batches[a].results)
       IN  \/ /\ ensure_window(result.id)
              /\ timers' = timers \cup {result}
              /\ active' = active
           \/ /\ result.id \notin windows
              /\ active' = Without(active, {result.id})
              /\ UNCHANGED <<windows, timers>>
    /\ batches' = [batches EXCEPT ![a].results = Tail(@)]
    /\ UNCHANGED <<display, owners, generation, leaving, targets, banners, changes>>

EndBatch(a) ==
    /\ batches[a].step = "lay_out" /\ batches[a].evicted = {} /\ batches[a].results = <<>>
    /\ batches' = [batches EXCEPT ![a] = Idle]
    /\ UNCHANGED <<display, owners, active, generation, windows, timers, leaving, targets,
                   banners, changes>>

\* Preferences for system notifications: one banner for the batch. Its token is kept
\* beside the account, the oldest tokens go, and a banner that cannot be shown takes
\* its token back.
PresentSystem(a) ==
    /\ batches[a].step = "read" /\ batches[a].mode = "system" /\ generation < MaxPresented
    /\ generation' = generation + 1
    /\ LET all == Append(targets, [token |-> generation + 1, account |-> a])
           kept == IF Len(all) > TargetLimit THEN Tail(all) ELSE all
       IN  \/ targets' = kept /\ banners' = banners \cup {generation + 1}
           \/ targets' = SelectSeq(kept, LAMBDA t : t.token # generation + 1)
              /\ UNCHANGED banners
    /\ batches' = [batches EXCEPT ![a] = Idle]
    /\ UNCHANGED <<display, owners, active, windows, timers, leaving, changes>>

-----------------------------------------------------------------------------
(* The end of a notification.                                               *)

\* A timer closes what its window shows.
DueByWindow(e, t) == e.id = t.id

\* The time of a notification is over. A timer whose generation is not shown any more
\* ends without a trace.
Due(e, t) == e.id = t.id /\ e.generation = t.generation
Expire ==
    \E t \in timers :
        /\ timers' = timers \ {t}
        /\ active' = SelectSeq(active, LAMBDA e : ~Due(e, t))
        /\ leaving' = leaving \cup {e.id : e \in {x \in Entries : Due(x, t)}}
        /\ UNCHANGED <<display, owners, generation, windows, batches, targets, banners, changes>>

\* The user dismisses or opens the notification of a window.
TakeForWindow ==
    \E id \in windows \cap Ids(active) :
        /\ active' = Without(active, {id})
        /\ leaving' = leaving \cup {id}
        /\ UNCHANGED <<display, owners, generation, windows, timers, batches, targets, banners, changes>>

\* New preferences: nothing that was shown under the old ones stays.
PreferencesChanged ==
    \E mode \in Modes :
        /\ changes < MaxChanges /\ changes' = changes + 1
        /\ display' = mode
        /\ active' = <<>> /\ targets' = <<>>
        /\ leaving' = leaving \cup Ids(active)
        /\ UNCHANGED <<owners, generation, windows, timers, batches, banners>>

RemoveAccount(a) ==
    /\ a \in owners
    /\ owners' = owners \ {a}
    /\ active' = SelectSeq(active, LAMBDA e : e.account # a)
    /\ targets' = SelectSeq(targets, LAMBDA t : t.account # a)
    /\ leaving' = leaving \cup {e.id : e \in {x \in Entries : x.account = a}}
    /\ UNCHANGED <<display, generation, windows, timers, batches, banners, changes>>

\* Who removed an entry destroys its window, when there is one.
DestroyWindow ==
    \E id \in leaving :
        /\ leaving' = leaving \ {id}
        /\ windows' = windows \ {id}
        /\ UNCHANGED <<display, owners, active, generation, timers, batches, targets, banners, changes>>

\* A click on a banner takes its token: a second one leads nowhere.
Activate ==
    \E token \in banners :
        /\ targets' = SelectSeq(targets, LAMBDA t : t.token # token)
        /\ UNCHANGED <<display, owners, active, generation, windows, timers, batches, leaving,
                       banners, changes>>

\* A target lives for a day.
PruneTargets ==
    /\ targets # <<>>
    /\ targets' = Tail(targets)
    /\ UNCHANGED <<display, owners, active, generation, windows, timers, batches, leaving,
                   banners, changes>>

Next ==
    \/ \E a \in Account : \/ ReadBatch(a) \/ PresentBatch(a) \/ DestroyEvicted(a)
                          \/ EnsureWindow(a) \/ EndBatch(a) \/ PresentSystem(a)
                          \/ RemoveAccount(a)
    \/ Expire \/ TakeForWindow \/ PreferencesChanged \/ DestroyWindow \/ Activate
    \/ PruneTargets

Spec == Init /\ [][Next]_vars

-----------------------------------------------------------------------------
(* Properties                                                               *)

\* What is in the queue is on screen and will go away: an entry has its window and the
\* running timer of its own generation, unless the batch that presented it is still
\* at work on it.
QueueIsShownAndTimed ==
    \A e \in Entries :
        LET timer == [id |-> e.id, generation |-> e.generation]
        IN  \/ e.id \in windows /\ timer \in timers
            \/ \E a \in Account : batches[a].step = "lay_out" /\ timer \in ToSet(batches[a].results)

\* A timer removes what it was started for and nothing else: content that replaced a
\* notification in its window is shown for a time of its own (docs/adr/0012: a timer of
\* an old generation cannot close new content).
EndsItsOwn ==
    \A t \in timers \ timers' : \A e \in Entries \ Entries' : e.generation = t.generation

TimersSpareNewContent == [][EndsItsOwn]_vars

\* When everything has settled, each notification window shows an entry of the queue;
\* any other is never closed (docs/adr/0012: the runtime owns the life of the windows).
NoWindowIsLeft ==
    (timers = {} /\ leaving = {} /\ \A a \in Account : batches[a] = Idle)
        => windows \subseteq Ids(active)
=============================================================================
