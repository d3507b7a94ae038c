---------------------------- MODULE MessageList ----------------------------
(* The message list of the selected mailbox: the pages the main window has  *)
(* loaded, the fetches that read them from the database by a cursor         *)
(* (src-tauri/src/storage/message_read_repository.rs), and the runtime      *)
(* events that refresh them and merge single arrivals into them             *)
(* (src/features/mail/hooks/useMailRuntimeEvents.ts, MessageListPane.tsx).  *)
(*                                                                          *)
(* A message is its place in the order of the list (date, then id): the     *)
(* larger, the newer. A page of PageSize messages stands for one of fifty.  *)
(* The query cache is an external library, modelled from how it is used: a  *)
(* query has one fetch at a time; a refetch reads every loaded page again,  *)
(* from the first; fetching the next page keeps the pages it started from.  *)
EXTENDS Naturals, FiniteSets, Sequences, SequencesExt, FiniteSetsExt

CONSTANTS Latest,      \* bound: messages are 1..Latest
          PageSize,    \* messages of a page
          QueueLimit,  \* arrivals buffered at most
          MaxRounds,   \* bound: rounds of synchronization that change something
          MaxActions   \* bound: messages the user removes, pages asked for

Place == 1..Latest
None == 0

VARIABLES rows,      \* messages the database shows for the mailbox
          deleted,   \* messages that were there
          rounds, actions,
          syncing,   \* a round has changed the mailbox and not announced it yet
          wire,      \* events on their way to the window, in order
          arrived,   \* messages buffered for the next frames
          overflow,  \* more arrived than the buffer holds
          pages,     \* the pages in the cache: <<[items, next]>>; none before the first load
          fetch,     \* the fetch of the query
          refresh,   \* the refresh queue of the mailbox: [dirty, running]
          missed     \* since the last refetch began, a refresh was not given a fetch of
                     \* its own, or an arrival was merged after its message was removed
                     \* (history)
vars == <<rows, deleted, rounds, actions, syncing, wire, arrived, overflow, pages, fetch,
          refresh, missed>>

Page == [items : Seq(Place), next : Place \cup {None}]
NoFetch == [kind |-> "none"]
Event == {[kind |-> "mailbox-changed"]} \cup [kind : {"message-arrived"}, item : Place]
TypeOK ==
    /\ rows \subseteq Place /\ deleted \subseteq Place \ rows
    /\ rounds \in 0..MaxRounds /\ actions \in 0..MaxActions
    /\ syncing \in BOOLEAN /\ overflow \in BOOLEAN /\ missed \in BOOLEAN
    /\ wire \in Seq(Event)
    /\ arrived \in Seq(Place) /\ Len(arrived) <= QueueLimit
    /\ pages \in Seq(Page)
    /\ \/ fetch = NoFetch
       \/ /\ fetch.kind \in {"all", "next"}
          /\ fetch.base \in Seq(Page) /\ fetch.got \in Seq(Page)
          /\ fetch.from \in Place \cup {None}
          /\ fetch.answer \in Seq(Page) /\ Len(fetch.answer) <= 1
    /\ refresh \in [dirty : BOOLEAN, running : BOOLEAN]

NewFetch(kind, base, from) ==
    [kind |-> kind, base |-> base, got |-> <<>>, from |-> from, answer |-> <<>>]

Init ==
    /\ \E n \in 0..Latest : rows = 1..n
    /\ deleted = {} /\ rounds = 0 /\ actions = 0 /\ syncing = FALSE
    /\ wire = <<>> /\ arrived = <<>> /\ overflow = FALSE
    /\ pages = <<>> /\ fetch = NewFetch("all", <<>>, None)
    /\ refresh = [dirty |-> FALSE, running |-> FALSE] /\ missed = FALSE

-----------------------------------------------------------------------------
(* The database.                                                            *)

Newest(S) == SetToSortSeq(S, LAMBDA x, y : x > y)

\* The rows below the cursor, newest first; one more than the page holds is read to know
\* whether there is a next page, whose cursor is the last row of this one.
ListMessages(cursor) ==
    LET below == Newest({m \in rows : cursor = None \/ m < cursor})
        items == SubSeq(below, 1, IF Len(below) > PageSize THEN PageSize ELSE Len(below))
    IN  [items |-> items, next |-> IF Len(below) > PageSize THEN Last(items) ELSE None]

\* A round of synchronization stores a message and announces it.
SyncStores ==
    /\ rounds < MaxRounds
    /\ \E m \in Place \ (rows \cup deleted) :
         /\ rows' = rows \cup {m}
         /\ wire' = Append(wire, [kind |-> "message-arrived", item |-> m])
    /\ syncing' = TRUE
    /\ UNCHANGED <<deleted, rounds, actions, arrived, overflow, pages, fetch, refresh, missed>>

\* Its last step removes what the server no longer has.
SyncRemoves ==
    /\ rounds < MaxRounds
    /\ \E m \in rows : rows' = rows \ {m} /\ deleted' = deleted \cup {m}
    /\ syncing' = TRUE
    /\ UNCHANGED <<rounds, actions, wire, arrived, overflow, pages, fetch, refresh, missed>>

\* The end of the mailbox's round.
NotifyMailbox ==
    /\ syncing /\ syncing' = FALSE /\ rounds' = rounds + 1
    /\ wire' = Append(wire, [kind |-> "mailbox-changed"])
    /\ UNCHANGED <<rows, deleted, actions, arrived, overflow, pages, fetch, refresh, missed>>

-----------------------------------------------------------------------------
(* The fetch of the query.                                                  *)

\* What asks for the list again: a fetch of all pages, or, when one is in flight and may
\* not be cancelled, whatever that brings.
Refetch(cancel) ==
    IF fetch = NoFetch \/ (cancel /\ pages # <<>>)
    THEN fetch' = NewFetch("all", pages, None) /\ missed' = FALSE
    ELSE UNCHANGED fetch /\ missed' = TRUE

\* The database answers; later changes are not in the answer.
ReadPage ==
    /\ fetch # NoFetch /\ fetch.answer = <<>>
    /\ fetch' = [fetch EXCEPT !.answer = <<ListMessages(fetch.from)>>]
    /\ UNCHANGED <<rows, deleted, rounds, actions, syncing, wire, arrived, overflow, pages,
                   refresh, missed>>

\* The end of a refresh forgets that another one was requested meanwhile.
TakePageAndForget ==
    /\ fetch # NoFetch /\ fetch.answer # <<>>
    /\ LET got == fetch.got \o fetch.answer
           next == Last(got).next
           more == fetch.kind = "all" /\ Len(got) < Len(fetch.base) /\ next # None
       IN  IF more
           THEN /\ fetch' = [fetch EXCEPT !.got = got, !.from = next, !.answer = <<>>]
                /\ UNCHANGED <<pages, refresh>>
           ELSE /\ pages' = IF fetch.kind = "next" THEN fetch.base \o got ELSE got
                /\ refresh' = [dirty |-> FALSE, running |-> FALSE]
                /\ fetch' = NoFetch
    /\ UNCHANGED <<rows, deleted, rounds, actions, syncing, wire, arrived, overflow, missed>>

\* The window takes the answer. After the last page the cache is replaced, and a refresh
\* that was requested meanwhile starts at once.
TakePage ==
    /\ fetch # NoFetch /\ fetch.answer # <<>>
    /\ LET got == fetch.got \o fetch.answer
           next == Last(got).next
           more == fetch.kind = "all" /\ Len(got) < Len(fetch.base) /\ next # None
       IN  \/ /\ more
              /\ fetch' = [fetch EXCEPT !.got = got, !.from = next, !.answer = <<>>]
              /\ UNCHANGED <<pages, refresh, missed>>
           \/ /\ ~more
              /\ pages' = IF fetch.kind = "next" THEN fetch.base \o got ELSE got
              /\ refresh' = [dirty |-> FALSE, running |-> refresh.dirty]
              /\ IF refresh.dirty
                 THEN fetch' = NewFetch("all", pages', None) /\ missed' = FALSE
                 ELSE fetch' = NoFetch /\ UNCHANGED missed
    /\ UNCHANGED <<rows, deleted, rounds, actions, syncing, wire, arrived, overflow>>

\* The user scrolls to the end of the list: a refetch under way is given up for the page.
FetchNextPage ==
    /\ pages # <<>> /\ Last(pages).next # None /\ actions < MaxActions
    /\ fetch.kind # "next"
    /\ fetch' = NewFetch("next", pages, Last(pages).next)
    /\ missed' = (missed \/ fetch # NoFetch)
    /\ actions' = actions + 1
    /\ UNCHANGED <<rows, deleted, rounds, syncing, wire, arrived, overflow, pages, refresh>>

\* The user moves or deletes a message: it is hidden at once, the mailbox is announced,
\* and the window that asked for it invalidates its lists.
RemoveMessage ==
    /\ actions < MaxActions /\ pages # <<>> /\ actions' = actions + 1
    /\ \E m \in rows : rows' = rows \ {m} /\ deleted' = deleted \cup {m}
    /\ wire' = Append(wire, [kind |-> "mailbox-changed"])
    /\ Refetch(TRUE)
    /\ UNCHANGED <<rounds, syncing, arrived, overflow, pages, refresh>>

-----------------------------------------------------------------------------
(* Events.                                                                  *)

\* mailbox-changed: a refresh runs now or, while one runs, after it.
OnMailboxChanged ==
    /\ wire # <<>> /\ Head(wire).kind = "mailbox-changed"
    /\ wire' = Tail(wire)
    /\ IF refresh.running
       THEN refresh' = [refresh EXCEPT !.dirty = TRUE] /\ UNCHANGED <<fetch, missed>>
       ELSE refresh' = [dirty |-> FALSE, running |-> TRUE] /\ Refetch(FALSE)
    /\ UNCHANGED <<rows, deleted, rounds, actions, syncing, arrived, overflow, pages>>

\* The buffer has no limit.
OnMessageArrivedAlways ==
    /\ wire # <<>> /\ Head(wire).kind = "message-arrived"
    /\ wire' = Tail(wire)
    /\ arrived' = Append(arrived, Head(wire).item)
    /\ UNCHANGED <<rows, deleted, rounds, actions, syncing, overflow, pages, fetch, refresh, missed>>

\* message-arrived: buffered, or counted as too many.
OnMessageArrived ==
    /\ wire # <<>> /\ Head(wire).kind = "message-arrived"
    /\ wire' = Tail(wire)
    /\ IF overflow THEN UNCHANGED <<arrived, overflow>>
       ELSE IF Len(arrived) = QueueLimit THEN arrived' = <<>> /\ overflow' = TRUE
       ELSE arrived' = Append(arrived, Head(wire).item) /\ UNCHANGED overflow
    /\ UNCHANGED <<rows, deleted, rounds, actions, syncing, pages, fetch, refresh, missed>>

\* One arrival enters the first page at its place, unless it belongs below the page; what
\* the page cannot hold is left to the next one.
ApplyArrived(data, m) ==
    IF data = <<>> \/ m \in ToSet(data[1].items) THEN data
    ELSE LET first == data[1]
             newer == {i \in DOMAIN first.items : first.items[i] > m}
             items == InsertAt(first.items, Cardinality(newer) + 1, m)
             kept == SubSeq(items, 1, PageSize)
         IN  IF Cardinality(newer) >= PageSize /\ first.next # None THEN data
             ELSE IF Len(items) <= PageSize THEN [data EXCEPT ![1].items = items]
             ELSE [data EXCEPT ![1] = [items |-> kept, next |-> Last(kept)]]

\* A frame: one arrival is merged, or the list read again after an overflow.
FlushArrived ==
    /\ arrived # <<>> \/ overflow
    /\ IF overflow
       THEN /\ overflow' = FALSE /\ arrived' = <<>> /\ Refetch(FALSE)
            /\ UNCHANGED pages
       ELSE /\ pages' = ApplyArrived(pages, Head(arrived)) /\ arrived' = Tail(arrived)
            /\ missed' = (missed \/ Head(arrived) \notin rows)
            /\ UNCHANGED <<overflow, fetch>>
    /\ UNCHANGED <<rows, deleted, rounds, actions, syncing, wire, refresh>>

Next ==
    \/ SyncStores \/ SyncRemoves \/ NotifyMailbox
    \/ ReadPage \/ TakePage \/ FetchNextPage \/ RemoveMessage
    \/ OnMailboxChanged \/ OnMessageArrived \/ FlushArrived

Spec == Init /\ [][Next]_vars

-----------------------------------------------------------------------------
(* Properties                                                               *)

Shown == FlattenSeq([i \in DOMAIN pages |-> pages[i].items])

\* Whatever is merged while pages are loaded and read again, the list shows no message
\* twice and keeps its order.
ListIsOrdered == \A i \in DOMAIN Shown : \A j \in 1..i-1 : Shown[j] > Shown[i]

Settled == /\ ~syncing /\ wire = <<>> /\ arrived = <<>> /\ ~overflow /\ fetch = NoFetch

Exact ==
    LET below == Newest(rows)
    IN  /\ IsPrefix(Shown, below)
        /\ Last(pages).next = IF Len(Shown) < Len(below) THEN Last(Shown) ELSE None

\* When nothing is under way any more, the list is the newest part of the database and
\* its cursor leads to the rest, unless the last request to refresh had to do with a
\* fetch that was under way or an arrival outlived its message: whatever the order of
\* stored messages, events, merges, pages and refetches, a refresh leaves it exact.
RefreshedListIsExact == Settled /\ ~missed => Exact
=============================================================================
