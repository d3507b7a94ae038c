------------------------------ MODULE Contacts ------------------------------
(***************************************************************************)
(* The contacts of one account: discovered from the addresses of messages  *)
(* as synchronization stores them, filled in for older messages by a       *)
(* back-fill that runs in batches beside it, and edited, grouped and       *)
(* deleted by the user from views that may be out of date                  *)
(* (contact_repository.rs, contact_group_repository.rs, mail_runtime.rs).  *)
(*                                                                         *)
(* Every repository call is one transaction, except the back-fill, which   *)
(* reads its batch before the transaction that writes it.  Rows of         *)
(* messages are never deleted while their account exists.                  *)
(***************************************************************************)
EXTENDS Naturals, FiniteSets, FiniteSetsExt

CONSTANTS
    Address,         \* normalized addresses
    ContactName,     \* names a user may give
    GroupName,       \* normalized names of groups
    Editor,          \* dialogs open at the same time
    OldMessages,     \* messages stored before contacts existed
    BatchSize,       \* CONTACT_BACKFILL_BATCH_SIZE
    MaxMessages,     \* bound: messages stored
    MaxContacts,     \* bound: contacts ever created
    MaxGroups,       \* bound: groups ever created
    MaxSaves         \* bound: revision at which nothing is edited any more

VARIABLES
    messages,        \* the addresses of each message, by rowid
    contacts,        \* rows of contacts
    message_contacts,\* pairs of a rowid of messages and an id of contacts
    groups,          \* rows of contact_groups with their members
    backfill,        \* contact_backfill_state, and the task that runs
    editors,         \* what each dialog has read
    ids,             \* ids of contacts and of groups used so far
    forgotten        \* history: links that went with the contact the user deleted

vars == <<messages, contacts, message_contacts, groups, backfill, editors, ids, forgotten>>

Row == 1 .. MaxMessages
Closed == [kind |-> "closed"]

Contact == [id : 1 .. MaxContacts, email : Address, name : ContactName \cup {"header"},
            revision : 1 .. MaxSaves]
Group == [id : 1 .. MaxGroups, name : GroupName, members : SUBSET (1 .. MaxContacts),
          revision : 1 .. MaxSaves]

TypeOK ==
    /\ messages \in UNION {[1 .. n -> SUBSET Address] : n \in 0 .. MaxMessages}
    /\ contacts \subseteq Contact /\ groups \subseteq Group
    /\ message_contacts \subseteq Row \X (1 .. MaxContacts)
    /\ backfill \in [at : {"idle", "read", "write"}, last : 0 .. MaxMessages,
                     completed : BOOLEAN, batch : SUBSET Row]
    /\ \A e \in Editor : editors[e] = Closed \/ editors[e].seen \in Contact \cup Group
    /\ ids \in [contacts : 0 .. MaxContacts, groups : 0 .. MaxGroups]
    /\ forgotten \subseteq Row \X Address

Init ==
    /\ messages \in [1 .. OldMessages -> SUBSET Address]
    /\ contacts = {} /\ message_contacts = {} /\ groups = {} /\ forgotten = {}
    /\ backfill = [at |-> "idle", last |-> 0, completed |-> FALSE, batch |-> {}]
    /\ editors = [e \in Editor |-> Closed]
    /\ ids = [contacts |-> 0, groups |-> 0]

Rows == DOMAIN messages
Emails == {c.email : c \in contacts}
LiveIds == {c.id : c \in contacts}
IdOf(rows, email) == (CHOOSE c \in rows : c.email = email).id

\* upsert_contact_candidates: a contact for every address that has none, and a link
\* for every address of the messages.  A contact that exists keeps its name.
Upsert(rows) ==
    LET missing == (UNION {messages'[m] : m \in rows}) \ Emails IN
    /\ ids.contacts + Cardinality(missing) <= MaxContacts
    /\ \E number \in {f \in [missing -> 1 .. Cardinality(missing)] :
                        \A a, b \in missing : f[a] = f[b] => a = b} :
         LET new == {[id |-> ids.contacts + number[a], email |-> a, name |-> "header",
                      revision |-> 1] : a \in missing}
         IN  /\ contacts' = contacts \cup new
             /\ message_contacts' = message_contacts \cup
                    UNION {{<<m, IdOf(contacts', a)>> : a \in messages'[m]} : m \in rows}
    /\ ids' = [ids EXCEPT !.contacts = @ + Cardinality(missing)]

-----------------------------------------------------------------------------
(* Synchronization and the back-fill *)

\* upsert_message: a new row, or the row of a message it meets again.
StoreMessage ==
    /\ \/ \E addresses \in SUBSET Address :
            /\ Cardinality(Rows) < MaxMessages
            /\ messages' = [m \in 1 .. Cardinality(Rows) + 1 |->
                               IF m \in Rows THEN messages[m] ELSE addresses]
            /\ Upsert({Cardinality(Rows) + 1})
       \/ \E m \in Rows : UNCHANGED messages /\ Upsert({m})
    /\ UNCHANGED <<groups, backfill, editors, forgotten>>

\* start_contact_backfill, whenever the account's supervisor starts: one at a time.
StartBackfill ==
    /\ backfill.at = "idle" /\ backfill' = [backfill EXCEPT !.at = "read"]
    /\ UNCHANGED <<messages, contacts, message_contacts, groups, editors, ids, forgotten>>

\* The place is moved with the read.
ReadBatchAndGo ==
    /\ backfill.at = "read"
    /\ LET rows == {m \in Rows : m > backfill.last /\ m <= backfill.last + BatchSize}
       IN  backfill' = IF backfill.completed THEN [backfill EXCEPT !.at = "idle"]
                       ELSE [backfill EXCEPT !.at = "write", !.batch = rows,
                                             !.last = Max(rows \cup {@})]
    /\ UNCHANGED <<messages, contacts, message_contacts, groups, editors, ids, forgotten>>

\* backfill_next_batch reads where it is and the next rows ...
ReadBatch ==
    /\ backfill.at = "read"
    /\ LET rows == {m \in Rows : m > backfill.last /\ m <= backfill.last + BatchSize}
       IN  backfill' = IF backfill.completed THEN [backfill EXCEPT !.at = "idle"]
                       ELSE [backfill EXCEPT !.at = "write", !.batch = rows]
    /\ UNCHANGED <<messages, contacts, message_contacts, groups, editors, ids, forgotten>>

\* ... and writes their contacts and its place in one transaction.
WriteBatch ==
    /\ backfill.at = "write" /\ UNCHANGED messages
    /\ Upsert(backfill.batch)
    /\ LET complete == Cardinality(backfill.batch) < BatchSize
       IN  backfill' = [at |-> IF complete THEN "idle" ELSE "read",
                        last |-> Max(backfill.batch \cup {backfill.last}),
                        completed |-> complete, batch |-> {}]
    /\ UNCHANGED <<groups, editors, forgotten>>

\* A call fails, or the process ends: the next start goes on from the stored place.
StopBackfill ==
    /\ backfill.at # "idle" /\ backfill' = [backfill EXCEPT !.at = "idle", !.batch = {}]
    /\ UNCHANGED <<messages, contacts, message_contacts, groups, editors, ids, forgotten>>

-----------------------------------------------------------------------------
(* The user *)

\* get_contact_summary or get_contact_group, into a dialog.
Open(e) ==
    /\ editors[e] = Closed
    /\ \E row \in contacts \cup groups :
         /\ row.revision < MaxSaves
         /\ editors' = [editors EXCEPT ![e] =
                          [kind |-> IF row \in contacts THEN "contact" ELSE "group",
                           seen |-> row]]
    /\ UNCHANGED <<messages, contacts, message_contacts, groups, backfill, ids, forgotten>>

Close(e) == editors' = [editors EXCEPT ![e] = Closed]

create_contact(email, name) ==
    /\ email \notin Emails /\ ids.contacts < MaxContacts     \* contact.already_exists
    /\ contacts' = contacts \cup {[id |-> ids.contacts + 1, email |-> email, name |-> name,
                                   revision |-> 1]}
    /\ ids' = [ids EXCEPT !.contacts = @ + 1]
    /\ UNCHANGED <<messages, message_contacts, groups, backfill, editors, forgotten>>

\* A dialog is closed, or refused: a contact or a group that is gone is not_found, one
\* with another revision than the dialog has read a conflict.  Nothing is written then.
Current(e) ==
    editors[e].seen.revision \in
        {r.revision : r \in {r \in contacts \cup groups : r.id = editors[e].seen.id
                                 /\ (r \in contacts <=> editors[e].kind = "contact")}}

Dismiss(e) ==
    /\ editors[e] # Closed /\ Close(e)
    /\ UNCHANGED <<messages, contacts, message_contacts, groups, backfill, ids, forgotten>>

update_contact_name(e, name) ==
    /\ editors[e].kind = "contact" /\ Current(e)
    /\ contacts' = {IF c.id = editors[e].seen.id
                    THEN [c EXCEPT !.name = name, !.revision = @ + 1] ELSE c : c \in contacts}
    /\ Close(e)
    /\ UNCHANGED <<messages, message_contacts, groups, backfill, ids, forgotten>>

\* delete_contacts: all of them or none; links and memberships go with them.
delete_contacts(chosen) ==
    /\ chosen # {} /\ chosen \subseteq LiveIds
    /\ contacts' = {c \in contacts : c.id \notin chosen}
    /\ message_contacts' = {l \in message_contacts : l[2] \notin chosen}
    /\ groups' = {[g EXCEPT !.members = @ \ chosen] : g \in groups}
    /\ forgotten' = forgotten \cup
         {<<l[1], c.email>> : l \in {k \in message_contacts : k[2] \in chosen},
                              c \in {k \in contacts : k.id \in chosen}}
    /\ UNCHANGED <<messages, backfill, editors, ids>>

\* save_contact_group without an id.
create_contact_group(name, members) ==
    /\ ids.groups < MaxGroups /\ \A g \in groups : g.name # name
    /\ members \subseteq LiveIds                     \* contact_group.member_unavailable
    /\ groups' = groups \cup {[id |-> ids.groups + 1, name |-> name, members |-> members,
                               revision |-> 1]}
    /\ ids' = [ids EXCEPT !.groups = @ + 1]
    /\ UNCHANGED <<messages, contacts, message_contacts, backfill, editors, forgotten>>

\* save_contact_group: the revision, the name and every member are checked, then all
\* of the members are replaced; or nothing is.
save_contact_group(e, name, members) ==
    /\ editors[e].kind = "group" /\ Current(e) /\ members \subseteq LiveIds
    /\ \A g \in groups : g.name = name => g.id = editors[e].seen.id
    /\ groups' = {IF g.id = editors[e].seen.id
                  THEN [g EXCEPT !.name = name, !.members = members, !.revision = @ + 1]
                  ELSE g : g \in groups}
    /\ Close(e)
    /\ UNCHANGED <<messages, contacts, message_contacts, backfill, ids, forgotten>>

delete_contact_group(e) ==
    /\ editors[e].kind = "group" /\ Current(e)
    /\ groups' = {g \in groups : g.id # editors[e].seen.id}
    /\ Close(e)
    /\ UNCHANGED <<messages, contacts, message_contacts, backfill, ids, forgotten>>

Next ==
    \/ StoreMessage \/ StartBackfill \/ ReadBatch \/ WriteBatch \/ StopBackfill
    \/ \E email \in Address, name \in ContactName : create_contact(email, name)
    \/ \E chosen \in SUBSET LiveIds : delete_contacts(chosen)
    \/ \E name \in GroupName, members \in SUBSET LiveIds : create_contact_group(name, members)
    \/ \E e \in Editor :
         \/ Open(e) \/ Dismiss(e) \/ delete_contact_group(e)
         \/ \E name \in ContactName : update_contact_name(e, name)
         \/ \E name \in GroupName, members \in SUBSET LiveIds :
              save_contact_group(e, name, members)

Spec == Init /\ [][Next]_vars

-----------------------------------------------------------------------------
(* Properties *)

\* The back-fill misses nothing (docs/iterations/0025-contacts.md: resumable): an
\* address of a stored message is linked to its contact unless the user deleted that
\* contact since, or the message is old and a later batch will still read it.
BackfillMissesNothing ==
    \A m \in Rows : \A a \in messages[m] :
        \/ \E c \in contacts : c.email = a /\ <<m, c.id>> \in message_contacts
        \/ <<m, a>> \in forgotten
        \/ m <= OldMessages /\ m > backfill.last /\ ~backfill.completed

\* What the user wrote is replaced only by a save that had read it: neither a message
\* with another name in its header, nor the back-fill, nor a dialog that was open
\* while another one saved changes the name of a contact, or the name and the members
\* of a group.  Members a deletion took away since are not missed.
SavedBy(e, kind, row) ==
    /\ editors[e].kind = kind /\ editors'[e] = Closed
    /\ editors[e].seen.id = row.id /\ editors[e].seen.name = row.name
    /\ kind = "group" => row.members = editors[e].seen.members \cap LiveIds

OnlyReadersReplace ==
    /\ \A c \in contacts : \A d \in contacts' :
         c.id = d.id /\ c.name # d.name => \E e \in Editor : SavedBy(e, "contact", c)
    /\ \A g \in groups : \A h \in groups' :
         g.id = h.id /\ (g.name # h.name \/ h.members # g.members \cap {c.id : c \in contacts'})
             => \E e \in Editor : SavedBy(e, "group", g)

StaleEditsAreRefused == [][OnlyReadersReplace]_vars

=============================================================================
