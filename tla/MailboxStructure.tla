--------------------------- MODULE MailboxStructure ---------------------------
(* The mailboxes of one account: their names on the server, the rows that   *)
(* stand for them in the database (keyed by an id of their own, because     *)
(* messages, operations and settings refer to it), the roles the user maps, *)
(* and what changes them: the folder commands, which change the server      *)
(* first and the database after (mail_runtime/operations.rs, MailboxReposi- *)
(* tory), synchronization, which only ever adds and refreshes rows          *)
(* (MessageSyncRepository), and other clients.                              *)
(*                                                                          *)
(* A name is the sequence of the parts between delimiters, so the check for *)
(* a prefix with a delimiter is one for a prefix of sequences. Every folder *)
(* has the delimiter. Display names are the decoded names and are left out, *)
(* and so are favourites, which one statement sets.                         *)
EXTENDS Naturals, Sequences, FiniteSets, SequencesExt

CONSTANTS
    Leaf,           \* the last parts of names of mailboxes
    Task,           \* commands that may run at the same time
    MaxRows,        \* bound: rows ever inserted
    MaxCommands,    \* bound: commands
    MaxEvents       \* bound: commands, rounds of synchronization, changes by other
                    \* clients and ends of the process, together

VARIABLES
    server,     \* the server's mailboxes: name -> role, whether it can be selected, unread
    mailboxes,  \* the rows: id -> name and what was last learned of it, place in the order
    overrides,  \* mailbox_role_overrides: the mailbox the user mapped to a role
    command,    \* what each task does, with the context it read before
    sync,       \* the round that runs: the LIST it got, in some order, and how far it is
    spent,      \* how often each bounded step has been taken
    overlapped  \* history: something came between the steps of a command

varsMailboxes == <<server, mailboxes, overrides, command, sync, spent, overlapped>>

None == "none"
NoRow == 0
NoOrder == 0
Inbox == <<"inbox">>
Path == {Inbox} \cup UNION {[1..n -> Leaf] : n \in {1, 2}}
Role == {"inbox", "trash", "archive", "other"}
Mappable == {"trash", "archive"}
Folder == [role : Role, selectable : BOOLEAN, unread : BOOLEAN]
Row == [name : Seq({"inbox"} \cup Leaf), role : Role, selectable : BOOLEAN, unread : BOOLEAN,
        order : 0..(2 * MaxRows)]
RowId == 1..MaxRows

Below(name, other) == IsPrefix(name, other)
\* The place of other when name and all below it have become to.
Moved(other, name, to) ==
    IF Below(name, other) THEN to \o SubSeq(other, Len(name) + 1, Len(other)) ELSE other
Idle == [at |-> "idle", kind |-> None, id |-> NoRow, name |-> <<>>, to |-> <<>>,
         role |-> None]
NoSync == [on |-> FALSE, listed |-> <<>>, ensure |-> <<>>, left |-> <<>>]
Named(name) == {i \in DOMAIN mailboxes : mailboxes[i].name = name}
\* The function f with one more argument.
Added(f, key, value) == [k \in DOMAIN f \cup {key} |-> IF k = key THEN value ELSE f[k]]
Spend(what) == spent' = [spent EXCEPT ![what] = @ + 1]
Event == spent.events < MaxEvents /\ Spend("events")
Command == spent.commands < MaxCommands /\ spent.events < MaxEvents
SpendCommand == spent' = [spent EXCEPT !.commands = @ + 1, !.events = @ + 1]

\* A row that a mailbox found by LIST, or created, gets.
NewRow(name, folder, order) ==
    [name |-> name, role |-> folder.role, selectable |-> folder.selectable,
     unread |-> folder.unread, order |-> order]
Insert(row) ==
    /\ spent.rows < MaxRows
    /\ mailboxes' = Added(mailboxes, spent.rows + 1, row)
    /\ Spend("rows")

\* Whether a task's command has changed the server and not yet the database, and
\* whether what it read before is no longer what is stored.
InFlight(t) ==
    command[t].at = "answered" /\ command[t].kind \in {"create", "rename", "delete"}
ContextIsOld(t) ==
    LET c == command[t] IN
    \/ c.id # NoRow /\ (c.id \notin DOMAIN mailboxes \/ mailboxes[c.id].name # c.name)
    \/ Len(c.to) = 2 /\ Named(Front(c.to)) = {}

-----------------------------------------------------------------------------
(* What the queries on roles answer                                         *)

\* mailbox_role_for_id: the mapped role, else the server's unless it is mapped elsewhere.
mailbox_role_for_id(i) ==
    IF \E r \in Mappable : overrides[r] = i
    THEN CHOOSE r \in Mappable : overrides[r] = i
    ELSE IF mailboxes[i].role \in Mappable /\ overrides[mailboxes[i].role] # NoRow
         THEN "other"
         ELSE mailboxes[i].role

\* mailbox_for_role: the mailboxes the query may answer with.
mailbox_for_role(r) ==
    LET Selectable == {i \in DOMAIN mailboxes : mailboxes[i].selectable}
        Mapped == {i \in Selectable : overrides[r] = i}
        Own == {i \in Selectable : /\ mailboxes[i].role = r
                                   /\ \A s \in Mappable : overrides[s] # i}
    IN IF Mapped # {} THEN Mapped ELSE Own

-----------------------------------------------------------------------------
(* Folder commands: the context is read, the server changed, the rows changed *)

Begin(t, c) ==
    /\ command[t].at = "idle" /\ Command
    /\ command' = [command EXCEPT ![t] = c]
    /\ SpendCommand
    /\ UNCHANGED <<server, mailboxes, overrides, sync, overlapped>>

create_mailbox(t) ==
    \E parent \in DOMAIN mailboxes \cup {NoRow}, leaf \in Leaf :
        LET to == IF parent = NoRow THEN <<leaf>> ELSE Append(mailboxes[parent].name, leaf)
        IN /\ to \in Path
           /\ Begin(t, [Idle EXCEPT !.at = "read", !.kind = "create", !.to = to])

rename_mailbox(t) ==
    \E i \in DOMAIN mailboxes, leaf \in Leaf :
        LET name == mailboxes[i].name
        IN /\ name # Inbox
           /\ Begin(t, [Idle EXCEPT !.at = "read", !.kind = "rename", !.id = i,
                                    !.name = name, !.to = Append(Front(name), leaf)])

move_mailbox(t) ==
    \E i \in DOMAIN mailboxes, parent \in DOMAIN mailboxes \cup {NoRow} :
        LET name == mailboxes[i].name
            into == IF parent = NoRow THEN <<>> ELSE mailboxes[parent].name
            to == Append(into, Last(name))
        IN /\ name # Inbox
           /\ ~Below(name, into)           \* mailbox.move_into_self
           /\ into # Front(name)           \* mailbox.same_parent
           /\ \A p \in DOMAIN server : Moved(p, name, to) \in Path    \* bound: depth 2
           /\ to \in Path
           /\ Begin(t, [Idle EXCEPT !.at = "read", !.kind = "rename", !.id = i,
                                    !.name = name, !.to = to])

delete_mailbox(t) ==
    \E i \in DOMAIN mailboxes :
        /\ mailboxes[i].name # Inbox
        /\ Begin(t, [Idle EXCEPT !.at = "read", !.kind = "delete", !.id = i,
                                 !.name = mailboxes[i].name])

mark_mailbox_all_read(t) ==
    \E i \in DOMAIN mailboxes :
        /\ mailboxes[i].selectable
        /\ Begin(t, [Idle EXCEPT !.at = "read", !.kind = "mark", !.id = i,
                                 !.name = mailboxes[i].name])

\* What the server does with a command. A name with others below it that is deleted
\* remains without being selectable.
Renamed(folders, name, to) ==
    [p \in {Moved(q, name, to) : q \in DOMAIN folders} |->
        folders[CHOOSE q \in DOMAIN folders : Moved(q, name, to) = p]]
Removed(folders, name) ==
    IF \E p \in DOMAIN folders : p # name /\ Below(name, p)
    THEN [folders EXCEPT ![name].selectable = FALSE]
    ELSE [p \in DOMAIN folders \ {name} |-> folders[p]]
PlainFolder == [role |-> "other", selectable |-> TRUE, unread |-> FALSE]

Accepted(c) ==
    CASE c.kind = "create" -> c.to \notin DOMAIN server
      [] c.kind = "rename" -> /\ c.name \in DOMAIN server /\ c.to \notin DOMAIN server
                              /\ \A p \in DOMAIN server :
                                    Below(c.name, p) => Moved(p, c.name, c.to) \in Path
      [] OTHER -> c.name \in DOMAIN server /\ server[c.name].selectable
Changed(c) ==
    CASE c.kind = "create" -> Added(server, c.to, PlainFolder)
      [] c.kind = "rename" -> Renamed(server, c.name, c.to)
      [] c.kind = "delete" -> Removed(server, c.name)
      [] OTHER -> [server EXCEPT ![c.name].unread = FALSE]

\* The exclusive path lock is held for the command only: a round of synchronization
\* holds it shared from its LIST to its end.
apply_mailbox_operation(t) ==
    /\ command[t].at = "read" /\ command[t].kind # "map" /\ ~sync.on
    /\ IF Accepted(command[t])
       THEN /\ server' = Changed(command[t])
            /\ command' = [command EXCEPT ![t].at = "answered"]
            /\ overlapped' = (overlapped \/ ContextIsOld(t)
                                         \/ \E u \in Task : u # t /\ InFlight(u))
       ELSE /\ command' = [command EXCEPT ![t] = Idle]
            /\ UNCHANGED <<server, overlapped>>
    /\ UNCHANGED <<mailboxes, overrides, sync, spent>>

Finish(t) ==
    /\ command' = [command EXCEPT ![t] = Idle]
    /\ UNCHANGED <<server, sync, overlapped>>

\* A new row is placed last when the user has ordered the mailboxes.
LastPlace ==
    LET places == {mailboxes[i].order : i \in DOMAIN mailboxes} \ {NoOrder}
    IN IF places = {} THEN NoOrder
       ELSE 1 + CHOOSE n \in places : \A m \in places : m <= n

insert_created_mailbox(t) ==
    /\ command[t].at = "answered" /\ command[t].kind = "create"
    /\ IF Named(command[t].to) = {}
       THEN Insert(NewRow(command[t].to, PlainFolder, LastPlace))
       ELSE UNCHANGED <<mailboxes, spent>>
    /\ Finish(t) /\ UNCHANGED overrides

\* Mutant: only the row of the mailbox itself gets its new name.
RenameOne(name, to, id) ==
    [i \in DOMAIN mailboxes |->
        IF i = id THEN [mailboxes[i] EXCEPT !.name = to] ELSE mailboxes[i]]

\* Name and all names below become the new ones, unless another row has one of them.
RenameRows(name, to, id) ==
    LET affected == {i \in DOMAIN mailboxes :
                        i = id \/ (mailboxes[i].name # name /\ Below(name, mailboxes[i].name))}
        New(i) == IF i = id THEN to ELSE Moved(mailboxes[i].name, name, to)
    IN IF \E i \in affected, j \in DOMAIN mailboxes \ affected : mailboxes[j].name = New(i)
       THEN mailboxes
       ELSE [i \in DOMAIN mailboxes |->
                IF i \in affected THEN [mailboxes[i] EXCEPT !.name = New(i)]
                                  ELSE mailboxes[i]]

rename_mailbox_tree(t) ==
    /\ command[t].at = "answered" /\ command[t].kind = "rename"
    /\ mailboxes' = RenameRows(command[t].name, command[t].to, command[t].id)
    /\ Finish(t) /\ UNCHANGED <<overrides, spent>>

\* The row goes, and with it the roles mapped to it; the rows below it stay.
delete_mailbox_row(t) ==
    /\ command[t].at = "answered" /\ command[t].kind = "delete"
    /\ mailboxes' = [i \in DOMAIN mailboxes \ {command[t].id} |-> mailboxes[i]]
    /\ overrides' = [r \in Mappable |->
                        IF overrides[r] = command[t].id THEN NoRow ELSE overrides[r]]
    /\ Finish(t) /\ UNCHANGED spent

mark_all_read(t) ==
    /\ command[t].at = "answered" /\ command[t].kind = "mark"
    /\ mailboxes' = [i \in DOMAIN mailboxes |->
                        IF i = command[t].id THEN [mailboxes[i] EXCEPT !.unread = FALSE]
                                             ELSE mailboxes[i]]
    /\ Finish(t) /\ UNCHANGED <<overrides, spent>>

\* The whole order is replaced; an order of other rows than there are is refused.
reorder ==
    /\ Command
    /\ \E f \in [DOMAIN mailboxes -> 1..Cardinality(DOMAIN mailboxes)] :
        /\ \A i, j \in DOMAIN mailboxes : f[i] = f[j] => i = j
        /\ mailboxes' = [i \in DOMAIN mailboxes |-> [mailboxes[i] EXCEPT !.order = f[i]]]
    /\ SpendCommand
    /\ UNCHANGED <<server, overrides, command, sync, overlapped>>

-----------------------------------------------------------------------------
(* set_mailbox_role_mapping: two statements, outside a transaction          *)

set_mailbox_role_mapping(t) ==
    \E r \in Mappable :
        \/ \E i \in DOMAIN mailboxes :
            /\ mailboxes[i].selectable
            /\ Begin(t, [Idle EXCEPT !.at = "read", !.kind = "map", !.id = i, !.role = r])
        \/ /\ Command
           /\ overrides' = [overrides EXCEPT ![r] = NoRow]
           /\ SpendCommand
           /\ UNCHANGED <<server, mailboxes, command, sync, overlapped>>

ClearOtherRoles(t) ==
    /\ command[t].at = "read" /\ command[t].kind = "map"
    /\ overrides' = [r \in Mappable |->
                        IF r # command[t].role /\ overrides[r] = command[t].id
                        THEN NoRow ELSE overrides[r]]
    /\ command' = [command EXCEPT ![t].at = "answered"]
    /\ UNCHANGED <<server, mailboxes, sync, spent, overlapped>>

\* The row must still exist, and no other role be mapped to it (foreign key, UNIQUE).
InsertRole(t) ==
    /\ command[t].at = "answered" /\ command[t].kind = "map"
    /\ LET id == command[t].id
           role == command[t].role
       IN overrides' = IF id \in DOMAIN mailboxes
                            /\ \A r \in Mappable \ {role} : overrides[r] # id
                       THEN [overrides EXCEPT ![role] = id]
                       ELSE overrides
    /\ Finish(t) /\ UNCHANGED <<mailboxes, spent>>

-----------------------------------------------------------------------------
(* Synchronization                                                          *)

sync_session ==
    /\ ~sync.on
    /\ LET names == SetToSeq(DOMAIN server)
       IN sync' = [on |-> TRUE, listed |-> server, ensure |-> names, left |-> names]
    /\ Event
    /\ UNCHANGED <<server, mailboxes, overrides, command, overlapped>>

\* precreate_folder_tree: a row for every folder that has none, before any is visited.
ensure_mailbox ==
    /\ sync.on /\ sync.ensure # <<>>
    /\ sync' = [sync EXCEPT !.ensure = Tail(@)]
    /\ LET p == Head(sync.ensure)
       IN IF Named(p) = {}
          THEN /\ Insert(NewRow(p, [sync.listed[p] EXCEPT !.unread = FALSE], NoOrder))
               /\ overlapped' = (overlapped \/ \E t \in Task : InFlight(t))
          ELSE UNCHANGED <<mailboxes, spent, overlapped>>
    /\ UNCHANGED <<server, overrides, command>>

\* The row of the folder, or a new one, takes what LIST and SELECT said of it.
Upsert(p, folder) ==
    IF Named(p) = {}
    THEN /\ Insert(NewRow(p, folder, NoOrder))
         /\ overlapped' = (overlapped \/ \E t \in Task : InFlight(t))
    ELSE /\ mailboxes' = [i \in DOMAIN mailboxes |->
                            IF i \in Named(p) THEN NewRow(p, folder, mailboxes[i].order)
                                              ELSE mailboxes[i]]
         /\ UNCHANGED <<spent, overlapped>>

\* The round goes on when the folder it opens is there, and ends when it is not.
upsert_mailbox ==
    /\ sync.on /\ sync.ensure = <<>>
    /\ LET p == Head(sync.left)
           listed == sync.listed[p]
           found == p \in DOMAIN server /\ server[p].selectable
       IN IF listed.selectable /\ ~found
          THEN /\ sync' = NoSync
               /\ UNCHANGED <<mailboxes, spent, overlapped>>
          ELSE /\ sync' = IF Len(sync.left) = 1 THEN NoSync
                          ELSE [sync EXCEPT !.left = Tail(@)]
               /\ Upsert(p, [listed EXCEPT !.unread = found /\ server[p].unread])
    /\ UNCHANGED <<server, overrides, command>>

SyncFails ==
    /\ sync.on /\ sync' = NoSync
    /\ UNCHANGED <<server, mailboxes, overrides, command, spent, overlapped>>

-----------------------------------------------------------------------------
(* Other clients, and the end of the process                                *)

OtherClient ==
    /\ \/ \E p \in Path \ DOMAIN server :
            /\ Len(p) = 2 => Front(p) \in DOMAIN server
            /\ server' = Added(server, p, PlainFolder)
       \/ \E p \in DOMAIN server \ {Inbox} : server' = Removed(server, p)
       \/ \E p \in DOMAIN server \ {Inbox}, to \in Path \ DOMAIN server :
            /\ Len(p) = Len(to) /\ Front(p) = Front(to)
            /\ server' = Renamed(server, p, to)
    /\ Event /\ overlapped' = TRUE
    /\ UNCHANGED <<mailboxes, overrides, command, sync>>

Restart ==
    /\ overlapped' = (overlapped \/ \E t \in Task : command[t].at = "answered")
    /\ command' = [t \in Task |-> Idle] /\ sync' = NoSync
    /\ Event
    /\ UNCHANGED <<server, mailboxes, overrides>>

-----------------------------------------------------------------------------

\* An account that was synchronized: an inbox with unread mail, and a folder with the
\* trash below it.
Init ==
    /\ \E l \in Leaf :
        server = [p \in {Inbox, <<l>>, <<l, l>>} |->
                     IF p = Inbox THEN [PlainFolder EXCEPT !.role = "inbox", !.unread = TRUE]
                     ELSE IF p = <<l>> THEN PlainFolder
                     ELSE [PlainFolder EXCEPT !.role = "trash"]]
    /\ LET names == SetToSeq(DOMAIN server)
       IN mailboxes = [i \in 1..3 |-> NewRow(names[i], server[names[i]], NoOrder)]
    /\ overrides = [r \in Mappable |-> NoRow]
    /\ command = [t \in Task |-> Idle]
    /\ sync = NoSync
    /\ spent = [rows |-> 3, commands |-> 0, events |-> 0]
    /\ overlapped = FALSE

CommandStep(t) ==
    \/ create_mailbox(t) \/ rename_mailbox(t) \/ move_mailbox(t) \/ delete_mailbox(t)
    \/ mark_mailbox_all_read(t) \/ set_mailbox_role_mapping(t)
    \/ apply_mailbox_operation(t)
    \/ insert_created_mailbox(t) \/ rename_mailbox_tree(t) \/ delete_mailbox_row(t)
    \/ mark_all_read(t) \/ ClearOtherRoles(t) \/ InsertRole(t)

Next ==
    \/ \E t \in Task : CommandStep(t)
    \/ reorder
    \/ sync_session \/ ensure_mailbox \/ upsert_mailbox \/ SyncFails
    \/ OtherClient \/ Restart

Spec == Init /\ [][Next]_varsMailboxes

-----------------------------------------------------------------------------
(* Properties                                                               *)

\* The variables have their types; a role is mapped to a mailbox there is, and to one
\* role only (mailbox_role_overrides in 0001_bootstrap.sql).
TypeOK ==
    /\ DOMAIN server \subseteq Path /\ \A p \in DOMAIN server : server[p] \in Folder
    /\ DOMAIN mailboxes \subseteq RowId
    /\ \A i \in DOMAIN mailboxes : mailboxes[i] \in Row
    /\ \A r \in Mappable : overrides[r] \in DOMAIN mailboxes \cup {NoRow}
    /\ \A r, s \in Mappable : overrides[r] = overrides[s] /\ overrides[r] # NoRow => r = s
    /\ overlapped \in BOOLEAN

\* As long as nothing comes between the steps of a folder command (no other client, no
\* end of the process, no row that synchronization inserts between the server's answer
\* and the database, no other folder command that works from what it changes), the
\* database is in step with the server whenever no command is at work: exactly one row
\* for every mailbox that can be opened, under its name, and none for a name that is gone.
FoldersInStep ==
    (~overlapped /\ \A t \in Task : ~InFlight(t)) =>
        /\ \A i \in DOMAIN mailboxes : mailboxes[i].name \in DOMAIN server
        /\ \A p \in DOMAIN server :
              server[p].selectable => Cardinality(Named(p)) = 1
        /\ \A i, j \in DOMAIN mailboxes : mailboxes[i].name = mailboxes[j].name => i = j

\* Deleting or archiving takes a message to the mailbox the list shows under that role:
\* the mailbox found for a role has that role, through every mapping, deletion, renaming
\* and synchronization, as long as the mailbox that was mapped can be opened.
RolesAgree ==
    \A r \in Mappable :
        (overrides[r] # NoRow => mailboxes[overrides[r]].selectable)
        => \A i \in mailbox_for_role(r) : mailbox_role_for_id(i) = r

\* The places of the mailboxes the user has ordered stay distinct, those of mailboxes
\* created since included.
OrderIsTotal ==
    \A i, j \in DOMAIN mailboxes :
        mailboxes[i].order = mailboxes[j].order /\ mailboxes[i].order # NoOrder => i = j
=============================================================================
