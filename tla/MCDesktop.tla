------------------------------ MODULE MCDesktop ------------------------------
(* One instance of each of the components that keep state beside the mail   *)
(* itself: accounts, contacts, drafts, definitions, notifications, mailbox  *)
(* structure, attachments, the message list and the Composer window. They   *)
(* share no state in the code that is modelled, so a behaviour is one of a  *)
(* single component: the initial state says of which, and the variables of  *)
(* the others keep the value "unused".                                      *)
EXTENDS TLC, Naturals, FiniteSets

CONSTANTS
    MaxAccounts, MaxReferences, MaxRevision, MaxFailures,
    Address, ContactName, GroupName, Editor, OldMessages, BatchSize, MaxMessages,
    MaxContacts, MaxGroups, MaxSaves,
    Source, MaxDrafts, MaxVersions, MaxImports, MaxCopies,
    Slot, Dialog, MaxDefinitions, MaxWrites,
    Owner, MaxVisible, TargetLimit, MaxPresented, MaxChanges,
    Latest, PageSize, QueueLimit, MaxRounds, MaxActions,
    Leaf, MaxRows, MaxCommands, MaxEvents,
    Part, Content, MaxRequests, MaxEnds,
    File, MaxEdits, MaxSaved, MaxOpens, MaxReports

\* What the contacts need: addresses are compared and counted, the back-fill reads at
\* least one message at a time, and what is made has a first revision.
ASSUME ContactsAssumption ==
    /\ IsFiniteSet(Address)
    /\ OldMessages \in Nat /\ MaxMessages \in Nat /\ OldMessages <= MaxMessages
    /\ BatchSize \in Nat \ {0} /\ MaxSaves \in Nat \ {0}
    /\ MaxContacts \in Nat /\ MaxGroups \in Nat

\* Definitions and writes of settings are counted.
ASSUME DefinitionsAssumption == MaxDefinitions \in Nat /\ MaxWrites \in Nat

\* Accounts and references to passwords are counted.
ASSUME AccountsAssumption ==
    /\ MaxAccounts \in Nat /\ MaxReferences \in Nat
    /\ MaxRevision \in Nat /\ MaxFailures \in Nat

\* The inbox has a name of its own, and rows are counted: three are there at first.
ASSUME MailboxesAssumption == "inbox" \notin Leaf /\ MaxRows \in Nat /\ MaxRows >= 3

\* Drafts are numbered.
ASSUME DraftsAssumption == MaxDrafts \in Nat

VARIABLES
    subject,
    accounts_file, keychain, slots, job, made, data_dir, failures, committed, unreadable,
    messages, contacts, message_contacts, groups, backfill, editors, ids, forgotten,
    drafts, composers, imports, appends, appending, server_copies, archived, written, latest,
    definitions, settings, dialogs, counts,
    display, owners, active, generation, windows, timers, batches, leaving, targets,
    banners, changes,
    rows, deleted, rounds, actions, syncing, wire, arrived, overflow, pages, fetch,
    refresh, missed,
    server, mailboxes, overrides, command, sync, spent, overlapped,
    content, listed, message, hash, files, opened, request, uses,
    draft, attached, mail, delivery, window, flow, calls, reports, closed

A == INSTANCE Accounts
C == INSTANCE Contacts
D == INSTANCE Drafts WITH MaxSaves <- MaxVersions
F == INSTANCE Definitions WITH Account <- Slot
N == INSTANCE Notifications WITH Account <- Owner
M == INSTANCE MessageList
B == INSTANCE MailboxStructure WITH Task <- Editor
T == INSTANCE Attachments WITH Request <- Editor
W == INSTANCE ComposerWindow WITH Call <- Editor

varsAccounts == <<accounts_file, keychain, slots, job, made, data_dir, failures,
                   committed, unreadable>>
varsContacts == <<messages, contacts, message_contacts, groups, backfill, editors, ids,
                   forgotten>>
varsDrafts == <<drafts, composers, imports, appends, appending, server_copies, archived, written,
                 latest>>
varsDefinitions == <<definitions, settings, dialogs, counts>>
varsNotifications == <<display, owners, active, generation, windows, timers, batches,
                        leaving, targets, banners, changes>>
varsMessageList == <<rows, deleted, rounds, actions, syncing, wire, arrived, overflow,
                      pages, fetch, refresh, missed>>
varsMailboxes == <<server, mailboxes, overrides, command, sync, spent, overlapped>>
varsAttachments == <<content, listed, message, hash, files, opened, request, uses>>
varsComposer == <<draft, attached, mail, delivery, window, flow, calls, reports, closed>>

(* The variables of each component, unused. *)
NoAccounts ==
    /\ accounts_file = "unused" /\ keychain = "unused" /\ slots = "unused"
    /\ job = "unused" /\ made = "unused" /\ data_dir = "unused"
    /\ failures = "unused" /\ committed = "unused" /\ unreadable = "unused"

NoContacts ==
    /\ messages = "unused" /\ contacts = "unused" /\ message_contacts = "unused"
    /\ groups = "unused" /\ backfill = "unused" /\ editors = "unused"
    /\ ids = "unused" /\ forgotten = "unused"

NoDrafts ==
    /\ drafts = "unused" /\ composers = "unused" /\ imports = "unused"
    /\ appends = "unused" /\ appending = "unused" /\ server_copies = "unused"
    /\ archived = "unused"
    /\ written = "unused" /\ latest = "unused"

NoDefinitions ==
    /\ definitions = "unused" /\ settings = "unused" /\ dialogs = "unused"
    /\ counts = "unused"

NoNotifications ==
    /\ display = "unused" /\ owners = "unused" /\ active = "unused"
    /\ generation = "unused" /\ windows = "unused" /\ timers = "unused"
    /\ batches = "unused" /\ leaving = "unused" /\ targets = "unused"
    /\ banners = "unused" /\ changes = "unused"

NoMessageList ==
    /\ rows = "unused" /\ deleted = "unused" /\ rounds = "unused"
    /\ actions = "unused" /\ syncing = "unused" /\ wire = "unused"
    /\ arrived = "unused" /\ overflow = "unused" /\ pages = "unused"
    /\ fetch = "unused" /\ refresh = "unused" /\ missed = "unused"

NoMailboxes ==
    /\ server = "unused" /\ mailboxes = "unused" /\ overrides = "unused"
    /\ command = "unused" /\ sync = "unused" /\ spent = "unused"
    /\ overlapped = "unused"

NoAttachments ==
    /\ content = "unused" /\ listed = "unused" /\ message = "unused"
    /\ hash = "unused" /\ files = "unused" /\ opened = "unused" /\ request = "unused"
    /\ uses = "unused"

NoComposer ==
    /\ draft = "unused" /\ attached = "unused" /\ mail = "unused"
    /\ delivery = "unused" /\ window = "unused" /\ flow = "unused"
    /\ calls = "unused" /\ reports = "unused" /\ closed = "unused"

Init ==
    \/ /\ subject = "accounts" /\ A!Init
       /\ NoContacts /\ NoDrafts /\ NoDefinitions
       /\ NoNotifications /\ NoMessageList /\ NoMailboxes /\ NoAttachments /\ NoComposer
    \/ /\ subject = "contacts" /\ C!Init
       /\ NoAccounts /\ NoDrafts /\ NoDefinitions
       /\ NoNotifications /\ NoMessageList /\ NoMailboxes /\ NoAttachments /\ NoComposer
    \/ /\ subject = "drafts" /\ D!Init
       /\ NoAccounts /\ NoContacts /\ NoDefinitions
       /\ NoNotifications /\ NoMessageList /\ NoMailboxes /\ NoAttachments /\ NoComposer
    \/ /\ subject = "definitions" /\ F!Init
       /\ NoAccounts /\ NoContacts /\ NoDrafts
       /\ NoNotifications /\ NoMessageList /\ NoMailboxes /\ NoAttachments /\ NoComposer
    \/ /\ subject = "notifications" /\ N!Init
       /\ NoAccounts /\ NoContacts /\ NoDrafts
       /\ NoDefinitions /\ NoMessageList /\ NoMailboxes /\ NoAttachments /\ NoComposer
    \/ /\ subject = "message list" /\ M!Init
       /\ NoAccounts /\ NoContacts /\ NoDrafts
       /\ NoDefinitions /\ NoNotifications /\ NoMailboxes /\ NoAttachments /\ NoComposer
    \/ /\ subject = "mailboxes" /\ B!Init
       /\ NoAccounts /\ NoContacts /\ NoDrafts
       /\ NoDefinitions /\ NoNotifications /\ NoMessageList /\ NoAttachments /\ NoComposer
    \/ /\ subject = "attachments" /\ T!Init
       /\ NoAccounts /\ NoContacts /\ NoDrafts /\ NoDefinitions
       /\ NoNotifications /\ NoMessageList /\ NoMailboxes /\ NoComposer
    \/ /\ subject = "composer" /\ W!Init
       /\ NoAccounts /\ NoContacts /\ NoDrafts /\ NoDefinitions
       /\ NoNotifications /\ NoMessageList /\ NoMailboxes /\ NoAttachments

AccountsStep ==
    /\ subject = "accounts" /\ A!Next
    /\ UNCHANGED <<subject, varsContacts, varsDrafts, varsDefinitions,
                    varsNotifications, varsMessageList, varsMailboxes, varsAttachments,
                    varsComposer>>

ContactsStep ==
    /\ subject = "contacts" /\ C!Next
    /\ UNCHANGED <<subject, varsAccounts, varsDrafts, varsDefinitions,
                    varsNotifications, varsMessageList, varsMailboxes, varsAttachments,
                    varsComposer>>

DraftsStep ==
    /\ subject = "drafts" /\ D!Next
    /\ UNCHANGED <<subject, varsAccounts, varsContacts, varsDefinitions,
                    varsNotifications, varsMessageList, varsMailboxes, varsAttachments,
                    varsComposer>>

DefinitionsStep ==
    /\ subject = "definitions" /\ F!Next
    /\ UNCHANGED <<subject, varsAccounts, varsContacts, varsDrafts,
                    varsNotifications, varsMessageList, varsMailboxes, varsAttachments,
                    varsComposer>>

NotificationsStep ==
    /\ subject = "notifications" /\ N!Next
    /\ UNCHANGED <<subject, varsAccounts, varsContacts, varsDrafts,
                    varsDefinitions, varsMessageList, varsMailboxes, varsAttachments,
                    varsComposer>>

MessageListStep ==
    /\ subject = "message list" /\ M!Next
    /\ UNCHANGED <<subject, varsAccounts, varsContacts, varsDrafts,
                    varsDefinitions, varsNotifications, varsMailboxes, varsAttachments,
                    varsComposer>>

MailboxesStep ==
    /\ subject = "mailboxes" /\ B!Next
    /\ UNCHANGED <<subject, varsAccounts, varsContacts, varsDrafts,
                    varsDefinitions, varsNotifications, varsMessageList, varsAttachments,
                    varsComposer>>

AttachmentsStep ==
    /\ subject = "attachments" /\ T!Next
    /\ UNCHANGED <<subject, varsAccounts, varsContacts, varsDrafts, varsDefinitions,
                    varsNotifications, varsMessageList, varsMailboxes, varsComposer>>

ComposerStep ==
    /\ subject = "composer" /\ W!Next
    /\ UNCHANGED <<subject, varsAccounts, varsContacts, varsDrafts, varsDefinitions,
                    varsNotifications, varsMessageList, varsMailboxes, varsAttachments>>

Next ==
    \/ AccountsStep \/ ContactsStep \/ DraftsStep
    \/ DefinitionsStep \/ NotificationsStep \/ MessageListStep
    \/ MailboxesStep \/ AttachmentsStep \/ ComposerStep

vars == <<subject, varsAccounts, varsContacts, varsDrafts, varsDefinitions,
          varsNotifications, varsMessageList, varsMailboxes, varsAttachments,
          varsComposer>>
Spec == Init /\ [][Next]_vars

\* Dialogs, requests and tasks are alike; so are names, files, parts and leaves.
Symmetry == Permutations(Editor) \cup Permutations(File)

-----------------------------------------------------------------------------
(* Properties                                                               *)

\* The type invariant of each component.
TypesOK ==
    /\ subject = "accounts" => A!TypeOK
    /\ subject = "contacts" => C!TypeOK
    /\ subject = "drafts" => D!TypeOK
    /\ subject = "definitions" => F!TypeOK
    /\ subject = "notifications" => N!TypeOK
    /\ subject = "message list" => M!TypeOK
    /\ subject = "mailboxes" => B!TypeOK
    /\ subject = "attachments" => T!TypeOK
    /\ subject = "composer" => W!TypeOK

\* Accounts and attachments: what is referred to is there. Whichever step of an addition,
\* a rotation, a removal, a cleanup or the initialization of the data directory failed or
\* was the last one, the data directory in use is whole, every account has its slot and
\* its password and keeps them, and no password that was in use stays behind unmarked;
\* whatever a download met, an attachment shown as downloaded has its whole content.
ReferencesHold ==
    /\ subject = "accounts" =>
          A!ConfiguredDataIsWhole /\ A!AccountsAreUsable /\ A!OldPasswordsAreMarked
    /\ subject = "attachments" => T!AvailableIsStored /\ T!GivenIsTheAttachment

\* Contacts: the back-fill misses no address of a stored message.
BackfillMissesNothing == subject = "contacts" => C!BackfillMissesNothing

\* Contacts and definitions: only a dialog that has read what is stored replaces it, and
\* what a setting refers to can be found.
EditsAreCurrent ==
    /\ [][subject = "contacts" => C!OnlyReadersReplace]_vars
    /\ [](subject = "definitions" => F!AcceptedDialogsAreCurrent /\ F!ReferencesResolve)

\* Drafts: what was written stays until it is dropped, and its version on the server
\* is replaced without a gap; what was sent is archived once.  The window that edits a
\* draft saves and sends what it shows, shows what is stored, and never locks the user
\* out of saving.
DraftsAreKept ==
    /\ [](subject = "drafts" => D!WrittenDraftsSurvive /\ D!ArchivedOnce)
    /\ [](subject = "composer" => W!ClosesAsAsked /\ W!SentIsShown /\ W!ListedIsStored
                                   /\ W!EditableCanBeSaved)
    /\ [][subject = "drafts" => D!Replaces]_vars

\* Notifications: what is in the queue is shown and ends by its own timer.
NotificationsEnd ==
    /\ [](subject = "notifications" => N!QueueIsShownAndTimed)
    /\ [][subject = "notifications" => N!EndsItsOwn]_vars

\* The message list is in order, and exact after a refresh.
ListIsExact == subject = "message list" => M!ListIsOrdered /\ M!RefreshedListIsExact

\* Mailboxes: with nothing in between, a folder command leaves the database in step with
\* the server; a role is the role of the mailbox that is found for it; places are distinct.
FoldersInStep ==
    subject = "mailboxes" => B!FoldersInStep /\ B!RolesAgree /\ B!OrderIsTotal
=============================================================================
