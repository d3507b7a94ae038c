------------------------------ MODULE Accounts ------------------------------
(***************************************************************************)
(* The accounts of this computer: accounts.json, the system's credential   *)
(* store, the account slots of the data directory and the data directory   *)
(* itself, under commands that may be cut off between any two steps        *)
(* (application/service.rs, adapters/storage.rs, adapters/credentials.rs). *)
(*                                                                         *)
(* account_mutation lets one command at a time past its first step.        *)
(* accounts.json is replaced whole (write_json_atomic): a save happens or  *)
(* fails.  Servers, names and passwords themselves are left out: an        *)
(* account is its identifier and the reference of its password.            *)
(***************************************************************************)
EXTENDS Naturals, Sequences, FiniteSets, SequencesExt

CONSTANTS
    MaxAccounts,     \* bound: accounts ever added
    MaxReferences,   \* bound: references to passwords ever made
    MaxRevision,     \* bound: revision at which accounts are edited no more
    MaxFailures      \* bound: failed steps and kills

VARIABLES
    accounts_file,   \* accounts.json
    keychain,        \* references under which a password is stored
    slots,           \* account_slots
    job,             \* the command that holds account_mutation
    made,            \* accounts and references made so far
    data_dir,        \* the data directory, and what bootstrap.json says of it
    failures,        \* of the bound
    committed,       \* history: references that were in accounts.json
    unreadable       \* history: accounts.json could not be read by a compensation

vars == <<accounts_file, keychain, slots, job, made, data_dir, failures, committed,
          unreadable>>

Account == 1 .. MaxAccounts
Reference == 1 .. MaxReferences

AccountRecord == [id : Account, credential_ref : Reference, mailbox : {"none", "chosen"}]
Place == {"idle", "store", "save", "delete", "unmark", "undo", "mark", "unslot", "retry"}
NoJob == [at |-> "idle", kind |-> "none", id |-> 0, new |-> 0, old |-> 0, file |-> <<>>]

TypeOK ==
    /\ accounts_file.accounts \in Seq(AccountRecord)
    /\ accounts_file.selected \in 0 .. MaxAccounts
    /\ accounts_file.cleanup \subseteq Reference
    /\ accounts_file.revision \in Nat
    /\ keychain \subseteq Reference /\ committed \subseteq Reference
    /\ slots \subseteq Account
    /\ job.at \in Place
    /\ made \in [accounts : 0 .. MaxAccounts, references : 0 .. MaxReferences]
    /\ data_dir \in [folders : BOOLEAN, marker : BOOLEAN, database : BOOLEAN,
                     at : {"idle", "folders", "marker", "database", "save"},
                     configured : BOOLEAN, onboarding_completed : BOOLEAN]
    /\ failures \in 0 .. MaxFailures
    /\ unreadable \in BOOLEAN

EmptyFile == [revision |-> 0, accounts |-> <<>>, selected |-> 0, cleanup |-> {}]

Init ==
    /\ accounts_file = EmptyFile
    /\ keychain = {} /\ slots = {} /\ committed = {}
    /\ job = NoJob
    /\ made = [accounts |-> 0, references |-> 0]
    /\ data_dir = [folders |-> FALSE, marker |-> FALSE, database |-> FALSE, at |-> "idle",
                   configured |-> FALSE, onboarding_completed |-> FALSE]
    /\ failures = 0 /\ unreadable = FALSE

Records(file) == ToSet(file.accounts)
Used(file) == {a.credential_ref : a \in Records(file)}
Ids(file) == {a.id : a \in Records(file)}

is_compatible_data_directory == data_dir.marker /\ data_dir.database

valid_selected_account_id(file) ==
    IF file.selected \in Ids(file) \/ file.accounts = <<>> THEN file.selected
    ELSE Head(file.accounts).id

Fails == failures < MaxFailures /\ failures' = failures + 1
Works == failures' = failures

outside == <<data_dir, unreadable>>

\* accounts.save; the history follows what was ever stored.
Save(file) ==
    /\ accounts_file' = file
    /\ committed' = committed \cup Used(file)
fileUnchanged == UNCHANGED <<accounts_file, committed>>

-----------------------------------------------------------------------------
(* The data directory *)

\* initialize_data_directory: folders, marker, database, and last the configuration.
Initialize ==
    /\ data_dir.at = "idle"
    /\ \/ /\ ~data_dir.folders /\ ~data_dir.marker
          /\ data_dir' = [data_dir EXCEPT !.at = "folders"]
       \/ /\ is_compatible_data_directory     \* an existing dataset
          /\ data_dir' = [data_dir EXCEPT !.configured = TRUE]
    /\ UNCHANGED <<accounts_file, keychain, slots, job, made, failures, committed, unreadable>>

InitializeStep ==
    /\ \/ /\ data_dir.at = "folders"
          /\ data_dir' = [data_dir EXCEPT !.folders = TRUE, !.at = "marker"]
       \/ /\ data_dir.at = "marker"
          /\ data_dir' = [data_dir EXCEPT !.marker = TRUE, !.at = "database"]
       \/ /\ data_dir.at = "database"
          /\ data_dir' = [data_dir EXCEPT !.database = TRUE, !.at = "save"]
       \/ /\ data_dir.at = "save"
          /\ data_dir' = [data_dir EXCEPT !.configured = TRUE, !.at = "idle",
                                          !.onboarding_completed = FALSE]
    /\ UNCHANGED <<accounts_file, keychain, slots, job, made, failures, committed, unreadable>>

\* A step failed: cleanup_initialized_files.
InitializeFails ==
    /\ data_dir.at # "idle" /\ Fails
    /\ data_dir' = [data_dir EXCEPT !.folders = FALSE, !.marker = FALSE, !.database = FALSE,
                                    !.at = "idle"]
    /\ UNCHANGED <<accounts_file, keychain, slots, job, made, committed, unreadable>>

complete_onboarding ==
    /\ data_dir.configured /\ is_compatible_data_directory
    /\ accounts_file.accounts # <<>>
    /\ data_dir' = [data_dir EXCEPT !.onboarding_completed = TRUE]
    /\ UNCHANGED <<accounts_file, keychain, slots, job, made, failures, committed, unreadable>>

-----------------------------------------------------------------------------
(* Commands on accounts *)

Idle == job.at = "idle"
Goto(place) == job' = [job EXCEPT !.at = place]
Done == job' = NoJob

\* add_password_account, its connections tested: the slot of the new account.
AddAccount ==
    /\ Idle /\ data_dir.configured /\ is_compatible_data_directory
    /\ made.accounts < MaxAccounts /\ made.references < MaxReferences
    /\ made' = [accounts |-> made.accounts + 1, references |-> made.references + 1]
    /\ slots' = slots \cup {made.accounts + 1}
    /\ LET record == [id |-> made'.accounts, credential_ref |-> made'.references, mailbox |-> "none"]
       IN  job' = [at |-> "store", kind |-> "add", id |-> record.id, new |-> record.credential_ref,
                   old |-> 0,
                   file |-> [accounts_file EXCEPT
                                !.accounts = Append(@, record), !.revision = @ + 1,
                                !.selected = IF @ = 0 THEN record.id ELSE @]]
    /\ UNCHANGED <<outside, accounts_file, keychain, failures, committed>>

\* update_password_account, tested: with a new password, or without.
UpdateAccount(id, rotates) ==
    /\ Idle /\ id \in Ids(accounts_file) /\ accounts_file.revision < MaxRevision
    /\ LET i == CHOOSE k \in 1 .. Len(accounts_file.accounts) : accounts_file.accounts[k].id = id
           old == accounts_file.accounts[i].credential_ref
           new == IF rotates THEN made.references + 1 ELSE old
       IN  /\ IF rotates THEN new \in Reference /\ made' = [made EXCEPT !.references = new]
              ELSE old \in keychain /\ UNCHANGED made
           /\ job' = [at |-> IF rotates THEN "store" ELSE "save", kind |-> "update", id |-> id,
                      new |-> new, old |-> IF rotates THEN old ELSE 0,
                      file |-> [accounts_file EXCEPT
                                   !.accounts[i].credential_ref = new, !.revision = @ + 1,
                                   !.cleanup = IF rotates THEN @ \cup {old} ELSE @]]
    /\ UNCHANGED <<outside, accounts_file, keychain, slots, failures, committed>>

\* remove_account.
RemoveAccount(id) ==
    /\ Idle /\ id \in Ids(accounts_file)
    /\ LET index == CHOOSE i \in 1 .. Len(accounts_file.accounts) : accounts_file.accounts[i].id = id
           removed == accounts_file.accounts[index]
           left == RemoveAt(accounts_file.accounts, index)
       IN  job' = [at |-> "save", kind |-> "remove", id |-> id, new |-> 0,
                   old |-> removed.credential_ref,
                   file |-> [revision |-> accounts_file.revision + 1, accounts |-> left,
                             selected |-> IF accounts_file.selected # id THEN accounts_file.selected
                                          ELSE IF left = <<>> THEN 0 ELSE Head(left).id,
                             cleanup |-> accounts_file.cleanup \cup {removed.credential_ref}]]
    /\ UNCHANGED <<outside, accounts_file, keychain, slots, made, failures, committed>>

\* set_password under the new reference; a failed addition takes its slot back.
StorePassword ==
    /\ job.at = "store"
    /\ \/ /\ Works /\ keychain' = keychain \cup {job.new}
          /\ Goto("save") /\ UNCHANGED slots
       \/ /\ Fails /\ UNCHANGED keychain
          /\ Done /\ slots' = IF job.kind = "add" THEN slots \ {job.id} ELSE slots
    /\ UNCHANGED <<outside, made>> /\ fileUnchanged

\* accounts.save; a failure takes the new password back.
SaveAccounts ==
    /\ job.at = "save"
    /\ \/ /\ Works /\ Save(job.file)
          /\ IF job.old # 0 THEN Goto("delete") ELSE Done
       \/ /\ Fails /\ fileUnchanged
          /\ IF job.kind = "add" \/ (job.kind = "update" /\ job.old # 0) THEN Goto("undo") ELSE Done
    /\ UNCHANGED <<outside, keychain, slots, made>>

\* The password of the replaced or removed record is deleted, then its marker.
DeletePassword ==
    /\ job.at = "delete"
    /\ \/ /\ Works /\ keychain' = keychain \ {job.old}
          /\ Goto("unmark")
       \/ Fails /\ Done /\ UNCHANGED keychain
    /\ UNCHANGED <<outside, slots, made>> /\ fileUnchanged

Unmark ==
    /\ job.at = "unmark"
    /\ \/ Works /\ Save([job.file EXCEPT !.cleanup = @ \ {job.old}])
       \/ Fails /\ fileUnchanged
    /\ Done
    /\ UNCHANGED <<outside, keychain, slots, made>>

\* A failed rotation takes back the password that is still in use.
UndoTheWrongOne ==
    /\ job.at = "undo" /\ Works
    /\ keychain' = keychain \ {IF job.kind = "add" THEN job.new ELSE job.old}
    /\ IF job.kind = "add" THEN Goto("unslot") ELSE Done
    /\ UNCHANGED <<outside, slots, made>> /\ fileUnchanged

\* The new password is of no use: deleting it may fail as well, and only an addition
\* then leaves a marker for it.
Undo ==
    /\ job.at = "undo"
    /\ \/ /\ Works /\ keychain' = keychain \ {job.new}
          /\ IF job.kind = "add" THEN Goto("unslot") ELSE Done
       \/ /\ Fails /\ UNCHANGED keychain
          /\ IF job.kind = "add" THEN Goto("mark") ELSE Done
    /\ UNCHANGED <<outside, slots, made>> /\ fileUnchanged

\* accounts.load().unwrap_or_default(), the marker, accounts.save: a file that cannot
\* be read is replaced by an empty one.
Mark ==
    /\ job.at = "mark"
    /\ \/ Works /\ Save([accounts_file EXCEPT !.cleanup = @ \cup {job.new}]) /\ UNCHANGED unreadable
       \/ /\ Fails
          /\ \/ Save([EmptyFile EXCEPT !.cleanup = {job.new}]) /\ unreadable' = TRUE
             \/ fileUnchanged /\ UNCHANGED unreadable
    /\ Goto("unslot")
    /\ UNCHANGED <<data_dir, keychain, slots, made>>

Unslot ==
    /\ job.at = "unslot" /\ Done
    /\ \/ Works /\ slots' = slots \ {job.id}
       \/ Fails /\ UNCHANGED slots
    /\ UNCHANGED <<outside, keychain, made>> /\ fileUnchanged

\* retry_pending_credential_cleanup, when the services start: some deletions may fail.
RetryCleanup ==
    /\ Idle /\ accounts_file.cleanup # {}
    /\ \E remaining \in SUBSET accounts_file.cleanup :
         /\ IF remaining = {} THEN Works ELSE Fails
         /\ keychain' = keychain \ (accounts_file.cleanup \ remaining)
         /\ job' = [NoJob EXCEPT !.at = "retry", !.kind = "retry",
                                 !.file = [accounts_file EXCEPT !.cleanup = remaining]]
    /\ UNCHANGED <<outside, slots, made>> /\ fileUnchanged

SaveRemaining ==
    /\ job.at = "retry" /\ Done
    /\ (Works /\ Save(job.file)) \/ (Fails /\ fileUnchanged)
    /\ UNCHANGED <<outside, keychain, slots, made>>

\* set_last_selected_account and set_last_selected_mailbox.
SelectAccount(id) ==
    /\ Idle /\ id \in Ids(accounts_file) /\ accounts_file.selected # id
    /\ Save([accounts_file EXCEPT !.selected = id])
    /\ UNCHANGED <<outside, keychain, slots, job, made, failures>>

SelectMailbox(i) ==
    /\ Idle /\ i \in 1 .. Len(accounts_file.accounts)
    /\ accounts_file.accounts[i].mailbox = "none"
    /\ Save([accounts_file EXCEPT !.accounts[i].mailbox = "chosen"])
    /\ UNCHANGED <<outside, keychain, slots, job, made, failures>>

\* The process is killed; what is stored stays.
Crash ==
    /\ Fails
    /\ Done /\ data_dir' = [data_dir EXCEPT !.at = "idle"]
    /\ UNCHANGED <<keychain, slots, made, unreadable>> /\ fileUnchanged

Next ==
    \/ Initialize \/ InitializeStep \/ InitializeFails \/ complete_onboarding
    \/ AddAccount
    \/ \E id \in Account : RemoveAccount(id) \/ \E rotates \in BOOLEAN : UpdateAccount(id, rotates)
    \/ StorePassword \/ SaveAccounts \/ DeletePassword \/ Unmark \/ Undo \/ Mark \/ Unslot
    \/ RetryCleanup \/ SaveRemaining
    \/ \E id \in Account : SelectAccount(id) \/ SelectMailbox(id)
    \/ Crash

Spec == Init /\ [][Next]_vars

-----------------------------------------------------------------------------
(* Properties *)

\* Every account of the file can be used, and goes on being: its password is stored,
\* its slot exists, and no cleanup will ever take the password away, whichever step of
\* an addition, a rotation, a removal or a cleanup failed or was the last one.
AccountsAreUsable ==
    \A a \in Records(accounts_file) :
        /\ a.credential_ref \in keychain /\ a.id \in slots
        /\ a.credential_ref \notin accounts_file.cleanup

\* A password that was ever in the file and is in no record any more is marked for
\* cleanup as long as it is stored (ADR 0007: a failed deletion is retried at the next
\* start), unless a compensation started from a file it could not read.
OldPasswordsAreMarked ==
    \A r \in keychain \cap committed :
        unreadable \/ r \in Used(accounts_file) \cup accounts_file.cleanup

\* What bootstrap.json points at is a whole data directory, wherever its
\* initialization failed or was cut off.
ConfiguredDataIsWhole == data_dir.configured => is_compatible_data_directory

=============================================================================
