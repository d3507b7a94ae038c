----------------------------- MODULE Definitions -----------------------------
(***************************************************************************)
(* Templates and signatures, global or of one account, the settings that   *)
(* refer to them: the template of a scene and the default signature        *)
(* (composition_definition_repository.rs, composer_runtime/definitions.rs, *)
(* composer_runtime.rs).                                                   *)
(*                                                                         *)
(* A setting without a row of its own is inherited from the global one.    *)
(* A reference is checked in a statement before the one that writes it;    *)
(* foreign keys are on.  One of the four scenes stands for all.  What a    *)
(* definition contains is left out, and with it update_mail_template and   *)
(* update_mail_signature, which change nothing else.                       *)
(***************************************************************************)
EXTENDS Naturals, FiniteSets

CONSTANTS
    Account,         \* accounts (their data slots)
    Dialog,          \* open views of a setting
    MaxDefinitions,  \* bound: definitions ever created
    MaxWrites        \* bound: writes of settings, and revision of one

VARIABLES
    definitions,     \* rows of mail_templates and mail_signatures
    settings,        \* composition_scene_rules and signature_preferences
    dialogs,         \* what each dialog has read, and what it is about to write
    counts           \* definitions created and settings written so far

vars == <<definitions, settings, dialogs, counts>>

Scope == Account \cup {"global"}
Kind == {"template", "signature"}
Id == 1 .. MaxDefinitions
Setting == Scope \X Kind
NoRow == [ref |-> 0, revision |-> 0, version |-> 0]
Closed == [at |-> "closed"]

\* A row has revision 1 or more; "version" is history: which write made it.
TypeOK ==
    /\ definitions \subseteq [id : Id, kind : Kind, scope : Scope]
    /\ settings \in [Setting -> [ref : {0} \cup Id, revision : 0 .. MaxWrites,
                                 version : 0 .. MaxWrites]]
    /\ \A e \in Dialog : dialogs[e] = Closed \/ dialogs[e].setting \in Setting
    /\ counts \in [definitions : 0 .. MaxDefinitions, writes : 0 .. MaxWrites]

Init ==
    /\ definitions = {} /\ settings = [s \in Setting |-> NoRow]
    /\ dialogs = [e \in Dialog |-> Closed]
    /\ counts = [definitions |-> 0, writes |-> 0]

Exists(s) == settings[s].revision > 0
Ids == {d.id : d \in definitions}

\* definition_reference_exists, and the lists a composition chooses from.
Available(scope, kind) ==
    {d.id : d \in {d \in definitions : d.kind = kind /\ d.scope \in {"global", scope}}}

\* A write of a setting: the row, one revision up, made by a write of its own.
Written(s, ref) == [settings EXCEPT ![s] = [ref |-> ref, revision |-> @.revision + 1,
                                            version |-> counts'.writes]]
Write == counts.writes < MaxWrites /\ counts' = [counts EXCEPT !.writes = @ + 1]

-----------------------------------------------------------------------------
(* Definitions *)

create_mail_template(scope) ==
    /\ counts.definitions < MaxDefinitions
    /\ counts' = [counts EXCEPT !.definitions = @ + 1]
    /\ definitions' = definitions \cup
         {[id |-> counts'.definitions, kind |-> "template", scope |-> scope]}
    /\ UNCHANGED <<settings, dialogs>>

\* The default is assigned without a new revision of a row that exists.
AssignSilently(scope) ==
    /\ counts.definitions < MaxDefinitions /\ counts.writes < MaxWrites
    /\ LET id == counts.definitions + 1
           s == <<scope, "signature">>
           assigned == settings[s].ref = 0
       IN  /\ definitions' = definitions \cup {[id |-> id, kind |-> "signature", scope |-> scope]}
           /\ counts' = [definitions |-> id,
                         writes |-> IF assigned THEN counts.writes + 1 ELSE counts.writes]
           /\ settings' = IF ~assigned THEN settings
                          ELSE IF Exists(s) THEN [settings EXCEPT ![s].ref = id,
                                                                  ![s].version = counts'.writes]
                          ELSE Written(s, id)
    /\ UNCHANGED <<dialogs>>

\* The first signature of a scope becomes its default, in the same transaction.
create_mail_signature(scope) ==
    /\ counts.definitions < MaxDefinitions /\ counts.writes < MaxWrites
    /\ LET id == counts.definitions + 1
           s == <<scope, "signature">>
           assigned == settings[s].ref = 0
       IN  /\ definitions' = definitions \cup {[id |-> id, kind |-> "signature", scope |-> scope]}
           /\ counts' = [definitions |-> id,
                         writes |-> IF assigned THEN counts.writes + 1 ELSE counts.writes]
           /\ settings' = IF assigned THEN Written(s, id) ELSE settings
    /\ UNCHANGED <<dialogs>>

\* delete_mail_template and delete_mail_signature count the rules that use it, and ON
\* DELETE RESTRICT decides; preferences are set to NULL and keep their revision.
UsedByRule(id) == \E scope \in Scope : settings[<<scope, "template">>].ref = id

Delete(id) ==
    /\ id \in Ids /\ ~UsedByRule(id)
    /\ definitions' = {d \in definitions : d.id # id}
    /\ settings' = [s \in Setting |-> IF settings[s].ref = id
                                      THEN [settings[s] EXCEPT !.ref = 0] ELSE settings[s]]
    /\ UNCHANGED <<dialogs, counts>>

-----------------------------------------------------------------------------
(* Settings *)

\* list_composition_scene_rules and signature_preferences: an inherited setting is
\* read with revision 0.
Open(e, s) ==
    /\ dialogs[e] = Closed
    /\ dialogs' = [dialogs EXCEPT ![e] = [at |-> "open", setting |-> s, ref |-> 0, reset |-> FALSE,
                      revision |-> settings[s].revision, version |-> settings[s].version]]
    /\ UNCHANGED <<definitions, settings, counts>>

Conflict(e) == settings[dialogs[e].setting].revision # dialogs[e].revision

\* Saved as inherited: the row goes.  The history of the other dialogs notes it.
Inherit(e) ==
    /\ dialogs[e].at = "open" /\ dialogs[e].setting[1] # "global"
    /\ LET s == dialogs[e].setting
           goes == Exists(s) /\ ~Conflict(e)
       IN  /\ settings' = IF goes THEN [settings EXCEPT ![s] = NoRow] ELSE settings
           /\ dialogs' = [f \in Dialog |->
                 IF f = e THEN Closed
                 ELSE IF goes /\ dialogs[f].at # "closed" /\ dialogs[f].setting = s
                      THEN [dialogs[f] EXCEPT !.reset = TRUE] ELSE dialogs[f]]
    /\ UNCHANGED <<definitions, counts>>

\* save_composition_scene_rule and save_signature_preferences: the reference ...
CheckReference(e, ref) ==
    /\ dialogs[e].at = "open"
    /\ ref \in {0} \cup Available(dialogs[e].setting[1], dialogs[e].setting[2])
    /\ dialogs' = [dialogs EXCEPT ![e].at = "checked", ![e].ref = ref]
    /\ UNCHANGED <<definitions, settings, counts>>

\* ... and the row, inserted for revision 0 (one row a scope), or updated.
WriteSetting(e) ==
    /\ dialogs[e].at = "checked"
    /\ dialogs' = [dialogs EXCEPT ![e] = Closed]
    /\ IF ~Conflict(e) /\ dialogs[e].ref \in {0} \cup Ids
       THEN Write /\ settings' = Written(dialogs[e].setting, dialogs[e].ref)
       ELSE UNCHANGED <<settings, counts>>
    /\ UNCHANGED definitions

\* resolved_composition_scene_rule and signature_preferences: its own, or the global.
Resolved(account, kind) ==
    IF Exists(<<account, kind>>) THEN settings[<<account, kind>>].ref
    ELSE settings[<<"global", kind>>].ref

\* initial_composition makes a new message from the template and the signature that
\* apply, and no message is made when one of them cannot be found.
initial_composition_fails(account) ==
    \E kind \in Kind : Resolved(account, kind) \notin {0} \cup Available(account, kind)

Next ==
    \/ \E scope \in Scope : create_mail_template(scope) \/ create_mail_signature(scope)
    \/ \E id \in Id : Delete(id)
    \/ \E e \in Dialog :
         \/ \E s \in Setting : Open(e, s)
         \/ Inherit(e) \/ WriteSetting(e)
         \/ \E ref \in {0} \cup Id : CheckReference(e, ref)

Spec == Init /\ [][Next]_vars

-----------------------------------------------------------------------------
(* Properties *)

\* A setting refers to a definition of its kind that its scope may see, whatever is
\* deleted between its check and its write; so what a new message of any account is
\* composed from is always found, inherited or not.
ReferencesResolve ==
    /\ \A s \in Setting : settings[s].ref \in {0} \cup Available(s[1], s[2])
    /\ \A account \in Account : ~initial_composition_fails(account)

\* A dialog that would still be accepted has read the row it replaces, the default a
\* new signature gave itself included.  A row that went back to inheriting and was
\* made anew starts at revision 1 again and escapes this.
AcceptedDialogsAreCurrent ==
    \A e \in Dialog :
        dialogs[e].at # "closed" /\ ~Conflict(e) =>
            dialogs[e].reset \/ dialogs[e].version = settings[dialogs[e].setting].version

=============================================================================
