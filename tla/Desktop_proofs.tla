--------------------------- MODULE Desktop_proofs ---------------------------
(***************************************************************************)
(* Contacts and the Composer window, for every value of the constants, and *)
(* with the definitions and drafts of Desktop_references what dialogs and  *)
(* windows replace.  A behaviour of MCDesktop is one of a single           *)
(* component, so that each proof is about the steps of one of them.        *)
(***************************************************************************)
EXTENDS Desktop_references, FiniteSetTheorems, TLAPS

-----------------------------------------------------------------------------
(* Contacts: the shape of what is stored and read *)

ContactDialog == [kind : {"contact"}, seen : C!Contact]
GroupDialog == [kind : {"group"}, seen : C!Group]

\* An id is given once, and a dialog holds a row that was there, not at its last
\* revision.
ContactIds ==
    /\ \A c \in contacts : c.id <= ids.contacts
    /\ \A c, d \in contacts : c.id = d.id => c = d
GroupIds ==
    /\ \A g \in groups : g.id <= ids.groups
    /\ \A g, h \in groups : g.id = h.id => g = h
DialogsAreRows ==
    /\ editors \in [Editor -> {C!Closed} \cup ContactDialog \cup GroupDialog]
    /\ \A e \in Editor : editors[e] # C!Closed =>
         /\ editors[e].seen.revision < MaxSaves
         /\ editors[e].kind = "contact" => editors[e].seen.id <= ids.contacts
         /\ editors[e].kind = "group" => editors[e].seen.id <= ids.groups
\* The old messages are there, and the batch in hand is the next ones: fewer than it may
\* hold only if no old one is left.
BatchIsNext ==
    /\ 1 .. OldMessages \subseteq C!Rows
    /\ backfill.at = "write" =>
         \E last \in backfill.last .. backfill.last + BatchSize :
            /\ backfill.batch = backfill.last + 1 .. last
            /\ backfill.batch \subseteq C!Rows
            /\ last < backfill.last + BatchSize => OldMessages <= last
ContactsShape == C!TypeOK /\ ContactIds /\ GroupIds /\ DialogsAreRows /\ BatchIsNext

\* The modules count alike.
LEMMA CountsAlike == \A S : C!Cardinality(S) = Cardinality(S)
  BY DEF C!Cardinality, Cardinality

\* The rows of messages have the first numbers.
LEMMA RowsAreNumbered ==
    ASSUME NEW n \in Nat, NEW f \in [1 .. n -> SUBSET Address]
    PROVE  DOMAIN f = 1 .. n /\ Cardinality(DOMAIN f) = n
  BY FS_Interval

\* What upsert_contact_candidates does: new contacts with new ids, old ones as they
\* were, and a link for every address of the messages it is given.
LEMMA UpsertAdds ==
    ASSUME ContactsShape, NEW batch \in SUBSET DOMAIN messages',
           messages' \in UNION {[1 .. n -> SUBSET Address] : n \in 0 .. MaxMessages},
           C!Upsert(batch)
    PROVE  /\ contacts \subseteq contacts' /\ contacts' \subseteq C!Contact
           /\ \A d \in contacts' : d \notin contacts => d.id > ids.contacts
           /\ ids'.contacts \in ids.contacts .. MaxContacts /\ ids'.groups = ids.groups
           /\ ids' \in [contacts : 0 .. MaxContacts, groups : 0 .. MaxGroups]
           /\ ContactIds'
           /\ message_contacts \subseteq message_contacts'
           /\ message_contacts' \subseteq C!Row \X (1 .. MaxContacts)
           /\ \A m \in batch : \A a \in messages'[m] :
                \E c \in contacts' : c.email = a /\ <<m, c.id>> \in message_contacts'
  <1> DEFINE missing == (UNION {messages'[m] : m \in batch}) \ C!Emails
  <1>1. PICK n \in 0 .. MaxMessages : messages' \in [1 .. n -> SUBSET Address]
    OBVIOUS
  <1>2. missing \in SUBSET Address /\ n \in Nat /\ DOMAIN messages' = 1 .. n
    BY <1>1, ContactsAssumption
  <1>3. Cardinality(missing) \in Nat
    BY <1>2, FS_Subset, FS_CardinalityType, ContactsAssumption
  <1>4. PICK number \in [missing -> 1 .. Cardinality(missing)] :
          /\ \A a, b \in missing : number[a] = number[b] => a = b
          /\ LET new == {[id |-> ids.contacts + number[a], email |-> a, name |-> "header",
                           revision |-> 1] : a \in missing}
             IN  /\ contacts' = contacts \cup new
                 /\ message_contacts' = message_contacts \cup
                      UNION {{<<m, C!IdOf(contacts', a)>> : a \in messages'[m]} : m \in batch}
    BY CountsAlike DEF C!Upsert
  <1> DEFINE new == {[id |-> ids.contacts + number[a], email |-> a, name |-> "header",
                        revision |-> 1] : a \in missing}
  <1>5. /\ ids.contacts + Cardinality(missing) <= MaxContacts
        /\ ids' = [ids EXCEPT !.contacts = @ + Cardinality(missing)]
    BY CountsAlike DEF C!Upsert
  <1>6. ids.contacts \in Nat /\ ids.groups \in 0 .. MaxGroups
        /\ ids \in [contacts : 0 .. MaxContacts, groups : 0 .. MaxGroups]
    BY DEF ContactsShape, C!TypeOK
  <1> HIDE DEF missing
  <1>7. /\ ids'.contacts = ids.contacts + Cardinality(missing) /\ ids'.groups = ids.groups
        /\ ids'.contacts \in ids.contacts .. MaxContacts
        /\ ids' \in [contacts : 0 .. MaxContacts, groups : 0 .. MaxGroups]
    <2>1. ids'.contacts = ids.contacts + Cardinality(missing) /\ ids'.groups = ids.groups
      BY <1>5, <1>6
    <2>2. ids.contacts + Cardinality(missing) \in ids.contacts .. MaxContacts
      BY <1>3, <1>5, <1>6, ContactsAssumption
    <2>3. ids.contacts + Cardinality(missing) \in 0 .. MaxContacts
      BY <1>3, <1>5, <1>6, ContactsAssumption
    <2>4. ids' = [contacts |-> ids.contacts + Cardinality(missing), groups |-> ids.groups]
      BY <1>5, <1>6
    <2> QED
      BY <2>1, <2>2, <2>3, <2>4, <1>6
  <1>8. \A d \in new : /\ d \in C!Contact /\ d.id > ids.contacts /\ d.id <= ids'.contacts
                       /\ d.email \in missing /\ d.id = ids.contacts + number[d.email]
    <2> SUFFICES ASSUME NEW a \in missing
                 PROVE  LET d == [id |-> ids.contacts + number[a], email |-> a,
                                  name |-> "header", revision |-> 1]
                        IN  /\ d \in C!Contact /\ d.id > ids.contacts /\ d.id <= ids'.contacts
                            /\ d.email \in missing /\ d.id = ids.contacts + number[d.email]
      OBVIOUS
    <2>1. number[a] \in 1 .. Cardinality(missing)
      BY <1>4
    <2>2. ids.contacts + number[a] \in 1 .. MaxContacts
      BY <2>1, <1>3, <1>5, <1>6, ContactsAssumption
    <2> QED
      BY <2>1, <2>2, <1>2, <1>3, <1>6, <1>7, ContactsAssumption DEF C!Contact
  <1>9. \A d, e \in new : d.id = e.id => d = e
    <2> SUFFICES ASSUME NEW a \in missing, NEW b \in missing,
                        ids.contacts + number[a] = ids.contacts + number[b]
                 PROVE  a = b
      OBVIOUS
    <2> QED
      BY <1>3, <1>4, <1>6
  <1>10. contacts' = contacts \cup new /\ contacts \subseteq C!Contact /\ ContactIds
    BY <1>4 DEF ContactsShape, C!TypeOK
  <1>11. \A c \in contacts : c.id \in Nat
    BY <1>10 DEF C!Contact
  <1> HIDE DEF new
  <1>12. ContactIds'
    BY <1>6, <1>7, <1>8, <1>9, <1>10, <1>11 DEF ContactIds
  <1>13. \A m \in batch : \A a \in messages'[m] :
           /\ C!IdOf(contacts', a) \in 1 .. MaxContacts
           /\ \E c \in contacts' : c.email = a /\ c.id = C!IdOf(contacts', a)
    <2> TAKE m \in batch
    <2> TAKE a \in messages'[m]
    <2>1. \E c \in contacts' : c.email = a
      <3>1. CASE a \in missing
        <4>1. [id |-> ids.contacts + number[a], email |-> a, name |-> "header",
               revision |-> 1] \in new
          BY <3>1 DEF new
        <4> QED
          BY <4>1, <1>10
      <3>2. CASE a \notin missing
        BY <3>2, <1>10 DEF missing, C!Emails
      <3> QED
        BY <3>1, <3>2
    <2>2. contacts' \subseteq C!Contact
      BY <1>8, <1>10
    <2> QED
      BY <2>1, <2>2 DEF C!IdOf, C!Contact
  <1>14. message_contacts' = message_contacts \cup
             UNION {{<<m, C!IdOf(contacts', a)>> : a \in messages'[m]} : m \in batch}
    BY <1>4
  <1>15. \A m \in batch : \A a \in messages'[m] :
           \E c \in contacts' : c.email = a /\ <<m, c.id>> \in message_contacts'
    BY <1>13, <1>14
  <1>16. message_contacts' \subseteq C!Row \X (1 .. MaxContacts)
    <2>1. message_contacts \subseteq C!Row \X (1 .. MaxContacts)
      BY DEF ContactsShape, C!TypeOK
    <2>2. \A m \in batch : m \in C!Row
      BY <1>1, <1>2, ContactsAssumption DEF C!Row
    <2> QED
      BY <2>1, <2>2, <1>13, <1>14
  <1> QED
    BY <1>7, <1>8, <1>10, <1>12, <1>14, <1>15, <1>16

\* An empty address book has the shape.
LEMMA ContactsBegin == C!Init => ContactsShape
<1> SUFFICES ASSUME C!Init
             PROVE  ContactsShape
  OBVIOUS
<1>1. C!TypeOK
  <2>1. messages \in UNION {[1 .. n -> SUBSET Address] : n \in 0 .. MaxMessages}
    BY ContactsAssumption DEF C!Init
  <2> QED
    BY <2>1, ContactsAssumption DEF C!Init, C!TypeOK, C!Closed
<1>2. ContactIds /\ GroupIds /\ DialogsAreRows
  BY DEF C!Init, ContactIds, GroupIds, DialogsAreRows
<1>3. BatchIsNext
  BY DEF C!Init, BatchIsNext, C!Rows
<1> QED
  BY <1>1, <1>2, <1>3 DEF ContactsShape

\* What synchronization and the back-fill store.
LEMMA StoringKeepsShape ==
  ASSUME ContactsShape, C!StoreMessage \/ C!WriteBatch
  PROVE  ContactsShape'
<1> USE DEF ContactsShape
<1>1. PICK n \in 0 .. MaxMessages : messages \in [1 .. n -> SUBSET Address]
  BY DEF C!TypeOK
<1>2. n \in Nat /\ C!Rows = 1 .. n /\ Cardinality(C!Rows) = n
      /\ C!Cardinality(C!Rows) = n
  BY <1>1, RowsAreNumbered, CountsAlike, ContactsAssumption DEF C!Rows
<1> DEFINE Stores == \E batch \in SUBSET DOMAIN messages' :
             /\ C!Upsert(batch)
             /\ messages' \in UNION {[1 .. k -> SUBSET Address] : k \in 0 .. MaxMessages}
             /\ C!Rows \subseteq DOMAIN messages'
             /\ UNCHANGED <<groups, editors, forgotten>>
<1>3. Stores
  <2>1. ASSUME NEW addresses \in SUBSET Address, n < MaxMessages,
               messages' = [m \in 1 .. n + 1 |->
                               IF m \in C!Rows THEN messages[m] ELSE addresses],
               C!Upsert({n + 1}), UNCHANGED <<groups, editors, forgotten>>
        PROVE  Stores
    <3>1. messages' \in [1 .. n + 1 -> SUBSET Address] /\ n + 1 \in 0 .. MaxMessages
      BY <2>1, <1>1, <1>2, ContactsAssumption
    <3>2. DOMAIN messages' = 1 .. n + 1 /\ n + 1 \in DOMAIN messages'
      BY <3>1, <1>2
    <3> QED
      BY <2>1, <3>1, <3>2, <1>2
  <2>2. ASSUME NEW batch \in SUBSET C!Rows, C!Upsert(batch), UNCHANGED messages,
               UNCHANGED <<groups, editors, forgotten>>
        PROVE  Stores
    BY <2>2 DEF C!TypeOK, C!Rows
  <2>3. CASE C!StoreMessage
    BY <2>1, <2>2, <2>3, <1>2 DEF C!StoreMessage
  <2>4. CASE C!WriteBatch
    <3>1. backfill.batch \in SUBSET C!Rows
      BY <2>4 DEF C!WriteBatch, BatchIsNext
    <3> QED
      BY <2>2, <2>4, <3>1 DEF C!WriteBatch
  <2> QED
    BY <2>3, <2>4
<1>4. PICK batch \in SUBSET DOMAIN messages' :
         /\ C!Upsert(batch)
         /\ messages' \in UNION {[1 .. k -> SUBSET Address] : k \in 0 .. MaxMessages}
         /\ C!Rows \subseteq DOMAIN messages'
         /\ UNCHANGED <<groups, editors, forgotten>>
  BY <1>3
<1>5. /\ contacts' \subseteq C!Contact
      /\ ids'.contacts \in ids.contacts .. MaxContacts /\ ids'.groups = ids.groups
      /\ ids' \in [contacts : 0 .. MaxContacts, groups : 0 .. MaxGroups]
      /\ ContactIds'
      /\ message_contacts' \subseteq C!Row \X (1 .. MaxContacts)
  BY <1>4, UpsertAdds
<1>6. ids.contacts \in Nat /\ ids.groups \in Nat
  BY DEF C!TypeOK
<1>7. \A e \in Editor : editors[e] # C!Closed =>
        /\ editors[e] \in ContactDialog \cup GroupDialog
        /\ editors[e].seen.id \in Nat
  BY DEF DialogsAreRows, ContactDialog, GroupDialog, C!Contact, C!Group
<1>8. backfill' \in [at : {"idle", "read", "write"}, last : 0 .. MaxMessages,
                     completed : BOOLEAN, batch : SUBSET C!Row] /\ BatchIsNext'
  <2>1. CASE C!StoreMessage
    <3>1. backfill' = backfill /\ C!Rows \subseteq C!Rows'
      BY <2>1, <1>4 DEF C!StoreMessage, C!Rows
    <3> QED
      BY <3>1 DEF C!TypeOK, BatchIsNext
  <2>2. CASE C!WriteBatch
    <3>1. /\ backfill'.at \in {"idle", "read"} /\ backfill'.completed \in BOOLEAN
          /\ backfill'.batch = {} /\ backfill'.last = C!Max(backfill.batch \cup {backfill.last})
          /\ backfill' = [at |-> backfill'.at, last |-> backfill'.last,
                          completed |-> backfill'.completed, batch |-> backfill'.batch]
      BY <2>2 DEF C!WriteBatch
    <3>2. backfill'.last \in 0 .. MaxMessages
      <4>1. PICK last \in backfill.last .. backfill.last + BatchSize :
               /\ backfill.batch = backfill.last + 1 .. last
               /\ backfill.batch \subseteq C!Rows
        BY <2>2 DEF C!WriteBatch, BatchIsNext
      <4>2. backfill.last \in 0 .. MaxMessages /\ C!Rows \subseteq 0 .. MaxMessages
        BY <1>2, ContactsAssumption DEF C!TypeOK
      <4>3. backfill.batch \cup {backfill.last} = backfill.last .. last
        BY <4>1, <4>2, ContactsAssumption
      <4>4. C!Max(backfill.last .. last) = last
        BY <4>1, <4>2, ContactsAssumption DEF C!Max
      <4>5. last \in backfill.batch \cup {backfill.last}
        BY <4>1, <4>2, <4>3, ContactsAssumption
      <4> QED
        BY <4>1, <4>2, <4>3, <4>4, <4>5, <3>1
    <3>3. BatchIsNext'
      BY <3>1, <1>4 DEF BatchIsNext, C!Rows
    <3> QED
      BY <3>1, <3>2, <3>3
  <2> QED
    BY <2>1, <2>2
<1>9. DialogsAreRows'
  BY <1>4, <1>5, <1>6, <1>7 DEF DialogsAreRows
<1>10. GroupIds' /\ groups' \subseteq C!Group /\ forgotten' \subseteq C!Row \X Address
       /\ \A e \in Editor : editors'[e] = C!Closed \/ editors'[e].seen \in C!Contact \cup C!Group
  BY <1>4, <1>5 DEF GroupIds, C!TypeOK
<1> QED
  BY <1>4, <1>5, <1>8, <1>9, <1>10 DEF C!TypeOK

\* The back-fill adds contacts only, under ids that were never given.
LEMMA BackfillKeepsShape ==
  ASSUME ContactsShape, C!StartBackfill \/ C!ReadBatch \/ C!StopBackfill
  PROVE  ContactsShape'
<1> USE DEF ContactsShape
<1>1. UNCHANGED <<messages, contacts, message_contacts, groups, editors, ids, forgotten>>
  BY DEF C!StartBackfill, C!ReadBatch, C!StopBackfill
<1>2. PICK n \in 0 .. MaxMessages : messages \in [1 .. n -> SUBSET Address]
  BY DEF C!TypeOK
<1>3. n \in Nat /\ C!Rows = 1 .. n /\ C!Rows' = 1 .. n
  BY <1>1, <1>2, ContactsAssumption DEF C!Rows
<1>4. ContactIds' /\ GroupIds' /\ DialogsAreRows'
  BY <1>1 DEF ContactIds, GroupIds, DialogsAreRows
<1>b. /\ backfill \in [at : {"idle", "read", "write"}, last : 0 .. MaxMessages,
                       completed : BOOLEAN, batch : SUBSET C!Row]
      /\ backfill.last \in Nat
  BY ContactsAssumption DEF C!TypeOK
<1>5. backfill' \in [at : {"idle", "read", "write"}, last : 0 .. MaxMessages,
                     completed : BOOLEAN, batch : SUBSET C!Row] /\ BatchIsNext'
  <2>1. CASE C!StartBackfill \/ C!StopBackfill
    BY <2>1, <1>1, <1>3, <1>b DEF C!StartBackfill, C!StopBackfill, BatchIsNext
  <2>2. CASE C!ReadBatch
    <3> DEFINE batch == {m \in C!Rows : m > backfill.last /\ m <= backfill.last + BatchSize}
    <3>1. CASE backfill.completed
      BY <2>2, <3>1, <1>1, <1>3, <1>b DEF C!ReadBatch, BatchIsNext
    <3>2. CASE ~backfill.completed
      <4>1. backfill' = [backfill EXCEPT !.at = "write", !.batch = batch]
        BY <2>2, <3>2 DEF C!ReadBatch
      <4>2. batch \in SUBSET C!Row
        BY <1>3, ContactsAssumption DEF C!Row
      <4>3. PICK last \in backfill.last .. backfill.last + BatchSize :
              batch = backfill.last + 1 .. last
              /\ (last < backfill.last + BatchSize => OldMessages <= last)
        <5>o. OldMessages \in Nat /\ OldMessages <= n /\ BatchSize \in Nat
          <6>1. CASE OldMessages = 0
            BY <6>1, <1>3, ContactsAssumption
          <6>2. CASE OldMessages # 0
            <7>1. OldMessages \in 1 .. OldMessages
              BY <6>2, ContactsAssumption
            <7> QED
              BY <7>1, <1>3, ContactsAssumption DEF BatchIsNext
          <6> QED
            BY <6>1, <6>2
        <5>1. CASE n < backfill.last
          <6>1. batch = backfill.last + 1 .. backfill.last
            BY <5>1, <1>3, <1>b
          <6> QED
            BY <5>1, <6>1, <5>o, <1>3, <1>b
        <5>2. CASE n >= backfill.last /\ n < backfill.last + BatchSize
          <6>1. batch = backfill.last + 1 .. n
            BY <5>2, <5>o, <1>3, <1>b
          <6> QED
            BY <5>2, <6>1, <5>o, <1>3, <1>b
        <5>3. CASE n >= backfill.last + BatchSize
          <6>1. batch = backfill.last + 1 .. backfill.last + BatchSize
            BY <5>3, <5>o, <1>3, <1>b
          <6> QED
            BY <5>3, <6>1, <5>o, <1>3, <1>b
        <5> QED
          BY SMTT(30), <5>1, <5>2, <5>3, <5>o, <1>3, <1>b
      <4>4. backfill'.at = "write" /\ backfill'.batch = batch /\ backfill'.last = backfill.last
        BY <4>1, <1>b
      <4>5. batch \subseteq C!Rows'
        BY <1>3
      <4>6. BatchIsNext'
        BY <4>3, <4>4, <4>5, <1>3 DEF BatchIsNext
      <4> QED
        BY <4>1, <4>2, <4>6, <1>b
    <3> QED
      BY <3>1, <3>2, <1>b
  <2> QED
    BY <2>1, <2>2
<1> QED
  BY <1>1, <1>4, <1>5 DEF C!TypeOK, C!Rows

\* A dialog that is accepted has the row in hand, as it is stored.
LEMMA CurrentIsStored ==
  ASSUME ContactsShape, NEW e \in Editor, editors[e] # C!Closed, C!Current(e)
  PROVE  /\ editors[e].seen.revision \in Nat /\ editors[e].seen.revision < MaxSaves
         /\ editors[e].kind = "contact" =>
              \E c \in contacts : /\ c.id = editors[e].seen.id
                                  /\ c.revision = editors[e].seen.revision
         /\ editors[e].kind = "group" =>
              \E g \in groups : /\ g.id = editors[e].seen.id
                                /\ g.revision = editors[e].seen.revision
<1>1. /\ editors[e] \in ContactDialog \cup GroupDialog
      /\ editors[e].seen.revision < MaxSaves
  BY DEF ContactsShape, DialogsAreRows
<1>2. editors[e].seen.revision \in Nat
  BY <1>1, ContactsAssumption DEF ContactDialog, GroupDialog, C!Contact, C!Group
<1>3. PICK r \in contacts \cup groups :
         /\ r.id = editors[e].seen.id /\ r.revision = editors[e].seen.revision
         /\ r \in contacts <=> editors[e].kind = "contact"
  BY DEF C!Current
<1> QED
  BY <1>1, <1>2, <1>3

\* So do the commands on contacts; an update replaces the row of an id.
LEMMA ContactsKeepShape ==
  ASSUME ContactsShape,
         \/ \E email \in Address, name \in ContactName : C!create_contact(email, name)
         \/ \E chosen \in SUBSET C!LiveIds : C!delete_contacts(chosen)
         \/ \E e \in Editor, name \in ContactName : C!update_contact_name(e, name)
  PROVE  ContactsShape'
<1> USE DEF ContactsShape
<1>t. /\ contacts \subseteq C!Contact /\ groups \subseteq C!Group
      /\ ids \in [contacts : 0 .. MaxContacts, groups : 0 .. MaxGroups]
      /\ ids.contacts \in Nat /\ ids.groups \in Nat
  BY DEF C!TypeOK
<1>n. \A c \in C!Contact : c.id \in Nat /\ c.revision \in Nat
  BY DEF C!Contact
<1>e. \A e \in Editor : editors[e] # C!Closed =>
        /\ editors[e] \in ContactDialog \cup GroupDialog
        /\ editors[e].seen.id \in Nat
  BY DEF DialogsAreRows, ContactDialog, GroupDialog, C!Contact, C!Group
<1>r. UNCHANGED messages => C!Rows' = C!Rows
  BY DEF C!Rows
<1>1. ASSUME NEW email \in Address, NEW name \in ContactName,
             C!create_contact(email, name)
      PROVE  ContactsShape'
  <2> DEFINE d == [id |-> ids.contacts + 1, email |-> email, name |-> name, revision |-> 1]
  <2>1. /\ contacts' = contacts \cup {d} /\ ids' = [ids EXCEPT !.contacts = @ + 1]
        /\ ids.contacts < MaxContacts
        /\ UNCHANGED <<messages, message_contacts, groups, backfill, editors, forgotten>>
    BY <1>1 DEF C!create_contact
  <2>2. d \in C!Contact /\ d.id = ids.contacts + 1
    BY <2>1, <1>t, ContactsAssumption DEF C!Contact
  <2>3. /\ ids'.contacts = ids.contacts + 1 /\ ids'.groups = ids.groups
        /\ ids' \in [contacts : 0 .. MaxContacts, groups : 0 .. MaxGroups]
    BY <2>1, <1>t, ContactsAssumption
  <2> HIDE DEF d
  <2>4. ContactIds'
    BY <2>1, <2>2, <2>3, <1>t, <1>n DEF ContactIds
  <2>5. GroupIds' /\ BatchIsNext'
    BY <2>1, <2>3, <1>r DEF GroupIds, BatchIsNext
  <2>6. DialogsAreRows'
    BY <2>1, <2>3, <1>t, <1>e DEF DialogsAreRows
  <2> QED
    BY <2>1, <2>2, <2>3, <2>4, <2>5, <2>6 DEF C!TypeOK
<1>2. ASSUME NEW chosen \in SUBSET C!LiveIds, C!delete_contacts(chosen)
      PROVE  ContactsShape'
  <2> DEFINE left(g) == [g EXCEPT !.members = @ \ chosen]
  <2>1. /\ contacts' \subseteq contacts /\ message_contacts' \subseteq message_contacts
        /\ groups' = {left(g) : g \in groups}
        /\ UNCHANGED <<messages, backfill, editors, ids>>
    BY <1>2 DEF C!delete_contacts
  <2>2. \A g \in groups : left(g) \in C!Group /\ left(g).id = g.id
    BY <1>t DEF C!Group
  <2> HIDE DEF left
  <2>3. groups' \subseteq C!Group /\ GroupIds'
    BY <2>1, <2>2 DEF GroupIds
  <2>4. forgotten' \subseteq C!Row \X Address
    <3>1. forgotten \subseteq C!Row \X Address
          /\ message_contacts \subseteq C!Row \X (1 .. MaxContacts)
      BY DEF C!TypeOK
    <3>2. \A l \in message_contacts : l[1] \in C!Row
      BY <3>1
    <3>3. \A c \in contacts : c.email \in Address
      BY <1>t DEF C!Contact
    <3> QED
      BY <1>2, <3>1, <3>2, <3>3 DEF C!delete_contacts
  <2>5. ContactIds' /\ BatchIsNext' /\ DialogsAreRows'
    BY <2>1, <1>r DEF ContactIds, BatchIsNext, DialogsAreRows
  <2> QED
    BY <2>1, <2>3, <2>4, <2>5 DEF C!TypeOK
<1>3. ASSUME NEW e \in Editor, NEW name \in ContactName, C!update_contact_name(e, name)
      PROVE  ContactsShape'
  <2> DEFINE saved(c) == IF c.id = editors[e].seen.id
                         THEN [c EXCEPT !.name = name, !.revision = @ + 1] ELSE c
  <2>1. /\ contacts' = {saved(c) : c \in contacts} /\ editors[e].kind = "contact"
        /\ C!Current(e) /\ editors' = [editors EXCEPT ![e] = C!Closed]
        /\ UNCHANGED <<messages, message_contacts, groups, backfill, ids, forgotten>>
    BY <1>3 DEF C!update_contact_name, C!Close
  <2>2. editors[e] # C!Closed
    <3>1. editors[e].kind = "contact"
      BY <1>3 DEF C!update_contact_name
    <3> QED
      BY <3>1 DEF C!Closed
  <2>3. PICK stored \in contacts : /\ stored.id = editors[e].seen.id
                                   /\ stored.revision \in Nat
                                   /\ stored.revision < MaxSaves
    BY <2>1, <2>2, CurrentIsStored
  <2>4. \A c \in contacts : saved(c) \in C!Contact /\ saved(c).id = c.id
    <3> TAKE c \in contacts
    <3>1. CASE c.id = editors[e].seen.id
      <4>1. c = stored
        BY <3>1, <2>3 DEF ContactIds
      <4>2. c \in C!Contact /\ c.revision + 1 \in 1 .. MaxSaves
        BY <4>1, <2>3, <1>t, ContactsAssumption
      <4> QED
        BY <3>1, <4>2 DEF C!Contact
    <3>2. CASE c.id # editors[e].seen.id
      BY <3>2, <1>t
    <3> QED
      BY <3>1, <3>2
  <2> HIDE DEF saved
  <2>5. contacts' \subseteq C!Contact /\ ContactIds'
    BY <2>1, <2>4 DEF ContactIds
  <2>6. GroupIds' /\ BatchIsNext'
    BY <2>1, <1>r DEF GroupIds, BatchIsNext
  <2>7. DialogsAreRows'
    BY <2>1 DEF DialogsAreRows
  <2> QED
    BY <2>1, <2>5, <2>6, <2>7 DEF C!TypeOK, DialogsAreRows
<1> QED
  BY <1>1, <1>2, <1>3

\* And the commands on groups.
LEMMA GroupsKeepShape ==
  ASSUME ContactsShape,
         \/ \E name \in GroupName, members \in SUBSET C!LiveIds :
              C!create_contact_group(name, members)
         \/ \E e \in Editor : \E name \in GroupName, members \in SUBSET C!LiveIds :
              C!save_contact_group(e, name, members)
         \/ \E e \in Editor : C!delete_contact_group(e)
  PROVE  ContactsShape'
<1> USE DEF ContactsShape
<1>t. /\ contacts \subseteq C!Contact /\ groups \subseteq C!Group
      /\ ids \in [contacts : 0 .. MaxContacts, groups : 0 .. MaxGroups]
      /\ ids.contacts \in Nat /\ ids.groups \in Nat
  BY DEF C!TypeOK
<1>n. \A g \in C!Group : g.id \in Nat /\ g.revision \in Nat
  BY DEF C!Group
<1>l. C!LiveIds \subseteq 1 .. MaxContacts
  BY <1>t DEF C!LiveIds, C!Contact
<1>e. \A e \in Editor : editors[e] # C!Closed =>
        /\ editors[e] \in ContactDialog \cup GroupDialog
        /\ editors[e].seen.id \in Nat
  BY DEF DialogsAreRows, ContactDialog, GroupDialog, C!Contact, C!Group
<1>r. UNCHANGED messages => C!Rows' = C!Rows
  BY DEF C!Rows
<1>1. ASSUME NEW name \in GroupName, NEW members \in SUBSET C!LiveIds,
             C!create_contact_group(name, members)
      PROVE  ContactsShape'
  <2> DEFINE h == [id |-> ids.groups + 1, name |-> name, members |-> members, revision |-> 1]
  <2>1. /\ groups' = groups \cup {h} /\ ids' = [ids EXCEPT !.groups = @ + 1]
        /\ ids.groups < MaxGroups
        /\ UNCHANGED <<messages, contacts, message_contacts, backfill, editors, forgotten>>
    BY <1>1 DEF C!create_contact_group
  <2>2. h \in C!Group /\ h.id = ids.groups + 1
    BY <2>1, <1>t, <1>l, ContactsAssumption DEF C!Group
  <2>3. /\ ids'.groups = ids.groups + 1 /\ ids'.contacts = ids.contacts
        /\ ids' \in [contacts : 0 .. MaxContacts, groups : 0 .. MaxGroups]
    BY <2>1, <1>t, ContactsAssumption
  <2> HIDE DEF h
  <2>4. GroupIds'
    BY <2>1, <2>2, <2>3, <1>t, <1>n DEF GroupIds
  <2>5. ContactIds' /\ BatchIsNext'
    BY <2>1, <2>3, <1>r DEF ContactIds, BatchIsNext
  <2>6. DialogsAreRows'
    BY <2>1, <2>3, <1>t, <1>e DEF DialogsAreRows
  <2> QED
    BY <2>1, <2>2, <2>3, <2>4, <2>5, <2>6 DEF C!TypeOK
<1>2. ASSUME NEW e \in Editor, NEW name \in GroupName, NEW members \in SUBSET C!LiveIds,
             C!save_contact_group(e, name, members)
      PROVE  ContactsShape'
  <2> DEFINE saved(g) == IF g.id = editors[e].seen.id
                         THEN [g EXCEPT !.name = name, !.members = members, !.revision = @ + 1]
                         ELSE g
  <2>1. /\ groups' = {saved(g) : g \in groups} /\ editors[e].kind = "group"
        /\ C!Current(e) /\ editors' = [editors EXCEPT ![e] = C!Closed]
        /\ UNCHANGED <<messages, contacts, message_contacts, backfill, ids, forgotten>>
    BY <1>2 DEF C!save_contact_group, C!Close
  <2>2. editors[e] # C!Closed
    <3>1. editors[e].kind = "group"
      BY <1>2 DEF C!save_contact_group
    <3> QED
      BY <3>1 DEF C!Closed
  <2>3. PICK stored \in groups : /\ stored.id = editors[e].seen.id
                                 /\ stored.revision \in Nat
                                 /\ stored.revision < MaxSaves
    BY <2>1, <2>2, CurrentIsStored
  <2>4. \A g \in groups : saved(g) \in C!Group /\ saved(g).id = g.id
    <3> TAKE g \in groups
    <3>1. CASE g.id = editors[e].seen.id
      <4>1. g = stored
        BY <3>1, <2>3 DEF GroupIds
      <4>2. g \in C!Group /\ g.revision + 1 \in 1 .. MaxSaves
        BY <4>1, <2>3, <1>t, ContactsAssumption
      <4> QED
        BY <3>1, <4>2, <1>l DEF C!Group
    <3>2. CASE g.id # editors[e].seen.id
      BY <3>2, <1>t
    <3> QED
      BY <3>1, <3>2
  <2> HIDE DEF saved
  <2>5. groups' \subseteq C!Group /\ GroupIds'
    BY <2>1, <2>4 DEF GroupIds
  <2>6. ContactIds' /\ BatchIsNext'
    BY <2>1, <1>r DEF ContactIds, BatchIsNext
  <2>7. DialogsAreRows'
    BY <2>1 DEF DialogsAreRows
  <2> QED
    BY <2>1, <2>5, <2>6, <2>7 DEF C!TypeOK, DialogsAreRows
<1>3. ASSUME NEW e \in Editor, C!delete_contact_group(e)
      PROVE  ContactsShape'
  <2>1. /\ groups' \subseteq groups /\ editors' = [editors EXCEPT ![e] = C!Closed]
        /\ UNCHANGED <<messages, contacts, message_contacts, backfill, ids, forgotten>>
    BY <1>3 DEF C!delete_contact_group, C!Close
  <2>2. GroupIds' /\ ContactIds' /\ BatchIsNext' /\ DialogsAreRows'
    BY <2>1, <1>r DEF GroupIds, ContactIds, BatchIsNext, DialogsAreRows
  <2> QED
    BY <2>1, <2>2 DEF C!TypeOK, DialogsAreRows
<1> QED
  BY <1>1, <1>2, <1>3

\* A dialog that opens takes a row as it is.
LEMMA DialogsKeepShape ==
  ASSUME ContactsShape, \E e \in Editor : C!Open(e) \/ C!Dismiss(e)
  PROVE  ContactsShape'
<1> USE DEF ContactsShape
<1>1. PICK e \in Editor : C!Open(e) \/ C!Dismiss(e)
  OBVIOUS
<1>2. UNCHANGED <<messages, contacts, message_contacts, groups, backfill, ids, forgotten>>
  BY <1>1 DEF C!Open, C!Dismiss
<1>3. C!Rows' = C!Rows
  BY <1>2 DEF C!Rows
<1>4. DialogsAreRows'
  <2>1. CASE C!Dismiss(e)
    BY <2>1, <1>2 DEF C!Dismiss, C!Close, DialogsAreRows
  <2>2. CASE C!Open(e)
    <3>1. PICK row \in contacts \cup groups :
            /\ row.revision < MaxSaves
            /\ editors' = [editors EXCEPT ![e] =
                 [kind |-> IF row \in contacts THEN "contact" ELSE "group", seen |-> row]]
      BY <2>2 DEF C!Open
    <3>2. contacts \subseteq C!Contact /\ groups \subseteq C!Group
      BY DEF C!TypeOK
    <3>3. CASE row \in contacts
      <4>1. [kind |-> "contact", seen |-> row] \in ContactDialog /\ row.id <= ids.contacts
        BY <3>2, <3>3 DEF ContactDialog, ContactIds
      <4>2. editors' = [editors EXCEPT ![e] = [kind |-> "contact", seen |-> row]]
        BY <3>1, <3>3
      <4> QED
        BY <4>1, <4>2, <3>1, <1>2 DEF DialogsAreRows
    <3>4. CASE row \notin contacts
      <4>1. [kind |-> "group", seen |-> row] \in GroupDialog /\ row.id <= ids.groups
        BY <3>2, <3>4 DEF GroupDialog, GroupIds
      <4>2. editors' = [editors EXCEPT ![e] = [kind |-> "group", seen |-> row]]
        BY <3>1, <3>4
      <4> QED
        BY <4>1, <4>2, <3>1, <1>2 DEF DialogsAreRows
    <3> QED
      BY <3>3, <3>4
  <2> QED
    BY <1>1, <2>1, <2>2
<1>5. \A f \in Editor : editors'[f] = C!Closed \/ editors'[f].seen \in C!Contact \cup C!Group
  BY <1>4, <1>2 DEF DialogsAreRows, ContactDialog, GroupDialog
<1>6. ContactIds' /\ GroupIds' /\ BatchIsNext'
  BY <1>2, <1>3 DEF ContactIds, GroupIds, BatchIsNext
<1> QED
  BY <1>2, <1>4, <1>5, <1>6 DEF C!TypeOK

\* The steps of the contacts, one after the other.
LEMMA ContactsMove ==
  ASSUME C!Next
  PROVE  \/ C!StoreMessage \/ C!WriteBatch
         \/ C!StartBackfill \/ C!ReadBatch \/ C!StopBackfill
         \/ \/ \E email \in Address, name \in ContactName : C!create_contact(email, name)
            \/ \E chosen \in SUBSET C!LiveIds : C!delete_contacts(chosen)
            \/ \E e \in Editor, name \in ContactName : C!update_contact_name(e, name)
         \/ \/ \E name \in GroupName, members \in SUBSET C!LiveIds :
                 C!create_contact_group(name, members)
            \/ \E e \in Editor : \E name \in GroupName, members \in SUBSET C!LiveIds :
                 C!save_contact_group(e, name, members)
            \/ \E e \in Editor : C!delete_contact_group(e)
         \/ \E e \in Editor : C!Open(e) \/ C!Dismiss(e)
  BY DEF C!Next

\* Every step of the contacts keeps their shape.
LEMMA ContactsGoOn == ContactsShape /\ C!Next => ContactsShape'
  BY ContactsMove, StoringKeepsShape, BackfillKeepsShape, ContactsKeepShape,
     GroupsKeepShape, DialogsKeepShape

-----------------------------------------------------------------------------
(* Contacts: the back-fill *)

\* What is linked stays linked as long as its contact and its link do.
LEMMA LinksStay ==
  ASSUME C!BackfillMissesNothing, NEW old, old = C!Rows,
         \A m \in old : m \in C!Rows' /\ messages'[m] = messages[m],
         \A c \in contacts : \E d \in contacts' : d.id = c.id /\ d.email = c.email,
         message_contacts \subseteq message_contacts', forgotten \subseteq forgotten'
  PROVE  \A m \in old : \A a \in messages'[m] :
            \/ \E c \in contacts' : c.email = a /\ <<m, c.id>> \in message_contacts'
            \/ <<m, a>> \in forgotten'
            \/ m <= OldMessages /\ m > backfill.last /\ ~backfill.completed
<1> TAKE m \in old
<1> TAKE a \in messages'[m]
<1>1. \/ \E c \in contacts : c.email = a /\ <<m, c.id>> \in message_contacts
      \/ <<m, a>> \in forgotten
      \/ m <= OldMessages /\ m > backfill.last /\ ~backfill.completed
  BY SMTT(30) DEF C!BackfillMissesNothing
<1>2. ASSUME NEW c \in contacts, c.email = a, <<m, c.id>> \in message_contacts
      PROVE  \E d \in contacts' : d.email = a /\ <<m, d.id>> \in message_contacts'
  <2>1. PICK d \in contacts' : d.id = c.id /\ d.email = c.email
    OBVIOUS
  <2> QED
    BY <2>1, <1>2
<1> QED
  BY <1>1, <1>2

\* The back-fill passes a message only when its addresses are stored.
LEMMA BackfillGoesOn ==
  ASSUME ContactsShape, C!Next, C!BackfillMissesNothing
  PROVE  C!BackfillMissesNothing'
<1> DEFINE Told(m, a) ==
             \/ \E c \in contacts' : c.email = a /\ <<m, c.id>> \in message_contacts'
             \/ <<m, a>> \in forgotten'
<1> DEFINE Later(m) == m <= OldMessages /\ m > backfill.last /\ ~backfill.completed
<1>t. /\ contacts \subseteq C!Contact
      /\ backfill \in [at : {"idle", "read", "write"}, last : 0 .. MaxMessages,
                       completed : BOOLEAN, batch : SUBSET C!Row]
      /\ backfill.last \in Nat
  BY ContactsAssumption DEF ContactsShape, C!TypeOK
<1>n. PICK n \in 0 .. MaxMessages : messages \in [1 .. n -> SUBSET Address]
  BY DEF ContactsShape, C!TypeOK
<1>m. n \in Nat /\ C!Rows = 1 .. n /\ C!Cardinality(C!Rows) = n /\ DOMAIN messages = 1 .. n
  BY <1>n, RowsAreNumbered, CountsAlike, ContactsAssumption DEF C!Rows
<1>1. CASE C!StoreMessage
  <2>b. UNCHANGED <<backfill, forgotten>>
    BY <1>1 DEF C!StoreMessage
  <2>1. ASSUME NEW addresses \in SUBSET Address, n < MaxMessages,
               messages' = [m \in 1 .. n + 1 |->
                               IF m \in C!Rows THEN messages[m] ELSE addresses],
               C!Upsert({n + 1})
        PROVE  C!BackfillMissesNothing'
    <3>1. messages' \in [1 .. n + 1 -> SUBSET Address] /\ n + 1 \in 0 .. MaxMessages
      BY <2>1, <1>n, <1>m, ContactsAssumption
    <3>2. /\ C!Rows' = 1 .. n + 1 /\ {n + 1} \in SUBSET DOMAIN messages'
          /\ messages' \in UNION {[1 .. k -> SUBSET Address] : k \in 0 .. MaxMessages}
      BY <3>1, <1>m DEF C!Rows
    <3>a. PICK batch \in SUBSET DOMAIN messages' : batch = {n + 1} /\ C!Upsert(batch)
      BY <2>1, <3>2
    <3>b. /\ contacts \subseteq contacts' /\ message_contacts \subseteq message_contacts'
          /\ \A m \in batch : \A a \in messages'[m] :
                \E c \in contacts' : c.email = a /\ <<m, c.id>> \in message_contacts'
      BY <3>2, <3>a, UpsertAdds
    <3>3. /\ contacts \subseteq contacts' /\ message_contacts \subseteq message_contacts'
          /\ \A a \in messages'[n + 1] : Told(n + 1, a)
      BY <3>a, <3>b
    <3>4. \A m \in 1 .. n : m \in C!Rows' /\ messages'[m] = messages[m]
      BY <2>1, <3>2, <1>m
    <3>5. \A m \in 1 .. n : \A a \in messages'[m] : Told(m, a) \/ Later(m)
      BY <3>3, <3>4, <1>m, <2>b, LinksStay
    <3>6. \A m \in C!Rows' : m \in 1 .. n \/ m = n + 1
      BY <3>2, <1>m
    <3> HIDE DEF Told
    <3>7. \A m \in C!Rows' : \A a \in messages'[m] : Told(m, a) \/ Later(m)
      BY <3>3, <3>5, <3>6
    <3> QED
      BY <3>7, <2>b DEF C!BackfillMissesNothing, Told
  <2>2. ASSUME NEW k \in C!Rows, UNCHANGED messages, C!Upsert({k})
        PROVE  C!BackfillMissesNothing'
    <3>1. contacts \subseteq contacts' /\ message_contacts \subseteq message_contacts'
      BY <2>2, UpsertAdds DEF ContactsShape, C!TypeOK, C!Rows
    <3>2. C!Rows' = C!Rows
      BY <2>2 DEF C!Rows
    <3>3. \A m \in C!Rows : \A a \in messages'[m] : Told(m, a) \/ Later(m)
      BY <2>2, <3>1, <3>2, <2>b, LinksStay
    <3> QED
      BY <3>2, <3>3, <2>b DEF C!BackfillMissesNothing
  <2> QED
    BY <1>1, <2>1, <2>2, <1>m DEF C!StoreMessage
<1>2. CASE C!WriteBatch
  <2>1. /\ UNCHANGED <<messages, forgotten>> /\ C!Upsert(backfill.batch)
        /\ backfill.at = "write"
        /\ backfill'.last = C!Max(backfill.batch \cup {backfill.last})
        /\ backfill'.completed = (Cardinality(backfill.batch) < BatchSize)
    BY <1>2, CountsAlike DEF C!WriteBatch
  <2>2. PICK last \in backfill.last .. backfill.last + BatchSize :
            /\ backfill.batch = backfill.last + 1 .. last
            /\ backfill.batch \subseteq C!Rows
            /\ last < backfill.last + BatchSize => OldMessages <= last
    BY <2>1 DEF ContactsShape, BatchIsNext
  <2>3. last \in Nat /\ BatchSize \in Nat
    BY <2>2, <1>t, ContactsAssumption
  <2>4. C!Rows' = C!Rows
    BY <2>1 DEF C!Rows
  <2>5. /\ contacts \subseteq contacts' /\ message_contacts \subseteq message_contacts'
        /\ \A m \in backfill.batch : \A a \in messages'[m] : Told(m, a)
    <3>1. backfill.batch \in SUBSET DOMAIN messages'
      BY <2>1, <2>2 DEF C!Rows
    <3>2. messages' \in UNION {[1 .. k -> SUBSET Address] : k \in 0 .. MaxMessages}
      BY <2>1 DEF ContactsShape, C!TypeOK
    <3>3. /\ contacts \subseteq contacts' /\ message_contacts \subseteq message_contacts'
          /\ \A m \in backfill.batch : \A a \in messages'[m] :
               \E c \in contacts' : c.email = a /\ <<m, c.id>> \in message_contacts'
      BY <2>1, <3>1, <3>2, UpsertAdds
    <3> QED
      BY <3>3
  <2>6. \A m \in C!Rows : \A a \in messages'[m] : Told(m, a) \/ Later(m)
    <3>1. /\ \A m \in C!Rows : m \in C!Rows' /\ messages'[m] = messages[m]
          /\ \A c \in contacts : \E d \in contacts' : d.id = c.id /\ d.email = c.email
          /\ forgotten \subseteq forgotten'
      BY <2>1, <2>4, <2>5
    <3> QED
      BY <3>1, <2>5, LinksStay
  <2>7. backfill'.last = last
    <3>1. backfill.batch \cup {backfill.last} = backfill.last .. last
      BY <2>2, <2>3, <1>t
    <3>2. last \in backfill.last .. last /\ \A x \in backfill.last .. last : x <= last
      BY <2>2, <2>3, <1>t
    <3>3. \A x \in backfill.last .. last : (\A y \in backfill.last .. last : y <= x) => x = last
      BY <3>2, <2>3, <1>t
    <3>4. C!Max(backfill.last .. last) = last
      BY <3>2, <3>3 DEF C!Max
    <3> QED
      BY <2>1, <3>1, <3>4
  <2>8. Cardinality(backfill.batch) = last - backfill.last
    <3>1. Cardinality(backfill.last + 1 .. last) =
             IF backfill.last + 1 > last THEN 0 ELSE last - (backfill.last + 1) + 1
      <4>1. backfill.last + 1 \in Int /\ last \in Int
        BY <2>3, <1>t
      <4> QED
        BY <4>1, FS_Interval
    <3> QED
      BY <3>1, <2>2, <2>3, <1>t
  <2> HIDE DEF Told
  <2>9. ASSUME NEW m \in C!Rows, NEW a \in messages'[m], ~Told(m, a)
        PROVE  m <= OldMessages /\ m > backfill'.last /\ ~backfill'.completed
    <3>1. Later(m) /\ m \notin backfill.batch /\ m \in Nat
      BY <2>5, <2>6, <2>9, <1>m
    <3>2. m > last
      BY <3>1, <2>2, <2>3, <1>t
    <3>3. last = backfill.last + BatchSize
      BY <3>1, <3>2, <2>2, <2>3, <1>t, ContactsAssumption
    <3> QED
      BY <3>1, <3>2, <3>3, <2>1, <2>7, <2>8, <2>3, <1>t
  <2> QED
    BY <2>4, <2>9 DEF C!BackfillMissesNothing, Told
<1>3. CASE C!StartBackfill \/ C!ReadBatch \/ C!StopBackfill
  <2>1. /\ UNCHANGED <<messages, contacts, message_contacts, groups, editors, ids, forgotten>>
        /\ backfill'.last = backfill.last /\ backfill'.completed = backfill.completed
    BY <1>3, <1>t DEF C!StartBackfill, C!ReadBatch, C!StopBackfill
  <2> QED
    BY <2>1 DEF C!BackfillMissesNothing, C!Rows
<1>4. ASSUME NEW email \in Address, NEW name \in ContactName, C!create_contact(email, name)
      PROVE  C!BackfillMissesNothing'
  <2>1. /\ contacts \subseteq contacts'
        /\ UNCHANGED <<messages, message_contacts, backfill, forgotten>>
    BY <1>4 DEF C!create_contact
  <2> QED
    BY <2>1 DEF C!BackfillMissesNothing, C!Rows
<1>5. ASSUME NEW chosen \in SUBSET C!LiveIds, C!delete_contacts(chosen)
      PROVE  C!BackfillMissesNothing'
  <2>1. /\ UNCHANGED <<messages, backfill>>
        /\ contacts' = {c \in contacts : c.id \notin chosen}
        /\ message_contacts' = {l \in message_contacts : l[2] \notin chosen}
        /\ forgotten' = forgotten \cup
             {<<l[1], c.email>> : l \in {k \in message_contacts : k[2] \in chosen},
                                  c \in {k \in contacts : k.id \in chosen}}
    BY <1>5 DEF C!delete_contacts
  <2>2. ASSUME NEW m \in C!Rows, NEW a \in messages[m], NEW c \in contacts,
               c.email = a, <<m, c.id>> \in message_contacts
        PROVE  Told(m, a)
    <3>1. CASE c.id \in chosen
      <4>1. <<m, c.id>>[1] = m /\ <<m, c.id>>[2] = c.id
        OBVIOUS
      <4>2. <<<<m, c.id>>[1], c.email>> \in forgotten'
        BY <2>1, <2>2, <3>1, <4>1
      <4> QED
        BY <4>1, <4>2, <2>2
    <3>2. CASE c.id \notin chosen
      BY <2>1, <2>2, <3>2
    <3> QED
      BY <3>1, <3>2
  <2>3. C!Rows' = C!Rows
    BY <2>1 DEF C!Rows
  <2>4. \A m \in C!Rows : \A a \in messages[m] : Told(m, a) \/ Later(m)
    <3> TAKE m \in C!Rows
    <3> TAKE a \in messages[m]
    <3>1. \/ \E c \in contacts : c.email = a /\ <<m, c.id>> \in message_contacts
          \/ <<m, a>> \in forgotten
          \/ Later(m)
      BY DEF C!BackfillMissesNothing
    <3>2. <<m, a>> \in forgotten => Told(m, a)
      BY <2>1
    <3> HIDE DEF Told, Later
    <3> QED
      BY <3>1, <3>2, <2>2
  <2>5. messages' = messages /\ backfill' = backfill
    BY <2>1
  <2> HIDE DEF Told
  <2> QED
    BY <2>3, <2>4, <2>5 DEF C!BackfillMissesNothing, Told
<1>6. ASSUME NEW e \in Editor, NEW name \in ContactName, C!update_contact_name(e, name)
      PROVE  C!BackfillMissesNothing'
  <2> DEFINE saved(c) == IF c.id = editors[e].seen.id
                         THEN [c EXCEPT !.name = name, !.revision = @ + 1] ELSE c
  <2>1. /\ contacts' = {saved(c) : c \in contacts}
        /\ UNCHANGED <<messages, message_contacts, backfill, forgotten>>
    BY <1>6 DEF C!update_contact_name
  <2>2. \A c \in contacts : saved(c).id = c.id /\ saved(c).email = c.email
    BY <1>t DEF C!Contact
  <2> HIDE DEF saved
  <2>3. \A c \in contacts : \E d \in contacts' : d.id = c.id /\ d.email = c.email
    BY <2>1, <2>2
  <2>4. C!Rows' = C!Rows /\ \A m \in C!Rows : m \in C!Rows' /\ messages'[m] = messages[m]
    BY <2>1 DEF C!Rows
  <2>5. message_contacts \subseteq message_contacts' /\ forgotten \subseteq forgotten'
    BY <2>1
  <2>6. \A m \in C!Rows : \A a \in messages'[m] : Told(m, a) \/ Later(m)
    BY <2>3, <2>4, <2>5, LinksStay
  <2>7. backfill' = backfill
    BY <2>1
  <2> HIDE DEF Told
  <2> QED
    BY <2>4, <2>6, <2>7 DEF C!BackfillMissesNothing, Told
<1>7. ASSUME UNCHANGED <<messages, contacts, message_contacts, backfill, forgotten>>
      PROVE  C!BackfillMissesNothing'
  BY <1>7 DEF C!BackfillMissesNothing, C!Rows
<1>8. ASSUME NEW name, NEW members, C!create_contact_group(name, members)
      PROVE  C!BackfillMissesNothing'
  BY <1>7, <1>8 DEF C!create_contact_group
<1>9. ASSUME NEW e \in Editor, \/ C!Open(e) \/ C!Dismiss(e) \/ C!delete_contact_group(e)
                               \/ \E name, members : C!save_contact_group(e, name, members)
      PROVE  C!BackfillMissesNothing'
  BY <1>7, <1>9 DEF C!Open, C!Dismiss, C!delete_contact_group, C!save_contact_group
<1> QED
  BY ContactsMove, <1>1, <1>2, <1>3, <1>4, <1>5, <1>6, <1>8, <1>9

-----------------------------------------------------------------------------
(* Contacts: what the user wrote *)

\* A stored row is at least as far on as a dialog that shows it, and is what the dialog
\* shows if it has the same revision; members were taken away with their contacts.
MembersLive == \A g \in groups : g.members \subseteq C!LiveIds
DialogsKnow ==
    \A e \in Editor :
        /\ editors[e].kind = "contact" => \A c \in contacts :
             c.id = editors[e].seen.id =>
                /\ editors[e].seen.revision <= c.revision
                /\ editors[e].seen.revision = c.revision => c.name = editors[e].seen.name
        /\ editors[e].kind = "group" =>
             /\ editors[e].seen.members \subseteq 1 .. ids.contacts
             /\ \A g \in groups : g.id = editors[e].seen.id =>
                  /\ editors[e].seen.revision <= g.revision
                  /\ editors[e].seen.revision = g.revision =>
                       /\ g.name = editors[e].seen.name
                       /\ g.members = editors[e].seen.members \cap C!LiveIds
ContactsKnown == MembersLive /\ DialogsKnow

\* A dialog that is open has its kind.
LEMMA DialogsHaveKinds ==
  ASSUME ContactsShape, NEW e \in Editor
  PROVE  /\ editors[e].kind = "contact" => /\ editors[e].seen \in C!Contact
                                           /\ editors[e].seen.id <= ids.contacts
         /\ editors[e].kind = "group" => /\ editors[e].seen \in C!Group
                                         /\ editors[e].seen.id <= ids.groups
         /\ editors[e] = C!Closed => editors[e].kind = "closed"
<1>1. editors[e] \in {C!Closed} \cup ContactDialog \cup GroupDialog
  BY DEF ContactsShape, DialogsAreRows
<1>2. editors[e] = C!Closed => editors[e].kind = "closed"
  BY DEF C!Closed
<1>3. editors[e] # C!Closed =>
         /\ editors[e].kind = "contact" => editors[e].seen.id <= ids.contacts
         /\ editors[e].kind = "group" => editors[e].seen.id <= ids.groups
  BY DEF ContactsShape, DialogsAreRows
<1>4. editors[e] \in ContactDialog => editors[e].kind = "contact" /\ editors[e].seen \in C!Contact
  BY DEF ContactDialog
<1>5. editors[e] \in GroupDialog => editors[e].kind = "group" /\ editors[e].seen \in C!Group
  BY DEF GroupDialog
<1> QED
  BY <1>1, <1>2, <1>3, <1>4, <1>5

\* Nothing is replaced where the contacts only grow.
LEMMA GrowthKeepsKnown ==
  ASSUME ContactsShape, ContactsKnown,
         contacts \subseteq contacts',
         \A d \in contacts' : d \notin contacts => d.id \in Nat /\ d.id > ids.contacts,
         ids'.contacts \in Nat, ids'.contacts >= ids.contacts, ContactIds',
         UNCHANGED <<groups, editors>>
  PROVE  ContactsKnown' /\ C!OnlyReadersReplace
<1>t. /\ contacts \subseteq C!Contact /\ groups \subseteq C!Group /\ ids.contacts \in Nat
      /\ ContactIds /\ GroupIds
  BY DEF ContactsShape, C!TypeOK
<1>l. C!LiveIds \subseteq C!LiveIds' /\ C!LiveIds' \cap (1 .. ids.contacts) \subseteq C!LiveIds
  BY <1>t DEF C!LiveIds
<1>1. MembersLive'
  BY <1>l DEF ContactsKnown, MembersLive
<1>2. ASSUME NEW e \in Editor, editors[e].kind = "contact", NEW c \in contacts',
             c.id = editors[e].seen.id
      PROVE  /\ editors[e].seen.revision <= c.revision
             /\ editors[e].seen.revision = c.revision => c.name = editors[e].seen.name
  <2>1. editors[e].seen.id \in Nat /\ editors[e].seen.id <= ids.contacts
    BY <1>2, DialogsHaveKinds DEF C!Contact
  <2>2. c \in contacts
    BY <1>2, <2>1, <1>t
  <2> QED
    BY <2>2, <1>2 DEF ContactsKnown, DialogsKnow
<1>3. ASSUME NEW e \in Editor, editors[e].kind = "group"
      PROVE  /\ editors[e].seen.members \subseteq 1 .. ids'.contacts
             /\ editors[e].seen.members \cap C!LiveIds' = editors[e].seen.members \cap C!LiveIds
  <2>1. editors[e].seen.members \subseteq 1 .. ids.contacts
    BY <1>3 DEF ContactsKnown, DialogsKnow
  <2> QED
    BY <2>1, <1>l, <1>t
<1>4. DialogsKnow'
  <2> SUFFICES ASSUME NEW e \in Editor
               PROVE  (/\ editors[e].kind = "contact" => \A c \in contacts :
                           c.id = editors[e].seen.id =>
                             /\ editors[e].seen.revision <= c.revision
                             /\ editors[e].seen.revision = c.revision =>
                                  c.name = editors[e].seen.name
                       /\ editors[e].kind = "group" =>
                           /\ editors[e].seen.members \subseteq 1 .. ids.contacts
                           /\ \A g \in groups : g.id = editors[e].seen.id =>
                                /\ editors[e].seen.revision <= g.revision
                                /\ editors[e].seen.revision = g.revision =>
                                     /\ g.name = editors[e].seen.name
                                     /\ g.members = editors[e].seen.members \cap C!LiveIds)'
    BY DEF DialogsKnow
  <2>1. editors[e].kind = "group" => \A g \in groups : g.id = editors[e].seen.id =>
            /\ editors[e].seen.revision <= g.revision
            /\ editors[e].seen.revision = g.revision =>
                 /\ g.name = editors[e].seen.name
                 /\ g.members = editors[e].seen.members \cap C!LiveIds
    BY DEF ContactsKnown, DialogsKnow
  <2> QED
    BY <2>1, <1>2, <1>3
<1>5. C!OnlyReadersReplace
  <2>1. ASSUME NEW c \in contacts, NEW d \in contacts', c.id = d.id
        PROVE  c.name = d.name
    BY <2>1, <1>t DEF ContactIds
  <2>2. ASSUME NEW g \in groups, NEW h \in groups', g.id = h.id
        PROVE  g.name = h.name /\ h.members = g.members \cap {c.id : c \in contacts'}
    <3>1. g = h
      BY <2>2, <1>t DEF GroupIds
    <3>2. g.members \subseteq {c.id : c \in contacts'}
      BY <1>l DEF ContactsKnown, MembersLive, C!LiveIds
    <3> QED
      BY <3>1, <3>2
  <2> QED
    BY <2>1, <2>2 DEF C!OnlyReadersReplace
<1> QED
  BY <1>1, <1>4, <1>5 DEF ContactsKnown

\* Deleting contacts takes them out of the groups with the same write.
LEMMA DeletionKeepsKnown ==
  ASSUME ContactsShape, ContactsKnown, NEW chosen \in SUBSET C!LiveIds,
         C!delete_contacts(chosen)
  PROVE  ContactsKnown' /\ C!OnlyReadersReplace
<1>t. /\ contacts \subseteq C!Contact /\ groups \subseteq C!Group
      /\ ContactIds /\ GroupIds
  BY DEF ContactsShape, C!TypeOK
<1> DEFINE rest(g) == [g EXCEPT !.members = @ \ chosen]
<1>1. /\ contacts' = {c \in contacts : c.id \notin chosen}
      /\ groups' = {rest(g) : g \in groups}
      /\ UNCHANGED <<editors, ids>>
  BY DEF C!delete_contacts
<1>2. \A g \in groups : /\ rest(g).id = g.id /\ rest(g).name = g.name
                        /\ rest(g).revision = g.revision
                        /\ rest(g).members = g.members \ chosen
  BY <1>t DEF C!Group
<1> HIDE DEF rest
<1>3. C!LiveIds' = C!LiveIds \ chosen
  BY <1>1 DEF C!LiveIds
<1>4. MembersLive'
  BY <1>1, <1>2, <1>3 DEF ContactsKnown, MembersLive
<1>5. DialogsKnow'
  <2>1. ASSUME NEW e \in Editor, editors[e].kind = "group"
        PROVE  /\ editors[e].seen.members \subseteq 1 .. ids.contacts
               /\ \A h \in groups' : h.id = editors[e].seen.id =>
                    /\ editors[e].seen.revision <= h.revision
                    /\ editors[e].seen.revision = h.revision =>
                         /\ h.name = editors[e].seen.name
                         /\ h.members = editors[e].seen.members \cap C!LiveIds'
    BY <2>1, <1>1, <1>2, <1>3 DEF ContactsKnown, DialogsKnow
  <2>2. ASSUME NEW e \in Editor, editors[e].kind = "contact", NEW c \in contacts',
               c.id = editors[e].seen.id
        PROVE  /\ editors[e].seen.revision <= c.revision
               /\ editors[e].seen.revision = c.revision => c.name = editors[e].seen.name
    BY <2>2, <1>1 DEF ContactsKnown, DialogsKnow
  <2> QED
    BY <2>1, <2>2, <1>1 DEF DialogsKnow
<1>6. C!OnlyReadersReplace
  <2>1. ASSUME NEW c \in contacts, NEW d \in contacts', c.id = d.id
        PROVE  c.name = d.name
    BY <2>1, <1>1, <1>t DEF ContactIds
  <2>2. ASSUME NEW g \in groups, NEW h \in groups', g.id = h.id
        PROVE  g.name = h.name /\ h.members = g.members \cap {c.id : c \in contacts'}
    <3>1. h = rest(g)
      BY <2>2, <1>1, <1>2, <1>t DEF GroupIds
    <3>2. g.members \subseteq C!LiveIds /\ C!LiveIds' = {c.id : c \in contacts'}
      BY DEF ContactsKnown, MembersLive, C!LiveIds
    <3> QED
      BY <3>1, <3>2, <1>2, <1>3
  <2> QED
    BY <2>1, <2>2 DEF C!OnlyReadersReplace
<1> QED
  BY <1>4, <1>5, <1>6 DEF ContactsKnown

\* A renamed contact has a new version: a dialog that read the old one is refused.
LEMMA RenamingKeepsKnown ==
  ASSUME ContactsShape, ContactsKnown, NEW e \in Editor, NEW name \in ContactName,
         C!update_contact_name(e, name)
  PROVE  ContactsKnown' /\ C!OnlyReadersReplace
<1>t. /\ contacts \subseteq C!Contact /\ groups \subseteq C!Group
      /\ ContactIds /\ GroupIds
  BY DEF ContactsShape, C!TypeOK
<1>n. \A c \in contacts : c.revision \in Nat
  BY <1>t DEF C!Contact
<1> DEFINE saved(c) == IF c.id = editors[e].seen.id
                       THEN [c EXCEPT !.name = name, !.revision = @ + 1] ELSE c
<1>1. /\ contacts' = {saved(c) : c \in contacts} /\ editors[e].kind = "contact"
      /\ C!Current(e) /\ editors' = [editors EXCEPT ![e] = C!Closed]
      /\ UNCHANGED <<groups, ids>>
  BY DEF C!update_contact_name, C!Close
<1>2. \A c \in contacts :
        /\ saved(c).id = c.id
        /\ c.id # editors[e].seen.id => saved(c) = c
        /\ c.id = editors[e].seen.id => saved(c).revision = c.revision + 1
  BY <1>t DEF C!Contact
<1> HIDE DEF saved
<1>3. C!LiveIds' = C!LiveIds
  BY <1>1, <1>2 DEF C!LiveIds
<1>4. \A f \in Editor : IF f = e THEN editors'[f] = C!Closed ELSE editors'[f] = editors[f]
  BY <1>1 DEF ContactsShape, DialogsAreRows
<1>c. C!Closed.kind = "closed"
  BY DEF C!Closed
<1>5. DialogsKnow'
  <2>1. ASSUME NEW f \in Editor, editors'[f].kind = "contact", NEW c \in contacts',
               c.id = editors'[f].seen.id
        PROVE  /\ editors'[f].seen.revision <= c.revision
               /\ editors'[f].seen.revision = c.revision => c.name = editors'[f].seen.name
    <3>1. editors'[f] = editors[f]
      BY <2>1, <1>4, <1>c
    <3>2. PICK b \in contacts : c = saved(b)
      BY <1>1
    <3>3. /\ editors[f].seen.revision <= b.revision
          /\ editors[f].seen.revision = b.revision => b.name = editors[f].seen.name
      BY <2>1, <3>1, <3>2, <1>2 DEF ContactsKnown, DialogsKnow
    <3>4. editors[f].seen.revision \in Nat
      BY <2>1, <3>1, DialogsHaveKinds DEF C!Contact
    <3> QED
      BY <3>1, <3>2, <3>3, <3>4, <1>2, <1>n
  <2>2. ASSUME NEW f \in Editor, editors'[f].kind = "group"
        PROVE  /\ editors'[f].seen.members \subseteq 1 .. ids.contacts
               /\ \A g \in groups : g.id = editors'[f].seen.id =>
                    /\ editors'[f].seen.revision <= g.revision
                    /\ editors'[f].seen.revision = g.revision =>
                         /\ g.name = editors'[f].seen.name
                         /\ g.members = editors'[f].seen.members \cap C!LiveIds
    <3>1. editors'[f] = editors[f]
      BY <2>2, <1>4, <1>c
    <3> QED
      BY <2>2, <3>1 DEF ContactsKnown, DialogsKnow
  <2> QED
    BY <2>1, <2>2, <1>1, <1>3 DEF DialogsKnow
<1>6. C!OnlyReadersReplace
  <2>1. ASSUME NEW c \in contacts, NEW d \in contacts', c.id = d.id, c.name # d.name
        PROVE  \E f \in Editor : C!SavedBy(f, "contact", c)
    <3>1. d = saved(c)
      BY <2>1, <1>1, <1>2, <1>t DEF ContactIds
    <3>2. c.id = editors[e].seen.id
      BY <2>1, <3>1, <1>2
    <3>3. PICK b \in contacts : b.id = editors[e].seen.id /\ b.revision = editors[e].seen.revision
      BY <1>1, <1>c, CurrentIsStored
    <3>4. b = c
      BY <3>2, <3>3, <1>t DEF ContactIds
    <3>5. c.name = editors[e].seen.name
      BY <3>2, <3>3, <3>4, <1>1 DEF ContactsKnown, DialogsKnow
    <3> QED
      BY <3>2, <3>5, <1>1, <1>4 DEF C!SavedBy
  <2>2. ASSUME NEW g \in groups, NEW h \in groups', g.id = h.id
        PROVE  g.name = h.name /\ h.members = g.members \cap {c.id : c \in contacts'}
    <3>1. h = g
      BY <2>2, <1>1, <1>t DEF GroupIds
    <3>2. g.members \subseteq C!LiveIds /\ C!LiveIds' = {c.id : c \in contacts'}
      BY DEF ContactsKnown, MembersLive, C!LiveIds
    <3> QED
      BY <3>1, <3>2, <1>3
  <2> QED
    BY <2>1, <2>2 DEF C!OnlyReadersReplace
<1>7. MembersLive'
  BY <1>1, <1>3 DEF ContactsKnown, MembersLive
<1> QED
  BY <1>5, <1>6, <1>7 DEF ContactsKnown

\* A group that is made, or a save that replaces one.
LEMMA GroupsKeepKnown ==
  ASSUME ContactsShape, ContactsKnown,
         \/ \E name \in GroupName, members \in SUBSET C!LiveIds :
              C!create_contact_group(name, members)
         \/ \E e \in Editor : \E name \in GroupName, members \in SUBSET C!LiveIds :
              C!save_contact_group(e, name, members)
         \/ \E e \in Editor : C!delete_contact_group(e)
  PROVE  ContactsKnown' /\ C!OnlyReadersReplace
<1>t. /\ contacts \subseteq C!Contact /\ groups \subseteq C!Group
      /\ ids.groups \in Nat /\ ids \in [contacts : 0 .. MaxContacts, groups : 0 .. MaxGroups]
      /\ ContactIds /\ GroupIds
  BY DEF ContactsShape, C!TypeOK
<1>n. \A g \in groups : g.revision \in Nat /\ g.id \in Nat
  BY <1>t DEF C!Group
<1>u. UNCHANGED contacts /\ ids'.contacts = ids.contacts
  BY <1>t DEF C!create_contact_group, C!save_contact_group, C!delete_contact_group
<1>l. C!LiveIds' = C!LiveIds /\ C!LiveIds' = {c.id : c \in contacts'}
  BY <1>u DEF C!LiveIds
<1>c. C!Closed.kind = "closed"
  BY DEF C!Closed
<1>v. \A f \in Editor : editors'[f] = editors[f] \/ editors'[f] = C!Closed
  BY DEF ContactsShape, DialogsAreRows, C!create_contact_group, C!save_contact_group,
         C!delete_contact_group, C!Close
\* It is enough to look at the groups.
<1> DEFINE Far(f, h) == /\ editors[f].seen.revision <= h.revision
                        /\ editors[f].seen.revision = h.revision =>
                             /\ h.name = editors[f].seen.name
                             /\ h.members = editors[f].seen.members \cap C!LiveIds
<1> DEFINE Kept(g, h) == g.name = h.name /\ h.members = g.members \cap C!LiveIds
<1>0. ASSUME \A h \in groups' : h.members \subseteq C!LiveIds,
             \A f \in Editor, h \in groups' :
               editors'[f].kind = "group" /\ h.id = editors[f].seen.id => Far(f, h),
             \A g \in groups, h \in groups' : g.id = h.id =>
               Kept(g, h) \/ \E f \in Editor : C!SavedBy(f, "group", g)
      PROVE  ContactsKnown' /\ C!OnlyReadersReplace
  <2>1. MembersLive'
    BY <1>0, <1>l DEF MembersLive
  <2>2. \A f \in Editor : editors'[f].kind # "closed" => editors'[f] = editors[f]
    BY <1>v, <1>c
  <2>3. DialogsKnow'
    <3>1. \A f \in Editor : editors'[f].kind = "contact" => \A c \in contacts' :
             c.id = editors'[f].seen.id =>
                /\ editors'[f].seen.revision <= c.revision
                /\ editors'[f].seen.revision = c.revision => c.name = editors'[f].seen.name
      BY <2>2, <1>u DEF ContactsKnown, DialogsKnow
    <3>2. ASSUME NEW f \in Editor, editors'[f].kind = "group"
          PROVE  /\ editors'[f].seen.members \subseteq 1 .. ids'.contacts
                 /\ \A h \in groups' : h.id = editors'[f].seen.id =>
                      /\ editors'[f].seen.revision <= h.revision
                      /\ editors'[f].seen.revision = h.revision =>
                           /\ h.name = editors'[f].seen.name
                           /\ h.members = editors'[f].seen.members \cap C!LiveIds'
      <4>1. editors'[f] = editors[f]
        BY <2>2, <3>2
      <4>2. editors[f].seen.members \subseteq 1 .. ids.contacts
        BY <3>2, <4>1 DEF ContactsKnown, DialogsKnow
      <4> QED
        BY <3>2, <4>1, <4>2, <1>0, <1>u, <1>l
    <3> QED
      BY <3>1, <3>2 DEF DialogsKnow
  <2>4. \A c \in contacts, d \in contacts' : c.id = d.id => c.name = d.name
    BY <1>u, <1>t DEF ContactIds
  <2>5. C!OnlyReadersReplace
    BY <2>4, <1>0, <1>l DEF C!OnlyReadersReplace
  <2> QED
    BY <2>1, <2>3, <2>5 DEF ContactsKnown
<1>k. /\ \A g \in groups : g.members \subseteq C!LiveIds /\ Kept(g, g)
      /\ \A f \in Editor, g \in groups :
           editors[f].kind = "group" /\ g.id = editors[f].seen.id => Far(f, g)
  BY DEF ContactsKnown, MembersLive, DialogsKnow
<1>1. ASSUME NEW name \in GroupName, NEW members \in SUBSET C!LiveIds,
             C!create_contact_group(name, members)
      PROVE  ContactsKnown' /\ C!OnlyReadersReplace
  <2> DEFINE new == [id |-> ids.groups + 1, name |-> name, members |-> members, revision |-> 1]
  <2>1. groups' = groups \cup {new} /\ UNCHANGED editors
    BY <1>1 DEF C!create_contact_group
  <2>2. new.id = ids.groups + 1 /\ new.members \subseteq C!LiveIds
    OBVIOUS
  <2>3. \A f \in Editor : editors[f].kind = "group" => editors[f].seen.id # new.id
    <3> SUFFICES ASSUME NEW f \in Editor, editors[f].kind = "group"
                 PROVE  editors[f].seen.id # new.id
      OBVIOUS
    <3>1. editors[f].seen.id \in Nat /\ editors[f].seen.id <= ids.groups
      BY DialogsHaveKinds DEF C!Group
    <3> QED
      BY <3>1, <2>2, <1>t
  <2>4. \A g \in groups : g.id # new.id
    BY <2>2, <1>t, <1>n DEF GroupIds
  <2> HIDE DEF new
  <2>5. \A h \in groups' : h.members \subseteq C!LiveIds
    BY <2>1, <2>2, <1>k
  <2>6. \A f \in Editor, h \in groups' :
           editors'[f].kind = "group" /\ h.id = editors[f].seen.id => Far(f, h)
    BY <2>1, <2>3, <1>k
  <2>7. \A g \in groups, h \in groups' : g.id = h.id => Kept(g, h)
    BY <2>1, <2>4, <1>k, <1>t DEF GroupIds
  <2> QED
    BY <2>5, <2>6, <2>7, <1>0
<1>2. ASSUME NEW e \in Editor, NEW name \in GroupName, NEW members \in SUBSET C!LiveIds,
             C!save_contact_group(e, name, members)
      PROVE  ContactsKnown' /\ C!OnlyReadersReplace
  <2> DEFINE saved(g) == IF g.id = editors[e].seen.id
                         THEN [g EXCEPT !.name = name, !.members = members, !.revision = @ + 1]
                         ELSE g
  <2>1. /\ groups' = {saved(g) : g \in groups} /\ editors[e].kind = "group"
        /\ C!Current(e) /\ editors' = [editors EXCEPT ![e] = C!Closed]
    BY <1>2 DEF C!save_contact_group, C!Close
  <2>2. \A g \in groups :
          /\ saved(g).id = g.id
          /\ g.id # editors[e].seen.id => saved(g) = g
          /\ g.id = editors[e].seen.id => /\ saved(g).revision = g.revision + 1
                                          /\ saved(g).members = members
    BY <1>t DEF C!Group
  <2> HIDE DEF saved
  <2>3. \A f \in Editor : IF f = e THEN editors'[f] = C!Closed ELSE editors'[f] = editors[f]
    BY <2>1 DEF ContactsShape, DialogsAreRows
  <2>4. \A h \in groups' : h.members \subseteq C!LiveIds
    BY <2>1, <2>2, <1>k
  <2>5. ASSUME NEW f \in Editor, NEW h \in groups', editors'[f].kind = "group",
               h.id = editors[f].seen.id
        PROVE  Far(f, h)
    <3>1. editors[f].kind = "group"
      BY <2>3, <2>5, <1>c
    <3>2. PICK g \in groups : h = saved(g)
      BY <2>1
    <3>3. Far(f, g)
      BY <2>5, <3>1, <3>2, <2>2, <1>k
    <3>4. editors[f].seen.revision \in Nat
      BY <3>1, DialogsHaveKinds DEF C!Group
    <3> QED
      BY <3>2, <3>3, <3>4, <2>2, <1>n
  <2>6. ASSUME NEW g \in groups, NEW h \in groups', g.id = h.id
        PROVE  Kept(g, h) \/ \E f \in Editor : C!SavedBy(f, "group", g)
    <3>1. h = saved(g)
      BY <2>6, <2>1, <2>2, <1>t DEF GroupIds
    <3>2. CASE g.id # editors[e].seen.id
      BY <3>1, <3>2, <2>2, <1>k
    <3>3. CASE g.id = editors[e].seen.id
      <4>1. PICK b \in groups : b.id = editors[e].seen.id /\ b.revision = editors[e].seen.revision
        BY <2>1, <1>c, CurrentIsStored
      <4>2. b = g
        BY <3>3, <4>1, <1>t DEF GroupIds
      <4>3. g.name = editors[e].seen.name /\ g.members = editors[e].seen.members \cap C!LiveIds
        BY <4>1, <4>2, <2>1 DEF ContactsKnown, DialogsKnow
      <4> QED
        BY <3>3, <4>3, <2>1, <2>3 DEF C!SavedBy
    <3> QED
      BY <3>2, <3>3
  <2> HIDE DEF Far, Kept
  <2> QED
    BY <2>4, <2>5, <2>6, <1>0
<1>3. ASSUME NEW e \in Editor, C!delete_contact_group(e)
      PROVE  ContactsKnown' /\ C!OnlyReadersReplace
  <2>1. groups' \subseteq groups
    BY <1>3 DEF C!delete_contact_group
  <2>2. \A h \in groups' : h.members \subseteq C!LiveIds
    BY <2>1, <1>k
  <2>3. \A f \in Editor, h \in groups' :
           editors'[f].kind = "group" /\ h.id = editors[f].seen.id => Far(f, h)
    <3>1. \A f \in Editor : editors'[f].kind = "group" => editors[f].kind = "group"
      BY <1>v, <1>c
    <3> HIDE DEF Far
    <3> QED
      BY <2>1, <3>1, <1>k
  <2>4. \A g \in groups, h \in groups' : g.id = h.id => Kept(g, h)
    BY <2>1, <1>k, <1>t DEF GroupIds
  <2> HIDE DEF Far, Kept
  <2> QED
    BY <2>2, <2>3, <2>4, <1>0
<1> QED
  BY <1>1, <1>2, <1>3

\* Dialogs change no row, and know the one they open on.
LEMMA DialogsKeepKnown ==
  ASSUME ContactsShape, ContactsKnown, \E e \in Editor : C!Open(e) \/ C!Dismiss(e)
  PROVE  ContactsKnown' /\ C!OnlyReadersReplace
<1>t. /\ contacts \subseteq C!Contact /\ groups \subseteq C!Group /\ ids.contacts \in Nat
      /\ ContactIds /\ GroupIds
  BY DEF ContactsShape, C!TypeOK
<1>1. PICK e \in Editor : C!Open(e) \/ C!Dismiss(e)
  OBVIOUS
<1>2. UNCHANGED <<contacts, groups, ids>>
  BY <1>1 DEF C!Open, C!Dismiss
<1>l. C!LiveIds' = C!LiveIds /\ C!LiveIds = {c.id : c \in contacts}
      /\ C!LiveIds \subseteq 1 .. ids.contacts
  BY <1>2, <1>t DEF C!LiveIds, C!Contact, ContactIds
<1>3. MembersLive'
  BY <1>2, <1>l DEF ContactsKnown, MembersLive
<1>4. C!OnlyReadersReplace
  <2>1. \A c \in contacts, d \in contacts' : c.id = d.id => c.name = d.name
    BY <1>2, <1>t DEF ContactIds
  <2>2. \A g \in groups, h \in groups' : g.id = h.id =>
           g.name = h.name /\ h.members = g.members \cap {c.id : c \in contacts'}
    BY <1>2, <1>t, <1>l DEF GroupIds, ContactsKnown, MembersLive
  <2> QED
    BY <2>1, <2>2 DEF C!OnlyReadersReplace
<1>5. \A f \in Editor : f # e => editors'[f] = editors[f]
  BY <1>1 DEF C!Open, C!Dismiss, C!Close, ContactsShape, DialogsAreRows
<1>6. CASE C!Dismiss(e)
  <2>1. editors'[e].kind = "closed"
    BY <1>6 DEF C!Dismiss, C!Close, C!Closed, ContactsShape, DialogsAreRows
  <2>2. DialogsKnow'
    BY <2>1, <1>2, <1>l, <1>5 DEF ContactsKnown, DialogsKnow
  <2> QED
    BY <2>2, <1>3, <1>4 DEF ContactsKnown
<1>7. CASE C!Open(e)
  <2>1. PICK row \in contacts \cup groups :
          editors' = [editors EXCEPT ![e] =
             [kind |-> IF row \in contacts THEN "contact" ELSE "group", seen |-> row]]
    BY <1>7 DEF C!Open
  <2>2. editors'[e] = [kind |-> IF row \in contacts THEN "contact" ELSE "group", seen |-> row]
    BY <2>1 DEF ContactsShape, DialogsAreRows
  <2>3. editors'[e].seen = row /\ editors'[e].kind = (IF row \in contacts THEN "contact" ELSE "group")
    BY <2>2
  <2>4. editors'[e].kind = "contact" => \A c \in contacts : c.id = row.id =>
           row.revision <= c.revision /\ c.name = row.name
    BY <2>3, <1>t DEF ContactIds, C!Contact
  <2>5. editors'[e].kind = "group" =>
           /\ row.members \subseteq 1 .. ids.contacts
           /\ \A g \in groups : g.id = row.id =>
                /\ row.revision <= g.revision /\ g.name = row.name
                /\ g.members = row.members \cap C!LiveIds
    <3>1. CASE row \in groups
      <4>1. row.members \subseteq C!LiveIds /\ row.revision \in Nat
        BY <3>1, <1>t DEF ContactsKnown, MembersLive, C!Group
      <4>2. \A g \in groups : g.id = row.id => g = row
        BY <3>1, <1>t DEF GroupIds
      <4> QED
        BY <4>1, <4>2, <1>l
    <3>2. CASE row \notin groups
      BY <3>2, <2>3
    <3> QED
      BY <3>1, <3>2
  <2>6. DialogsKnow'
    <3> SUFFICES ASSUME NEW f \in Editor
                 PROVE  (/\ editors[f].kind = "contact" => \A c \in contacts :
                             c.id = editors[f].seen.id =>
                               /\ editors[f].seen.revision <= c.revision
                               /\ editors[f].seen.revision = c.revision =>
                                    c.name = editors[f].seen.name
                         /\ editors[f].kind = "group" =>
                             /\ editors[f].seen.members \subseteq 1 .. ids.contacts
                             /\ \A g \in groups : g.id = editors[f].seen.id =>
                                  /\ editors[f].seen.revision <= g.revision
                                  /\ editors[f].seen.revision = g.revision =>
                                       /\ g.name = editors[f].seen.name
                                       /\ g.members = editors[f].seen.members \cap C!LiveIds)'
      BY DEF DialogsKnow
    <3>1. CASE f = e
      BY <3>1, <2>3, <2>4, <2>5, <1>2, <1>l
    <3>2. CASE f # e
      BY <3>2, <1>2, <1>5, <1>l DEF ContactsKnown, DialogsKnow
    <3> QED
      BY <3>1, <3>2
  <2> QED
    BY <2>6, <1>3, <1>4 DEF ContactsKnown
<1> QED
  BY <1>1, <1>6, <1>7

\* Every step of the contacts keeps what is known, and replaces only what was read.
LEMMA KnownGoesOn ==
  ASSUME ContactsShape, ContactsKnown, C!Next
  PROVE  ContactsKnown' /\ C!OnlyReadersReplace
<1>t. /\ contacts \subseteq C!Contact /\ ids.contacts \in Nat
      /\ ids \in [contacts : 0 .. MaxContacts, groups : 0 .. MaxGroups]
      /\ ContactIds /\ GroupIds
  BY DEF ContactsShape, C!TypeOK
<1>n. ContactsShape'
  BY ContactsGoOn
<1>1. ASSUME NEW batch \in SUBSET DOMAIN messages',
             messages' \in UNION {[1 .. k -> SUBSET Address] : k \in 0 .. MaxMessages},
             C!Upsert(batch), UNCHANGED <<groups, editors>>
      PROVE  ContactsKnown' /\ C!OnlyReadersReplace
  <2>1. /\ contacts \subseteq contacts' /\ contacts' \subseteq C!Contact
        /\ \A d \in contacts' : d \notin contacts => d.id > ids.contacts
        /\ ids'.contacts \in ids.contacts .. MaxContacts /\ ContactIds'
    BY <1>1, UpsertAdds
  <2>2. \A d \in contacts' : d.id \in Nat
    BY <2>1 DEF C!Contact
  <2>3. ids'.contacts \in Nat /\ ids'.contacts >= ids.contacts
    BY <2>1, <1>t
  <2> QED
    BY <1>1, <2>1, <2>2, <2>3, GrowthKeepsKnown
<1>m. messages' \in UNION {[1 .. k -> SUBSET Address] : k \in 0 .. MaxMessages}
  BY <1>n DEF ContactsShape, C!TypeOK
<1>2. CASE C!StoreMessage
  <2>1. ASSUME NEW batch, C!Upsert(batch), batch \in SUBSET DOMAIN messages'
        PROVE  ContactsKnown' /\ C!OnlyReadersReplace
    BY <2>1, <1>1, <1>2, <1>m DEF C!StoreMessage
  <2>2. PICK n \in 0 .. MaxMessages : messages \in [1 .. n -> SUBSET Address]
    BY DEF ContactsShape, C!TypeOK
  <2>3. n \in Nat /\ C!Rows = 1 .. n /\ C!Cardinality(C!Rows) = n /\ DOMAIN messages = 1 .. n
    BY <2>2, RowsAreNumbered, CountsAlike, ContactsAssumption DEF C!Rows
  <2>4. ASSUME NEW addresses, C!Upsert({n + 1}),
               messages' = [m \in 1 .. n + 1 |->
                               IF m \in C!Rows THEN messages[m] ELSE addresses]
        PROVE  ContactsKnown' /\ C!OnlyReadersReplace
    <3>1. {n + 1} \in SUBSET DOMAIN messages'
      BY <2>4, <2>3
    <3> QED
      BY <3>1, <2>1, <2>4
  <2>5. ASSUME NEW m \in C!Rows, UNCHANGED messages, C!Upsert({m})
        PROVE  ContactsKnown' /\ C!OnlyReadersReplace
    BY <2>1, <2>5 DEF C!Rows
  <2> QED
    BY <1>2, <2>3, <2>4, <2>5 DEF C!StoreMessage
<1>3. CASE C!WriteBatch
  <2>1. backfill.batch \in SUBSET DOMAIN messages' /\ C!Upsert(backfill.batch)
        /\ UNCHANGED <<groups, editors>>
    BY <1>3 DEF C!WriteBatch, ContactsShape, BatchIsNext, C!Rows
  <2> QED
    BY <2>1, <1>1, <1>m
<1>4. ASSUME NEW email \in Address, NEW name \in ContactName, C!create_contact(email, name)
      PROVE  ContactsKnown' /\ C!OnlyReadersReplace
  <2>1. /\ contacts' = contacts \cup {[id |-> ids.contacts + 1, email |-> email,
                                        name |-> name, revision |-> 1]}
        /\ ids' = [ids EXCEPT !.contacts = @ + 1] /\ UNCHANGED <<groups, editors>>
    BY <1>4 DEF C!create_contact
  <2>2. ContactIds' /\ ids'.contacts = ids.contacts + 1
    BY <2>1, <1>n, <1>t DEF ContactsShape
  <2> QED
    BY <2>1, <2>2, <1>t, GrowthKeepsKnown
<1>5. CASE C!StartBackfill \/ C!ReadBatch \/ C!StopBackfill
  <2>1. UNCHANGED <<contacts, groups, editors, ids>>
    BY <1>5 DEF C!StartBackfill, C!ReadBatch, C!StopBackfill
  <2> QED
    BY <2>1, <1>t, <1>n, GrowthKeepsKnown DEF ContactsShape
<1> QED
  BY ContactsMove, <1>2, <1>3, <1>4, <1>5, DeletionKeepsKnown, RenamingKeepsKnown,
     GroupsKeepKnown, DialogsKeepKnown

\* Nothing is known of an empty address book, and no message was passed.
LEMMA ContactsBeginKnown == C!Init => ContactsKnown /\ C!BackfillMissesNothing
<1> SUFFICES ASSUME C!Init
             PROVE  ContactsKnown /\ C!BackfillMissesNothing
  OBVIOUS
<1>1. MembersLive /\ DialogsKnow
  BY DEF C!Init, MembersLive, DialogsKnow, C!Closed
<1>2. C!BackfillMissesNothing
  <2>1. C!Rows = 1 .. OldMessages /\ backfill.last = 0 /\ backfill.completed = FALSE
    BY DEF C!Init, C!Rows
  <2> QED
    BY <2>1, ContactsAssumption DEF C!BackfillMissesNothing
<1> QED
  BY <1>1, <1>2 DEF ContactsKnown

\* What a behaviour of the contacts keeps.
ContactsInv == subject = "contacts" => ContactsShape /\ ContactsKnown /\ C!BackfillMissesNothing

\* A behaviour is one of a single component.
LEMMA ContactsAlone ==
  ASSUME [Next]_vars
  PROVE  /\ subject' = subject
         /\ subject = "contacts" => C!Next \/ UNCHANGED varsContacts
<1>1. CASE UNCHANGED vars
  BY <1>1 DEF vars
<1>2. CASE Next
  BY <1>2 DEF Next, AccountsStep, ContactsStep, DraftsStep, DefinitionsStep,
     NotificationsStep, MessageListStep, MailboxesStep, AttachmentsStep, ComposerStep
<1> QED
  BY <1>1, <1>2

\* A step of another component leaves the contacts alone.
LEMMA ContactsRest ==
  ASSUME UNCHANGED varsContacts, ContactsShape, ContactsKnown, C!BackfillMissesNothing
  PROVE  ContactsShape' /\ ContactsKnown' /\ C!BackfillMissesNothing' /\ C!OnlyReadersReplace
<1> USE DEF varsContacts
<1>1. ContactsShape'
  BY DEF ContactsShape, C!TypeOK, ContactIds, GroupIds, DialogsAreRows, BatchIsNext, C!Rows
<1>2. ContactsKnown'
  BY DEF ContactsKnown, MembersLive, DialogsKnow, C!LiveIds
<1>3. C!BackfillMissesNothing'
  BY DEF C!BackfillMissesNothing, C!Rows
<1>4. C!OnlyReadersReplace
  <2>1. ContactIds /\ GroupIds
    BY DEF ContactsShape
  <2>2. \A c \in contacts, d \in contacts' : c.id = d.id => c = d
    BY <2>1 DEF ContactIds
  <2>3. \A g \in groups, h \in groups' : g.id = h.id => g = h
    BY <2>1 DEF GroupIds
  <2>4. \A g \in groups : g.members = g.members \cap {c.id : c \in contacts'}
    BY DEF ContactsKnown, MembersLive, C!LiveIds
  <2> QED
    BY <2>2, <2>3, <2>4 DEF C!OnlyReadersReplace
<1> QED
  BY <1>1, <1>2, <1>3, <1>4

\* The invariant of the contacts.
LEMMA ContactsHold == Spec => []ContactsInv
<1>1. Init => ContactsInv
  BY ContactsBegin, ContactsBeginKnown DEF Init, ContactsInv
<1>2. ContactsInv /\ [Next]_vars => ContactsInv'
  BY ContactsAlone, ContactsRest, ContactsGoOn, BackfillGoesOn, KnownGoesOn DEF ContactsInv
<1> QED
  BY <1>1, <1>2, PTL DEF Spec

\* The back-fill of contacts, which reads each batch before the transaction that writes
\* it and beside a synchronization that stores new messages (contact_repository.rs),
\* misses no address of a stored message, however often it is stopped and started.
THEOREM BackfillIsComplete == Spec => []BackfillMissesNothing
<1>1. ContactsInv => BackfillMissesNothing
  BY DEF ContactsInv, BackfillMissesNothing
<1> QED
  BY <1>1, ContactsHold, PTL

-----------------------------------------------------------------------------
(* What dialogs replace *)

\* Whoever has contacts, groups or settings open while something else writes them:
\* neither a dialog that was open while another one saved, nor a message with another
\* name in its header, nor a new signature that becomes the default replaces what the
\* user wrote and the dialog has not read; and whatever is deleted between the check of
\* a reference and its write, what a setting refers to is there for a new message
\* (contact_repository.rs, contact_group_repository.rs,
\* composition_definition_repository.rs).
THEOREM EditsReplaceWhatTheyRead == Spec => EditsAreCurrent
<1>1. ContactsInv /\ [Next]_vars => [subject = "contacts" => C!OnlyReadersReplace]_vars
  BY ContactsAlone, ContactsRest, KnownGoesOn DEF ContactsInv
<1>2. DefinitionsInv => F!AcceptedDialogsAreCurrent /\ F!ReferencesResolve
  BY DefinitionsPromise
<1> QED
  BY <1>1, <1>2, ContactsHold, DefinitionsHold, PTL DEF EditsAreCurrent, Spec

-----------------------------------------------------------------------------
(* The Composer window *)

Progress == {"none", "queued", "sending", "sent", "failed"}
Screen == [content : Nat, files : SUBSET File]
WindowRow ==
    [open : BOOLEAN, content : Nat, valid : BOOLEAN, listed : SUBSET File, revision : Nat,
     sending : Progress, asking : BOOLEAN, lost : BOOLEAN, leaving : SUBSET File]
Place == {"none", "save", "saved", "append", "close", "delete", "read", "queue", "queued",
          "failed"}
FlowRow ==
    [why : {"none", "save", "discard", "send"}, at : Place, seen : Screen, read : Screen]
CallRow ==
    [kind : {"none", "add", "image", "remove", "render"},
     at : {"none", "read", "check", "insert", "delete", "answer"},
     todo : SUBSET File, done : SUBSET File, mine : BOOLEAN]
ClosedRow ==
    [how : {"new", "open", "save", "discard", "sent", "ended"}, seen : Screen, count : Nat]

ComposerShape ==
    /\ draft \in [status : {"editing", "queued", "sent", "gone"}, content : Nat, revision : Nat]
    /\ attached \in SUBSET File
    /\ mail \in [made : Screen, seen : Screen]
    /\ delivery \in Progress
    /\ window \in WindowRow
    /\ flow \in FlowRow
    /\ calls \in [Editor -> CallRow]
    /\ reports \in SUBSET (Progress \ {"none"})
    /\ closed \in ClosedRow

\* The places of the commands.
CallsFit ==
    \A c \in Editor :
        /\ calls[c].kind = "none" => calls[c] = W!Idle
        /\ calls[c].kind \in {"add", "image"} => calls[c].at \in {"read", "check", "insert", "answer"}
        /\ calls[c].kind = "remove" => calls[c].at \in {"delete", "answer"}
        /\ calls[c].kind = "render" =>
              calls[c].at = "answer" /\ calls[c].todo = {} /\ calls[c].done = {}
FlowFits ==
    /\ flow.why = "none" => flow.at = "none"
    /\ flow.why = "save" => flow.at \in {"save", "saved", "append", "close", "failed"}
    /\ flow.why = "discard" => flow.at \in {"delete", "close", "failed"}
    /\ flow.why = "send" => flow.at \in {"save", "saved", "read", "queue", "queued", "failed"}

\* Nothing waits for an answer without a window, and nothing else is under way while a
\* window follows its send job.
WindowFits ==
    /\ window.open <=> closed.how = "open"
    /\ ~window.open =>
          window = W!NoWindow /\ flow.why = "none" /\ \A c \in Editor : ~calls[c].mine
    /\ window.sending # "none" => flow.why = "none" /\ delivery # "none"
    /\ window.sending = "none" => reports = {}
    /\ flow.at = "queued" => delivery # "none"

\* A window learns that its message was sent from the job, which is of a draft that can
\* not be edited any more.
SendingFits ==
    /\ draft.status \in {"editing", "gone"} => delivery = "none"
    /\ window.sending = "sent" \/ "sent" \in reports \/ closed.how = "sent"
          => delivery = "sent"

\* Who discards has nothing left; who saves knows the revision, unless an answer was lost.
Discarded == flow.why = "discard" /\ flow.at = "close"
RevisionsFit ==
    /\ window.open /\ draft.status = "gone" => Discarded
    /\ Discarded \/ closed.how = "discard" => draft.status = "gone" /\ attached = {}
    /\ flow.at = "saved" => draft.status = "editing"
    /\ (/\ window.open /\ window.sending = "none" /\ ~window.lost /\ ~Discarded
        /\ flow.at \notin {"saved", "queued"})
       => draft.status = "editing" /\ draft.revision = window.revision

\* Of what a window showed, everything is stored and nothing is being removed.
IsKept(shown) ==
    /\ shown \subseteq attached
    /\ \A c \in Editor : calls[c].kind = "remove" => shown \cap calls[c].todo = {}
ScreensFit ==
    /\ flow.why # "discard" /\ flow.at \in {"save", "saved", "append", "read", "close"} =>
          IsKept(flow.seen.files)
    /\ flow.why # "discard" /\ flow.at \in {"saved", "append", "read", "close"} =>
          draft.content = flow.seen.content
    /\ flow.at = "queue" =>
          flow.read.content = flow.seen.content /\ flow.seen.files \subseteq flow.read.files
    /\ closed.how = "save" =>
          draft.content = closed.seen.content /\ IsKept(closed.seen.files)
    /\ W!SentIsShown

\* A file that is being added by a window is known to nobody else.
AddsFiles(c) == calls[c].kind \in {"add", "image"} /\ calls[c].mine
Its(c) == calls[c].todo \cup calls[c].done
FilesFit ==
    /\ W!ListedIsStored
    /\ \A c \in Editor : window.open /\ calls[c].kind = "remove" /\ ~calls[c].mine =>
          calls[c].todo \subseteq window.leaving
    /\ \A c \in Editor : AddsFiles(c) =>
          /\ Its(c) \cap window.listed = {}
          /\ draft.status # "gone" => calls[c].done \subseteq attached
          /\ \A d \in Editor \ {c} :
                calls[d].kind = "remove" \/ AddsFiles(d) => Its(c) \cap Its(d) = {}

ComposerInv ==
    /\ ComposerShape /\ CallsFit /\ FlowFits /\ WindowFits /\ SendingFits /\ RevisionsFit
    /\ ScreensFit /\ FilesFit

LEMMA ComposerBegins == W!Init => ComposerInv
<1> SUFFICES ASSUME W!Init PROVE ComposerInv
  OBVIOUS
<1>1. /\ draft = [status |-> "editing", content |-> 0, revision |-> 1] /\ attached = {}
      /\ delivery = "none" /\ reports = {}
      /\ calls = [c \in Editor |-> W!Idle]
      /\ closed = [how |-> "new", seen |-> W!Blank, count |-> 0]
      /\ window = W!NoWindow /\ flow = W!AtRest /\ mail = W!NoMail
  BY DEF W!Init
<1>2. W!Blank \in Screen
  BY DEF W!Blank, Screen
<1>3. mail \in [made : Screen, seen : Screen]
  BY <1>1, <1>2 DEF W!NoMail
<1>4. flow \in FlowRow /\ flow.why = "none" /\ flow.at = "none"
  BY <1>1, <1>2 DEF W!AtRest, FlowRow, Place
<1>5. window \in WindowRow /\ ~window.open /\ window.sending = "none"
  BY <1>1 DEF W!NoWindow, WindowRow, Progress
<1>6. W!Idle \in CallRow /\ W!Idle.kind = "none" /\ ~W!Idle.mine
  BY DEF W!Idle, CallRow
<1>7. closed \in ClosedRow
  BY <1>1, <1>2 DEF ClosedRow
<1>8. ComposerShape
  BY <1>1, <1>3, <1>4, <1>5, <1>6, <1>7 DEF ComposerShape, Progress
<1>9. CallsFit /\ FlowFits /\ WindowFits /\ SendingFits
  BY <1>1, <1>4, <1>5, <1>6 DEF CallsFit, FlowFits, WindowFits, SendingFits
<1>10. RevisionsFit /\ ScreensFit /\ FilesFit
  BY <1>1, <1>4, <1>5, <1>6 DEF RevisionsFit, Discarded, ScreensFit, FilesFit, AddsFiles,
     W!SentIsShown, W!ListedIsStored
<1> QED
  BY <1>8, <1>9, <1>10 DEF ComposerInv

LEMMA OthersKeepWindow == ComposerInv /\ UNCHANGED varsComposer => ComposerInv'
BY DEF ComposerInv, varsComposer, ComposerShape, CallsFit, FlowFits, WindowFits, SendingFits,
   RevisionsFit, Discarded, ScreensFit, FilesFit, IsKept, AddsFiles, Its, W!SentIsShown, W!ListedIsStored,
   W!CallAt

\* A flow goes on, with what it has seen.
LEMMA FlowGoesTo ==
  ASSUME ComposerShape, NEW place \in Place, W!To(place)
  PROVE  /\ flow' \in FlowRow /\ flow'.at = place
         /\ flow'.why = flow.why /\ flow'.seen = flow.seen /\ flow'.read = flow.read
BY DEF ComposerShape, FlowRow, W!To

LEMMA FlowRests ==
  ASSUME flow' = W!AtRest
  PROVE  flow' \in FlowRow /\ flow'.at = "none" /\ flow'.why = "none"
<1>1. W!Blank \in Screen
  BY DEF W!Blank, Screen
<1> QED
  BY <1>1 DEF W!AtRest, FlowRow, Place

\* What the user sees of a draft that is there is stored, but for what is on its way out.
LEMMA ShownIsKept ==
  ASSUME ComposerInv, window.open, draft.status # "gone"
  PROVE  W!Shown \in Screen /\ IsKept(W!Shown.files)
<1>1. PICK shown : shown = window.listed \ (W!Leaving \cup window.leaving)
  OBVIOUS
<1>2. W!Shown = [content |-> window.content, files |-> shown]
  BY <1>1 DEF W!Shown
<1>3. window.content \in Nat /\ window.listed \subseteq File
  BY DEF ComposerInv, ComposerShape, WindowRow
<1>4. W!Shown \in Screen /\ W!Shown.files = shown
  BY <1>1, <1>2, <1>3 DEF Screen
<1>5. \A c \in Editor : calls[c].kind = "remove" => calls[c].todo \subseteq W!Leaving
  BY DEF W!Leaving
<1>6. window.listed \subseteq attached \cup window.leaving \cup W!Leaving
  BY <1>5 DEF ComposerInv, FilesFit, W!ListedIsStored, W!Leaving
<1>7. IsKept(shown)
  BY <1>1, <1>5, <1>6 DEF IsKept
<1> QED
  BY <1>4, <1>7

\* A step that changes no more of the window than what is typed and asked keeps it right.
Typed ==
    /\ window' \in WindowRow
    /\ window'.open = window.open /\ window'.listed = window.listed
    /\ window'.revision = window.revision /\ window'.sending = window.sending
    /\ window'.lost = window.lost /\ window'.leaving = window.leaving
    /\ window.open

\* The flow starts, moves on or ends, and nothing is stored.
LEMMA FlowKeepsWindow ==
  ASSUME ComposerInv, Typed, flow' \in FlowRow, FlowFits', ScreensFit',
         UNCHANGED <<draft, attached, mail, delivery, calls, reports, closed>>,
         flow'.why # "none" => window.sending = "none",
         flow'.at \notin {"saved", "queued"}, flow.at \notin {"saved", "queued"},
         Discarded' <=> Discarded
  PROVE  ComposerInv'
<1>1. ComposerShape' /\ CallsFit'
  BY DEF ComposerInv, ComposerShape, CallsFit, Typed
<1>2. WindowFits'
  BY DEF ComposerInv, WindowFits, Typed
<1>3. SendingFits'
  BY DEF ComposerInv, SendingFits, Typed
<1>4. RevisionsFit'
  BY DEF ComposerInv, RevisionsFit, Typed
<1>5. FilesFit'
  BY DEF ComposerInv, FilesFit, W!ListedIsStored, Typed, AddsFiles, Its, W!CallAt
<1> QED
  BY <1>1, <1>2, <1>3, <1>4, <1>5 DEF ComposerInv

LEMMA ScreensStay ==
  ASSUME ScreensFit, draft'.content = draft.content,
         UNCHANGED <<attached, mail, flow, calls, closed>>
  PROVE  ScreensFit'
BY DEF ScreensFit, IsKept, W!SentIsShown

LEMMA TypingKeepsWindow ==
  ASSUME ComposerInv, W!markDirty \/ W!cancelClose
  PROVE  ComposerInv'
<1>1. Typed
  <2>1. CASE W!markDirty
    <3>1. PICK valid \in BOOLEAN :
            window' = [window EXCEPT !.content = @ + 1, !.valid = valid]
      BY <2>1 DEF W!markDirty
    <3>2. window \in WindowRow /\ window.open
      BY <2>1 DEF W!markDirty, W!Free, W!editable, ComposerInv, ComposerShape
    <3>3. PICK one : one = [window EXCEPT !.content = @ + 1]
      OBVIOUS
    <3>4. one \in WindowRow
      BY <3>2, <3>3 DEF WindowRow
    <3>5. window' = [one EXCEPT !.valid = valid]
      BY <3>1, <3>3
    <3>6. window' \in WindowRow
      BY <3>4, <3>5 DEF WindowRow
    <3> QED
      BY <3>2, <3>3, <3>4, <3>5, <3>6 DEF Typed, WindowRow
  <2>2. CASE W!cancelClose
    <3>1. window' = [window EXCEPT !.asking = FALSE] /\ window.asking
      BY <2>2 DEF W!cancelClose
    <3>2. window.open
      BY <3>1 DEF ComposerInv, WindowFits, W!NoWindow
    <3> QED
      BY <3>1, <3>2 DEF Typed, ComposerInv, ComposerShape, WindowRow
  <2> QED
    BY <2>1, <2>2
<1>2. UNCHANGED <<draft, attached, mail, delivery, flow, calls, reports, closed>>
      /\ flow.why = "none"
  BY DEF W!markDirty, W!cancelClose, W!Free, W!backend
<1>3. flow.at = "none"
  BY <1>2 DEF ComposerInv, FlowFits
<1>4. FlowFits' /\ ScreensFit' /\ flow' \in FlowRow
  BY <1>2, ScreensStay DEF ComposerInv, FlowFits, ComposerShape
<1>5. Discarded' <=> Discarded
  BY <1>2 DEF Discarded
<1> QED
  BY <1>1, <1>2, <1>3, <1>4, <1>5, FlowKeepsWindow

\* A question, Save, Don't save, Send and what fails of them leave everything stored.
Stays == UNCHANGED <<draft, attached, mail, delivery, calls, reports, closed>>

LEMMA AskingIsTyped ==
  ASSUME ComposerInv, window.open, NEW asking \in BOOLEAN,
         \/ window' = [window EXCEPT !.asking = asking]
         \/ window' = window
  PROVE  Typed
BY DEF Typed, ComposerInv, ComposerShape, WindowRow

\* Save, Don't save and Send begin.
LEMMA BeginningsAreFlows ==
  ASSUME ComposerInv, window.open, flow.why = "none", window.sending = "none",
         NEW why \in {"save", "discard", "send"}, NEW at \in {"save", "delete"},
         at = "delete" <=> why = "discard",
         W!Begin(why, at), UNCHANGED window, Stays
  PROVE  ComposerInv'
<1>1. draft.status # "gone" /\ flow.at = "none"
  BY DEF ComposerInv, RevisionsFit, Discarded, FlowFits
<1>2. W!Shown \in Screen /\ IsKept(W!Shown.files)
  BY <1>1, ShownIsKept
<1>3. PICK seen \in Screen : seen = W!Shown
  BY <1>2
<1>4. flow' = [why |-> why, at |-> at, seen |-> seen, read |-> W!Blank]
  BY <1>3 DEF W!Begin, W!AtRest
<1>5. W!Blank \in Screen
  BY DEF W!Blank, Screen
<1>6. flow' \in FlowRow /\ flow'.why = why /\ flow'.at = at /\ flow'.seen = seen
  BY <1>4, <1>5 DEF FlowRow, Place
<1>7. FlowFits'
  BY <1>6 DEF FlowFits
<1>8. IsKept(seen)' <=> IsKept(seen)
  BY DEF Stays, IsKept
<1>9. ScreensFit'
  <2>1. /\ flow'.why # "discard" /\ flow'.at \in {"save", "saved", "append", "read", "close"}
              => IsKept(seen.files)
        /\ flow'.at \notin {"saved", "append", "read", "close", "queue"}
    BY <1>2, <1>3, <1>6
  <2> QED
    BY <1>6, <2>1 DEF ComposerInv, ScreensFit, IsKept, Stays, W!SentIsShown
<1>10. Typed
  BY AskingIsTyped
<1>11. ~Discarded /\ ~Discarded'
  BY <1>1, <1>6 DEF Discarded
<1> QED
  BY <1>1, <1>6, <1>7, <1>9, <1>10, <1>11, FlowKeepsWindow DEF Stays

LEMMA ChoosingKeepsWindow ==
  ASSUME ComposerInv, W!saveAndClose \/ W!discardAndClose \/ W!sendMessage
  PROVE  ComposerInv'
<1>1. window.open /\ flow.why = "none" /\ window.sending = "none" /\ Stays
  BY DEF W!saveAndClose, W!discardAndClose, W!sendMessage, W!Free, W!editable, W!backend, Stays
<1>2. CASE UNCHANGED flow /\ window' = [window EXCEPT !.asking = FALSE]
  <2>1. Typed
    BY <1>1, <1>2, AskingIsTyped
  <2>2. flow.at = "none"
    BY <1>1 DEF ComposerInv, FlowFits
  <2>3. FlowFits' /\ flow' \in FlowRow /\ (Discarded' <=> Discarded)
    BY <1>2 DEF ComposerInv, ComposerShape, FlowFits, Discarded
  <2>4. ScreensFit'
    BY <1>1, <1>2, ScreensStay DEF ComposerInv, Stays
  <2> QED
    BY <1>1, <1>2, <2>1, <2>2, <2>3, <2>4, FlowKeepsWindow DEF Stays
<1>3. CASE UNCHANGED window /\ W!Begin("save", "save")
  BY <1>1, <1>3, BeginningsAreFlows
<1>4. CASE UNCHANGED window /\ W!Begin("discard", "delete")
  BY <1>1, <1>4, BeginningsAreFlows
<1>5. CASE UNCHANGED window /\ W!Begin("send", "save")
  BY <1>1, <1>5, BeginningsAreFlows
<1> QED
  BY <1>2, <1>3, <1>4, <1>5 DEF W!saveAndClose, W!discardAndClose, W!sendMessage

\* A flow is the open window's, which follows no send job yet.
LEMMA FlowsHaveWindows ==
  ASSUME ComposerInv, flow.at # "none"
  PROVE  /\ flow.why \in {"save", "discard", "send"}
         /\ window.open /\ window.sending = "none" /\ closed.how = "open"
<1>1. flow.why \in {"none", "save", "discard", "send"}
  BY DEF ComposerInv, ComposerShape, FlowRow
<1> QED
  BY <1>1 DEF ComposerInv, FlowFits, WindowFits

LEMMA QueueingKeepsWindow ==
  ASSUME ComposerInv, W!queue_remote_draft \/ W!queue_send
  PROVE  ComposerInv'
<1>1. /\ flow.at \in {"append", "read"} /\ UNCHANGED window /\ Stays
      /\ flow.why \in {"save", "discard", "send"}
      /\ window.open /\ window.sending = "none"
  BY FlowsHaveWindows DEF W!queue_remote_draft, W!queue_send, W!At, W!backend, Stays
<1>2. /\ flow.at = "append" => flow.why = "save"
      /\ flow.at = "read" => flow.why = "send"
  BY <1>1 DEF ComposerInv, FlowFits
<1>3. Typed
  BY <1>1, AskingIsTyped
<1>4. IsKept(flow.seen.files) /\ draft.content = flow.seen.content
  BY <1>1, <1>2 DEF ComposerInv, ScreensFit
<1>5. CASE \E place \in {"close", "failed"} :
             W!To(place) /\ (place = "close" => flow.at = "append")
  <2>1. PICK place \in {"close", "failed"} :
          W!To(place) /\ (place = "close" => flow.at = "append")
    BY <1>5
  <2>2. place \in Place
    BY DEF Place
  <2>3. /\ flow' \in FlowRow /\ flow'.at = place
        /\ flow'.why = flow.why /\ flow'.seen = flow.seen
    BY <2>1, <2>2, FlowGoesTo DEF ComposerInv
  <2>4. FlowFits' /\ ~Discarded' /\ ~Discarded
    BY <1>1, <1>2, <2>1, <2>3 DEF FlowFits, Discarded
  <2>5. ScreensFit'
    BY <1>1, <1>4, <2>3 DEF ComposerInv, ScreensFit, IsKept, Stays, W!SentIsShown
  <2> QED
    BY <1>1, <1>3, <2>3, <2>4, <2>5, FlowKeepsWindow DEF Stays
<1>6. CASE flow.at = "read" /\ flow' = [flow EXCEPT !.at = "queue", !.read = W!Stored]
  <2>1. W!Stored \in Screen /\ W!Stored.content = draft.content /\ W!Stored.files = attached
    BY DEF W!Stored, Screen, ComposerInv, ComposerShape
  <2>2. PICK read \in Screen : read = W!Stored
    BY <2>1
  <2>3. PICK one : one = [flow EXCEPT !.at = "queue"]
    OBVIOUS
  <2>4. one \in FlowRow
    BY <2>3 DEF ComposerInv, ComposerShape, FlowRow, Place
  <2>5. flow' = [one EXCEPT !.read = read]
    BY <1>6, <2>2, <2>3
  <2>6. flow' \in FlowRow
    BY <2>4, <2>5 DEF FlowRow
  <2>7. /\ flow'.at = "queue" /\ flow'.why = flow.why /\ flow'.seen = flow.seen
        /\ flow'.read = read
    BY <2>3, <2>4, <2>5 DEF FlowRow, ComposerInv, ComposerShape
  <2>8. FlowFits' /\ ~Discarded' /\ ~Discarded
    BY <1>2, <1>6, <2>7 DEF FlowFits, Discarded
  <2>9. flow'.read.content = flow'.seen.content /\ flow'.seen.files \subseteq flow'.read.files
    BY <1>4, <2>1, <2>2, <2>7 DEF IsKept
  <2>10. ScreensFit'
    BY <1>1, <2>7, <2>9 DEF ComposerInv, ScreensFit, IsKept, Stays, W!SentIsShown
  <2> QED
    BY <1>1, <1>3, <2>6, <2>7, <2>8, <2>10, FlowKeepsWindow DEF Stays
<1> QED
  BY <1>1, <1>5, <1>6 DEF W!queue_remote_draft, W!queue_send, W!At

LEMMA FailingKeepsWindow ==
  ASSUME ComposerInv, W!Failed
  PROVE  ComposerInv'
<1>1. flow.at = "failed" /\ window' = [window EXCEPT !.asking = FALSE] /\ Stays
      /\ flow' = W!AtRest
  BY DEF W!Failed, W!At, W!backend, Stays
<1>2. window.open
  BY <1>1, FlowsHaveWindows
<1>3. Typed
  BY <1>1, <1>2, AskingIsTyped
<1>4. flow' \in FlowRow /\ flow'.at = "none" /\ flow'.why = "none"
  BY <1>1, FlowRests
<1>5. FlowFits' /\ (Discarded' <=> Discarded)
  BY <1>1, <1>4 DEF FlowFits, Discarded
<1>6. ScreensFit'
  BY <1>1, <1>4 DEF ComposerInv, ScreensFit, IsKept, Stays, W!SentIsShown
<1> QED
  BY <1>1, <1>3, <1>4, <1>5, <1>6, FlowKeepsWindow DEF Stays

LEMMA SaveNowKeepsWindow ==
  ASSUME ComposerInv, W!saveNow
  PROVE  ComposerInv'
<1>1. /\ flow.at = "saved" /\ window' = [window EXCEPT !.revision = draft.revision] /\ Stays
      /\ W!To(IF flow.why = "send" THEN "read" ELSE "append")
  BY DEF W!saveNow, W!At, W!backend, Stays
<1>2. window.open /\ window.sending = "none" /\ flow.why \in {"save", "send"}
  BY <1>1, FlowsHaveWindows DEF ComposerInv, FlowFits
<1>3. PICK place \in {"read", "append"} : place = IF flow.why = "send" THEN "read" ELSE "append"
  OBVIOUS
<1>4. place \in Place
  BY DEF Place
<1>5. /\ flow' \in FlowRow /\ flow'.at = place
      /\ flow'.why = flow.why /\ flow'.seen = flow.seen
  BY <1>1, <1>3, <1>4, FlowGoesTo DEF ComposerInv
<1>6. /\ window' \in WindowRow
      /\ window'.open = window.open /\ window'.listed = window.listed
      /\ window'.revision = draft.revision /\ window'.sending = window.sending
      /\ window'.lost = window.lost /\ window'.leaving = window.leaving
  BY <1>1 DEF ComposerInv, ComposerShape, WindowRow
<1>7. ComposerShape' /\ CallsFit' /\ FlowFits'
  BY <1>1, <1>2, <1>3, <1>5, <1>6 DEF ComposerInv, ComposerShape, CallsFit, FlowFits, Stays
<1>8. WindowFits' /\ SendingFits'
  BY <1>1, <1>2, <1>3, <1>5, <1>6 DEF ComposerInv, WindowFits, SendingFits, Stays
<1>9. RevisionsFit'
  <2>1. draft.status = "editing" /\ closed.how = "open"
    BY <1>1, FlowsHaveWindows DEF ComposerInv, RevisionsFit
  <2> QED
    BY <1>1, <1>2, <1>3, <1>5, <1>6, <2>1 DEF RevisionsFit, Discarded, Stays
<1>10. ScreensFit'
  BY <1>1, <1>2, <1>3, <1>5 DEF ComposerInv, ScreensFit, IsKept, Stays, W!SentIsShown
<1>11. FilesFit'
  BY <1>1, <1>6 DEF ComposerInv, FilesFit, W!ListedIsStored, AddsFiles, Its, W!CallAt, Stays
<1> QED
  BY <1>7, <1>8, <1>9, <1>10, <1>11 DEF ComposerInv

LEMMA FollowingKeepsWindow ==
  ASSUME ComposerInv, W!setSendJob
  PROVE  ComposerInv'
<1>1. /\ flow.at = "queued" /\ window' = [window EXCEPT !.sending = delivery] /\ Stays
      /\ flow' = W!AtRest
  BY DEF W!setSendJob, W!At, W!backend, Stays
<1>2. window.open /\ window.sending = "none" /\ flow.why = "send" /\ delivery # "none"
  BY <1>1, FlowsHaveWindows DEF ComposerInv, FlowFits, WindowFits
<1>3. flow' \in FlowRow /\ flow'.at = "none" /\ flow'.why = "none"
  BY <1>1, FlowRests
<1>4. /\ window' \in WindowRow
      /\ window'.open = window.open /\ window'.listed = window.listed
      /\ window'.revision = window.revision /\ window'.sending = delivery
      /\ window'.lost = window.lost /\ window'.leaving = window.leaving
  BY <1>1 DEF ComposerInv, ComposerShape, WindowRow
<1>5. ComposerShape' /\ CallsFit' /\ FlowFits'
  BY <1>1, <1>3, <1>4 DEF ComposerInv, ComposerShape, CallsFit, FlowFits, Stays
<1>6. WindowFits' /\ SendingFits'
  BY <1>1, <1>2, <1>3, <1>4 DEF ComposerInv, WindowFits, SendingFits, Stays
<1>7. RevisionsFit'
  BY <1>1, <1>2, <1>3, <1>4 DEF ComposerInv, RevisionsFit, Discarded, Stays
<1>8. ScreensFit'
  BY <1>1, <1>3 DEF ComposerInv, ScreensFit, IsKept, Stays, W!SentIsShown
<1>9. FilesFit'
  BY <1>1, <1>4 DEF ComposerInv, FilesFit, W!ListedIsStored, AddsFiles, Its, W!CallAt, Stays
<1> QED
  BY <1>5, <1>6, <1>7, <1>8, <1>9 DEF ComposerInv

\* The window closes: what runs in the process answers nobody.
Leaves(how, seen) ==
    /\ window' = W!NoWindow /\ reports' = {} /\ flow.seen = seen
    /\ closed' \in ClosedRow /\ closed'.how = how /\ closed'.seen = seen
    /\ calls' \in [Editor -> CallRow]
    /\ \A c \in Editor : /\ calls'[c].kind = calls[c].kind /\ calls'[c].at = calls[c].at
                         /\ calls'[c].todo = calls[c].todo /\ calls'[c].done = calls[c].done
                         /\ ~calls'[c].mine

LEMMA ClosingLeaves ==
  ASSUME ComposerInv, NEW how \in {"save", "discard", "sent"}, W!Goes(how)
  PROVE  Leaves(how, flow.seen)
<1>1. /\ window' = W!NoWindow /\ reports' = {}
      /\ closed' = [closed EXCEPT !.how = how, !.seen = flow.seen]
      /\ calls' = [c \in Editor |-> [calls[c] EXCEPT !.mine = FALSE]]
  BY DEF W!Goes
<1>2. flow.seen \in Screen /\ closed \in ClosedRow /\ calls \in [Editor -> CallRow]
  BY DEF ComposerInv, ComposerShape, FlowRow
<1>3. PICK one, seen : one = [closed EXCEPT !.how = how] /\ seen = flow.seen
  OBVIOUS
<1>4. one \in ClosedRow
  BY <1>2, <1>3 DEF ClosedRow
<1>5. closed' = [one EXCEPT !.seen = seen] /\ seen \in Screen
  BY <1>1, <1>2, <1>3
<1>6. closed' \in ClosedRow
  BY <1>4, <1>5 DEF ClosedRow
<1>7. closed'.how = how /\ closed'.seen = seen
  BY <1>2, <1>3, <1>4, <1>5 DEF ClosedRow
<1>8. ASSUME NEW c \in Editor
      PROVE  /\ calls'[c] \in CallRow
             /\ calls'[c].kind = calls[c].kind /\ calls'[c].at = calls[c].at
             /\ calls'[c].todo = calls[c].todo /\ calls'[c].done = calls[c].done
             /\ ~calls'[c].mine
  <2>1. PICK call \in CallRow : call = calls[c]
    BY <1>2
  <2>2. calls'[c] = [call EXCEPT !.mine = FALSE]
    BY <1>1, <2>1
  <2>3. calls'[c] \in CallRow
    BY <2>1, <2>2 DEF CallRow
  <2> QED
    BY <2>1, <2>2, <2>3 DEF CallRow
<1>9. calls' \in [Editor -> CallRow]
  BY <1>1, <1>8
<1> QED
  BY <1>1, <1>3, <1>6, <1>7, <1>8, <1>9 DEF Leaves

LEMMA NoWindowIs ==
  /\ W!NoWindow \in WindowRow /\ ~W!NoWindow.open /\ W!NoWindow.sending = "none"
  /\ W!Idle \in CallRow /\ W!Idle.kind = "none" /\ ~W!Idle.mine
BY DEF W!NoWindow, WindowRow, Progress, W!Idle, CallRow

LEMMA LeavingKeepsWindow ==
  ASSUME ComposerInv, NEW how \in {"save", "discard", "sent"}, Leaves(how, flow.seen),
         UNCHANGED <<draft, attached, mail, delivery>>,
         flow' \in FlowRow, flow'.why = "none", flow'.at = "none",
         how = "save" => flow.why # "discard" /\ flow.at = "close",
         how = "discard" => Discarded,
         how = "sent" => delivery = "sent"
  PROVE  ComposerInv'
<1>1. window' \in WindowRow /\ ~window'.open /\ window'.sending = "none"
  BY NoWindowIs DEF Leaves
<1>2. closed'.how = how /\ closed'.seen = flow.seen
  BY DEF Leaves
<1>3. ComposerShape'
  BY <1>1 DEF ComposerInv, ComposerShape, Leaves
<1>4. CallsFit'
  <2> SUFFICES ASSUME NEW c \in Editor, calls'[c].kind = "none"
               PROVE  calls'[c] = W!Idle
    BY DEF ComposerInv, CallsFit, Leaves
  <2>1. calls[c] = W!Idle
    BY DEF ComposerInv, CallsFit, Leaves
  <2>2. /\ calls'[c] \in CallRow /\ W!Idle \in CallRow
        /\ calls'[c].kind = W!Idle.kind /\ calls'[c].at = W!Idle.at
        /\ calls'[c].todo = W!Idle.todo /\ calls'[c].done = W!Idle.done
        /\ ~calls'[c].mine /\ ~W!Idle.mine
    BY <2>1, NoWindowIs DEF Leaves
  <2> QED
    BY <2>2 DEF CallRow
<1>5. FlowFits' /\ WindowFits' /\ SendingFits'
  BY <1>1, <1>2 DEF ComposerInv, FlowFits, WindowFits, SendingFits, Leaves
<1>6. RevisionsFit'
  BY <1>1, <1>2 DEF ComposerInv, RevisionsFit, Discarded
<1>7. ScreensFit'
  <2>1. how = "save" => draft.content = flow.seen.content /\ IsKept(flow.seen.files)
    BY DEF ComposerInv, ScreensFit
  <2>2. IsKept(flow.seen.files) =>
          /\ flow.seen.files \subseteq attached
          /\ \A c \in Editor :
                calls'[c].kind = "remove" => flow.seen.files \cap calls'[c].todo = {}
    BY DEF IsKept, Leaves
  <2> QED
    BY <1>2, <2>1, <2>2 DEF ComposerInv, ScreensFit, IsKept, W!SentIsShown
<1>8. FilesFit'
  BY <1>1 DEF FilesFit, W!ListedIsStored, AddsFiles, Leaves
<1> QED
  BY <1>3, <1>4, <1>5, <1>6, <1>7, <1>8 DEF ComposerInv

LEMMA ClosingKeepsWindow ==
  ASSUME ComposerInv, W!destroy \/ W!closeWhenSent \/ W!onCloseRequested
  PROVE  ComposerInv'
<1>1. CASE W!destroy
  <2>1. /\ flow.at = "close" /\ W!Goes(flow.why) /\ flow' = W!AtRest
        /\ UNCHANGED <<draft, attached, mail, delivery>>
    BY <1>1 DEF W!destroy, W!At, W!backend
  <2>2. flow.why \in {"save", "discard"}
    BY <2>1, FlowsHaveWindows DEF ComposerInv, FlowFits
  <2>3. PICK how \in {"save", "discard"} : how = flow.why
    BY <2>2
  <2>4. Leaves(how, flow.seen)
    BY <2>1, <2>3, ClosingLeaves
  <2>5. flow' \in FlowRow /\ flow'.at = "none" /\ flow'.why = "none"
    BY <2>1, FlowRests
  <2> QED
    BY <2>1, <2>3, <2>4, <2>5, LeavingKeepsWindow DEF Discarded
<1>2. CASE window.open /\ window.sending = "sent" /\ W!Goes("sent") /\ UNCHANGED <<W!backend, flow>>
  <2>1. Leaves("sent", flow.seen)
    BY <1>2, ClosingLeaves
  <2>2. flow.why = "none" /\ flow.at = "none" /\ delivery = "sent" /\ flow \in FlowRow
    BY <1>2 DEF ComposerInv, ComposerShape, WindowFits, FlowFits, SendingFits
  <2>3. UNCHANGED <<draft, attached, mail, delivery, flow>>
    BY <1>2 DEF W!backend
  <2> QED
    BY <2>1, <2>2, <2>3, LeavingKeepsWindow
<1>3. CASE window.open /\ W!editable /\ window' = [window EXCEPT !.asking = TRUE] /\ UNCHANGED flow /\ Stays
  <2>1. Typed
    BY <1>3, AskingIsTyped
  <2>2. ComposerShape' /\ CallsFit' /\ FlowFits'
    BY <1>3, <2>1 DEF ComposerInv, ComposerShape, CallsFit, FlowFits, Stays, Typed
  <2>3. WindowFits' /\ SendingFits' /\ RevisionsFit'
    BY <1>3, <2>1 DEF ComposerInv, WindowFits, SendingFits, RevisionsFit, Discarded, Stays, Typed
  <2>4. ScreensFit'
    BY <1>3, ScreensStay DEF ComposerInv, Stays
  <2>5. FilesFit'
    BY <1>3, <2>1 DEF ComposerInv, FilesFit, W!ListedIsStored, Typed, AddsFiles, Its, W!CallAt, Stays
  <2> QED
    BY <2>2, <2>3, <2>4, <2>5 DEF ComposerInv
<1>4. CASE W!closeWhenSent
  BY <1>2, <1>4 DEF W!closeWhenSent
<1>5. CASE W!onCloseRequested
  BY <1>2, <1>3, <1>5 DEF W!onCloseRequested, W!backend, Stays
<1> QED
  BY <1>1, <1>4, <1>5

\* A new process knows no window and no command.
LEMMA EndingKeepsWindow ==
  ASSUME ComposerInv, W!EndProcess
  PROVE  ComposerInv'
<1>1. /\ window.open /\ window' = W!NoWindow /\ flow' = W!AtRest /\ reports' = {}
      /\ calls' = [c \in Editor |-> W!Idle]
      /\ closed' = [closed EXCEPT !.how = "ended"]
      /\ delivery' = IF delivery = "sending" THEN "queued" ELSE delivery
      /\ UNCHANGED <<draft, attached, mail>>
  BY DEF W!EndProcess
<1>2. flow' \in FlowRow /\ flow'.at = "none" /\ flow'.why = "none"
  BY <1>1, FlowRests
<1>3. window' \in WindowRow /\ ~window'.open /\ window'.sending = "none"
  BY <1>1, NoWindowIs
<1>4. /\ calls' \in [Editor -> CallRow]
      /\ \A c \in Editor : calls'[c] = W!Idle /\ calls'[c].kind = "none" /\ ~calls'[c].mine
  BY <1>1, NoWindowIs
<1>5. closed' \in ClosedRow /\ closed'.how = "ended"
  BY <1>1 DEF ComposerInv, ComposerShape, ClosedRow
<1>6. delivery' \in Progress /\ (delivery' = "none" <=> delivery = "none")
      /\ (delivery' = "sent" <=> delivery = "sent")
  BY <1>1 DEF ComposerInv, ComposerShape, Progress
<1>7. ComposerShape'
  BY <1>1, <1>2, <1>3, <1>4, <1>5, <1>6 DEF ComposerInv, ComposerShape
<1>8. CallsFit' /\ FlowFits' /\ WindowFits' /\ SendingFits'
  BY <1>1, <1>2, <1>3, <1>4, <1>5, <1>6
  DEF ComposerInv, CallsFit, FlowFits, WindowFits, SendingFits
<1>9. RevisionsFit' /\ ScreensFit' /\ FilesFit'
  BY <1>1, <1>2, <1>3, <1>4, <1>5
  DEF ComposerInv, RevisionsFit, Discarded, ScreensFit, FilesFit, W!SentIsShown, W!ListedIsStored, AddsFiles
<1> QED
  BY <1>7, <1>8, <1>9 DEF ComposerInv

\* A window loads what is stored.
LEMMA LoadingKeepsWindow ==
  ASSUME ComposerInv, W!get_bootstrap
  PROVE  ComposerInv'
<1>1. /\ ~window.open /\ draft.status = "editing"
      /\ UNCHANGED <<draft, attached, mail, delivery, flow, calls, reports>>
      /\ closed' = [how |-> "open", seen |-> W!Blank, count |-> closed.count + 1]
  BY DEF W!get_bootstrap, W!backend
<1>2. PICK stored : stored = W!Stored
  OBVIOUS
<1>3. stored.content = draft.content /\ stored.files = attached
  BY <1>2 DEF W!Stored
<1>4. PICK leaves : leaves = W!Leaving
  OBVIOUS
<1>5. leaves \in SUBSET File
  BY <1>4 DEF W!Leaving, ComposerInv, ComposerShape, CallRow
<1>6. window' = [open |-> TRUE, content |-> draft.content, valid |-> TRUE,
                 listed |-> attached, revision |-> draft.revision, sending |-> "none",
                 asking |-> FALSE, lost |-> FALSE, leaving |-> leaves]
  <2>1. window' = [W!NoWindow EXCEPT !.open = TRUE, !.content = stored.content,
                                     !.listed = stored.files, !.revision = draft.revision,
                                     !.leaving = leaves]
    BY <1>2, <1>4 DEF W!get_bootstrap
  <2> QED
    BY <1>3, <2>1 DEF W!NoWindow
<1>7. /\ window' \in WindowRow /\ window'.open /\ window'.listed = attached
      /\ window'.revision = draft.revision /\ window'.sending = "none"
      /\ window'.leaving = leaves
  BY <1>5, <1>6 DEF WindowRow, ComposerInv, ComposerShape, Progress
<1>8. closed' \in ClosedRow /\ closed'.how = "open"
  <2>1. W!Blank \in Screen /\ closed.count + 1 \in Nat
    BY DEF W!Blank, Screen, ComposerInv, ComposerShape, ClosedRow
  <2> QED
    BY <1>1, <2>1 DEF ClosedRow
<1>9. /\ flow.why = "none" /\ flow.at = "none" /\ reports = {}
      /\ \A c \in Editor : ~calls[c].mine
  <2>1. window = W!NoWindow /\ flow.why = "none" /\ \A c \in Editor : ~calls[c].mine
    BY <1>1 DEF ComposerInv, WindowFits
  <2>2. reports = {}
    BY <2>1, NoWindowIs DEF ComposerInv, WindowFits
  <2> QED
    BY <2>1, <2>2 DEF ComposerInv, FlowFits
<1>10. ComposerShape' /\ CallsFit' /\ FlowFits'
  BY <1>1, <1>7, <1>8 DEF ComposerInv, ComposerShape, CallsFit, FlowFits
<1>11. WindowFits' /\ SendingFits' /\ RevisionsFit'
  BY <1>1, <1>7, <1>8, <1>9 DEF ComposerInv, WindowFits, SendingFits, RevisionsFit, Discarded
<1>12. ScreensFit'
  BY <1>1, <1>8, <1>9 DEF ComposerInv, ScreensFit, IsKept, W!SentIsShown
<1>13. FilesFit'
  <2>1. \A c \in Editor : calls[c].kind = "remove" => calls[c].todo \subseteq leaves
    BY <1>4 DEF W!Leaving
  <2> QED
    BY <1>1, <1>7, <1>9, <2>1 DEF FilesFit, W!ListedIsStored, AddsFiles
<1> QED
  BY <1>10, <1>11, <1>12, <1>13 DEF ComposerInv

\* An answer that is lost is remembered.
LEMMA LosingIs ==
  ASSUME ComposerInv, window' = [window EXCEPT !.lost = TRUE]
  PROVE  /\ window' \in WindowRow
         /\ window'.open = window.open /\ window'.listed = window.listed
         /\ window'.revision = window.revision /\ window'.sending = window.sending
         /\ window'.lost /\ window'.leaving = window.leaving
BY DEF ComposerInv, ComposerShape, WindowRow

LEMMA SavingKeepsWindow ==
  ASSUME ComposerInv, W!save_draft
  PROVE  ComposerInv'
<1>1. /\ flow.at = "save" /\ UNCHANGED <<attached, mail, delivery, calls, reports, closed>>
      /\ flow.why \in {"save", "send"}
      /\ window.open /\ window.sending = "none" /\ closed.how = "open"
  BY FlowsHaveWindows DEF W!save_draft, W!At, ComposerInv, FlowFits
<1>2. IsKept(flow.seen.files)
  BY <1>1 DEF ComposerInv, ScreensFit
<1>3. CASE /\ draft.status = "editing" /\ draft.revision = window.revision
           /\ draft' = [draft EXCEPT !.content = flow.seen.content, !.revision = @ + 1]
           /\ \/ W!To("saved") /\ UNCHANGED window
              \/ W!To("failed") /\ window' = [window EXCEPT !.lost = TRUE]
  <2>1. /\ draft' \in [status : {"editing", "queued", "sent", "gone"}, content : Nat,
                       revision : Nat]
        /\ draft'.status = "editing" /\ draft'.content = flow.seen.content
    <3>1. PICK shown \in Nat : shown = flow.seen.content
      BY DEF ComposerInv, ComposerShape, FlowRow, Screen
    <3>2. PICK row : row = [draft EXCEPT !.content = shown]
      OBVIOUS
    <3>3. /\ row \in [status : {"editing", "queued", "sent", "gone"}, content : Nat,
                      revision : Nat]
          /\ row.status = "editing" /\ row.content = shown
      BY <1>3, <3>2 DEF ComposerInv, ComposerShape
    <3>4. draft' = [row EXCEPT !.revision = @ + 1]
      BY <1>3, <3>1, <3>2
    <3> QED
      BY <3>1, <3>3, <3>4
  <2>2. PICK place \in {"saved", "failed"} :
          /\ W!To(place)
          /\ place = "saved" => UNCHANGED window
          /\ place = "failed" => window' = [window EXCEPT !.lost = TRUE]
    BY <1>3
  <2>3. /\ flow' \in FlowRow /\ flow'.at = place
        /\ flow'.why = flow.why /\ flow'.seen = flow.seen
    BY <2>2, FlowGoesTo DEF ComposerInv, Place
  <2>4. /\ window' \in WindowRow
        /\ window'.open = window.open /\ window'.listed = window.listed
        /\ window'.sending = window.sending /\ window'.leaving = window.leaving
        /\ place = "failed" => window'.lost
    BY <2>2, LosingIs DEF ComposerInv, ComposerShape
  <2>5. window'.open => window' # W!NoWindow
    BY NoWindowIs
  <2>6. ComposerShape' /\ CallsFit' /\ FlowFits'
    BY <1>1, <2>1, <2>3, <2>4 DEF ComposerInv, ComposerShape, CallsFit, FlowFits
  <2>7. WindowFits' /\ SendingFits'
    BY <1>1, <1>3, <2>1, <2>3, <2>4 DEF ComposerInv, WindowFits, SendingFits
  <2>8. RevisionsFit'
    BY <1>1, <2>1, <2>3, <2>4 DEF RevisionsFit, Discarded
  <2>9. ScreensFit'
    BY <1>1, <1>2, <2>1, <2>3 DEF ComposerInv, ScreensFit, IsKept, W!SentIsShown
  <2>10. FilesFit'
    BY <1>1, <1>3, <2>1, <2>4 DEF ComposerInv, FilesFit, W!ListedIsStored, AddsFiles, Its, W!CallAt
  <2> QED
    BY <2>6, <2>7, <2>8, <2>9, <2>10 DEF ComposerInv
<1>4. CASE W!To("failed") /\ UNCHANGED <<draft, window>>
  <2>1. /\ flow' \in FlowRow /\ flow'.at = "failed"
        /\ flow'.why = flow.why /\ flow'.seen = flow.seen
    BY <1>4, FlowGoesTo DEF ComposerInv, Place
  <2>2. Typed
    BY <1>1, <1>4, AskingIsTyped
  <2>3. FlowFits' /\ ~Discarded /\ ~Discarded'
    BY <1>1, <2>1 DEF FlowFits, Discarded
  <2>4. ScreensFit'
    BY <1>1, <1>4, <2>1 DEF ComposerInv, ScreensFit, IsKept, W!SentIsShown
  <2> QED
    BY <1>1, <1>4, <2>1, <2>2, <2>3, <2>4, FlowKeepsWindow
<1> QED
  BY <1>3, <1>4 DEF W!save_draft

LEMMA DiscardingKeepsWindow ==
  ASSUME ComposerInv, W!discard_draft_session
  PROVE  ComposerInv'
<1>1. /\ flow.at = "delete" /\ UNCHANGED <<mail, delivery, window, calls, reports, closed>>
      /\ flow.why = "discard"
      /\ window.open /\ window.sending = "none" /\ closed.how = "open"
  BY FlowsHaveWindows DEF W!discard_draft_session, W!At, ComposerInv, FlowFits
<1>2. CASE /\ draft.status = "editing"
           /\ draft' = [draft EXCEPT !.status = "gone"] /\ attached' = {} /\ W!To("close")
  <2>1. /\ draft' \in [status : {"editing", "queued", "sent", "gone"}, content : Nat,
                       revision : Nat]
        /\ draft'.status = "gone"
    BY <1>2 DEF ComposerInv, ComposerShape
  <2>2. /\ flow' \in FlowRow /\ flow'.at = "close"
        /\ flow'.why = flow.why /\ flow'.seen = flow.seen
    BY <1>2, FlowGoesTo DEF ComposerInv, Place
  <2>3. ComposerShape' /\ CallsFit' /\ FlowFits'
    BY <1>1, <1>2, <2>1, <2>2 DEF ComposerInv, ComposerShape, CallsFit, FlowFits
  <2>4. WindowFits' /\ SendingFits'
    BY <1>1, <1>2, <2>1, <2>2 DEF ComposerInv, WindowFits, SendingFits
  <2>5. RevisionsFit'
    BY <1>1, <1>2, <2>1, <2>2 DEF RevisionsFit, Discarded
  <2>6. ScreensFit'
    BY <1>1, <2>2 DEF ComposerInv, ScreensFit, W!SentIsShown
  <2>7. FilesFit'
    BY <1>1, <1>2, <2>1 DEF ComposerInv, FilesFit, W!ListedIsStored, AddsFiles, Its
  <2> QED
    BY <2>3, <2>4, <2>5, <2>6, <2>7 DEF ComposerInv
<1>3. CASE W!To("failed") /\ UNCHANGED <<draft, attached>>
  <2>1. /\ flow' \in FlowRow /\ flow'.at = "failed"
        /\ flow'.why = flow.why /\ flow'.seen = flow.seen
    BY <1>3, FlowGoesTo DEF ComposerInv, Place
  <2>2. Typed
    BY <1>1, AskingIsTyped
  <2>3. FlowFits' /\ ~Discarded /\ ~Discarded'
    BY <1>1, <2>1 DEF FlowFits, Discarded
  <2>4. ScreensFit'
    BY <1>1, <1>3, <2>1 DEF ComposerInv, ScreensFit, IsKept, W!SentIsShown
  <2> QED
    BY <1>1, <1>3, <2>1, <2>2, <2>3, <2>4, FlowKeepsWindow
<1> QED
  BY <1>2, <1>3 DEF W!discard_draft_session

LEMMA SendingKeepsWindow ==
  ASSUME ComposerInv, W!queue_send_job
  PROVE  ComposerInv'
<1>1. /\ flow.at = "queue" /\ UNCHANGED <<attached, calls, reports, closed>>
      /\ flow.why = "send"
      /\ window.open /\ window.sending = "none" /\ closed.how = "open"
  BY FlowsHaveWindows DEF W!queue_send_job, W!At, ComposerInv, FlowFits
<1>2. /\ flow.read.content = flow.seen.content /\ flow.seen.files \subseteq flow.read.files
      /\ flow.read \in Screen /\ flow.seen \in Screen
  BY <1>1 DEF ComposerInv, ComposerShape, ScreensFit, FlowRow
<1>3. CASE /\ draft.status = "editing"
           /\ draft' = [draft EXCEPT !.status = "queued", !.revision = @ + 1]
           /\ mail' = [made |-> flow.read, seen |-> flow.seen]
           /\ delivery' = "queued"
           /\ \/ W!To("queued") /\ UNCHANGED window
              \/ W!To("failed") /\ window' = [window EXCEPT !.lost = TRUE]
  <2>1. /\ draft' \in [status : {"editing", "queued", "sent", "gone"}, content : Nat,
                       revision : Nat]
        /\ draft'.status = "queued"
    <3>1. PICK row : row = [draft EXCEPT !.status = "queued"]
      OBVIOUS
    <3>2. /\ row \in [status : {"editing", "queued", "sent", "gone"}, content : Nat,
                      revision : Nat]
          /\ row.status = "queued"
      BY <3>1 DEF ComposerInv, ComposerShape
    <3>3. draft' = [row EXCEPT !.revision = @ + 1]
      BY <1>3, <3>1
    <3> QED
      BY <3>2, <3>3
  <2>2. PICK place \in {"queued", "failed"} :
          /\ W!To(place)
          /\ place = "queued" => UNCHANGED window
          /\ place = "failed" => window' = [window EXCEPT !.lost = TRUE]
    BY <1>3
  <2>3. /\ flow' \in FlowRow /\ flow'.at = place
        /\ flow'.why = flow.why /\ flow'.seen = flow.seen
    BY <2>2, FlowGoesTo DEF ComposerInv, Place
  <2>4. /\ window' \in WindowRow
        /\ window'.open = window.open /\ window'.listed = window.listed
        /\ window'.sending = window.sending /\ window'.leaving = window.leaving
        /\ place = "failed" => window'.lost
    BY <2>2, LosingIs DEF ComposerInv, ComposerShape
  <2>5. mail' \in [made : Screen, seen : Screen] /\ mail'.made = flow.read /\ mail'.seen = flow.seen
    BY <1>2, <1>3
  <2>6. ComposerShape' /\ CallsFit' /\ FlowFits'
    BY <1>1, <1>3, <2>1, <2>3, <2>4, <2>5
    DEF ComposerInv, ComposerShape, CallsFit, FlowFits, Progress
  <2>7. WindowFits'
    BY <1>1, <1>3, <2>1, <2>3, <2>4 DEF ComposerInv, WindowFits
  <2>8. SendingFits'
    <3>1. delivery = "none"
      BY <1>3 DEF ComposerInv, SendingFits
    <3>2. window.sending # "sent" /\ "sent" \notin reports /\ closed.how # "sent"
      BY <3>1 DEF ComposerInv, SendingFits
    <3> QED
      BY <1>1, <2>1, <2>4, <3>2 DEF SendingFits
  <2>9. RevisionsFit'
    BY <1>1, <2>1, <2>3, <2>4 DEF RevisionsFit, Discarded
  <2>10. ScreensFit'
    BY <1>1, <1>2, <2>3, <2>5 DEF ScreensFit, W!SentIsShown
  <2>11. FilesFit'
    BY <1>1, <1>3, <2>1, <2>4 DEF ComposerInv, FilesFit, W!ListedIsStored, AddsFiles, Its, W!CallAt
  <2> QED
    BY <2>6, <2>7, <2>8, <2>9, <2>10, <2>11 DEF ComposerInv
<1>4. CASE W!To("failed") /\ UNCHANGED <<draft, mail, delivery, window>>
  <2>1. /\ flow' \in FlowRow /\ flow'.at = "failed"
        /\ flow'.why = flow.why /\ flow'.seen = flow.seen
    BY <1>4, FlowGoesTo DEF ComposerInv, Place
  <2>2. Typed
    BY <1>1, <1>4, AskingIsTyped
  <2>3. FlowFits' /\ ~Discarded /\ ~Discarded'
    BY <1>1, <2>1 DEF FlowFits, Discarded
  <2>4. ScreensFit'
    BY <1>1, <1>4, <2>1 DEF ComposerInv, ScreensFit, IsKept, W!SentIsShown
  <2> QED
    BY <1>1, <1>4, <2>1, <2>2, <2>3, <2>4, FlowKeepsWindow
<1> QED
  BY <1>3, <1>4 DEF W!queue_send_job

\* The job of a message that was queued goes on, and its window hears of it.
LEMMA DeliveringKeepsWindow ==
  ASSUME ComposerInv, W!deliver \/ W!retry_send
  PROVE  ComposerInv'
<1>1. /\ UNCHANGED <<attached, mail, window, flow, calls, closed>>
      /\ delivery \in {"queued", "sending", "failed"}
      /\ delivery' \in {"queued", "sending", "sent", "failed"}
  BY DEF W!deliver, W!retry_send
<1>2. draft.status \notin {"editing", "gone"}
  BY <1>1 DEF ComposerInv, SendingFits
<1>3. /\ draft' \in [status : {"editing", "queued", "sent", "gone"}, content : Nat,
                     revision : Nat]
      /\ draft'.status \notin {"editing", "gone"} /\ draft'.content = draft.content
  <2>1. CASE UNCHANGED draft
    BY <1>2, <2>1 DEF ComposerInv, ComposerShape
  <2>2. CASE draft' = [draft EXCEPT !.status = "sent", !.revision = @ + 1]
    <3>1. PICK row : row = [draft EXCEPT !.status = "sent"]
      OBVIOUS
    <3>2. /\ row \in [status : {"editing", "queued", "sent", "gone"}, content : Nat,
                      revision : Nat]
          /\ row.status = "sent" /\ row.content = draft.content
      BY <3>1 DEF ComposerInv, ComposerShape
    <3>3. draft' = [row EXCEPT !.revision = @ + 1]
      BY <2>2, <3>1
    <3> QED
      BY <3>2, <3>3
  <2> QED
    BY <2>1, <2>2 DEF W!deliver, W!retry_send
<1>4. /\ reports' \in SUBSET (Progress \ {"none"})
      /\ window.sending = "none" => reports' = reports
      /\ "sent" \in reports' => "sent" \in reports
  <2>1. CASE reports' = reports
    BY <2>1 DEF ComposerInv, ComposerShape
  <2>2. CASE window.sending = "failed" /\ reports' = reports \cup {"queued"}
    BY <2>2 DEF ComposerInv, ComposerShape, Progress
  <2> QED
    BY <2>1, <2>2 DEF W!deliver, W!retry_send
<1>5. ComposerShape' /\ CallsFit' /\ FlowFits'
  BY <1>1, <1>3, <1>4 DEF ComposerInv, ComposerShape, CallsFit, FlowFits, Progress
<1>6. WindowFits' /\ SendingFits'
  BY <1>1, <1>3, <1>4 DEF ComposerInv, WindowFits, SendingFits
<1>7. RevisionsFit'
  BY <1>1, <1>2, <1>3 DEF ComposerInv, RevisionsFit, Discarded
<1>8. ScreensFit'
  BY <1>1, <1>3, ScreensStay DEF ComposerInv
<1>9. FilesFit'
  BY <1>1, <1>2, <1>3 DEF ComposerInv, FilesFit, W!ListedIsStored, AddsFiles, Its, W!CallAt
<1> QED
  BY <1>5, <1>6, <1>7, <1>8, <1>9 DEF ComposerInv

LEMMA HearingKeepsWindow ==
  ASSUME ComposerInv, W!get_send_job \/ W!TakeReport
  PROVE  ComposerInv'
<1>1. UNCHANGED <<draft, attached, mail, delivery, flow, calls, closed>>
  BY DEF W!get_send_job, W!TakeReport, W!backend
<1>2. window.open /\ window.sending # "none" /\ delivery # "none"
  <2>1. window.sending # "none"
    BY DEF W!get_send_job, W!TakeReport, ComposerInv, WindowFits
  <2> QED
    BY <2>1, NoWindowIs DEF ComposerInv, WindowFits
<1>3. /\ reports' \in SUBSET (Progress \ {"none"})
      /\ "sent" \in reports' => delivery = "sent"
  BY <1>2 DEF W!get_send_job, W!TakeReport, ComposerInv, ComposerShape, SendingFits
<1>4. /\ window' \in WindowRow
      /\ window'.open = window.open /\ window'.listed = window.listed
      /\ window'.revision = window.revision /\ window'.leaving = window.leaving
      /\ window'.lost = window.lost /\ window'.sending # "none"
      /\ window'.sending = "sent" => delivery = "sent"
  <2>1. CASE UNCHANGED window
    BY <1>2, <2>1 DEF ComposerInv, ComposerShape, SendingFits
  <2>2. CASE \E status \in reports : window' = [window EXCEPT !.sending = status]
    <3>1. PICK status \in reports : window' = [window EXCEPT !.sending = status]
      BY <2>2
    <3>2. status \in Progress \ {"none"} /\ (status = "sent" => delivery = "sent")
      BY DEF ComposerInv, ComposerShape, SendingFits
    <3> QED
      BY <3>1, <3>2 DEF ComposerInv, ComposerShape, WindowRow
  <2> QED
    BY <2>1, <2>2 DEF W!get_send_job, W!TakeReport
<1>5. ComposerShape' /\ CallsFit' /\ FlowFits'
  BY <1>1, <1>3, <1>4 DEF ComposerInv, ComposerShape, CallsFit, FlowFits
<1>6. WindowFits'
  BY <1>1, <1>2, <1>4 DEF ComposerInv, WindowFits
<1>7. SendingFits'
  BY <1>1, <1>3, <1>4 DEF ComposerInv, SendingFits
<1>8. RevisionsFit'
  BY <1>1, <1>2, <1>4 DEF ComposerInv, RevisionsFit, Discarded
<1>9. ScreensFit'
  BY <1>1, ScreensStay DEF ComposerInv
<1>10. FilesFit'
  BY <1>1, <1>4 DEF ComposerInv, FilesFit, W!ListedIsStored, AddsFiles, Its, W!CallAt
<1> QED
  BY <1>5, <1>6, <1>7, <1>8, <1>9, <1>10 DEF ComposerInv

\* Attachments, templates and signatures.
LEMMA StartingKeepsWindow ==
  ASSUME ComposerInv, NEW c \in Editor, NEW kind \in {"add", "image", "remove", "render"},
         NEW at \in {"read", "delete", "answer"}, NEW todo \in SUBSET File,
         W!Start(c, kind, at, todo), window.open, UNCHANGED <<draft, attached, mail, delivery>>,
         kind \in {"add", "image"} => at = "read" /\ todo \subseteq W!New,
         kind = "remove" => at = "delete" /\ flow.why = "none" /\ todo \subseteq window.listed,
         kind = "render" => at = "answer" /\ todo = {}
  PROVE  ComposerInv'
<1>1. calls[c] = W!Idle /\ UNCHANGED <<window, flow, reports, closed>>
  BY DEF W!Start
<1>2. PICK call : call = [kind |-> kind, at |-> at, todo |-> todo, done |-> {}, mine |-> TRUE]
  OBVIOUS
<1>3. /\ call \in CallRow /\ call.kind = kind /\ call.at = at /\ call.todo = todo
      /\ call.done = {} /\ call.mine
  BY <1>2 DEF CallRow
<1>4. calls' = [calls EXCEPT ![c] = call]
  BY <1>2 DEF W!Start
<1>5. /\ calls' \in [Editor -> CallRow] /\ calls'[c] = call
      /\ \A d \in Editor \ {c} : calls'[d] = calls[d]
  BY <1>3, <1>4 DEF ComposerInv, ComposerShape
<1>6. closed.how = "open"
  BY DEF ComposerInv, WindowFits
<1>7. ComposerShape' /\ FlowFits'
  BY <1>1, <1>5 DEF ComposerInv, ComposerShape, FlowFits
<1>8. CallsFit'
  BY <1>1, <1>3, <1>5 DEF ComposerInv, CallsFit
<1>9. WindowFits' /\ SendingFits' /\ RevisionsFit'
  BY <1>1 DEF ComposerInv, WindowFits, SendingFits, RevisionsFit, Discarded
<1>10. ScreensFit'
  <2>1. CASE kind = "remove"
    <3>1. flow.at = "none"
      BY <2>1 DEF ComposerInv, FlowFits
    <3> QED
      BY <1>1, <1>6, <3>1 DEF ComposerInv, ScreensFit, W!SentIsShown
  <2>2. CASE kind # "remove"
    <3>1. \A d \in Editor : calls'[d].kind = "remove" =>
            calls[d].kind = "remove" /\ calls'[d].todo = calls[d].todo
      BY <1>3, <1>5, <2>2
    <3>2. IsKept(flow.seen.files) => IsKept(flow.seen.files)'
      BY <1>1, <3>1 DEF IsKept
    <3> QED
      BY <1>1, <1>6, <3>2 DEF ComposerInv, ScreensFit, W!SentIsShown
  <2> QED
    BY <2>1, <2>2
<1>11. FilesFit'
  <2>1. \A d \in Editor : calls[d].kind = "remove" /\ W!CallAt(d, "answer") =>
          /\ calls'[d].kind = "remove" /\ W!CallAt(d, "answer")'
          /\ calls'[d].todo = calls[d].todo
    BY <1>1, <1>5, NoWindowIs DEF W!CallAt
  <2>2. W!ListedIsStored'
    BY <1>1, <2>1 DEF ComposerInv, FilesFit, W!ListedIsStored
  <2>3. \A d \in Editor : window.open /\ calls'[d].kind = "remove" /\ ~calls'[d].mine =>
          calls'[d].todo \subseteq window.leaving
    BY <1>3, <1>5 DEF ComposerInv, FilesFit
  <2>4. \A d \in Editor \ {c} : (AddsFiles(d)' <=> AddsFiles(d)) /\ Its(d)' = Its(d)
    BY <1>5 DEF AddsFiles, Its
  <2>5. Its(c)' = todo
    BY <1>3, <1>5 DEF Its
  <2>6. kind \in {"add", "image"} =>
          /\ todo \cap window.listed = {}
          /\ \A d \in Editor \ {c} : todo \cap Its(d) = {}
    BY DEF W!New, Its
  <2>7. kind = "remove" => \A d \in Editor \ {c} : AddsFiles(d) => Its(d) \cap todo = {}
    BY DEF ComposerInv, FilesFit
  <2>8. AddsFiles(c)' => kind \in {"add", "image"}
    BY <1>3, <1>5 DEF AddsFiles
  <2>9. ASSUME NEW d \in Editor, AddsFiles(d)'
        PROVE  /\ Its(d)' \cap window.listed = {}
               /\ draft.status # "gone" => calls'[d].done \subseteq attached
               /\ \A e \in Editor \ {d} :
                     calls'[e].kind = "remove" \/ AddsFiles(e)' => Its(d)' \cap Its(e)' = {}
    <3>1. CASE d = c
      BY <1>3, <1>5, <2>4, <2>5, <2>6, <2>8, <2>9, <3>1
    <3>2. CASE d # c
      <4>1. AddsFiles(d) /\ Its(d)' = Its(d) /\ calls'[d] = calls[d]
        BY <1>5, <2>4, <2>9, <3>2
      <4>2. /\ Its(d) \cap window.listed = {}
            /\ draft.status # "gone" => calls[d].done \subseteq attached
            /\ \A e \in Editor \ {d} :
                  calls[e].kind = "remove" \/ AddsFiles(e) => Its(d) \cap Its(e) = {}
        BY <4>1 DEF ComposerInv, FilesFit
      <4>3. calls'[c].kind = "remove" \/ AddsFiles(c)' => Its(d) \cap todo = {}
        BY <1>3, <1>5, <2>6, <2>7, <2>8, <3>2, <4>1
      <4>4. ASSUME NEW e \in Editor \ {d}, calls'[e].kind = "remove" \/ AddsFiles(e)'
            PROVE  Its(d)' \cap Its(e)' = {}
        <5>1. CASE e = c
          BY <2>5, <4>1, <4>3, <4>4, <5>1
        <5>2. CASE e # c
          BY <1>5, <2>4, <4>1, <4>2, <4>4, <5>2
        <5> QED
          BY <5>1, <5>2
      <4> QED
        BY <4>1, <4>2, <4>4
    <3> QED
      BY <3>1, <3>2
  <2> QED
    BY <1>1, <2>2, <2>3, <2>9 DEF FilesFit
<1> QED
  BY <1>7, <1>8, <1>9, <1>10, <1>11 DEF ComposerInv

LEMMA CallsBegin ==
  ASSUME ComposerInv, NEW c \in Editor,
         \/ W!addAttachmentPaths(c) \/ W!addInlineImage(c) \/ W!removeAttachment(c)
         \/ W!selectTemplate(c)
  PROVE  ComposerInv'
<1>1. window.open
  BY DEF W!addAttachmentPaths, W!addInlineImage, W!removeAttachment, W!selectTemplate,
     W!Free, W!editable
<1>2. W!New \subseteq File /\ window.listed \subseteq File
  BY DEF W!New, ComposerInv, ComposerShape, WindowRow
<1>3. ASSUME NEW kind, NEW at, NEW todo, W!Start(c, kind, at, todo)
      PROVE  UNCHANGED <<draft, attached, mail, delivery>>
  BY <1>3 DEF W!Start, W!backend
<1>4. CASE W!addAttachmentPaths(c)
  <2>1. PICK todo \in SUBSET W!New : W!Start(c, "add", "read", todo)
    BY <1>4 DEF W!addAttachmentPaths
  <2> QED
    BY <1>1, <1>2, <1>3, <2>1, StartingKeepsWindow
<1>5. CASE W!addInlineImage(c)
  <2>1. PICK f \in W!New : W!Start(c, "image", "read", {f})
    BY <1>5 DEF W!addInlineImage
  <2> QED
    BY <1>1, <1>2, <1>3, <2>1, StartingKeepsWindow
<1>6. CASE W!removeAttachment(c)
  <2>1. PICK f \in window.listed : W!Start(c, "remove", "delete", {f})
    BY <1>6 DEF W!removeAttachment
  <2>2. flow.why = "none"
    BY <1>6 DEF W!removeAttachment, W!Free
  <2> QED
    BY <1>1, <1>2, <1>3, <2>1, <2>2, StartingKeepsWindow
<1>7. CASE W!selectTemplate(c)
  <2>1. W!Start(c, "render", "answer", {})
    BY <1>7 DEF W!selectTemplate
  <2> QED
    BY <1>1, <1>3, <2>1, StartingKeepsWindow
<1> QED
  BY <1>4, <1>5, <1>6, <1>7

\* A command that has not been answered goes on, or fails: it keeps its window, and the
\* files it has in hand become no more.
LEMMA MovingKeepsWindow ==
  ASSUME ComposerInv, NEW c \in Editor, NEW call \in CallRow,
         calls' = [calls EXCEPT ![c] = call],
         UNCHANGED <<draft, mail, delivery, window, flow, reports, closed>>,
         attached \subseteq attached', attached' \in SUBSET File,
         attached' # attached => draft.status # "gone",
         calls[c].kind = "remove" => calls[c].at # "answer",
         \/ call = W!Idle
         \/ /\ call.kind = calls[c].kind /\ call.mine = calls[c].mine
            /\ call.kind \in {"add", "image"} /\ call.at \in {"check", "insert", "answer"}
            /\ call.todo \cup call.done \subseteq Its(c)
            /\ draft.status # "gone" /\ AddsFiles(c) => call.done \subseteq attached'
  PROVE  ComposerInv'
<1>1. /\ calls' \in [Editor -> CallRow] /\ calls'[c] = call
      /\ \A d \in Editor \ {c} : calls'[d] = calls[d]
  BY DEF ComposerInv, ComposerShape
<1>2. W!Idle.kind = "none" /\ ~W!Idle.mine
  BY DEF W!Idle
<1>3. /\ call.mine => calls[c].mine
      /\ call.kind # "remove"
      /\ \A d \in Editor : calls'[d].kind = "remove" =>
            calls[d].kind = "remove" /\ calls'[d] = calls[d]
  BY <1>1, <1>2
<1>4. ComposerShape' /\ FlowFits'
  BY <1>1 DEF ComposerInv, ComposerShape, FlowFits
<1>5. CallsFit'
  BY <1>1, <1>2 DEF ComposerInv, CallsFit
<1>6. WindowFits'
  BY <1>1, <1>3 DEF ComposerInv, WindowFits
<1>7. SendingFits' /\ RevisionsFit'
  BY DEF ComposerInv, SendingFits, RevisionsFit, Discarded
<1>8. ScreensFit'
  <2>1. ASSUME NEW shown, IsKept(shown) PROVE IsKept(shown)'
    BY <1>3, <2>1 DEF IsKept
  <2>2. IsKept(flow.seen.files) => IsKept(flow.seen.files)'
    BY <1>3 DEF IsKept
  <2>3. IsKept(closed.seen.files) => IsKept(closed.seen.files)'
    BY <1>3 DEF IsKept
  <2> QED
    BY <2>2, <2>3 DEF ComposerInv, ScreensFit, W!SentIsShown
<1>9. FilesFit'
  <2>1. \A d \in Editor : calls[d].kind = "remove" /\ calls[d].at = "answer" =>
          calls'[d] = calls[d]
    BY <1>1
  <2>2. W!ListedIsStored'
    BY <2>1 DEF ComposerInv, FilesFit, W!ListedIsStored, W!CallAt
  <2>3. \A d \in Editor : window.open /\ calls'[d].kind = "remove" /\ ~calls'[d].mine =>
          calls'[d].todo \subseteq window.leaving
    BY <1>3 DEF ComposerInv, FilesFit
  <2>4. \A d \in Editor : AddsFiles(d)' => AddsFiles(d) /\ Its(d)' \subseteq Its(d)
    BY <1>1, <1>2 DEF AddsFiles, Its
  <2>5. \A d \in Editor : AddsFiles(d)' /\ draft.status # "gone" => calls'[d].done \subseteq attached'
    BY <1>1, <1>2, <2>4 DEF ComposerInv, FilesFit, AddsFiles
  <2>6. ASSUME NEW d \in Editor, AddsFiles(d)',
               NEW e \in Editor \ {d}, calls'[e].kind = "remove" \/ AddsFiles(e)'
        PROVE  Its(d)' \cap Its(e)' = {}
    <3>1. AddsFiles(d) /\ Its(d)' \subseteq Its(d)
      BY <2>4, <2>6
    <3>2. (calls[e].kind = "remove" \/ AddsFiles(e)) /\ Its(e)' \subseteq Its(e)
      BY <1>3, <2>4, <2>6 DEF Its
    <3>3. Its(d) \cap Its(e) = {}
      BY <3>1, <3>2 DEF ComposerInv, FilesFit
    <3> QED
      BY <3>1, <3>2, <3>3
  <2>7. \A d \in Editor : AddsFiles(d)' => Its(d)' \cap window.listed = {}
    BY <2>4 DEF ComposerInv, FilesFit
  <2> QED
    BY <2>2, <2>3, <2>5, <2>6, <2>7 DEF FilesFit
<1> QED
  BY <1>4, <1>5, <1>6, <1>7, <1>8, <1>9 DEF ComposerInv

LEMMA IdleIs == W!Idle \in CallRow
BY DEF W!Idle, CallRow

\* A call that moves on.
LEMMA ProceedIs ==
  ASSUME ComposerInv, NEW c \in Editor,
         NEW place \in {"check", "insert", "answer"}, W!Proceed(c, place)
  PROVE  \E call \in CallRow :
           /\ calls' = [calls EXCEPT ![c] = call]
           /\ call.kind = calls[c].kind /\ call.mine = calls[c].mine /\ call.at = place
           /\ call.todo = calls[c].todo /\ call.done = calls[c].done
<1>1. PICK call : call = [calls[c] EXCEPT !.at = place]
  OBVIOUS
<1>2. calls[c] \in CallRow
  BY DEF ComposerInv, ComposerShape
<1>3. /\ call \in CallRow /\ call.kind = calls[c].kind /\ call.mine = calls[c].mine
      /\ call.at = place /\ call.todo = calls[c].todo /\ call.done = calls[c].done
  BY <1>1, <1>2 DEF CallRow
<1>4. calls' = [calls EXCEPT ![c] = call]
  BY <1>1, <1>2 DEF W!Proceed, ComposerInv, ComposerShape
<1> QED
  BY <1>3, <1>4

LEMMA CheckingKeepsWindow ==
  ASSUME ComposerInv, NEW c \in Editor,
         \/ W!add_attachments(c) \/ W!add_inline_image(c) \/ W!CheckEditable(c)
  PROVE  ComposerInv'
<1>1. /\ UNCHANGED <<draft, mail, delivery, window, flow, reports, closed>>
      /\ attached' = attached /\ attached' \in SUBSET File
  BY DEF W!add_attachments, W!add_inline_image, W!Begins, W!CheckEditable, W!beside,
     ComposerInv, ComposerShape
<1>2. calls[c].at \in {"read", "check"}
  BY DEF W!add_attachments, W!add_inline_image, W!Begins, W!CheckEditable, W!CallAt
<1>3. calls[c].kind \in {"add", "image"}
  BY <1>2 DEF ComposerInv, CallsFit, ComposerShape, CallRow, W!Idle
<1>4. CASE W!Fail(c)
  <2>1. calls' = [calls EXCEPT ![c] = W!Idle]
    BY <1>4 DEF W!Fail
  <2> QED
    BY <1>1, <1>3, <2>1, IdleIs, MovingKeepsWindow
<1>5. CASE \E place \in {"check", "insert"} : W!Proceed(c, place)
  <2>1. PICK call \in CallRow :
          /\ calls' = [calls EXCEPT ![c] = call]
          /\ call.kind = calls[c].kind /\ call.mine = calls[c].mine
          /\ call.at \in {"check", "insert"}
          /\ call.todo = calls[c].todo /\ call.done = calls[c].done
    BY <1>5, ProceedIs
  <2>2. call.todo \cup call.done \subseteq Its(c)
    BY <2>1 DEF Its
  <2>3. draft.status # "gone" /\ AddsFiles(c) => call.done \subseteq attached'
    BY <1>1, <2>1 DEF ComposerInv, FilesFit
  <2> QED
    BY <1>1, <1>3, <2>1, <2>2, <2>3, MovingKeepsWindow
<1> QED
  BY <1>4, <1>5 DEF W!add_attachments, W!add_inline_image, W!Begins, W!CheckEditable

LEMMA InsertingKeepsWindow ==
  ASSUME ComposerInv, NEW c \in Editor,
         W!add_draft_attachment(c) \/ W!add_draft_inline_image(c)
  PROVE  ComposerInv'
<1>1. /\ UNCHANGED <<draft, mail, delivery, window, flow, reports, closed>>
      /\ calls[c].kind \in {"add", "image"}
  BY Zenon DEF W!add_draft_attachment, W!add_draft_inline_image, W!Insert, W!beside
<1>2. attached \in SUBSET File /\ calls[c] \in CallRow
  BY DEF ComposerInv, ComposerShape
<1>3. CASE draft.status = "gone"
  <2>1. calls' = [calls EXCEPT ![c] = W!Idle] /\ attached' = attached
    BY <1>3 DEF W!add_draft_attachment, W!add_draft_inline_image, W!Insert, W!Fail
  <2> QED
    BY <1>1, <1>2, <2>1, IdleIs, MovingKeepsWindow
<1>4. CASE draft.status # "gone"
  <2>1. PICK f \in calls[c].todo :
          /\ attached' = attached \cup {f}
          /\ calls' = [calls EXCEPT
                         ![c].todo = @ \ {f}, ![c].done = @ \cup {f},
                         ![c].at = IF calls[c].todo = {f} THEN "answer" ELSE "check"]
    BY <1>4, Zenon DEF W!add_draft_attachment, W!add_draft_inline_image, W!Insert
  <2>2. f \in File
    BY <1>2, <2>1 DEF CallRow
  <2>3. PICK place \in {"answer", "check"} :
          place = IF calls[c].todo = {f} THEN "answer" ELSE "check"
    OBVIOUS
  <2>4. PICK one : one = [calls[c] EXCEPT !.todo = @ \ {f}]
    OBVIOUS
  <2>5. /\ one \in CallRow /\ one.kind = calls[c].kind /\ one.mine = calls[c].mine
        /\ one.todo = calls[c].todo \ {f} /\ one.done = calls[c].done
    BY <1>2, <2>4 DEF CallRow
  <2>6. PICK two : two = [one EXCEPT !.done = @ \cup {f}]
    OBVIOUS
  <2>7. /\ two \in CallRow /\ two.kind = calls[c].kind /\ two.mine = calls[c].mine
        /\ two.todo = calls[c].todo \ {f} /\ two.done = calls[c].done \cup {f}
    BY <2>2, <2>5, <2>6 DEF CallRow
  <2>8. PICK call : call = [two EXCEPT !.at = place]
    OBVIOUS
  <2>9. /\ call \in CallRow /\ call.kind = calls[c].kind /\ call.mine = calls[c].mine
        /\ call.todo = calls[c].todo \ {f} /\ call.done = calls[c].done \cup {f}
        /\ call.at = place
    BY <2>7, <2>8 DEF CallRow
  <2>10. calls' = [calls EXCEPT ![c] = call]
    <3>1. calls \in [Editor -> CallRow]
      BY DEF ComposerInv, ComposerShape
    <3>2. PICK first : first = [calls EXCEPT ![c] = one]
      OBVIOUS
    <3>3. first = [calls EXCEPT ![c].todo = @ \ {f}] /\ first[c] = one
      BY <2>4, <3>1, <3>2
    <3>4. PICK second : second = [first EXCEPT ![c] = two]
      OBVIOUS
    <3>5. second = [first EXCEPT ![c].done = @ \cup {f}] /\ second[c] = two
      BY <2>6, <3>1, <3>2, <3>3, <3>4
    <3>6. calls' = [second EXCEPT ![c].at = place]
      BY <2>1, <2>3, <3>3, <3>5
    <3>7. calls' = [second EXCEPT ![c] = call]
      BY <2>8, <3>5, <3>6
    <3> QED
      BY <3>1, <3>2, <3>4, <3>7
  <2>11. /\ call.todo \cup call.done \subseteq Its(c)
         /\ AddsFiles(c) => call.done \subseteq attached'
    BY <1>4, <2>1, <2>9 DEF ComposerInv, FilesFit, Its
  <2>12. attached \subseteq attached' /\ attached' \in SUBSET File
    BY <1>2, <2>1, <2>2
  <2>13. attached' # attached => draft.status # "gone"
    BY <1>4
  <2>14. calls[c].kind = "remove" => calls[c].at # "answer"
    BY <1>1
  <2>15. /\ call.kind = calls[c].kind /\ call.mine = calls[c].mine
         /\ call.kind \in {"add", "image"} /\ call.at \in {"check", "insert", "answer"}
         /\ call.todo \cup call.done \subseteq Its(c)
         /\ draft.status # "gone" /\ AddsFiles(c) => call.done \subseteq attached'
    BY <1>1, <2>3, <2>9, <2>11
  <2>16. call \in CallRow
    BY <2>9
  <2> QED
    BY <1>1, <2>10, <2>12, <2>13, <2>14, <2>15, <2>16, MovingKeepsWindow
<1> QED
  BY <1>3, <1>4

\* A removal takes a file that no window has shown as kept and that nobody is adding.
LEMMA RemovingKeepsWindow ==
  ASSUME ComposerInv, NEW c \in Editor, W!remove_draft_attachment(c)
  PROVE  ComposerInv'
<1>1. /\ UNCHANGED <<draft, mail, delivery, window, flow, reports, closed>>
      /\ calls[c].at = "delete"
  BY DEF W!remove_draft_attachment, W!beside, W!CallAt
<1>2. calls[c].kind = "remove"
  BY <1>1 DEF ComposerInv, CallsFit, ComposerShape, CallRow, W!Idle
<1>3. CASE W!Fail(c) /\ UNCHANGED attached
  <2>1. calls' = [calls EXCEPT ![c] = W!Idle] /\ attached \in SUBSET File
    BY <1>3 DEF W!Fail, ComposerInv, ComposerShape
  <2> QED
    BY <1>1, <1>3, <2>1, IdleIs, MovingKeepsWindow
<1>4. CASE attached' = attached \ calls[c].todo /\ W!Proceed(c, "answer")
  <2>1. PICK call \in CallRow :
          /\ calls' = [calls EXCEPT ![c] = call]
          /\ call.kind = calls[c].kind /\ call.mine = calls[c].mine /\ call.at = "answer"
          /\ call.todo = calls[c].todo /\ call.done = calls[c].done
    BY <1>4, ProceedIs
  <2>2. /\ calls' \in [Editor -> CallRow] /\ calls'[c] = call
        /\ \A d \in Editor \ {c} : calls'[d] = calls[d]
    BY <2>1 DEF ComposerInv, ComposerShape
  <2>3. \A d \in Editor :
          /\ calls'[d].kind = calls[d].kind /\ calls'[d].mine = calls[d].mine
          /\ calls'[d].todo = calls[d].todo /\ calls'[d].done = calls[d].done
    BY <2>1, <2>2
  <2>4. ComposerShape' /\ FlowFits'
    BY <1>1, <1>4, <2>2 DEF ComposerInv, ComposerShape, FlowFits
  <2>5. CallsFit'
    BY <1>2, <2>1, <2>2 DEF ComposerInv, CallsFit
  <2>6. WindowFits' /\ SendingFits' /\ RevisionsFit'
    BY <1>1, <1>4, <2>3 DEF ComposerInv, WindowFits, SendingFits, RevisionsFit, Discarded
  <2>7. ScreensFit'
    <3>1. IsKept(flow.seen.files) => IsKept(flow.seen.files)'
      BY <1>1, <1>2, <1>4, <2>3 DEF IsKept
    <3>2. IsKept(closed.seen.files) => IsKept(closed.seen.files)'
      BY <1>1, <1>2, <1>4, <2>3 DEF IsKept
    <3> QED
      BY <1>1, <3>1, <3>2 DEF ComposerInv, ScreensFit, W!SentIsShown
  <2>8. W!ListedIsStored'
    <3>1. \A d \in Editor : calls[d].kind = "remove" /\ calls[d].at = "answer" =>
            calls'[d] = calls[d]
      BY <1>1, <2>2
    <3>2. calls'[c].kind = "remove" /\ calls'[c].at = "answer" /\ calls'[c].todo = calls[c].todo
      BY <1>2, <2>1, <2>2
    <3> QED
      BY <1>1, <1>4, <3>1, <3>2 DEF ComposerInv, FilesFit, W!ListedIsStored, W!CallAt
  <2>9. \A d \in Editor : (AddsFiles(d)' <=> AddsFiles(d)) /\ Its(d)' = Its(d)
    BY <2>3 DEF AddsFiles, Its
  <2>10. \A d \in Editor : AddsFiles(d) => Its(d) \cap Its(c) = {}
    BY <1>2 DEF ComposerInv, FilesFit, AddsFiles
  <2>11. \A d \in Editor : AddsFiles(d)' /\ draft.status # "gone" =>
           calls'[d].done \subseteq attached'
    BY <1>4, <2>3, <2>9, <2>10 DEF ComposerInv, FilesFit, Its
  <2>12. FilesFit'
    BY <1>1, <2>3, <2>8, <2>9, <2>11 DEF ComposerInv, FilesFit
  <2> QED
    BY <2>4, <2>5, <2>6, <2>7, <2>12 DEF ComposerInv
<1> QED
  BY <1>3, <1>4 DEF W!remove_draft_attachment

\* An answer: what the window lists is what is stored, and the command is over.
LEMMA AnsweringKeepsWindow ==
  ASSUME ComposerInv, NEW c \in Editor, W!Answer(c)
  PROVE  ComposerInv'
<1>1. /\ UNCHANGED <<draft, attached, mail, delivery, flow, reports, closed>>
      /\ calls[c].at = "answer" /\ calls' = [calls EXCEPT ![c] = W!Idle]
  BY DEF W!Answer, W!beside, W!CallAt, W!Fail
<1>2. W!Idle.kind = "none" /\ ~W!Idle.mine
  BY DEF W!Idle
<1>3. /\ calls' \in [Editor -> CallRow] /\ calls'[c] = W!Idle
      /\ \A d \in Editor \ {c} : calls'[d] = calls[d]
  BY <1>1, IdleIs DEF ComposerInv, ComposerShape
<1>4. /\ calls[c] \in CallRow /\ window \in WindowRow
      /\ calls[c].todo \in SUBSET File /\ calls[c].done \in SUBSET File
  BY DEF ComposerInv, ComposerShape, CallRow
<1>5. calls[c].kind \in {"add", "image", "remove", "render"}
  BY <1>1 DEF ComposerInv, CallsFit, ComposerShape, CallRow, W!Idle
<1>6. W!Listed(c) \in SUBSET File
  BY <1>4 DEF W!Listed, WindowRow
<1>7. /\ window' \in WindowRow
      /\ window'.open = window.open /\ window'.revision = window.revision
      /\ window'.sending = window.sending /\ window'.lost = window.lost
      /\ window'.leaving = window.leaving
      /\ \/ window' = window /\ (~calls[c].mine \/ calls[c].kind = "render")
         \/ window'.listed = W!Listed(c) /\ calls[c].mine
  <2>1. CASE UNCHANGED window /\ (~calls[c].mine \/ calls[c].kind = "render")
    BY <1>4, <2>1
  <2>2. CASE calls[c].mine /\ window' = [window EXCEPT !.listed = W!Listed(c)]
    <3>1. PICK next : next = W!Listed(c)
      OBVIOUS
    <3> QED
      BY <1>4, <1>6, <2>2, <3>1 DEF WindowRow
  <2>3. CASE /\ calls[c].mine
             /\ \E valid \in {window.valid, calls[c].kind = "render" \/ window.valid} :
                  window' = [window EXCEPT !.listed = W!Listed(c), !.content = @ + 1,
                                           !.valid = valid]
    <3>1. PICK next : next = W!Listed(c)
      OBVIOUS
    <3>2. PICK valid \in {window.valid, calls[c].kind = "render" \/ window.valid} :
            window' = [window EXCEPT !.listed = W!Listed(c), !.content = @ + 1,
                                     !.valid = valid]
      BY <2>3
    <3>3. window.valid \in BOOLEAN
      BY <1>4 DEF WindowRow
    <3>4. (calls[c].kind = "render" \/ window.valid) \in BOOLEAN
      OBVIOUS
    <3>5. valid \in BOOLEAN
      BY <3>2, <3>3, <3>4
    <3>6. PICK one : one = [window EXCEPT !.listed = next]
      OBVIOUS
    <3>7. /\ one \in WindowRow /\ one.listed = next /\ one.open = window.open
          /\ one.revision = window.revision /\ one.sending = window.sending
          /\ one.lost = window.lost /\ one.leaving = window.leaving
      BY <1>4, <1>6, <3>1, <3>6 DEF WindowRow
    <3>8. PICK two : two = [one EXCEPT !.content = @ + 1]
      OBVIOUS
    <3>9. /\ two \in WindowRow /\ two.listed = next /\ two.open = window.open
          /\ two.revision = window.revision /\ two.sending = window.sending
          /\ two.lost = window.lost /\ two.leaving = window.leaving
      BY <3>7, <3>8 DEF WindowRow
    <3>10. window' = [two EXCEPT !.valid = valid]
      BY <3>1, <3>2, <3>6, <3>8
    <3> QED
      BY <2>3, <3>1, <3>5, <3>9, <3>10 DEF WindowRow
  <2>4. \/ ~calls[c].mine /\ UNCHANGED window
        \/ calls[c].mine /\ window' = [window EXCEPT !.listed = W!Listed(c)]
        \/ /\ calls[c].mine
           /\ \E valid \in {window.valid, calls[c].kind = "render" \/ window.valid} :
                window' = [window EXCEPT !.listed = W!Listed(c), !.content = @ + 1,
                                         !.valid = valid]
        \/ calls[c].kind = "render" /\ UNCHANGED window
    BY DEF W!Answer
  <2> QED
    BY <2>1, <2>2, <2>3, <2>4
<1>8. calls[c].mine => window.open
  BY DEF ComposerInv, WindowFits
<1>9. \A d \in Editor : calls'[d].kind # "none" => d # c /\ calls'[d] = calls[d]
  BY <1>2, <1>3
<1>10. ComposerShape' /\ FlowFits' /\ CallsFit'
  BY <1>1, <1>2, <1>3, <1>7 DEF ComposerInv, ComposerShape, FlowFits, CallsFit
<1>11. WindowFits'
  BY <1>1, <1>2, <1>3, <1>7, <1>8 DEF ComposerInv, WindowFits
<1>12. SendingFits' /\ RevisionsFit'
  BY <1>1, <1>7 DEF ComposerInv, SendingFits, RevisionsFit, Discarded
<1>13. ScreensFit'
  <2>1. IsKept(flow.seen.files) => IsKept(flow.seen.files)'
    BY <1>1, <1>9 DEF IsKept
  <2>2. IsKept(closed.seen.files) => IsKept(closed.seen.files)'
    BY <1>1, <1>9 DEF IsKept
  <2> QED
    BY <1>1, <2>1, <2>2 DEF ComposerInv, ScreensFit, W!SentIsShown
<1>14. window'.listed \subseteq window.listed \cup calls[c].done
       /\ (AddsFiles(c) \/ window'.listed \subseteq window.listed)
  <2>1. calls[c].kind = "render" => calls[c].done = {}
    BY DEF ComposerInv, CallsFit
  <2> QED
    BY <1>5, <1>7, <2>1 DEF W!Listed, AddsFiles
<1>15. W!ListedIsStored'
  <2>1. SUFFICES ASSUME window.open, draft.status # "gone", NEW f \in window'.listed,
                        f \notin attached, f \notin window.leaving
                 PROVE  \E d \in Editor : /\ calls'[d].kind = "remove"
                                          /\ calls'[d].at = "answer" /\ f \in calls'[d].todo
    BY <1>1, <1>7 DEF W!ListedIsStored, W!CallAt
  <2>2. f \in window.listed
    BY <1>14, <2>1 DEF ComposerInv, FilesFit
  <2>3. PICK d \in Editor : /\ calls[d].kind = "remove" /\ calls[d].at = "answer"
                            /\ f \in calls[d].todo
    BY <2>1, <2>2 DEF ComposerInv, FilesFit, W!ListedIsStored, W!CallAt
  <2>4. CASE d = c
    <3>1. calls[c].mine
      BY <2>1, <2>3, <2>4 DEF ComposerInv, FilesFit
    <3>2. window'.listed = window.listed \ calls[c].todo
      BY <1>7, <2>3, <2>4, <3>1 DEF W!Listed
    <3> QED
      BY <2>1, <2>3, <2>4, <3>2
  <2> QED
    BY <1>3, <2>3, <2>4
<1>16. \A d \in Editor : AddsFiles(d)' => d # c /\ AddsFiles(d) /\ Its(d)' = Its(d)
  BY <1>9 DEF AddsFiles, Its
<1>17. \A d \in Editor : AddsFiles(d)' => Its(d)' \cap window'.listed = {}
  BY <1>14, <1>16 DEF ComposerInv, FilesFit, Its
<1>18. \A d \in Editor : AddsFiles(d)' /\ draft.status # "gone" => calls'[d].done \subseteq attached
  BY <1>9, <1>16 DEF ComposerInv, FilesFit, AddsFiles
<1>19. ASSUME NEW d \in Editor, AddsFiles(d)',
              NEW e \in Editor \ {d}, calls'[e].kind = "remove" \/ AddsFiles(e)'
       PROVE  Its(d)' \cap Its(e)' = {}
  <2>1. AddsFiles(d) /\ Its(d)' = Its(d)
    BY <1>16, <1>19
  <2>2. calls'[e].kind # "none"
    BY <1>19 DEF AddsFiles
  <2>3. (calls[e].kind = "remove" \/ AddsFiles(e)) /\ Its(e)' = Its(e)
    BY <1>9, <1>16, <1>19, <2>2 DEF Its
  <2> QED
    BY <2>1, <2>3 DEF ComposerInv, FilesFit
<1>20. FilesFit'
  <2>1. \A d \in Editor : window'.open /\ calls'[d].kind = "remove" /\ ~calls'[d].mine =>
          calls'[d].todo \subseteq window'.leaving
    BY <1>7, <1>9 DEF ComposerInv, FilesFit
  <2> QED
    BY <1>1, <1>15, <1>17, <1>18, <1>19, <2>1 DEF FilesFit
<1> QED
  BY <1>10, <1>11, <1>12, <1>13, <1>20 DEF ComposerInv

LEMMA ComposerGoesOn == ComposerInv /\ (W!Next \/ UNCHANGED varsComposer) => ComposerInv'
<1> SUFFICES ASSUME ComposerInv, W!Next PROVE ComposerInv'
  BY OthersKeepWindow
<1>1. CASE W!get_bootstrap
  BY <1>1, LoadingKeepsWindow
<1>2. CASE W!markDirty \/ W!cancelClose
  BY <1>2, TypingKeepsWindow
<1>3. CASE W!saveAndClose \/ W!discardAndClose \/ W!sendMessage
  BY <1>3, ChoosingKeepsWindow
<1>4. CASE W!save_draft
  BY <1>4, SavingKeepsWindow
<1>5. CASE W!saveNow
  BY <1>5, SaveNowKeepsWindow
<1>6. CASE W!queue_remote_draft \/ W!queue_send
  BY <1>6, QueueingKeepsWindow
<1>7. CASE W!discard_draft_session
  BY <1>7, DiscardingKeepsWindow
<1>8. CASE W!destroy \/ W!closeWhenSent \/ W!onCloseRequested
  BY <1>8, ClosingKeepsWindow
<1>9. CASE W!Failed
  BY <1>9, FailingKeepsWindow
<1>10. CASE W!queue_send_job
  BY <1>10, SendingKeepsWindow
<1>11. CASE W!setSendJob
  BY <1>11, FollowingKeepsWindow
<1>12. CASE W!deliver \/ W!retry_send
  BY <1>12, DeliveringKeepsWindow
<1>13. CASE W!get_send_job \/ W!TakeReport
  BY <1>13, HearingKeepsWindow
<1>14. ASSUME NEW c \in Editor,
              \/ W!addAttachmentPaths(c) \/ W!addInlineImage(c) \/ W!removeAttachment(c)
              \/ W!selectTemplate(c)
       PROVE  ComposerInv'
  BY <1>14, CallsBegin
<1>15. ASSUME NEW c \in Editor,
              \/ W!add_attachments(c) \/ W!add_inline_image(c) \/ W!CheckEditable(c)
       PROVE  ComposerInv'
  BY <1>15, CheckingKeepsWindow
<1>16. ASSUME NEW c \in Editor, W!add_draft_attachment(c) \/ W!add_draft_inline_image(c)
       PROVE  ComposerInv'
  BY <1>16, InsertingKeepsWindow
<1>17. ASSUME NEW c \in Editor, W!remove_draft_attachment(c) PROVE ComposerInv'
  BY <1>17, RemovingKeepsWindow
<1>18. ASSUME NEW c \in Editor, W!Answer(c) PROVE ComposerInv'
  BY <1>18, AnsweringKeepsWindow
<1>19. CASE W!EndProcess
  BY <1>19, EndingKeepsWindow
<1> QED
  BY <1>1, <1>2, <1>3, <1>4, <1>5, <1>6, <1>7, <1>8, <1>9, <1>10, <1>11, <1>12, <1>13,
     <1>14, <1>15, <1>16, <1>17, <1>18, <1>19 DEF W!Next

LEMMA ComposerPromises ==
  ASSUME ComposerInv
  PROVE  W!ClosesAsAsked /\ W!SentIsShown /\ W!ListedIsStored /\ W!EditableCanBeSaved
<1>1. W!ClosesAsAsked
  BY DEF ComposerInv, ScreensFit, IsKept, RevisionsFit, SendingFits, W!ClosesAsAsked
<1>2. W!SentIsShown /\ W!ListedIsStored
  BY DEF ComposerInv, ScreensFit, FilesFit
<1>3. W!EditableCanBeSaved
  <2>1. SUFFICES ASSUME window.open, window.sending = "none", flow.why = "none", ~window.lost
                 PROVE  draft.status = "editing" /\ draft.revision = window.revision
    BY DEF W!EditableCanBeSaved, W!editable
  <2>2. flow.at = "none" /\ ~Discarded
    BY <2>1 DEF ComposerInv, FlowFits, Discarded
  <2> QED
    BY <2>1, <2>2 DEF ComposerInv, RevisionsFit
<1> QED
  BY <1>1, <1>2, <1>3

\* The invariant of the Composer window.
ComposerKept == subject = "composer" => ComposerInv

LEMMA ComposerHold == Spec => []ComposerKept
<1>1. Init => ComposerKept
  BY ComposerBegins DEF Init, ComposerKept
<1>2. ComposerKept /\ [Next]_vars => ComposerKept'
  <2> SUFFICES ASSUME ComposerKept, [Next]_vars, subject' = "composer" PROVE ComposerInv'
    BY DEF ComposerKept
  <2>1. CASE UNCHANGED vars
    BY <2>1, ComposerGoesOn DEF vars, ComposerKept
  <2>2. CASE Next
    <3>1. subject = "composer" /\ W!Next
      BY <2>2 DEF Next, AccountsStep, ContactsStep, DraftsStep, DefinitionsStep,
         NotificationsStep, MessageListStep, MailboxesStep, AttachmentsStep, ComposerStep
    <3> QED
      BY <3>1, ComposerGoesOn DEF ComposerKept
  <2> QED
    BY <2>1, <2>2
<1> QED
  BY <1>1, <1>2, PTL DEF Spec

\* Whatever is imported, saved, appended and given up at the same time: a draft that was
\* written stays until it is dropped, its version on the server is replaced without a gap
\* and by nothing but the version that was read, and what was sent is archived once; and
\* whatever a Composer window does beside its save or its Send, it stores and sends what
\* it showed, lists what is stored, and can be saved as long as it can be edited
\* (draft_repository.rs, composer_runtime.rs, operations.rs, imap/session.rs,
\* ComposerApp.tsx).
THEOREM DraftsStayAsWritten == Spec => DraftsAreKept
<1>1. DraftsKept => (subject = "drafts" => D!WrittenDraftsSurvive /\ D!ArchivedOnce)
  BY DraftsPromise DEF DraftsKept
<1>2. ComposerKept => (subject = "composer" =>
          W!ClosesAsAsked /\ W!SentIsShown /\ W!ListedIsStored /\ W!EditableCanBeSaved)
  BY ComposerPromises DEF ComposerKept
<1>3. DraftsKept /\ [Next]_vars => [subject = "drafts" => D!Replaces]_vars
  BY DraftsReplace
<1> QED
  BY <1>1, <1>2, <1>3, DraftsHold, ComposerHold, PTL DEF DraftsAreKept, Spec

=============================================================================
