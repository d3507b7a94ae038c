------------------------- MODULE Desktop_references -------------------------
(***************************************************************************)
(* What is referred to is there: accounts with their slots and passwords,  *)
(* the data directory, and attachments with their contents, for every      *)
(* value of the constants, whatever step failed or was the last one.       *)
(*                                                                         *)
(* Then the settings with the definitions that they refer to, and drafts   *)
(* with their versions on the server: Desktop_proofs uses their invariants *)
(* for the theorems on what dialogs and windows replace.                   *)
(***************************************************************************)
EXTENDS MCDesktop, FiniteSetTheorems, SequenceTheorems, TLAPS

-----------------------------------------------------------------------------
(* Accounts: the lists of a file *)

FileType == [revision : Nat, accounts : Seq(A!AccountRecord), selected : 0 .. MaxAccounts,
             cleanup : SUBSET A!Reference]

\* Accounts have ids and passwords of their own, given so far, and none that is to be
\* deleted.
Distinct(s) ==
    \A i, j \in 1 .. Len(s) :
        s[i].id = s[j].id \/ s[i].credential_ref = s[j].credential_ref => i = j
Sound(f, m) ==
    /\ f \in FileType
    /\ Distinct(f.accounts)
    /\ \A i \in 1 .. Len(f.accounts) :
         /\ f.accounts[i].id <= m.accounts
         /\ f.accounts[i].credential_ref <= m.references
         /\ f.accounts[i].credential_ref \notin f.cleanup
    /\ \A r \in f.cleanup : r <= m.references
Usable(f, keys, rows_of) ==
    \A i \in 1 .. Len(f.accounts) :
        f.accounts[i].credential_ref \in keys /\ f.accounts[i].id \in rows_of

Made == made \in [accounts : 0 .. MaxAccounts, references : 0 .. MaxReferences]

\* What a file lists, by position.
LEMMA RecordsAreListed ==
  ASSUME NEW f, f.accounts \in Seq(A!AccountRecord)
  PROVE  /\ A!Records(f) = {f.accounts[i] : i \in 1 .. Len(f.accounts)}
         /\ A!Used(f) = {f.accounts[i].credential_ref : i \in 1 .. Len(f.accounts)}
         /\ A!Ids(f) = {f.accounts[i].id : i \in 1 .. Len(f.accounts)}
         /\ \A i \in 1 .. Len(f.accounts) : f.accounts[i] \in A!AccountRecord
<1>1. A!Records(f) = {f.accounts[i] : i \in 1 .. Len(f.accounts)}
  BY DEF A!Records, A!ToSet
<1> QED
  BY <1>1 DEF A!Used, A!Ids

\* What becomes of a file f.
Adds(f, g, record) ==
    g = [f EXCEPT !.accounts = Append(@, record), !.revision = @ + 1,
                  !.selected = IF @ = 0 THEN record.id ELSE @]
Rotates(f, g, i, new, old) ==
    g = [f EXCEPT !.accounts[i].credential_ref = new, !.revision = @ + 1,
                  !.cleanup = @ \cup {old}]
RotatesAt(f, i, new, old) ==
    /\ i \in 1 .. Len(f.accounts) /\ old = f.accounts[i].credential_ref
    /\ new \in A!Reference /\ new = made.references + 1
Removes(f, g, i) ==
    /\ i \in 1 .. Len(f.accounts)
    /\ g \in [revision : Nat, accounts : {A!RemoveAt(f.accounts, i)}, selected : 0 .. MaxAccounts,
              cleanup : {f.cleanup \cup {f.accounts[i].credential_ref}}]

\* What they leave of the accounts of f.
AddsOnly(f, g, record) ==
    /\ g.cleanup = f.cleanup
    /\ Len(g.accounts) = Len(f.accounts) + 1 /\ g.accounts[Len(g.accounts)] = record
    /\ \A i \in 1 .. Len(f.accounts) : g.accounts[i] = f.accounts[i]
RotatesOnly(f, g, i, new, old) ==
    /\ g.cleanup = f.cleanup \cup {old}
    /\ Len(g.accounts) = Len(f.accounts) /\ g.accounts[i].credential_ref = new
    /\ g.accounts[i].id = f.accounts[i].id
    /\ \A j \in 1 .. Len(f.accounts) : j # i => g.accounts[j] = f.accounts[j]
RemovesOnly(f, g, i) ==
    /\ \A j \in 1 .. Len(g.accounts) : \E k \in 1 .. Len(f.accounts) :
         k # i /\ g.accounts[j] = f.accounts[k]
    /\ \A k \in 1 .. Len(f.accounts) :
         k # i => \E j \in 1 .. Len(g.accounts) : g.accounts[j] = f.accounts[k]

AccountIsMade ==
    /\ made.accounts < MaxAccounts /\ made.references < MaxReferences
    /\ made' = [accounts |-> made.accounts + 1, references |-> made.references + 1]
ReferenceIsMade ==
    /\ made.references < MaxReferences
    /\ made' = [made EXCEPT !.references = made.references + 1]

\* The file of an addition.
LEMMA AddingIsSound ==
  ASSUME NEW f, Made, Sound(f, made), AccountIsMade,
         NEW record, record \in A!AccountRecord, record.id = made.accounts + 1,
         record.credential_ref = made.references + 1,
         NEW g, Adds(f, g, record)
  PROVE  Sound(g, made') /\ Sound(f, made') /\ AddsOnly(f, g, record)
<1>1. /\ f \in FileType /\ f.accounts \in Seq(A!AccountRecord) /\ Len(f.accounts) \in Nat
      /\ \A j \in 1 .. Len(f.accounts) : f.accounts[j] \in A!AccountRecord
  BY DEF Sound, FileType
<1>2. record \in A!AccountRecord /\ record.id = made.accounts + 1
      /\ record.credential_ref = made.references + 1
  OBVIOUS
<1>3. Append(f.accounts, record) \in Seq(A!AccountRecord)
  BY <1>1, <1>2
<1>4. g.accounts = Append(f.accounts, record) /\ g.cleanup = f.cleanup
  BY <1>1 DEF FileType, Adds
<1>5. g \in FileType
  <2>1. /\ g = [revision |-> g.revision, accounts |-> g.accounts, selected |-> g.selected,
                cleanup |-> g.cleanup]
        /\ g.revision = f.revision + 1
        /\ g.selected = IF f.selected = 0 THEN record.id ELSE f.selected
    BY <1>1 DEF FileType, Adds
  <2>2. record.id \in 0 .. MaxAccounts
    BY <1>2, AccountsAssumption DEF Made, AccountIsMade
  <2>3. g.selected \in 0 .. MaxAccounts /\ g.revision \in Nat
    BY <2>1, <2>2, <1>1 DEF FileType
  <2>4. g.accounts \in Seq(A!AccountRecord) /\ g.cleanup \in SUBSET A!Reference
    BY <1>1, <1>3, <1>4 DEF FileType
  <2> HIDE DEF FileType
  <2> QED
    BY <2>1, <2>3, <2>4 DEF FileType
<1>6. /\ Len(g.accounts) = Len(f.accounts) + 1 /\ g.accounts[Len(g.accounts)] = record
      /\ \A i \in 1 .. Len(f.accounts) : g.accounts[i] = f.accounts[i]
  BY <1>1, <1>2, <1>4
<1>7. /\ made.accounts \in Nat /\ made.references \in Nat
      /\ made'.accounts = made.accounts + 1 /\ made'.references = made.references + 1
  BY AccountsAssumption DEF Made, AccountIsMade
<1>8. \A i \in 1 .. Len(f.accounts) :
        /\ f.accounts[i].id \in Nat /\ f.accounts[i].id <= made.accounts
        /\ f.accounts[i].credential_ref \in Nat /\ f.accounts[i].credential_ref <= made.references
        /\ f.accounts[i].credential_ref \notin f.cleanup
  <2>1. \A a \in A!AccountRecord : a.id \in Nat /\ a.credential_ref \in Nat
    BY AccountsAssumption DEF A!AccountRecord, A!Account, A!Reference
  <2> QED
    BY <2>1, <1>1 DEF Sound
<1>9. \A r \in f.cleanup : r \in Nat /\ r <= made.references
  BY <1>1, AccountsAssumption DEF Sound, FileType, A!Reference
<1>10. \A i \in 1 .. Len(g.accounts) : i \in 1 .. Len(f.accounts) \/ i = Len(g.accounts)
  BY <1>1, <1>6
<1>11. Sound(f, made')
  BY <1>1, <1>7, <1>8, <1>9 DEF Sound
<1>12. Distinct(g.accounts)
  <2>2. ASSUME NEW i \in 1 .. Len(f.accounts)
        PROVE  /\ g.accounts[i].id # record.id
               /\ g.accounts[i].credential_ref # record.credential_ref
    <3>1. /\ f.accounts[i].id \in Nat /\ f.accounts[i].id <= made.accounts
          /\ f.accounts[i].credential_ref \in Nat
          /\ f.accounts[i].credential_ref <= made.references
      BY <1>8
    <3>2. g.accounts[i] = f.accounts[i]
      BY <1>6
    <3>3. f.accounts[i].id # record.id /\ f.accounts[i].credential_ref # record.credential_ref
      BY <3>1, <1>2, <1>7
    <3> QED
      BY <3>2, <3>3
  <2>3. Distinct(f.accounts)
    BY DEF Sound
  <2> QED
    BY <2>2, <2>3, <1>6, <1>10 DEF Distinct
<1>13. Sound(g, made')
  <2>1. ASSUME NEW j \in 1 .. Len(g.accounts)
        PROVE  /\ g.accounts[j].id <= made'.accounts
               /\ g.accounts[j].credential_ref <= made'.references
               /\ g.accounts[j].credential_ref \notin g.cleanup
    <3>1. CASE j \in 1 .. Len(f.accounts)
      <4>1. /\ f.accounts[j].id \in Nat /\ f.accounts[j].id <= made.accounts
            /\ f.accounts[j].credential_ref \in Nat
            /\ f.accounts[j].credential_ref <= made.references
            /\ f.accounts[j].credential_ref \notin f.cleanup
        BY <3>1, <1>8
      <4>2. g.accounts[j] = f.accounts[j]
        BY <3>1, <1>6
      <4> QED
        BY SMTT(30), <4>1, <4>2, <1>4, <1>7
    <3>2. CASE j = Len(g.accounts)
      <4>1. g.accounts[j] = record
        BY <3>2, <1>6
      <4>2. record.credential_ref \notin f.cleanup
        BY <1>2, <1>7, <1>9
      <4> QED
        BY <4>1, <4>2, <1>2, <1>4, <1>7
    <3> QED
      BY <3>1, <3>2, <1>10
  <2>2. \A r \in g.cleanup : r <= made'.references
    BY <1>4, <1>7, <1>9
  <2> QED
    BY <2>1, <2>2, <1>5, <1>12 DEF Sound
<1> QED
  BY <1>4, <1>6, <1>11, <1>13 DEF AddsOnly

\* The file of a rotation.
LEMMA RotatingIsSound ==
  ASSUME NEW f, NEW g, NEW i, NEW new, NEW old, Made, Sound(f, made), ReferenceIsMade,
         RotatesAt(f, i, new, old), Rotates(f, g, i, new, old)
  PROVE  Sound(g, made') /\ Sound(f, made') /\ RotatesOnly(f, g, i, new, old)
<1>0. /\ i \in 1 .. Len(f.accounts) /\ old = f.accounts[i].credential_ref
      /\ new \in A!Reference /\ new = made.references + 1
  BY DEF RotatesAt
<1>1. /\ f \in FileType /\ f.accounts \in Seq(A!AccountRecord) /\ Len(f.accounts) \in Nat
      /\ \A j \in 1 .. Len(f.accounts) : f.accounts[j] \in A!AccountRecord
  BY DEF Sound, FileType
<1> DEFINE record == [f.accounts[i] EXCEPT !.credential_ref = new]
<1>2. /\ record \in A!AccountRecord /\ record.credential_ref = new
      /\ record.id = f.accounts[i].id
  BY <1>0, <1>1 DEF A!AccountRecord
<1>3. g.accounts = [f.accounts EXCEPT ![i] = record] /\ g.cleanup = f.cleanup \cup {old}
  BY <1>0, <1>1 DEF FileType, Rotates
<1>4. old \in A!Reference
  BY <1>0, <1>1 DEF A!AccountRecord
<1> HIDE DEF record
<1>5. /\ g.accounts \in Seq(A!AccountRecord) /\ Len(g.accounts) = Len(f.accounts)
      /\ g.accounts[i] = record
      /\ \A j \in 1 .. Len(f.accounts) : j # i => g.accounts[j] = f.accounts[j]
  BY <1>0, <1>1, <1>2, <1>3
<1>6. g \in FileType
  <2>1. DOMAIN g = DOMAIN f /\ g.revision = f.revision + 1 /\ g.selected = f.selected
    BY <1>0, <1>1 DEF FileType, Rotates
  <2>2. g = [revision |-> g.revision, accounts |-> g.accounts, selected |-> g.selected,
             cleanup |-> g.cleanup]
    BY <1>0, <1>1 DEF FileType, Rotates
  <2>3. g.revision \in Nat /\ g.selected \in 0 .. MaxAccounts /\ g.cleanup \in SUBSET A!Reference
    BY <2>1, <1>1, <1>3, <1>4 DEF FileType
  <2> QED
    BY <2>2, <2>3, <1>5 DEF FileType
<1>7. /\ made.accounts \in Nat /\ made.references \in Nat
      /\ made'.accounts = made.accounts /\ made'.references = made.references + 1
  BY AccountsAssumption DEF Made, ReferenceIsMade
<1>8. \A j \in 1 .. Len(f.accounts) :
        /\ f.accounts[j].id \in Nat /\ f.accounts[j].id <= made.accounts
        /\ f.accounts[j].credential_ref \in Nat /\ f.accounts[j].credential_ref <= made.references
        /\ f.accounts[j].credential_ref \notin f.cleanup
  <2>1. \A a \in A!AccountRecord : a.id \in Nat /\ a.credential_ref \in Nat
    BY AccountsAssumption DEF A!AccountRecord, A!Account, A!Reference
  <2> QED
    BY <2>1, <1>1 DEF Sound
<1>9. \A r \in f.cleanup : r \in Nat /\ r <= made.references
  BY <1>1, AccountsAssumption DEF Sound, FileType, A!Reference
<1>10. Distinct(f.accounts)
  BY DEF Sound
<1>11. Sound(f, made')
  BY <1>1, <1>7, <1>8, <1>9, <1>10 DEF Sound
<1>12. Distinct(g.accounts)
  <2>1. \A j \in 1 .. Len(f.accounts) : j # i => g.accounts[j].id # record.id
    BY <1>0, <1>2, <1>5, <1>10 DEF Distinct
  <2>2. \A j \in 1 .. Len(f.accounts) : j # i => g.accounts[j].credential_ref # new
    BY <1>0, <1>5, <1>7, <1>8
  <2>3. g.accounts[i].id = record.id /\ g.accounts[i].credential_ref = new
    BY <1>2, <1>5
  <2> QED
    BY <2>1, <2>2, <2>3, <1>5, <1>10 DEF Distinct
<1>13. \A j \in 1 .. Len(g.accounts) :
         /\ g.accounts[j].id <= made'.accounts
         /\ g.accounts[j].credential_ref <= made'.references
         /\ g.accounts[j].credential_ref \notin g.cleanup
  <2> TAKE j \in 1 .. Len(g.accounts)
  <2>1. CASE j = i
    <3>1. g.accounts[j].id = f.accounts[i].id /\ g.accounts[j].credential_ref = new
      BY <2>1, <1>2, <1>5
    <3>2. new \notin f.cleanup /\ new # old /\ new <= made'.references
      BY <1>0, <1>7, <1>8, <1>9
    <3>3. f.accounts[i].id <= made'.accounts
      BY <1>0, <1>7, <1>8
    <3> QED
      BY <3>1, <3>2, <3>3, <1>3
  <2>2. CASE j # i
    <3>1. j \in 1 .. Len(f.accounts) /\ g.accounts[j] = f.accounts[j]
      BY <2>2, <1>5
    <3>2. f.accounts[j].credential_ref # old
      BY <2>2, <3>1, <1>0, <1>10 DEF Distinct
    <3>3. /\ f.accounts[j].id <= made'.accounts /\ f.accounts[j].credential_ref \notin f.cleanup
          /\ f.accounts[j].credential_ref <= made'.references
      BY <3>1, <1>7, <1>8
    <3> QED
      BY <3>1, <3>2, <3>3, <1>3
  <2> QED
    BY <2>1, <2>2
<1>14. \A r \in g.cleanup : r <= made'.references
  BY <1>0, <1>3, <1>7, <1>8, <1>9
<1>15. Sound(g, made')
  BY <1>6, <1>12, <1>13, <1>14 DEF Sound
<1> QED
  BY <1>0, <1>2, <1>3, <1>5, <1>11, <1>15 DEF RotatesOnly

\* The file of a removal: the ones before the removed account, and the ones after it.
LEMMA RemovingIsSound ==
  ASSUME NEW f, NEW g, NEW i, Made, Sound(f, made), Removes(f, g, i)
  PROVE  Sound(g, made) /\ RemovesOnly(f, g, i)
<1> DEFINE left == g.accounts
<1>1. /\ f \in FileType /\ f.accounts \in Seq(A!AccountRecord) /\ Len(f.accounts) \in Nat
      /\ \A j \in 1 .. Len(f.accounts) : f.accounts[j] \in A!AccountRecord
  BY DEF Sound, FileType
<1>0. /\ left = A!RemoveAt(f.accounts, i)
      /\ g.cleanup = f.cleanup \cup {f.accounts[i].credential_ref}
      /\ g = [revision |-> g.revision, accounts |-> left, selected |-> g.selected,
              cleanup |-> g.cleanup]
      /\ g.revision \in Nat /\ g.selected \in 0 .. MaxAccounts
      /\ i \in 1 .. Len(f.accounts)
  BY DEF Removes
<1> HIDE DEF left
<1> DEFINE n == Len(f.accounts)
<1> DEFINE from(j) == IF j < i THEN j ELSE j + 1
<1>2. left \in Seq(A!AccountRecord) /\ Len(left) = n - 1
      /\ \A j \in 1 .. n - 1 : left[j] = f.accounts[from(j)]
  <2>1. /\ SubSeq(f.accounts, 1, i - 1) \in Seq(A!AccountRecord)
        /\ Len(SubSeq(f.accounts, 1, i - 1)) = i - 1
        /\ \A j \in 1 .. i - 1 : SubSeq(f.accounts, 1, i - 1)[j] = f.accounts[j]
    BY <1>0, <1>1
  <2>2. /\ SubSeq(f.accounts, i + 1, n) \in Seq(A!AccountRecord)
        /\ Len(SubSeq(f.accounts, i + 1, n)) = n - i
        /\ \A j \in 1 .. n - i : SubSeq(f.accounts, i + 1, n)[j] = f.accounts[i + j]
    <3>1. i + 1 \in 1 .. n + 1 /\ n \in Nat /\ i \in Nat /\ n - (i + 1) + 1 = n - i
      BY <1>0, <1>1
    <3>2. SubSeq(f.accounts, i + 1, n) \in Seq(A!AccountRecord)
      BY <3>1, <1>1
    <3>3. Len(SubSeq(f.accounts, i + 1, n)) = n - i
      BY <3>1, <1>1
    <3>4. ASSUME NEW j \in 1 .. n - i
          PROVE  SubSeq(f.accounts, i + 1, n)[j] = f.accounts[i + j]
      BY <3>1, <3>3, <1>1
    <3> QED
      BY <3>2, <3>3, <3>4
  <2>3. PICK a \in Seq(A!AccountRecord), b \in Seq(A!AccountRecord) :
          /\ left = a \o b /\ Len(a) = i - 1 /\ Len(b) = n - i
          /\ \A j \in 1 .. i - 1 : a[j] = f.accounts[j]
          /\ \A j \in 1 .. n - i : b[j] = f.accounts[i + j]
    BY <2>1, <2>2, <1>0 DEF A!RemoveAt
  <2>4. left \in Seq(A!AccountRecord) /\ Len(left) = n - 1
    <3>1. a \o b \in Seq(A!AccountRecord) /\ Len(a \o b) = Len(a) + Len(b)
      OBVIOUS
    <3>2. left = a \o b /\ Len(a) = i - 1 /\ Len(b) = n - i
      BY <2>3
    <3>3. (i - 1) + (n - i) = n - 1
      BY <1>0, <1>1
    <3>4. left \in Seq(A!AccountRecord)
      BY <3>1, <3>2
    <3>5. Len(left) = (i - 1) + (n - i)
      BY <3>1, <3>2
    <3> QED
      BY <3>3, <3>4, <3>5
  <2>5. ASSUME NEW j \in 1 .. n - 1
        PROVE  left[j] = f.accounts[from(j)]
    <3>1. CASE j < i
      <4>1. j \in 1 .. i - 1 /\ j <= Len(a) /\ j \in 1 .. Len(a) + Len(b)
        BY <3>1, <2>3, <1>0, <1>1
      <4>2. left[j] = a[j]
        <5>1. (a \o b)[j] = IF j <= Len(a) THEN a[j] ELSE b[j - Len(a)]
          BY <4>1, ConcatProperties
        <5> QED
          BY <5>1, <4>1, <2>3
      <4>3. a[j] = f.accounts[j]
        BY <4>1, <2>3
      <4>4. from(j) = j
        BY <3>1
      <4> HIDE DEF from
      <4> QED
        BY <4>2, <4>3, <4>4
    <3>2. CASE j >= i
      <4> DEFINE k == j - (i - 1)
      <4>1. k \in 1 .. n - i /\ i + k = j + 1 /\ j \in 1 .. Len(a) + Len(b) /\ ~(j <= Len(a))
        <5>1. Len(a) = i - 1 /\ Len(b) = n - i
          BY <2>3
        <5>2. n \in Nat /\ i \in 1 .. n
          BY <1>0, <1>1
        <5> HIDE DEF n
        <5> QED
          BY <3>2, <5>1, <5>2
      <4>2. left[j] = b[k]
        <5>1. (a \o b)[j] = IF j <= Len(a) THEN a[j] ELSE b[j - Len(a)]
          BY <4>1, ConcatProperties
        <5> QED
          BY <5>1, <4>1, <2>3
      <4> HIDE DEF k
      <4>3. b[k] = f.accounts[i + k]
        BY <4>1, <2>3
      <4> QED
        BY SMTT(30), <4>1, <4>2, <4>3, <3>2, <1>0, <1>1
    <3> QED
      BY <3>1, <3>2, <1>0, <1>1
  <2> QED
    BY <2>4, <2>5
<1>3. \A j \in 1 .. n - 1 : from(j) \in 1 .. n /\ from(j) # i
  BY <1>0, <1>1
<1>4. \A k \in 1 .. n : k # i => \E j \in 1 .. n - 1 : from(j) = k
  <2> TAKE k \in 1 .. n
  <2>1. CASE k < i
    BY <2>1, <1>0, <1>1
  <2>2. CASE k > i
    <3>1. k - 1 \in 1 .. n - 1 /\ from(k - 1) = k
      BY <2>2, <1>0, <1>1
    <3> QED
      BY <3>1
  <2> QED
    BY <2>1, <2>2, <1>0, <1>1
<1>5. \A j, k \in 1 .. n - 1 : from(j) = from(k) => j = k
  BY <1>0, <1>1
<1> HIDE DEF from
<1>6. /\ \A j \in 1 .. Len(left) : \E k \in 1 .. n : k # i /\ left[j] = f.accounts[k]
      /\ \A k \in 1 .. n : k # i => \E j \in 1 .. Len(left) : left[j] = f.accounts[k]
  BY <1>2, <1>3, <1>4
<1>7. Distinct(left)
  <2>1. ASSUME NEW j \in 1 .. n - 1, NEW k \in 1 .. n - 1,
               \/ f.accounts[from(j)].id = f.accounts[from(k)].id
               \/ f.accounts[from(j)].credential_ref = f.accounts[from(k)].credential_ref
        PROVE  j = k
    <3>1. from(j) = from(k)
      BY <2>1, <1>3 DEF Sound, Distinct
    <3> QED
      BY <3>1, <1>5
  <2>2. \A j \in 1 .. Len(left) : j \in 1 .. n - 1 /\ left[j] = f.accounts[from(j)]
    BY <1>2
  <2> QED
    BY SMTT(30), <2>1, <2>2 DEF Distinct
<1>8. g \in FileType
  <2>1. f.accounts[i].credential_ref \in A!Reference
    BY <1>0, <1>1 DEF A!AccountRecord
  <2> QED
    BY <2>1, <1>0, <1>1, <1>2 DEF FileType
<1>9. g.cleanup = f.cleanup \cup {f.accounts[i].credential_ref}
  BY <1>0
<1>10. \A j \in 1 .. Len(left) :
         /\ left[j].id <= made.accounts /\ left[j].credential_ref <= made.references
         /\ left[j].credential_ref \notin g.cleanup
  <2> TAKE j \in 1 .. Len(left)
  <2>1. PICK k \in 1 .. n : k # i /\ left[j] = f.accounts[k]
    BY <1>6
  <2>2. /\ f.accounts[k].id <= made.accounts /\ f.accounts[k].credential_ref <= made.references
        /\ f.accounts[k].credential_ref \notin f.cleanup
    BY DEF Sound
  <2>3. f.accounts[k].credential_ref # f.accounts[i].credential_ref
    <3>1. Distinct(f.accounts)
      BY DEF Sound
    <3> QED
      BY <3>1, <2>1, <1>0 DEF Distinct
  <2> QED
    BY <2>1, <2>2, <2>3, <1>9
<1>11. \A r \in g.cleanup : r <= made.references
  <2>1. f.accounts[i].credential_ref <= made.references
    BY <1>0 DEF Sound
  <2>2. \A r \in f.cleanup : r <= made.references
    BY DEF Sound
  <2> QED
    BY <1>9, <2>1, <2>2
<1>12. Sound(g, made)
  BY <1>7, <1>8, <1>10, <1>11 DEF Sound, left
<1> QED
  BY <1>6, <1>12 DEF RemovesOnly, left

-----------------------------------------------------------------------------
(* Accounts: what a command has in hand *)

\* No account of the file is without its slot or its password, and no password that was
\* in use stays behind unmarked.
FilesAreSound ==
    /\ Made
    /\ Sound(accounts_file, made) /\ Usable(accounts_file, keychain, slots)
    /\ A!Used(accounts_file) \subseteq committed
    /\ \A r \in keychain \cup committed : r \in Nat /\ r <= made.references
    /\ A!OldPasswordsAreMarked

\* The file a command is about to save is sound, and remembers every password the
\* stored one knows of; what it takes back was never in use.
Writing == {"store", "save", "delete", "unmark", "retry"}
Fresh == \/ job.at \in {"store", "undo", "mark"}
         \/ job.at = "save" /\ (job.kind = "add" \/ (job.kind = "update" /\ job.old # 0))
JobType == [at : A!Place, kind : {"none", "add", "update", "remove", "retry"}, id : 0 .. MaxAccounts,
            new : 0 .. MaxReferences, old : 0 .. MaxReferences, file : {<<>>} \cup FileType]
JobIsSound ==
    /\ job \in JobType
    /\ job.at \in Writing => Sound(job.file, made)
    /\ job.at = "store" => /\ Usable(job.file, keychain \cup {job.new}, slots)
                           /\ job.kind = "add" \/ (job.kind = "update" /\ job.old # 0)
    /\ job.at \in {"save", "retry"} => Usable(job.file, keychain, slots)
    /\ job.at \in {"store", "save"} =>
         /\ A!Used(accounts_file) \cup accounts_file.cleanup \subseteq
              A!Used(job.file) \cup job.file.cleanup
         /\ job.old # 0 => job.old \in job.file.cleanup
    /\ Fresh => job.new \in Nat \ {0} /\ job.new <= made.references /\ job.new \notin committed
    /\ job.at \in {"store", "save", "undo", "mark", "unslot"} /\ job.kind = "add" =>
         job.id \notin A!Ids(accounts_file)
    /\ job.at \in {"mark", "unslot"} => job.kind = "add"
    /\ job.at \in {"delete", "unmark"} => job.file = accounts_file /\ job.old \in job.file.cleanup
    /\ job.at = "unmark" => job.old \notin keychain
    /\ job.at = "retry" => /\ A!Used(job.file) = A!Used(accounts_file)
                           /\ keychain \cap accounts_file.cleanup \subseteq job.file.cleanup

\* What is being initialized is not in use, and what is in use is whole.
DirectoryIsSound ==
    /\ data_dir \in [folders : BOOLEAN, marker : BOOLEAN, database : BOOLEAN,
                     at : {"idle", "folders", "marker", "database", "save"},
                     configured : BOOLEAN, onboarding_completed : BOOLEAN]
    /\ data_dir.at # "idle" => ~data_dir.configured
    /\ data_dir.at \in {"database", "save"} => data_dir.marker
    /\ data_dir.at = "save" => data_dir.database
    /\ data_dir.configured => data_dir.marker /\ data_dir.database

AccountsInv == FilesAreSound /\ JobIsSound /\ DirectoryIsSound

\* Without accounts nothing is referred to.
LEMMA AccountsBegin == A!Init => AccountsInv
<1> SUFFICES ASSUME A!Init
             PROVE  AccountsInv
  OBVIOUS
<1>1. accounts_file \in FileType /\ accounts_file.accounts = <<>> /\ accounts_file.cleanup = {}
  BY AccountsAssumption DEF A!Init, A!EmptyFile, FileType
<1>2. Made /\ Sound(accounts_file, made) /\ Usable(accounts_file, keychain, slots)
  BY <1>1, AccountsAssumption DEF A!Init, Made, Sound, Usable, Distinct
<1>3. FilesAreSound
  <2>1. A!Used(accounts_file) = {}
    <3>1. accounts_file.accounts \in Seq(A!AccountRecord) /\ Len(accounts_file.accounts) = 0
      BY <1>1
    <3> QED
      BY <3>1, RecordsAreListed
  <2> QED
    BY <1>2, <2>1 DEF A!Init, FilesAreSound, A!OldPasswordsAreMarked
<1>4. JobIsSound
  BY AccountsAssumption DEF A!Init, A!NoJob, JobIsSound, JobType, A!Place, Writing, Fresh
<1>5. DirectoryIsSound
  BY DEF A!Init, DirectoryIsSound
<1> QED
  BY <1>3, <1>4, <1>5 DEF AccountsInv

\* What is set up in the directory is kept, and it is used when it is whole.
LEMMA DirectoryGoesOn ==
  ASSUME DirectoryIsSound, A!Next
  PROVE  DirectoryIsSound'
<1> USE DEF DirectoryIsSound
<1>1. CASE A!Initialize
  BY <1>1 DEF A!Initialize, A!is_compatible_data_directory
<1>2. CASE A!InitializeStep
  BY <1>2 DEF A!InitializeStep
<1>3. CASE A!InitializeFails
  BY <1>3 DEF A!InitializeFails
<1>4. CASE A!complete_onboarding
  BY <1>4 DEF A!complete_onboarding
<1>5. CASE A!Crash
  BY <1>5 DEF A!Crash
<1>6. CASE UNCHANGED data_dir
  BY <1>6
<1> QED
  BY <1>1, <1>2, <1>3, <1>4, <1>5, <1>6
     DEF A!Next, A!AddAccount, A!RemoveAccount, A!UpdateAccount, A!StorePassword, A!SaveAccounts,
         A!DeletePassword, A!Unmark, A!Undo, A!Mark, A!Unslot, A!RetryCleanup, A!SaveRemaining,
         A!SelectAccount, A!SelectMailbox, A!outside

\* A save of a sound file that forgets no password in use.
LEMMA SavingIsSound ==
  ASSUME FilesAreSound, NEW f, Sound(f, made), Usable(f, keychain, slots),
         accounts_file' = f, committed' = committed \cup A!Used(f),
         UNCHANGED <<keychain, slots, made>>, unreadable => unreadable',
         \A r \in keychain \cap (A!Used(accounts_file) \cup accounts_file.cleanup) :
            unreadable' \/ r \in A!Used(f) \cup f.cleanup
  PROVE  FilesAreSound'
<1>1. f.accounts \in Seq(A!AccountRecord)
  BY DEF Sound, FileType
<1>2. /\ A!Used(f) = {f.accounts[i].credential_ref : i \in 1 .. Len(f.accounts)}
      /\ \A i \in 1 .. Len(f.accounts) : f.accounts[i] \in A!AccountRecord
  BY <1>1, RecordsAreListed
<1>3. A!Used(accounts_file)' = A!Used(f)
  BY DEF A!Used, A!Records, A!ToSet
<1>4. \A r \in A!Used(f) : r \in Nat /\ r <= made.references
  BY <1>2, AccountsAssumption DEF Sound, A!AccountRecord, A!Reference
<1>5. \A r \in keychain' \cup committed' : r \in Nat /\ r <= made'.references
  BY <1>4 DEF FilesAreSound
<1>6. A!OldPasswordsAreMarked'
  <2>1. \A r \in keychain \cap committed' : unreadable' \/ r \in A!Used(f) \cup f.cleanup
    BY DEF FilesAreSound, A!OldPasswordsAreMarked
  <2> QED
    BY <2>1, <1>3 DEF A!OldPasswordsAreMarked
<1>7. Made' /\ Sound(accounts_file, made)' /\ Usable(accounts_file, keychain, slots)'
  BY DEF FilesAreSound, Made, Sound, Usable
<1>8. A!Used(accounts_file)' \subseteq committed'
  BY <1>3
<1> QED
  BY <1>5, <1>6, <1>7, <1>8 DEF FilesAreSound

\* A file that is not saved stays sound while passwords come and go, if none that it
\* uses goes.
LEMMA KeepingIsSound ==
  ASSUME FilesAreSound, UNCHANGED <<accounts_file, committed, unreadable>>, Made',
         Sound(accounts_file, made'),
         \A a \in A!Records(accounts_file) : a.credential_ref \in keychain' /\ a.id \in slots',
         made'.references \in Nat, made'.references >= made.references,
         \A r \in keychain' : r \in Nat /\ r <= made'.references,
         \A r \in keychain' : r \in keychain \/ r \notin committed
  PROVE  FilesAreSound'
<1>1. A!Used(accounts_file)' = A!Used(accounts_file)
  BY DEF A!Used, A!Records, A!ToSet
<1>2. Usable(accounts_file, keychain, slots)'
  <2>1. accounts_file.accounts \in Seq(A!AccountRecord)
    BY DEF FilesAreSound, Sound, FileType
  <2>2. \A i \in 1 .. Len(accounts_file.accounts) :
          accounts_file.accounts[i] \in A!Records(accounts_file)
    BY <2>1, RecordsAreListed
  <2> QED
    BY <2>2 DEF Usable
<1>3. \A r \in committed : r \in Nat /\ r <= made'.references
  BY AccountsAssumption DEF FilesAreSound, Made
<1>4. A!OldPasswordsAreMarked'
  BY <1>1 DEF FilesAreSound, A!OldPasswordsAreMarked
<1>5. Sound(accounts_file, made)'
  BY DEF Sound
<1> QED
  BY <1>1, <1>2, <1>3, <1>4, <1>5 DEF FilesAreSound

\* What is used by a usable file.
LEMMA UsableRecords ==
  ASSUME NEW f, f.accounts \in Seq(A!AccountRecord), NEW keys, NEW sl
  PROVE  Usable(f, keys, sl) <=>
           \A a \in A!Records(f) : a.credential_ref \in keys /\ a.id \in sl
  BY RecordsAreListed DEF Usable

\* Nothing is in hand when a command is done.
LEMMA JobRests ==
  ASSUME job' = A!NoJob
  PROVE  JobIsSound'
<1>1. /\ job'.at = "idle" /\ job'.kind = "none" /\ job'.id = 0 /\ job'.new = 0
      /\ job'.old = 0 /\ job'.file = <<>>
  BY DEF A!NoJob
<1>2. job' \in JobType
  BY AccountsAssumption DEF JobType, A!NoJob, A!Place
<1> QED
  BY <1>1, <1>2 DEF JobIsSound, Writing, Fresh

\* A password is stored, or is not.
LEMMA StoringKeepsAccounts ==
  ASSUME AccountsInv, A!StorePassword
  PROVE  FilesAreSound' /\ JobIsSound'
<1>t. /\ job \in JobType /\ Sound(job.file, made) /\ job.new \in Nat \ {0} /\ job.new <= made.references
      /\ job.new \notin committed /\ Usable(job.file, keychain \cup {job.new}, slots)
      /\ job.kind = "add" \/ (job.kind = "update" /\ job.old # 0)
      /\ Made /\ Sound(accounts_file, made) /\ Usable(accounts_file, keychain, slots)
      /\ made.references \in Nat
      /\ \A r \in keychain : r \in Nat /\ r <= made.references
  BY AccountsAssumption DEF AccountsInv, FilesAreSound, JobIsSound, A!StorePassword, Writing, Fresh, Made
<1>1. /\ job.at = "store"
      /\ UNCHANGED <<accounts_file, committed, unreadable, made>>
  BY DEF A!StorePassword, A!fileUnchanged, A!outside
<1>u. accounts_file.accounts \in Seq(A!AccountRecord)
  BY <1>t DEF Sound, FileType
<1>r. \A a \in A!Records(accounts_file) : a.credential_ref \in keychain /\ a.id \in slots
  BY <1>t, <1>u, UsableRecords
<1>m. Made' /\ made' = made
  BY <1>1, <1>t DEF Made
<1>2. CASE keychain' = keychain \cup {job.new} /\ slots' = slots /\ job' = [job EXCEPT !.at = "save"]
  <2>1. FilesAreSound'
    BY <1>1, <1>2, <1>t, <1>r, <1>m, KeepingIsSound DEF AccountsInv
  <2>2. /\ job'.at = "save" /\ job'.kind = job.kind /\ job'.id = job.id /\ job'.new = job.new
        /\ job'.old = job.old /\ job'.file = job.file /\ job' \in JobType
    BY <1>2, <1>t DEF JobType, A!Place
  <2>3. Usable(job.file, keychain, slots)'
    BY <1>2, <2>2, <1>t DEF Usable
  <2>4. Sound(job.file, made)'
    BY <1>1, <2>2, <1>t DEF Sound
  <2>5. /\ A!Used(accounts_file)' = A!Used(accounts_file) /\ A!Ids(accounts_file)' = A!Ids(accounts_file)
        /\ A!Used(job.file)' = A!Used(job.file)
    BY <1>1, <2>2 DEF A!Used, A!Ids, A!Records, A!ToSet
  <2> QED
    BY <2>1, <2>2, <2>3, <2>4, <2>5, <1>1, <1>t DEF AccountsInv, JobIsSound, Writing, Fresh
<1>3. CASE keychain' = keychain /\ job' = A!NoJob
           /\ slots' = IF job.kind = "add" THEN slots \ {job.id} ELSE slots
  <2>1. \A a \in A!Records(accounts_file) : a.id \in slots'
    BY <1>1, <1>3, <1>r DEF AccountsInv, JobIsSound, A!Ids
  <2> QED
    BY <1>1, <1>3, <1>t, <1>r, <1>m, <2>1, KeepingIsSound, JobRests DEF AccountsInv
<1> QED
  BY <1>2, <1>3 DEF A!StorePassword, A!Goto, A!Done

\* The new file is stored, or the old one stays.
LEMMA SavingKeepsAccounts ==
  ASSUME AccountsInv, A!SaveAccounts
  PROVE  FilesAreSound' /\ JobIsSound'
<1>t. /\ job \in JobType /\ Sound(job.file, made) /\ Usable(job.file, keychain, slots)
      /\ A!Used(accounts_file) \cup accounts_file.cleanup \subseteq
           A!Used(job.file) \cup job.file.cleanup
      /\ Made /\ Sound(accounts_file, made) /\ Usable(accounts_file, keychain, slots)
      /\ made.references \in Nat
      /\ \A r \in keychain : r \in Nat /\ r <= made.references
  BY AccountsAssumption DEF AccountsInv, FilesAreSound, JobIsSound, A!SaveAccounts, Writing, Made
<1>1. /\ job.at = "save" /\ UNCHANGED <<unreadable, made, keychain, slots>>
  BY DEF A!SaveAccounts, A!outside
<1>m. Made' /\ made' = made
  BY <1>1, <1>t DEF Made
<1>2. CASE /\ A!Save(job.file)
           /\ IF job.old # 0 THEN A!Goto("delete") ELSE A!Done
  <2>1. FilesAreSound'
    <3>1. PICK f : f = job.file
      OBVIOUS
    <3>2. accounts_file' = f /\ committed' = committed \cup A!Used(f)
      BY <3>1, <1>2 DEF A!Save
    <3>3. FilesAreSound
      BY DEF AccountsInv
    <3>4. Sound(f, made) /\ Usable(f, keychain, slots)
      BY <3>1, <1>t
    <3>5. \A r \in keychain \cap (A!Used(accounts_file) \cup accounts_file.cleanup) :
             unreadable' \/ r \in A!Used(f) \cup f.cleanup
      BY <3>1, <1>t
    <3> QED
      BY <3>2, <3>3, <3>4, <3>5, <1>1, SavingIsSound
  <2>2. CASE job.old # 0
    <3>1. /\ job'.at = "delete" /\ job'.old = job.old /\ job'.file = job.file /\ job' \in JobType
          /\ accounts_file' = job.file
      BY <1>2, <2>2, <1>t DEF JobType, A!Place, A!Goto, A!Save
    <3>2. Sound(job.file, made)'
      BY <1>1, <3>1, <1>t DEF Sound
    <3>3. job.old \in job.file.cleanup
      BY <1>1, <2>2 DEF AccountsInv, JobIsSound
    <3> QED
      BY <2>1, <3>1, <3>2, <3>3 DEF JobIsSound, Writing, Fresh
  <2>3. CASE job.old = 0
    BY <2>1, <2>3, <1>2, JobRests DEF A!Done
  <2> QED
    BY <2>2, <2>3
<1>3. CASE /\ UNCHANGED <<accounts_file, committed>>
           /\ IF job.kind = "add" \/ (job.kind = "update" /\ job.old # 0) THEN A!Goto("undo") ELSE A!Done
  <2>1. FilesAreSound'
    <3>1. accounts_file.accounts \in Seq(A!AccountRecord)
      BY <1>t DEF Sound, FileType
    <3> QED
      BY <3>1, <1>1, <1>3, <1>t, <1>m, UsableRecords, KeepingIsSound DEF AccountsInv
  <2>2. CASE job.kind = "add" \/ (job.kind = "update" /\ job.old # 0)
    <3>1. /\ job'.at = "undo" /\ job'.kind = job.kind /\ job'.id = job.id /\ job'.new = job.new
          /\ job' \in JobType
      BY <1>3, <2>2, <1>t DEF JobType, A!Place, A!Goto
    <3>2. job.new \in Nat \ {0} /\ job.new <= made.references /\ job.new \notin committed
      BY <1>1, <2>2 DEF AccountsInv, JobIsSound, Fresh
    <3>3. A!Ids(accounts_file)' = A!Ids(accounts_file)
      BY <1>3 DEF A!Ids, A!Records, A!ToSet
    <3> QED
      BY <2>1, <3>1, <3>2, <3>3, <1>1, <1>3 DEF AccountsInv, JobIsSound, Writing, Fresh
  <2>3. CASE ~(job.kind = "add" \/ (job.kind = "update" /\ job.old # 0))
    BY <2>1, <2>3, <1>3, JobRests DEF A!Done
  <2> QED
    BY <2>2, <2>3
<1> QED
  BY <1>2, <1>3 DEF A!SaveAccounts, A!fileUnchanged

\* The password of a record that is gone is deleted, and its marker.
LEMMA DeletingKeepsAccounts ==
  ASSUME AccountsInv, A!DeletePassword \/ A!Unmark
  PROVE  FilesAreSound' /\ JobIsSound'
<1>t. /\ job \in JobType /\ Sound(job.file, made) /\ job.file = accounts_file
      /\ job.old \in accounts_file.cleanup
      /\ Made /\ Sound(accounts_file, made) /\ Usable(accounts_file, keychain, slots)
      /\ made.references \in Nat
      /\ \A r \in keychain : r \in Nat /\ r <= made.references
      /\ job.at = "unmark" => job.old \notin keychain
  BY AccountsAssumption
     DEF AccountsInv, FilesAreSound, JobIsSound, A!DeletePassword, A!Unmark, Writing, Made
<1>m. made' = made /\ UNCHANGED <<unreadable, slots>> /\ Made'
  BY <1>t DEF A!DeletePassword, A!Unmark, A!outside, Made
<1>u. /\ accounts_file.accounts \in Seq(A!AccountRecord)
      /\ \A a \in A!Records(accounts_file) : a.credential_ref \in keychain /\ a.id \in slots
      /\ \A a \in A!Records(accounts_file) : a.credential_ref # job.old
  <2>1. accounts_file.accounts \in Seq(A!AccountRecord)
    BY <1>t DEF Sound, FileType
  <2> QED
    BY <2>1, <1>t, RecordsAreListed, UsableRecords DEF Sound
<1>f. FilesAreSound
  BY DEF AccountsInv
<1>1. CASE A!DeletePassword
  <2>1. /\ keychain' \subseteq keychain /\ UNCHANGED <<accounts_file, committed>>
        /\ \/ keychain' = keychain /\ job' = A!NoJob
           \/ keychain' = keychain \ {job.old} /\ job' = [job EXCEPT !.at = "unmark"]
    BY <1>1 DEF A!DeletePassword, A!fileUnchanged, A!Goto, A!Done
  <2>2. FilesAreSound'
    BY <2>1, <1>f, <1>m, <1>t, <1>u, KeepingIsSound
  <2>3. CASE keychain' = keychain \ {job.old} /\ job' = [job EXCEPT !.at = "unmark"]
    <3>1. /\ job'.at = "unmark" /\ job'.old = job.old /\ job'.file = job.file /\ job' \in JobType
      BY <2>3, <1>t DEF JobType, A!Place
    <3>2. Sound(job.file, made)'
      BY <1>m, <3>1, <1>t DEF Sound
    <3> QED
      BY <2>1, <2>2, <2>3, <3>1, <3>2, <1>t DEF JobIsSound, Writing, Fresh
  <2> QED
    BY <2>1, <2>2, <2>3, JobRests
<1>2. CASE A!Unmark
  <2>1. /\ job.old \notin keychain /\ keychain' = keychain /\ job' = A!NoJob
        /\ \/ UNCHANGED <<accounts_file, committed>>
           \/ A!Save([job.file EXCEPT !.cleanup = @ \ {job.old}])
    BY <1>2, <1>t DEF A!Unmark, A!fileUnchanged, A!Done
  <2>2. CASE UNCHANGED <<accounts_file, committed>>
    BY <2>1, <2>2, <1>f, <1>m, <1>t, <1>u, KeepingIsSound, JobRests
  <2>3. CASE A!Save([job.file EXCEPT !.cleanup = @ \ {job.old}])
    <3>1. PICK f : f = [accounts_file EXCEPT !.cleanup = @ \ {job.old}]
      OBVIOUS
    <3>2. /\ accounts_file' = f /\ committed' = committed \cup A!Used(f)
          /\ f.accounts = accounts_file.accounts /\ f.cleanup = accounts_file.cleanup \ {job.old}
          /\ f \in FileType
      BY <2>3, <3>1, <1>t DEF A!Save, Sound, FileType
    <3>3. Sound(f, made) /\ Usable(f, keychain, slots)
      BY <3>2, <1>t DEF Sound, Usable
    <3>4. A!Used(f) = A!Used(accounts_file)
      BY <3>2 DEF A!Used, A!Records
    <3>5. \A r \in keychain \cap (A!Used(accounts_file) \cup accounts_file.cleanup) :
             r \in A!Used(f) \cup f.cleanup
      BY <2>1, <3>2, <3>4
    <3> QED
      BY <2>1, <3>2, <3>3, <3>5, <1>f, <1>m, SavingIsSound, JobRests
  <2> QED
    BY <2>1, <2>2, <2>3
<1> QED
  BY <1>1, <1>2

\* A password that was never in use is taken back, or marked, and the slot that waited
\* for it goes.
LEMMA UndoingKeepsAccounts ==
  ASSUME AccountsInv, A!Undo \/ A!Unslot
  PROVE  FilesAreSound' /\ JobIsSound'
<1>t. /\ job \in JobType
      /\ Made /\ Sound(accounts_file, made) /\ Usable(accounts_file, keychain, slots)
      /\ made.references \in Nat
      /\ \A r \in keychain : r \in Nat /\ r <= made.references
      /\ A!Used(accounts_file) \subseteq committed
  BY AccountsAssumption DEF AccountsInv, FilesAreSound, JobIsSound, Made
<1>m. made' = made /\ UNCHANGED <<unreadable, accounts_file, committed>> /\ Made'
  BY <1>t DEF A!Undo, A!Unslot, A!outside, A!fileUnchanged, Made
<1>u. /\ accounts_file.accounts \in Seq(A!AccountRecord)
      /\ \A a \in A!Records(accounts_file) : a.credential_ref \in keychain /\ a.id \in slots
  <2>1. accounts_file.accounts \in Seq(A!AccountRecord)
    BY <1>t DEF Sound, FileType
  <2> QED
    BY <2>1, <1>t, UsableRecords
<1>f. FilesAreSound
  BY DEF AccountsInv
<1>1. CASE A!Undo
  <2>1. /\ job.at = "undo" /\ job.new \in Nat \ {0} /\ job.new <= made.references
        /\ job.new \notin committed
        /\ job.kind = "add" => job.id \notin A!Ids(accounts_file)
    BY <1>1 DEF A!Undo, AccountsInv, JobIsSound, Fresh
  <2>2. /\ slots' = slots
        /\ keychain' = keychain \/ keychain' = keychain \ {job.new}
        /\ \/ job' = A!NoJob
           \/ job.kind = "add" /\ job' = [job EXCEPT !.at = "unslot"]
           \/ job.kind = "add" /\ job' = [job EXCEPT !.at = "mark"]
    BY <1>1 DEF A!Undo, A!Goto, A!Done
  <2>3. FilesAreSound'
    <3>1. \A a \in A!Records(accounts_file) : a.credential_ref # job.new
      BY <2>1, <1>t DEF A!Used
    <3> QED
      BY <2>2, <3>1, <1>f, <1>m, <1>t, <1>u, KeepingIsSound
  <2>4. ASSUME NEW place \in {"unslot", "mark"}, job' = [job EXCEPT !.at = place],
               job.kind = "add"
        PROVE  JobIsSound'
    <3>1. /\ job'.at = place /\ job'.kind = job.kind /\ job'.id = job.id /\ job'.new = job.new
          /\ job' \in JobType
      BY <2>4, <1>t DEF JobType, A!Place
    <3>2. A!Ids(accounts_file)' = A!Ids(accounts_file)
      BY <1>m DEF A!Ids, A!Records, A!ToSet
    <3> QED
      BY <2>1, <2>4, <3>1, <3>2, <1>m DEF JobIsSound, Writing, Fresh
  <2> QED
    BY <2>2, <2>3, <2>4, JobRests
<1>2. CASE A!Unslot
  <2>1. /\ job.at = "unslot" /\ keychain' = keychain /\ job' = A!NoJob
        /\ slots' = slots \/ slots' = slots \ {job.id}
        /\ job.id \notin A!Ids(accounts_file)
    BY <1>2 DEF A!Unslot, A!Done, AccountsInv, JobIsSound
  <2>2. \A a \in A!Records(accounts_file) : a.id # job.id
    BY <2>1 DEF A!Ids
  <2> QED
    BY <2>1, <2>2, <1>f, <1>m, <1>t, <1>u, KeepingIsSound, JobRests
<1> QED
  BY <1>1, <1>2

\* A password that could not be taken back is marked, in the file or in an empty one.
LEMMA MarkingKeepsAccounts ==
  ASSUME AccountsInv, A!Mark
  PROVE  FilesAreSound' /\ JobIsSound'
<1>t. /\ job \in JobType /\ job.at = "mark" /\ job.kind = "add"
      /\ job.new \in Nat \ {0} /\ job.new <= made.references /\ job.new \notin committed
      /\ job.id \notin A!Ids(accounts_file)
      /\ Made /\ Sound(accounts_file, made) /\ Usable(accounts_file, keychain, slots)
      /\ made.references \in Nat
      /\ \A r \in keychain : r \in Nat /\ r <= made.references
      /\ A!Used(accounts_file) \subseteq committed
  BY AccountsAssumption DEF A!Mark, AccountsInv, FilesAreSound, JobIsSound, Made, Fresh
<1>m. made' = made /\ UNCHANGED <<keychain, slots>> /\ job' = [job EXCEPT !.at = "unslot"]
      /\ Made'
  BY <1>t DEF A!Mark, A!Goto, Made
<1>n. /\ made.references <= MaxReferences
      /\ job.new \in A!Reference
  BY <1>t, AccountsAssumption DEF JobType, A!Reference, Made
<1>f. FilesAreSound
  BY DEF AccountsInv
<1>j. /\ job'.at = "unslot" /\ job'.kind = "add" /\ job'.id = job.id /\ job' \in JobType
  BY <1>m, <1>t DEF JobType, A!Place
<1>i. ASSUME A!Ids(accounts_file)' \subseteq A!Ids(accounts_file)
      PROVE  JobIsSound'
  BY <1>i, <1>j, <1>t DEF JobIsSound, Writing, Fresh
<1>1. CASE UNCHANGED <<accounts_file, committed, unreadable>>
  <2>1. accounts_file.accounts \in Seq(A!AccountRecord)
    BY <1>t DEF Sound, FileType
  <2>2. A!Ids(accounts_file)' = A!Ids(accounts_file)
    BY <1>1 DEF A!Ids, A!Records, A!ToSet
  <2> QED
    BY <2>1, <2>2, <1>1, <1>f, <1>m, <1>t, <1>i, UsableRecords, KeepingIsSound
<1>2. CASE A!Save([accounts_file EXCEPT !.cleanup = @ \cup {job.new}]) /\ UNCHANGED unreadable
  <2>1. PICK f : f = [accounts_file EXCEPT !.cleanup = @ \cup {job.new}]
    OBVIOUS
  <2>2. /\ accounts_file' = f /\ committed' = committed \cup A!Used(f)
        /\ f.accounts = accounts_file.accounts /\ f.cleanup = accounts_file.cleanup \cup {job.new}
        /\ f \in FileType
    BY <1>2, <1>n, <2>1, <1>t DEF A!Save, Sound, FileType
  <2>3. A!Used(f) = A!Used(accounts_file) /\ A!Ids(accounts_file)' = A!Ids(accounts_file)
    BY <2>2 DEF A!Used, A!Ids, A!Records, A!ToSet
  <2>4. \A i \in 1 .. Len(accounts_file.accounts) :
          accounts_file.accounts[i].credential_ref # job.new
    <3>1. accounts_file.accounts \in Seq(A!AccountRecord)
      BY <1>t DEF Sound, FileType
    <3> QED
      BY <3>1, <1>t, RecordsAreListed
  <2>5. Sound(f, made) /\ Usable(f, keychain, slots)
    BY <2>2, <2>4, <1>t DEF Sound, Usable
  <2> QED
    BY <1>2, <2>2, <2>3, <2>5, <1>f, <1>m, <1>i, SavingIsSound
<1>3. CASE A!Save([A!EmptyFile EXCEPT !.cleanup = {job.new}]) /\ unreadable' = TRUE
  <2>1. PICK f : f = [A!EmptyFile EXCEPT !.cleanup = {job.new}]
    OBVIOUS
  <2>2. /\ accounts_file' = f /\ committed' = committed \cup A!Used(f)
        /\ f.accounts = <<>> /\ f.cleanup = {job.new} /\ f \in FileType
    <3>1. f = [revision |-> 0, accounts |-> <<>>, selected |-> 0, cleanup |-> {job.new}]
      BY <2>1 DEF A!EmptyFile
    <3>2. <<>> \in Seq(A!AccountRecord) /\ {job.new} \in SUBSET A!Reference
          /\ 0 \in 0 .. MaxAccounts
      BY <1>n, AccountsAssumption
    <3>3. f \in FileType
      BY <3>1, <3>2 DEF FileType
    <3>4. f.accounts = <<>> /\ f.cleanup = {job.new}
      BY <3>1
    <3>5. accounts_file' = f /\ committed' = committed \cup A!Used(f)
      BY <1>3, <2>1 DEF A!Save
    <3> QED
      BY <3>3, <3>4, <3>5
  <2>3. f.accounts \in Seq(A!AccountRecord) /\ Len(f.accounts) = 0
    BY <2>2
  <2>4. A!Ids(f) = {}
    BY <2>3, RecordsAreListed
  <2>5. A!Ids(accounts_file)' = A!Ids(f)
    BY <2>2 DEF A!Ids, A!Records, A!ToSet
  <2>6. Sound(f, made) /\ Usable(f, keychain, slots)
    BY <2>2, <2>3, <1>t DEF Sound, Usable, Distinct
  <2> QED
    BY <1>3, <2>2, <2>4, <2>5, <2>6, <1>f, <1>m, <1>i, SavingIsSound
<1> QED
  BY <1>1, <1>2, <1>3 DEF A!Mark, A!fileUnchanged

\* The cleanup of a start deletes what is marked, and keeps the marks of what it could
\* not delete.
LEMMA CleaningKeepsAccounts ==
  ASSUME AccountsInv, A!RetryCleanup \/ A!SaveRemaining
  PROVE  FilesAreSound' /\ JobIsSound'
<1>t. /\ job \in JobType
      /\ Made /\ Sound(accounts_file, made) /\ Usable(accounts_file, keychain, slots)
      /\ made.references \in Nat
      /\ \A r \in keychain : r \in Nat /\ r <= made.references
  BY AccountsAssumption DEF AccountsInv, FilesAreSound, JobIsSound, Made
<1>m. made' = made /\ UNCHANGED <<unreadable, slots>> /\ Made'
  BY <1>t DEF A!RetryCleanup, A!SaveRemaining, A!outside, Made
<1>u. /\ accounts_file.accounts \in Seq(A!AccountRecord)
      /\ \A a \in A!Records(accounts_file) : a.credential_ref \in keychain /\ a.id \in slots
      /\ \A a \in A!Records(accounts_file) : a.credential_ref \notin accounts_file.cleanup
  <2>1. accounts_file.accounts \in Seq(A!AccountRecord)
    BY <1>t DEF Sound, FileType
  <2> QED
    BY <2>1, <1>t, RecordsAreListed, UsableRecords DEF Sound
<1>f. FilesAreSound
  BY DEF AccountsInv
<1>1. CASE A!RetryCleanup
  <2>1. PICK remaining \in SUBSET accounts_file.cleanup :
          /\ keychain' = keychain \ (accounts_file.cleanup \ remaining)
          /\ job' = [A!NoJob EXCEPT !.at = "retry", !.kind = "retry",
                                    !.file = [accounts_file EXCEPT !.cleanup = remaining]]
    BY <1>1 DEF A!RetryCleanup
  <2>2. UNCHANGED <<accounts_file, committed>>
    BY <1>1 DEF A!RetryCleanup, A!fileUnchanged
  <2>3. FilesAreSound'
    BY <2>1, <2>2, <1>f, <1>m, <1>t, <1>u, KeepingIsSound
  <2>4. PICK f : f = [accounts_file EXCEPT !.cleanup = remaining]
    OBVIOUS
  <2>5. f.accounts = accounts_file.accounts /\ f.cleanup = remaining /\ f \in FileType
    BY <2>4, <1>t DEF Sound, FileType
  <2>6. Sound(f, made) /\ Usable(f, keychain', slots)
    <3>1. Sound(f, made)
      BY <2>5, <1>t DEF Sound
    <3>2. f.accounts \in Seq(A!AccountRecord) /\ A!Records(f) = A!Records(accounts_file)
      BY <2>5, <1>u DEF A!Records
    <3> QED
      BY <3>1, <3>2, <2>1, <1>u, UsableRecords
  <2>7. job' = [at |-> "retry", kind |-> "retry", id |-> 0, new |-> 0, old |-> 0, file |-> f]
    BY <2>1, <2>4 DEF A!NoJob
  <2>8. /\ job'.at = "retry" /\ job'.kind = "retry" /\ job'.file = f /\ job' \in JobType
    BY <2>5, <2>7, AccountsAssumption DEF JobType, A!Place
  <2>9. A!Used(f) = A!Used(accounts_file)
    BY <2>5 DEF A!Used, A!Records
  <2>10. /\ Sound(job.file, made)' /\ Usable(job.file, keychain, slots)'
         /\ A!Used(job.file)' = A!Used(f) /\ A!Used(accounts_file)' = A!Used(accounts_file)
    BY <2>2, <2>6, <2>8, <1>m DEF Sound, Usable, A!Used, A!Records, A!ToSet
  <2> QED
    BY <2>1, <2>2, <2>3, <2>5, <2>8, <2>9, <2>10 DEF JobIsSound, Writing, Fresh
<1>2. CASE A!SaveRemaining
  <2>1. /\ job.at = "retry" /\ keychain' = keychain /\ job' = A!NoJob
        /\ A!Save(job.file) \/ UNCHANGED <<accounts_file, committed>>
    BY <1>2 DEF A!SaveRemaining, A!fileUnchanged, A!Done
  <2>2. CASE UNCHANGED <<accounts_file, committed>>
    BY <2>1, <2>2, <1>f, <1>m, <1>t, <1>u, KeepingIsSound, JobRests
  <2>3. CASE A!Save(job.file)
    <3>1. PICK f : f = job.file
      OBVIOUS
    <3>2. accounts_file' = f /\ committed' = committed \cup A!Used(f)
      BY <2>3, <3>1 DEF A!Save
    <3>3. /\ Sound(f, made) /\ Usable(f, keychain, slots)
          /\ A!Used(f) = A!Used(accounts_file)
          /\ keychain \cap accounts_file.cleanup \subseteq f.cleanup
      BY <2>1, <3>1 DEF AccountsInv, JobIsSound, Writing
    <3> QED
      BY <2>1, <3>2, <3>3, <1>f, <1>m, SavingIsSound, JobRests
  <2> QED
    BY <2>1, <2>2, <2>3
<1> QED
  BY <1>1, <1>2

\* A choice changes nothing that is referred to, and a kill leaves what is stored.
LEMMA ChoosingKeepsAccounts ==
  ASSUME AccountsInv,
         \/ \E id \in A!Account : A!SelectAccount(id) \/ A!SelectMailbox(id)
         \/ A!Crash
         \/ UNCHANGED <<accounts_file, keychain, slots, job, made, committed, unreadable>>
  PROVE  FilesAreSound' /\ JobIsSound'
<1>t. /\ job \in JobType
      /\ Made /\ Sound(accounts_file, made) /\ Usable(accounts_file, keychain, slots)
      /\ made.references \in Nat
      /\ \A r \in keychain : r \in Nat /\ r <= made.references
      /\ FilesAreSound
  BY AccountsAssumption DEF AccountsInv, FilesAreSound, JobIsSound, Made
<1>u. /\ accounts_file.accounts \in Seq(A!AccountRecord) /\ accounts_file \in FileType
      /\ \A a \in A!Records(accounts_file) : a.credential_ref \in keychain /\ a.id \in slots
      /\ \A i \in 1 .. Len(accounts_file.accounts) : accounts_file.accounts[i] \in A!AccountRecord
  <2>1. accounts_file.accounts \in Seq(A!AccountRecord) /\ accounts_file \in FileType
    BY <1>t DEF Sound, FileType
  <2> QED
    BY <2>1, <1>t, RecordsAreListed, UsableRecords
<1>i. ASSUME job.at = "idle", job' = job
      PROVE  JobIsSound'
  BY <1>i, <1>t DEF JobIsSound, Writing, Fresh
<1>1. ASSUME NEW id \in A!Account, A!SelectAccount(id)
      PROVE  FilesAreSound' /\ JobIsSound'
  <2>1. PICK f : f = [accounts_file EXCEPT !.selected = id]
    OBVIOUS
  <2>2. /\ accounts_file' = f /\ committed' = committed \cup A!Used(f)
        /\ UNCHANGED <<keychain, slots, job, made, unreadable>> /\ job.at = "idle"
    BY <1>1, <2>1 DEF A!SelectAccount, A!Save, A!Idle, A!outside
  <2>3. /\ f.accounts = accounts_file.accounts /\ f.cleanup = accounts_file.cleanup
        /\ f \in FileType
    BY SMTT(30), <2>1, <1>u, AccountsAssumption DEF FileType, A!Account
  <2>4. Sound(f, made) /\ Usable(f, keychain, slots) /\ A!Used(f) = A!Used(accounts_file)
    BY <2>3, <1>t DEF Sound, Usable, A!Used, A!Records
  <2> QED
    BY <2>2, <2>3, <2>4, <1>t, <1>i, SavingIsSound
<1>2. ASSUME NEW k \in A!Account, A!SelectMailbox(k)
      PROVE  FilesAreSound' /\ JobIsSound'
  <2>1. PICK f : f = [accounts_file EXCEPT !.accounts[k].mailbox = "chosen"]
    OBVIOUS
  <2>2. /\ accounts_file' = f /\ committed' = committed \cup A!Used(f)
        /\ UNCHANGED <<keychain, slots, job, made, unreadable>> /\ job.at = "idle"
        /\ k \in 1 .. Len(accounts_file.accounts)
    BY <1>2, <2>1 DEF A!SelectMailbox, A!Save, A!Idle, A!outside
  <2>3. PICK record : record = [accounts_file.accounts[k] EXCEPT !.mailbox = "chosen"]
    OBVIOUS
  <2>4. /\ record \in A!AccountRecord /\ record.id = accounts_file.accounts[k].id
        /\ record.credential_ref = accounts_file.accounts[k].credential_ref
    BY <2>2, <2>3, <1>u DEF A!AccountRecord
  <2>5. /\ f.accounts = [accounts_file.accounts EXCEPT ![k] = record]
        /\ f.cleanup = accounts_file.cleanup /\ f.revision = accounts_file.revision
        /\ f.selected = accounts_file.selected
        /\ f = [revision |-> f.revision, accounts |-> f.accounts, selected |-> f.selected,
                cleanup |-> f.cleanup]
    BY <2>1, <2>3, <1>u DEF FileType
  <2>6. /\ f.accounts \in Seq(A!AccountRecord) /\ Len(f.accounts) = Len(accounts_file.accounts)
        /\ \A i \in 1 .. Len(f.accounts) :
             /\ f.accounts[i].id = accounts_file.accounts[i].id
             /\ f.accounts[i].credential_ref = accounts_file.accounts[i].credential_ref
    BY <2>2, <2>4, <2>5, <1>u
  <2>7. f \in FileType
    <3>1. /\ accounts_file.revision \in Nat /\ accounts_file.selected \in 0 .. MaxAccounts
          /\ accounts_file.cleanup \in SUBSET A!Reference
      BY <1>u DEF FileType
    <3> QED
      BY <3>1, <2>5, <2>6 DEF FileType
  <2>8. Sound(f, made) /\ Usable(f, keychain, slots)
    BY <2>5, <2>6, <2>7, <1>t DEF Sound, Usable, Distinct
  <2>9. A!Used(f) = A!Used(accounts_file)
    <3>1. /\ A!Used(f) = {f.accounts[i].credential_ref : i \in 1 .. Len(f.accounts)}
          /\ A!Used(accounts_file) = {accounts_file.accounts[i].credential_ref :
                                        i \in 1 .. Len(accounts_file.accounts)}
      BY <2>6, <1>u, RecordsAreListed
    <3> QED
      BY <2>6, <3>1
  <2> QED
    BY <2>2, <2>5, <2>8, <2>9, <1>t, <1>i, SavingIsSound
<1>3. CASE A!Crash
  <2>1. UNCHANGED <<accounts_file, keychain, slots, made, committed, unreadable>> /\ job' = A!NoJob
    BY <1>3 DEF A!Crash, A!fileUnchanged, A!Done
  <2>2. Made'
    BY <2>1, <1>t DEF Made
  <2> QED
    BY <2>1, <2>2, <1>t, <1>u, KeepingIsSound, JobRests
<1>4. CASE UNCHANGED <<accounts_file, keychain, slots, job, made, committed, unreadable>>
  <2>1. FilesAreSound'
    BY <1>4 DEF AccountsInv, FilesAreSound, Made, Sound, Usable, A!OldPasswordsAreMarked,
                A!Used, A!Records, A!ToSet
  <2>2. JobIsSound'
    <3>1. /\ Sound(job.file, made)' <=> Sound(job.file, made)
          /\ Usable(job.file, keychain, slots)' <=> Usable(job.file, keychain, slots)
          /\ Usable(job.file, keychain \cup {job.new}, slots)'
                <=> Usable(job.file, keychain \cup {job.new}, slots)
      BY <1>4 DEF Sound, Usable
    <3>2. /\ A!Used(accounts_file)' = A!Used(accounts_file)
          /\ A!Used(job.file)' = A!Used(job.file) /\ A!Ids(accounts_file)' = A!Ids(accounts_file)
      BY <1>4 DEF A!Used, A!Ids, A!Records, A!ToSet
    <3> QED
      BY <1>4, <3>1, <3>2 DEF AccountsInv, JobIsSound, Fresh
  <2> QED
    BY <2>1, <2>2
<1> QED
  BY <1>1, <1>2, <1>3, <1>4

\* Where the accounts of a file are found.
LEMMA ChosenIsThere ==
  ASSUME NEW f, f.accounts \in Seq(A!AccountRecord), NEW id \in A!Ids(f),
         NEW i, i = CHOOSE k \in 1 .. Len(f.accounts) : f.accounts[k].id = id
  PROVE  i \in 1 .. Len(f.accounts) /\ f.accounts[i].id = id
<1>1. \E k \in 1 .. Len(f.accounts) : f.accounts[k].id = id
  BY RecordsAreListed
<1> QED
  BY <1>1

\* Commands that begin change no file yet: what they have in hand is sound.
LEMMA AdditionsKeepAccounts ==
  ASSUME AccountsInv, A!AddAccount
  PROVE  FilesAreSound' /\ JobIsSound'
<1>t. /\ Made /\ Sound(accounts_file, made) /\ Usable(accounts_file, keychain, slots)
      /\ made.references \in Nat /\ made.accounts \in Nat
      /\ \A r \in keychain \cup committed : r \in Nat /\ r <= made.references
      /\ FilesAreSound
  BY AccountsAssumption DEF AccountsInv, FilesAreSound, Made
<1>u. accounts_file.accounts \in Seq(A!AccountRecord) /\ Len(accounts_file.accounts) \in Nat
  BY <1>t DEF Sound, FileType
<1>1. PICK record, g :
        /\ record = [id |-> made.accounts + 1, credential_ref |-> made.references + 1,
                     mailbox |-> "none"]
        /\ g = [accounts_file EXCEPT !.accounts = Append(@, record), !.revision = @ + 1,
                                     !.selected = IF @ = 0 THEN record.id ELSE @]
  OBVIOUS
<1>2. /\ made.accounts < MaxAccounts /\ made.references < MaxReferences
      /\ made' = [accounts |-> made.accounts + 1, references |-> made.references + 1]
      /\ slots' = slots \cup {made.accounts + 1}
      /\ UNCHANGED <<accounts_file, keychain, committed, unreadable>>
  BY DEF A!AddAccount, A!outside
<1>3. /\ made'.accounts = made.accounts + 1 /\ made'.references = made.references + 1
      /\ Made' /\ record.id = made.accounts + 1 /\ record.credential_ref = made.references + 1
  BY <1>1, <1>2, <1>t, AccountsAssumption DEF Made
<1>4. job' = [at |-> "store", kind |-> "add", id |-> made.accounts + 1,
              new |-> made.references + 1, old |-> 0, file |-> g]
  <2>1. PICK r : r = [id |-> made'.accounts, credential_ref |-> made'.references, mailbox |-> "none"]
    OBVIOUS
  <2>2. r = record
    BY <2>1, <1>1, <1>3
  <2>3. job' = [at |-> "store", kind |-> "add", id |-> r.id, new |-> r.credential_ref, old |-> 0,
                file |-> [accounts_file EXCEPT !.accounts = Append(@, r), !.revision = @ + 1,
                                               !.selected = IF @ = 0 THEN r.id ELSE @]]
    BY <2>1 DEF A!AddAccount
  <2> QED
    BY <2>2, <2>3, <1>1, <1>3
<1>5. /\ Sound(g, made') /\ Sound(accounts_file, made')
      /\ g.cleanup = accounts_file.cleanup
      /\ Len(g.accounts) = Len(accounts_file.accounts) + 1 /\ g.accounts[Len(g.accounts)] = record
      /\ \A i \in 1 .. Len(accounts_file.accounts) : g.accounts[i] = accounts_file.accounts[i]
  <2>0. PICK f : f = accounts_file
    OBVIOUS
  <2>1. Made /\ Sound(f, made) /\ AccountIsMade
    BY <1>2, <1>t, <2>0 DEF AccountIsMade
  <2>2. record \in A!AccountRecord
    BY <1>1, <1>2, <1>t, AccountsAssumption DEF A!AccountRecord, A!Account, A!Reference
  <2>3. Adds(f, g, record)
    BY <1>1, <2>0 DEF Adds
  <2>4. Sound(g, made') /\ Sound(f, made') /\ AddsOnly(f, g, record)
    BY <2>1, <2>2, <2>3, <1>3, AddingIsSound
  <2> QED
    BY <2>0, <2>4 DEF AddsOnly
<1>6. FilesAreSound'
  <2>1. \A a \in A!Records(accounts_file) : a.credential_ref \in keychain' /\ a.id \in slots'
    BY <1>2, <1>t, <1>u, UsableRecords
  <2> QED
    BY <2>1, <1>2, <1>3, <1>5, <1>t, KeepingIsSound
<1>7. Usable(g, keychain' \cup {made.references + 1}, slots')
  <2> SUFFICES ASSUME NEW i \in 1 .. Len(g.accounts)
               PROVE  g.accounts[i].credential_ref \in keychain' \cup {made.references + 1}
                      /\ g.accounts[i].id \in slots'
    BY DEF Usable
  <2>1. CASE i = Len(g.accounts)
    BY <2>1, <1>2, <1>3, <1>5
  <2>2. CASE i # Len(g.accounts)
    <3>1. i \in 1 .. Len(accounts_file.accounts)
      BY <2>2, <1>5, <1>u
    <3> QED
      BY <3>1, <1>2, <1>5, <1>t DEF Usable
  <2> QED
    BY <2>1, <2>2
<1>8. A!Used(accounts_file) \subseteq A!Used(g)
  <2>1. g.accounts \in Seq(A!AccountRecord)
    BY <1>5 DEF Sound, FileType
  <2>2. \A i \in 1 .. Len(accounts_file.accounts) : i \in 1 .. Len(g.accounts)
    BY <1>5, <1>u
  <2>3. /\ A!Used(g) = {g.accounts[i].credential_ref : i \in 1 .. Len(g.accounts)}
        /\ A!Used(accounts_file) = {accounts_file.accounts[i].credential_ref :
                                      i \in 1 .. Len(accounts_file.accounts)}
    BY <2>1, <1>u, RecordsAreListed
  <2> QED
    BY <2>2, <2>3, <1>5
<1>9. made.accounts + 1 \notin A!Ids(accounts_file)
  <2>1. /\ A!Ids(accounts_file) = {accounts_file.accounts[i].id : i \in 1 .. Len(accounts_file.accounts)}
        /\ \A i \in 1 .. Len(accounts_file.accounts) : accounts_file.accounts[i].id \in Nat
    <3>1. \A a \in A!AccountRecord : a.id \in Nat
      BY AccountsAssumption DEF A!AccountRecord, A!Account
    <3>2. \A k \in 1 .. Len(accounts_file.accounts) : accounts_file.accounts[k] \in A!AccountRecord
      BY <1>u
    <3>3. A!Ids(accounts_file) = {accounts_file.accounts[k].id : k \in 1 .. Len(accounts_file.accounts)}
      BY <1>u, RecordsAreListed
    <3> QED
      BY <3>1, <3>2, <3>3
  <2> QED
    BY <2>1, <1>t DEF Sound
<1>10. /\ job'.at = "store" /\ job'.kind = "add" /\ job'.id = made.accounts + 1
       /\ job'.new = made.references + 1 /\ job'.old = 0 /\ job'.file = g
  BY <1>4
<1>11. job' \in JobType
  <2>1. g \in FileType /\ made.accounts + 1 \in 0 .. MaxAccounts
        /\ made.references + 1 \in 0 .. MaxReferences
    BY SMTT(30), <1>2, <1>5, <1>t, AccountsAssumption DEF Sound
  <2> QED
    BY <2>1, <1>4, AccountsAssumption DEF JobType, A!Place
<1>12. /\ A!Used(accounts_file)' = A!Used(accounts_file) /\ A!Ids(accounts_file)' = A!Ids(accounts_file)
       /\ A!Used(job.file)' = A!Used(g)
       /\ Sound(job.file, made)' /\ Usable(job.file, keychain \cup {job.new}, slots)'
  BY <1>2, <1>5, <1>7, <1>10 DEF A!Used, A!Ids, A!Records, A!ToSet, Sound, Usable
<1>13. /\ made.references + 1 \in Nat \ {0} /\ made.references + 1 <= made'.references
       /\ made.references + 1 \notin committed
  BY <1>3, <1>t
<1> QED
  BY <1>2, <1>5, <1>6, <1>8, <1>9, <1>10, <1>11, <1>12, <1>13 DEF JobIsSound, Writing, Fresh

\* The file of a removal remembers the password it drops.
LEMMA RemovalsKeepAccounts ==
  ASSUME AccountsInv, NEW id \in A!Account, A!RemoveAccount(id)
  PROVE  FilesAreSound' /\ JobIsSound'
<1>t. /\ Made /\ Sound(accounts_file, made) /\ Usable(accounts_file, keychain, slots)
      /\ made.references \in Nat /\ made.accounts \in Nat
      /\ \A r \in keychain \cup committed : r \in Nat /\ r <= made.references
      /\ FilesAreSound
  BY AccountsAssumption DEF AccountsInv, FilesAreSound, Made
<1>u. /\ accounts_file.accounts \in Seq(A!AccountRecord) /\ Len(accounts_file.accounts) \in Nat
      /\ accounts_file \in FileType
      /\ \A i \in 1 .. Len(accounts_file.accounts) : accounts_file.accounts[i] \in A!AccountRecord
  <2>1. accounts_file.accounts \in Seq(A!AccountRecord) /\ Len(accounts_file.accounts) \in Nat
        /\ accounts_file \in FileType
    BY <1>t DEF Sound, FileType
  <2> QED
    BY <2>1, RecordsAreListed
<1>1. PICK i, left :
        /\ i = CHOOSE k \in 1 .. Len(accounts_file.accounts) : accounts_file.accounts[k].id = id
        /\ left = A!RemoveAt(accounts_file.accounts, i)
  OBVIOUS
<1>2. i \in 1 .. Len(accounts_file.accounts) /\ accounts_file.accounts[i].id = id
  BY <1>1, <1>u, ChosenIsThere DEF A!RemoveAccount
<1>3. PICK g :
        g = [revision |-> accounts_file.revision + 1, accounts |-> left,
             selected |-> IF accounts_file.selected # id THEN accounts_file.selected
                          ELSE IF left = <<>> THEN 0 ELSE Head(left).id,
             cleanup |-> accounts_file.cleanup \cup {accounts_file.accounts[i].credential_ref}]
  OBVIOUS
<1>4. /\ job' = [at |-> "save", kind |-> "remove", id |-> id, new |-> 0,
                 old |-> accounts_file.accounts[i].credential_ref, file |-> g]
      /\ UNCHANGED <<accounts_file, keychain, slots, made, committed, unreadable>>
  BY <1>1, <1>3 DEF A!RemoveAccount, A!outside
<1>5. left \in Seq(A!AccountRecord)
  <2>1. SubSeq(accounts_file.accounts, 1, i - 1) \in Seq(A!AccountRecord)
    BY <1>2, <1>u
  <2>2. SubSeq(accounts_file.accounts, i + 1, Len(accounts_file.accounts))
          \in Seq(A!AccountRecord)
    BY <1>2, <1>u
  <2>3. \A a, b \in Seq(A!AccountRecord) : a \o b \in Seq(A!AccountRecord)
    OBVIOUS
  <2>4. left = SubSeq(accounts_file.accounts, 1, i - 1)
                 \o SubSeq(accounts_file.accounts, i + 1, Len(accounts_file.accounts))
    BY <1>1 DEF A!RemoveAt
  <2> QED
    BY <2>1, <2>2, <2>3, <2>4
<1>6. g.selected \in 0 .. MaxAccounts /\ g.revision \in Nat /\ g.accounts = left
      /\ g.cleanup = accounts_file.cleanup \cup {accounts_file.accounts[i].credential_ref}
  <2>1. left # <<>> => Head(left) \in A!AccountRecord
    BY <1>5
  <2>2. left # <<>> => Head(left).id \in 0 .. MaxAccounts
    BY <2>1, AccountsAssumption DEF A!AccountRecord, A!Account
  <2>3. accounts_file.selected \in 0 .. MaxAccounts /\ accounts_file.revision \in Nat
        /\ 0 \in 0 .. MaxAccounts
    BY <1>u, AccountsAssumption DEF FileType
  <2>4. g.selected = IF accounts_file.selected # id THEN accounts_file.selected
                     ELSE IF left = <<>> THEN 0 ELSE Head(left).id
    BY <1>3
  <2> QED
    BY <2>2, <2>3, <2>4, <1>3
<1>7. g \in [revision : Nat, accounts : {left}, selected : 0 .. MaxAccounts,
             cleanup : {accounts_file.cleanup \cup {accounts_file.accounts[i].credential_ref}}]
  BY <1>3, <1>6
<1>8. /\ Sound(g, made)
      /\ \A j \in 1 .. Len(left) : \E k \in 1 .. Len(accounts_file.accounts) :
           k # i /\ left[j] = accounts_file.accounts[k]
      /\ \A k \in 1 .. Len(accounts_file.accounts) :
           k # i => \E j \in 1 .. Len(left) : left[j] = accounts_file.accounts[k]
  <2>1. PICK f : f = accounts_file
    OBVIOUS
  <2>2. Made /\ Sound(f, made) /\ Removes(f, g, i)
    BY <1>1, <1>2, <1>7, <1>t, <2>1 DEF Removes
  <2>3. Sound(g, made) /\ RemovesOnly(f, g, i)
    BY <2>2, RemovingIsSound, SMTT(60)
  <2> QED
    BY <2>1, <2>3, <1>6 DEF RemovesOnly
<1>9. Usable(g, keychain, slots)
  BY <1>6, <1>8, <1>t DEF Usable
<1>10. A!Used(accounts_file) \subseteq A!Used(g) \cup g.cleanup
  <2>1. /\ A!Used(g) = {g.accounts[j].credential_ref : j \in 1 .. Len(g.accounts)}
        /\ A!Used(accounts_file) = {accounts_file.accounts[k].credential_ref :
                                      k \in 1 .. Len(accounts_file.accounts)}
    BY <1>5, <1>6, <1>u, RecordsAreListed
  <2>2. ASSUME NEW k \in 1 .. Len(accounts_file.accounts)
        PROVE  accounts_file.accounts[k].credential_ref \in A!Used(g) \cup g.cleanup
    <3>1. CASE k = i
      BY <3>1, <1>6
    <3>2. CASE k # i
      <4>1. PICK j \in 1 .. Len(left) : left[j] = accounts_file.accounts[k]
        BY <3>2, <1>8
      <4>2. left[j].credential_ref \in A!Used(g)
        BY <2>1, <1>6
      <4> QED
        BY <4>1, <4>2
    <3> QED
      BY <3>1, <3>2
  <2> QED
    BY <2>1, <2>2
<1>11. FilesAreSound'
  BY <1>4, <1>t DEF FilesAreSound, Made, Sound, Usable, A!OldPasswordsAreMarked, A!Used,
                    A!Records, A!ToSet
<1>12. /\ job'.at = "save" /\ job'.kind = "remove" /\ job'.file = g
       /\ job'.old = accounts_file.accounts[i].credential_ref
  BY <1>4
<1>13. job' \in JobType
  <2>1. g \in FileType /\ id \in 0 .. MaxAccounts
        /\ accounts_file.accounts[i].credential_ref \in 0 .. MaxReferences
    BY SMTT(30), <1>2, <1>8, <1>u, AccountsAssumption DEF Sound, A!Account, A!AccountRecord, A!Reference
  <2> QED
    BY <2>1, <1>4, AccountsAssumption DEF JobType, A!Place
<1>14. /\ A!Used(accounts_file)' = A!Used(accounts_file)
       /\ A!Used(job.file)' = A!Used(g)
       /\ Sound(job.file, made)' /\ Usable(job.file, keychain, slots)'
  BY <1>4, <1>8, <1>9, <1>12 DEF A!Used, A!Records, A!ToSet, Sound, Usable
<1> QED
  BY <1>4, <1>6, <1>10, <1>11, <1>12, <1>13, <1>14 DEF JobIsSound, Writing, Fresh

\* The file of a rotation marks the password it replaces; without one, the file only has
\* another revision.
LEMMA RotationsKeepAccounts ==
  ASSUME AccountsInv, NEW id \in A!Account, A!UpdateAccount(id, TRUE)
  PROVE  FilesAreSound' /\ JobIsSound'
<1>t. /\ Made /\ Sound(accounts_file, made) /\ Usable(accounts_file, keychain, slots)
      /\ made.references \in Nat /\ made.accounts \in Nat
      /\ \A r \in keychain \cup committed : r \in Nat /\ r <= made.references
      /\ FilesAreSound
  BY AccountsAssumption DEF AccountsInv, FilesAreSound, Made
<1>u. /\ accounts_file.accounts \in Seq(A!AccountRecord) /\ Len(accounts_file.accounts) \in Nat
      /\ \A i \in 1 .. Len(accounts_file.accounts) : accounts_file.accounts[i] \in A!AccountRecord
  <2>1. accounts_file.accounts \in Seq(A!AccountRecord) /\ Len(accounts_file.accounts) \in Nat
    BY <1>t DEF Sound, FileType
  <2> QED
    BY <2>1, RecordsAreListed
<1>1. PICK i, old, new :
        /\ i = CHOOSE k \in 1 .. Len(accounts_file.accounts) : accounts_file.accounts[k].id = id
        /\ old = accounts_file.accounts[i].credential_ref
        /\ new = made.references + 1
  OBVIOUS
<1>2. i \in 1 .. Len(accounts_file.accounts) /\ accounts_file.accounts[i].id = id
  BY <1>1, <1>u, ChosenIsThere DEF A!UpdateAccount
<1>3. PICK g : Rotates(accounts_file, g, i, new, old)
  BY DEF Rotates
<1>4. /\ new \in A!Reference /\ made' = [made EXCEPT !.references = new]
      /\ job' = [at |-> "store", kind |-> "update", id |-> id, new |-> new, old |-> old, file |-> g]
      /\ UNCHANGED <<accounts_file, keychain, slots, committed, unreadable>>
  BY <1>1, <1>3 DEF A!UpdateAccount, A!outside, Rotates
<1>5. /\ Sound(g, made') /\ Sound(accounts_file, made')
      /\ g.cleanup = accounts_file.cleanup \cup {old}
      /\ Len(g.accounts) = Len(accounts_file.accounts) /\ g.accounts[i].credential_ref = new
      /\ g.accounts[i].id = accounts_file.accounts[i].id
      /\ \A j \in 1 .. Len(accounts_file.accounts) :
           j # i => g.accounts[j] = accounts_file.accounts[j]
  <2>1. PICK f : f = accounts_file
    OBVIOUS
  <2>2. made.references < MaxReferences
    BY <1>1, <1>4, <1>t, AccountsAssumption DEF A!Reference
  <2>3. ReferenceIsMade
    BY <1>1, <1>4, <2>2 DEF ReferenceIsMade
  <2>5. RotatesAt(f, i, new, old)
    BY <1>1, <1>2, <1>4, <2>1 DEF RotatesAt
  <2>6. Made /\ Sound(f, made) /\ Rotates(f, g, i, new, old)
    BY <1>3, <1>t, <2>1
  <2>4. Sound(g, made') /\ Sound(f, made') /\ RotatesOnly(f, g, i, new, old)
    BY <2>3, <2>5, <2>6, RotatingIsSound
  <2> QED
    BY <2>1, <2>4 DEF RotatesOnly
<1>6. /\ made'.accounts = made.accounts /\ made'.references = new /\ Made'
  BY <1>1, <1>4, <1>t, AccountsAssumption DEF Made, A!Reference
<1>7. FilesAreSound'
  <2>1. \A a \in A!Records(accounts_file) : a.credential_ref \in keychain' /\ a.id \in slots'
    BY <1>4, <1>t, <1>u, UsableRecords
  <2>2. UNCHANGED <<accounts_file, committed, unreadable, keychain>>
    BY <1>4
  <2>3. made'.references \in Nat /\ made'.references >= made.references
    BY <1>1, <1>6, <1>t
  <2>4. \A r \in keychain' : r \in Nat /\ r <= made'.references
    BY <2>2, <2>3, <1>t
  <2>5. \A r \in keychain' : r \in keychain \/ r \notin committed
    BY <2>2
  <2>6. FilesAreSound /\ Made' /\ Sound(accounts_file, made')
    BY <1>5, <1>6, <1>t
  <2> QED
    BY <2>1, <2>2, <2>3, <2>4, <2>5, <2>6, KeepingIsSound
<1>8. Usable(g, keychain' \cup {new}, slots')
  BY <1>2, <1>4, <1>5, <1>t DEF Usable
<1>9. A!Used(accounts_file) \cup accounts_file.cleanup \subseteq A!Used(g) \cup g.cleanup
  <2>1. g.accounts \in Seq(A!AccountRecord)
    BY <1>5 DEF Sound, FileType
  <2>2. /\ A!Used(g) = {g.accounts[j].credential_ref : j \in 1 .. Len(g.accounts)}
        /\ A!Used(accounts_file) = {accounts_file.accounts[k].credential_ref :
                                      k \in 1 .. Len(accounts_file.accounts)}
    BY <2>1, <1>u, RecordsAreListed
  <2>3. ASSUME NEW k \in 1 .. Len(accounts_file.accounts)
        PROVE  accounts_file.accounts[k].credential_ref \in A!Used(g) \cup g.cleanup
    <3>1. CASE k = i
      BY <3>1, <1>1, <1>5
    <3>2. CASE k # i
      <4>1. k \in 1 .. Len(g.accounts) /\ g.accounts[k] = accounts_file.accounts[k]
        BY <3>2, <1>5
      <4>2. g.accounts[k].credential_ref \in A!Used(g)
        BY <4>1, <2>2
      <4> QED
        BY <4>1, <4>2
    <3> QED
      BY <3>1, <3>2
  <2>4. accounts_file.cleanup \subseteq g.cleanup
    BY <1>5
  <2> QED
    BY <2>2, <2>3, <2>4
<1>10. old \in A!Reference /\ old # 0 /\ new \in Nat \ {0} /\ new \notin committed
  <2>1. old \in A!Reference
    BY <1>1, <1>2, <1>u DEF A!AccountRecord
  <2> QED
    BY SMTT(30), <2>1, <1>1, <1>t, AccountsAssumption DEF A!Reference
<1>11. /\ job'.at = "store" /\ job'.kind = "update" /\ job'.id = id /\ job'.new = new
       /\ job'.old = old /\ job'.file = g
  BY <1>4
<1>12. job' \in JobType
  <2>1. g \in FileType /\ id \in 0 .. MaxAccounts /\ new \in 0 .. MaxReferences
        /\ old \in 0 .. MaxReferences
    BY <1>4, <1>5, <1>10, AccountsAssumption DEF Sound, A!Account, A!Reference
  <2> QED
    BY <2>1, <1>4, AccountsAssumption DEF JobType, A!Place
<1>13. /\ A!Used(accounts_file)' = A!Used(accounts_file)
       /\ A!Used(job.file)' = A!Used(g)
       /\ Sound(job.file, made)' /\ Usable(job.file, keychain \cup {job.new}, slots)'
  BY <1>4, <1>5, <1>8, <1>11 DEF A!Used, A!Records, A!ToSet, Sound, Usable
<1>14. new <= made'.references
  BY <1>6, <1>10
<1> QED
  BY <1>4, <1>5, <1>7, <1>9, <1>10, <1>11, <1>12, <1>13, <1>14 DEF JobIsSound, Writing, Fresh

\* Without a new password, the file only has another revision.
LEMMA EditsKeepAccounts ==
  ASSUME AccountsInv, NEW id \in A!Account, A!UpdateAccount(id, FALSE)
  PROVE  FilesAreSound' /\ JobIsSound'
<1>t. /\ Made /\ Sound(accounts_file, made) /\ Usable(accounts_file, keychain, slots)
      /\ FilesAreSound
  BY AccountsAssumption DEF AccountsInv, FilesAreSound, Made
<1>u. /\ accounts_file.accounts \in Seq(A!AccountRecord) /\ Len(accounts_file.accounts) \in Nat
      /\ accounts_file \in FileType
      /\ \A i \in 1 .. Len(accounts_file.accounts) : accounts_file.accounts[i] \in A!AccountRecord
  <2>1. accounts_file.accounts \in Seq(A!AccountRecord) /\ Len(accounts_file.accounts) \in Nat
        /\ accounts_file \in FileType
    BY <1>t DEF Sound, FileType
  <2> QED
    BY <2>1, RecordsAreListed
<1>1. PICK i, old :
        /\ i = CHOOSE k \in 1 .. Len(accounts_file.accounts) : accounts_file.accounts[k].id = id
        /\ old = accounts_file.accounts[i].credential_ref
  OBVIOUS
<1>2. i \in 1 .. Len(accounts_file.accounts) /\ accounts_file.accounts[i].id = id
  BY <1>1, <1>u, ChosenIsThere DEF A!UpdateAccount
<1>3. PICK g : g = [accounts_file EXCEPT !.accounts[i].credential_ref = old, !.revision = @ + 1,
                                         !.cleanup = @]
  OBVIOUS
<1>4. /\ job' = [at |-> "save", kind |-> "update", id |-> id, new |-> old, old |-> 0, file |-> g]
      /\ UNCHANGED <<made, accounts_file, keychain, slots, committed, unreadable>>
  BY <1>1, <1>3 DEF A!UpdateAccount, A!outside
<1>5. PICK record : record = [accounts_file.accounts[i] EXCEPT !.credential_ref = old]
  OBVIOUS
<1>6. /\ record \in A!AccountRecord /\ record.id = accounts_file.accounts[i].id
      /\ record.credential_ref = accounts_file.accounts[i].credential_ref
  BY <1>1, <1>2, <1>5, <1>u DEF A!AccountRecord
<1>7. /\ g.accounts = [accounts_file.accounts EXCEPT ![i] = record]
      /\ g.cleanup = accounts_file.cleanup /\ g.revision = accounts_file.revision + 1
      /\ g.selected = accounts_file.selected
      /\ g = [revision |-> g.revision, accounts |-> g.accounts, selected |-> g.selected,
              cleanup |-> g.cleanup]
  BY <1>3, <1>5, <1>u DEF FileType
<1>8. /\ g.accounts \in Seq(A!AccountRecord) /\ Len(g.accounts) = Len(accounts_file.accounts)
      /\ \A k \in 1 .. Len(g.accounts) :
           /\ g.accounts[k].id = accounts_file.accounts[k].id
           /\ g.accounts[k].credential_ref = accounts_file.accounts[k].credential_ref
  BY <1>2, <1>6, <1>7, <1>u
<1>9. g \in FileType
  <2>1. /\ accounts_file.revision \in Nat /\ accounts_file.selected \in 0 .. MaxAccounts
        /\ accounts_file.cleanup \in SUBSET A!Reference
    BY <1>u DEF FileType
  <2>2. /\ g.revision \in Nat /\ g.selected \in 0 .. MaxAccounts
        /\ g.cleanup \in SUBSET A!Reference
    BY <2>1, <1>7
  <2>3. /\ g = [revision |-> g.revision, accounts |-> g.accounts, selected |-> g.selected,
                cleanup |-> g.cleanup]
        /\ g.accounts \in Seq(A!AccountRecord)
    BY <1>7, <1>8
  <2> QED
    BY <2>2, <2>3 DEF FileType
<1>10. Sound(g, made) /\ Usable(g, keychain, slots)
  BY <1>7, <1>8, <1>9, <1>t DEF Sound, Usable, Distinct
<1>11. A!Used(g) = A!Used(accounts_file)
  <2>1. /\ A!Used(g) = {g.accounts[k].credential_ref : k \in 1 .. Len(g.accounts)}
        /\ A!Used(accounts_file) = {accounts_file.accounts[k].credential_ref :
                                      k \in 1 .. Len(accounts_file.accounts)}
    BY <1>8, <1>u, RecordsAreListed
  <2> QED
    BY <1>8, <2>1
<1>12. FilesAreSound'
  BY <1>4, <1>t DEF FilesAreSound, Made, Sound, Usable, A!OldPasswordsAreMarked, A!Used,
                    A!Records, A!ToSet
<1>13. /\ job'.at = "save" /\ job'.kind = "update" /\ job'.old = 0 /\ job'.file = g
  BY <1>4
<1>14. job' \in JobType
  <2>1. old \in A!Reference
    BY <1>1, <1>2, <1>u DEF A!AccountRecord
  <2>2. id \in 0 .. MaxAccounts /\ old \in 0 .. MaxReferences
    BY <2>1, AccountsAssumption DEF A!Account, A!Reference
  <2> QED
    BY <2>2, <1>4, <1>9, AccountsAssumption DEF JobType, A!Place
<1>15. /\ A!Used(accounts_file)' = A!Used(accounts_file)
       /\ A!Used(job.file)' = A!Used(g)
       /\ Sound(job.file, made)' /\ Usable(job.file, keychain, slots)'
  BY <1>4, <1>10, <1>13 DEF A!Used, A!Records, A!ToSet, Sound, Usable
<1> QED
  BY <1>4, <1>7, <1>11, <1>12, <1>13, <1>14, <1>15 DEF JobIsSound, Writing, Fresh

\* Every step of the accounts keeps the invariant.
LEMMA AccountsGoOn ==
  ASSUME AccountsInv, A!Next
  PROVE  AccountsInv'
<1>1. DirectoryIsSound'
  BY DirectoryGoesOn DEF AccountsInv
<1>2. CASE A!Initialize \/ A!InitializeStep \/ A!InitializeFails \/ A!complete_onboarding
  <2>1. UNCHANGED <<accounts_file, keychain, slots, job, made, committed, unreadable>>
    BY <1>2 DEF A!Initialize, A!InitializeStep, A!InitializeFails, A!complete_onboarding
  <2> QED
    BY <1>1, <2>1, ChoosingKeepsAccounts DEF AccountsInv
<1>3. CASE A!AddAccount
  BY <1>1, <1>3, AdditionsKeepAccounts DEF AccountsInv
<1>4. ASSUME NEW id \in A!Account, A!RemoveAccount(id)
      PROVE  AccountsInv'
  BY <1>1, <1>4, RemovalsKeepAccounts DEF AccountsInv
<1>5. ASSUME NEW id \in A!Account, NEW rotates \in BOOLEAN, A!UpdateAccount(id, rotates)
      PROVE  AccountsInv'
  <2>1. CASE rotates
    <3>1. A!UpdateAccount(id, TRUE)
      BY <1>5, <2>1 DEF A!UpdateAccount
    <3> QED
      BY <1>1, <3>1, RotationsKeepAccounts DEF AccountsInv
  <2>2. CASE ~rotates
    <3>1. A!UpdateAccount(id, FALSE)
      BY <1>5, <2>2 DEF A!UpdateAccount
    <3> QED
      BY <1>1, <3>1, EditsKeepAccounts DEF AccountsInv
  <2> QED
    BY <2>1, <2>2
<1>6. CASE A!StorePassword
  BY <1>1, <1>6, StoringKeepsAccounts DEF AccountsInv
<1>7. CASE A!SaveAccounts
  BY <1>1, <1>7, SavingKeepsAccounts DEF AccountsInv
<1>8. CASE A!DeletePassword \/ A!Unmark
  BY <1>1, <1>8, DeletingKeepsAccounts DEF AccountsInv
<1>9. CASE A!Undo \/ A!Unslot
  BY <1>1, <1>9, UndoingKeepsAccounts DEF AccountsInv
<1>10. CASE A!Mark
  BY <1>1, <1>10, MarkingKeepsAccounts DEF AccountsInv
<1>11. CASE A!RetryCleanup \/ A!SaveRemaining
  BY <1>1, <1>11, CleaningKeepsAccounts DEF AccountsInv
<1>12. CASE \/ \E id \in A!Account : A!SelectAccount(id) \/ A!SelectMailbox(id)
            \/ A!Crash
  BY <1>1, <1>12, ChoosingKeepsAccounts DEF AccountsInv
<1> QED
  BY <1>2, <1>3, <1>4, <1>5, <1>6, <1>7, <1>8, <1>9, <1>10, <1>11, <1>12 DEF A!Next

\* What the invariant says of the accounts.
LEMMA AccountsHold ==
  ASSUME AccountsInv
  PROVE  A!ConfiguredDataIsWhole /\ A!AccountsAreUsable /\ A!OldPasswordsAreMarked
<1>1. accounts_file.accounts \in Seq(A!AccountRecord)
  BY DEF AccountsInv, FilesAreSound, Sound, FileType
<1>2. A!AccountsAreUsable
  BY <1>1, RecordsAreListed DEF AccountsInv, FilesAreSound, Sound, Usable, A!AccountsAreUsable
<1> QED
  BY <1>2 DEF AccountsInv, FilesAreSound, DirectoryIsSound, A!ConfiguredDataIsWhole,
              A!is_compatible_data_directory

-----------------------------------------------------------------------------
(* Attachments: what a request has in hand *)

\* The places where a request has the content of its attachment in hand, before and
\* after the row names it.
Storing == {"store", "write", "rename", "update"}
Copying == {"copy", "place"}
\* The places that only a request for an attachment reaches.
ForAttachments == Storing \cup Copying \cup {"prepare", "look", "fetch", "again"}

RequestType == [at : T!Places, part : Part \cup {T!Raw}, has : Content \cup {"missing"}]

AttachmentTypes ==
    /\ content \in [Part -> Content]
    /\ listed \subseteq Part
    /\ hash \in [Part -> Content \cup {"missing"}]
    /\ files \in [Content -> {"none", "whole"}]
    /\ DOMAIN opened = Part
    /\ request \in [Editor -> RequestType]

\* What a request has in hand is the content of its attachment, and it is in the store
\* before the row names it and while it is copied.
HandsAreRight ==
    \A t \in Editor :
        /\ request[t].at \in ForAttachments => request[t].part \in Part
        /\ request[t].at \in Storing \cup Copying => request[t].has = content[request[t].part]
        /\ request[t].at \in Copying \cup {"update"} => files[request[t].has] = "whole"

\* A copy made to open an attachment is the attachment until somebody edits it.
CopiesAreRight == \A p \in Part : opened[p] \in {"none", content[p], "edited"}

AttachmentsInv ==
    /\ AttachmentTypes
    /\ HandsAreRight
    /\ T!AvailableIsStored
    /\ CopiesAreRight
    /\ T!GivenIsTheAttachment

\* The first state has no request, no content and no copy.
LEMMA AttachmentsBegin == T!Init => AttachmentsInv
  BY DEF T!Init, AttachmentsInv, AttachmentTypes, RequestType, HandsAreRight, T!AvailableIsStored, CopiesAreRight,
         T!GivenIsTheAttachment, T!Nothing, T!At, T!Places, Storing, Copying, ForAttachments, T!Raw

\* A step of one request that touches no row, file or copy keeps the invariant if the
\* request goes to a place that fits what it has in hand.
LEMMA RequestMoves ==
  ASSUME AttachmentsInv, NEW t \in Editor, NEW r \in RequestType,
         request' = [request EXCEPT ![t] = r],
         r.at \in ForAttachments => r.part \in Part,
         r.at \in Storing \cup Copying => r.has = content[r.part],
         r.at \in Copying \cup {"update"} => files[r.has] = "whole",
         (r.at = "ready" /\ r.part # T!Raw) => opened[r.part] \in {content[r.part], "edited"},
         UNCHANGED <<content, hash, files, opened>>, listed' \subseteq listed
  PROVE  AttachmentsInv'
<1>1. \A u \in Editor : request'[u] = IF u = t THEN r ELSE request[u]
  BY DEF AttachmentsInv, AttachmentTypes
<1>2. AttachmentTypes'
  BY DEF AttachmentsInv, AttachmentTypes
<1>3. HandsAreRight'
  BY <1>1 DEF AttachmentsInv, HandsAreRight
<1>4. T!AvailableIsStored' /\ CopiesAreRight'
  BY DEF AttachmentsInv, T!AvailableIsStored, CopiesAreRight
<1>5. T!GivenIsTheAttachment'
  BY <1>1 DEF AttachmentsInv, T!GivenIsTheAttachment, T!At
<1> QED BY <1>2, <1>3, <1>4, <1>5 DEF AttachmentsInv

\* The steps of a request: the ones that only move it, and the three that write.
LEMMA RequestStepKeeps ==
  ASSUME AttachmentsInv, NEW t \in Editor, T!RequestStep(t)
  PROVE  AttachmentsInv'
<1> DEFINE r == request[t]
<1>r. r \in RequestType /\ T!Nothing \in RequestType
  BY DEF AttachmentsInv, AttachmentTypes, RequestType, T!Nothing, T!Places
<1>n. T!Nothing.at = "idle"
  BY DEF T!Nothing
<1>f. ASSUME T!Fail(t), UNCHANGED <<content, hash, files, opened>>, listed' \subseteq listed
      PROVE  AttachmentsInv'
  BY <1>r, <1>n, <1>f, RequestMoves DEF T!Fail, ForAttachments, Storing, Copying
<1>g. ASSUME NEW place \in T!Places, T!Go(t, place),
             UNCHANGED <<content, hash, files, opened>>, listed' \subseteq listed,
             place \in ForAttachments => r.part \in Part,
             place \in Storing \cup Copying => r.has = content[r.part],
             place \in Copying \cup {"update"} => files[r.has] = "whole",
             (place = "ready" /\ r.part # T!Raw) => opened[r.part] \in {content[r.part], "edited"}
      PROVE  AttachmentsInv'
  <2> DEFINE q == [r EXCEPT !.at = place]
  <2>1. q \in RequestType /\ q.at = place /\ q.part = r.part /\ q.has = r.has
    BY <1>r DEF RequestType
  <2>2. request' = [request EXCEPT ![t] = q]
    BY <1>g DEF T!Go
  <2> HIDE DEF q
  <2> QED BY <1>g, <2>1, <2>2, RequestMoves
<1>w. ASSUME NEW place \in T!Places, NEW c \in Content, T!GoWith(t, place, c),
             UNCHANGED <<content, hash, files, opened>>, listed' \subseteq listed,
             place \in ForAttachments \ {"update"}, r.part \in Part, c = content[r.part],
             place \in Copying => files[c] = "whole"
      PROVE  AttachmentsInv'
  <2> DEFINE q == [r EXCEPT !.at = place, !.has = c]
  <2>1. q \in RequestType /\ q.at = place /\ q.part = r.part /\ q.has = c
    BY <1>r DEF RequestType
  <2>2. request' = [request EXCEPT ![t] = q]
    BY <1>w DEF T!GoWith
  <2>3. place # "ready"
    BY <1>w DEF ForAttachments, Storing, Copying
  <2> HIDE DEF q
  <2> QED BY <1>w, <2>1, <2>2, <2>3, RequestMoves
<1>h. /\ r.at \in ForAttachments => r.part \in Part
      /\ r.at \in Storing \cup Copying => r.has = content[r.part]
      /\ r.at \in Copying \cup {"update"} => files[r.has] = "whole"
  BY DEF AttachmentsInv, HandsAreRight
<1>c. \A p \in Part : content[p] \in Content
  BY DEF AttachmentsInv, AttachmentTypes
<1>1. ASSUME NEW part \in Part, T!Ask(t, part) PROVE AttachmentsInv'
  <2>1. [T!Nothing EXCEPT !.at = "prepare", !.part = part] \in RequestType
    BY DEF T!Nothing, RequestType, T!Places
  <2> QED BY <1>1, <2>1, RequestMoves
          DEF T!Ask, ForAttachments, Storing, Copying, T!Nothing
<1>2. CASE T!ensure_raw_message(t)
  <2>1. \A place \in {"ready", "whole"} : [T!Nothing EXCEPT !.at = place] \in RequestType
    BY DEF T!Nothing, RequestType, T!Places
  <2> QED BY <1>2, <2>1, RequestMoves
          DEF T!ensure_raw_message, ForAttachments, Storing, Copying, T!Nothing
<1>3. CASE T!prepare_message_attachment(t)
  <2>1. r.part \in Part
    BY <1>3, <1>h DEF T!prepare_message_attachment, T!At, ForAttachments
  <2>2. CASE T!HashOf(r.part) # "missing"
    <3>1. /\ T!HashOf(r.part) = content[r.part]
          /\ files[content[r.part]] = "whole"
      BY <2>1, <2>2 DEF T!HashOf, T!Available, AttachmentsInv, T!AvailableIsStored
    <3>2. T!GoWith(t, "copy", content[r.part])
      BY <1>3, <2>2, <3>1 DEF T!prepare_message_attachment
    <3> QED BY <1>3, <1>w, <1>c, <2>1, <3>1, <3>2
            DEF T!prepare_message_attachment, ForAttachments, Storing, Copying, T!Places
  <2>3. CASE T!HashOf(r.part) = "missing"
    <3>1. T!Go(t, "look") \/ T!Fail(t)
      BY <1>3, <2>3 DEF T!prepare_message_attachment
    <3> QED BY <1>3, <1>f, <1>g, <2>1, <3>1
            DEF T!prepare_message_attachment, T!Places, ForAttachments, Storing, Copying
  <2> QED BY <2>2, <2>3
<1>4. CASE T!request_attachment(t)
  <2>1. r.part \in Part
    BY <1>4, <1>h DEF T!request_attachment, T!At, ForAttachments
  <2>2. T!Fail(t) \/ \E place \in {"again", "extract", "whole", "fetch"} : T!Go(t, place)
    BY <1>4 DEF T!request_attachment
  <2> QED BY <1>4, <1>f, <1>g, <2>1, <2>2
          DEF T!request_attachment, T!Places, ForAttachments, Storing, Copying
<1>5. CASE T!fetch_attachment(t)
  <2>1. r.part \in Part
    BY <1>5, <1>h DEF T!fetch_attachment, T!At, ForAttachments
  <2>2. T!Fail(t) \/ T!Go(t, "whole") \/ T!GoWith(t, "store", content[r.part])
    BY <1>5 DEF T!fetch_attachment
  <2> QED BY <1>5, <1>f, <1>g, <1>w, <1>c, <2>1, <2>2
          DEF T!fetch_attachment, T!Places, ForAttachments, Storing, Copying
<1>6. CASE T!LocateMessage(t)
  BY <1>6, <1>f, <1>g DEF T!LocateMessage, T!Places, ForAttachments, Storing, Copying
<1>7. CASE T!fetch_and_store_message(t)
  BY <1>7, <1>f, <1>g DEF T!fetch_and_store_message, T!Places, ForAttachments, Storing, Copying
<1>8. CASE T!extract_attachment(t)
  <2>1. \/ T!Fail(t)
        \/ T!Go(t, "ready") /\ r.part = T!Raw
        \/ T!GoWith(t, "store", content[r.part]) /\ r.part # T!Raw
    BY <1>8 DEF T!extract_attachment
  <2>2. r.part # T!Raw => r.part \in Part
    BY <1>r DEF RequestType
  <2> QED BY <1>8, <1>f, <1>g, <1>w, <1>c, <2>1, <2>2
          DEF T!extract_attachment, T!Places, ForAttachments, Storing, Copying
<1>9. CASE T!store_attachment_content(t)
  BY <1>9, <1>f, <1>g, <1>h
  DEF T!store_attachment_content, T!At, T!Places, ForAttachments, Storing, Copying
<1>10. CASE T!write_content(t)
  <2>1. r.part \in Part /\ r.has = content[r.part] /\ files[r.has] \in {"none", "whole"}
    BY <1>10, <1>h, <1>c DEF T!write_content, T!At, ForAttachments, Storing, AttachmentsInv, AttachmentTypes
  <2> QED BY <1>10, <1>f, <1>g, <2>1 DEF T!write_content, T!Places, ForAttachments, Storing, Copying
<1>11. CASE T!rename_content(t)
  <2>1. r.part \in Part /\ r.has = content[r.part] /\ r.has \in Content
    BY <1>11, <1>h, <1>c DEF T!rename_content, T!At, ForAttachments, Storing
  <2>2. /\ files' = [files EXCEPT ![r.has] = "whole"]
        /\ request' = [request EXCEPT ![t].at = "update"]
        /\ UNCHANGED <<content, listed, hash, opened>>
    BY <1>11 DEF T!rename_content, T!Go
  <2>3. /\ files'[r.has] = "whole"
        /\ \A c \in Content : files[c] = "whole" => files'[c] = "whole"
    BY <2>1, <2>2 DEF AttachmentsInv, AttachmentTypes
  <2>4. AttachmentTypes'
    BY <1>r, <2>2 DEF AttachmentsInv, AttachmentTypes, RequestType, T!Places
  <2>5. /\ \A u \in Editor : u # t => request'[u] = request[u]
        /\ request'[t].at = "update"
        /\ request'[t].part = r.part
        /\ request'[t].has = r.has
    BY <1>r, <2>2 DEF AttachmentsInv, AttachmentTypes, RequestType
  <2>6. HandsAreRight'
    <3> SUFFICES ASSUME NEW u \in Editor
                 PROVE  /\ request'[u].at \in ForAttachments => request'[u].part \in Part
                        /\ request'[u].at \in Storing \cup Copying
                           => request'[u].has = content[request'[u].part]
                        /\ request'[u].at \in Copying \cup {"update"}
                           => files'[request'[u].has] = "whole"
      BY <2>2 DEF HandsAreRight
    <3>1. CASE u = t
      BY <2>1, <2>3, <2>5, <3>1 DEF Copying
    <3>2. CASE u # t
      BY <1>c, <2>3, <2>5, <3>2
      DEF AttachmentsInv, HandsAreRight, ForAttachments, Storing, Copying
    <3> QED BY <3>1, <3>2
  <2>7. T!AvailableIsStored' /\ CopiesAreRight'
    BY <1>c, <2>2, <2>3 DEF AttachmentsInv, T!AvailableIsStored, CopiesAreRight
  <2>8. T!GivenIsTheAttachment'
    BY <2>2, <2>5 DEF AttachmentsInv, T!GivenIsTheAttachment, T!At
  <2> QED BY <2>4, <2>6, <2>7, <2>8 DEF AttachmentsInv
<1>12. CASE T!UpdateRow(t)
  <2>1. r.part \in Part /\ r.has = content[r.part] /\ files[r.has] = "whole" /\ r.has \in Content
    BY <1>12, <1>h, <1>c DEF T!UpdateRow, T!At, ForAttachments, Storing
  <2>2. CASE T!Fail(t) /\ UNCHANGED hash
    BY <1>12, <1>f, <2>2 DEF T!UpdateRow
  <2>3. CASE hash' = [hash EXCEPT ![r.part] = r.has] /\ T!Go(t, "again")
    <3>1. /\ request' = [request EXCEPT ![t].at = "again"]
          /\ UNCHANGED <<content, listed, files, opened>>
      BY <1>12, <2>3 DEF T!UpdateRow, T!Go
    <3>2. AttachmentTypes'
      BY <1>r, <2>1, <2>3, <3>1 DEF AttachmentsInv, AttachmentTypes, RequestType, T!Places
    <3>3. /\ \A u \in Editor : u # t => request'[u] = request[u]
          /\ request'[t].at = "again"
          /\ request'[t].part = r.part
      BY <1>r, <3>1 DEF AttachmentsInv, AttachmentTypes, RequestType
    <3>4. HandsAreRight'
      BY <2>1, <3>1, <3>3 DEF AttachmentsInv, HandsAreRight, Storing, Copying
    <3>5. T!AvailableIsStored' /\ CopiesAreRight'
      BY <2>1, <2>3, <3>1 DEF AttachmentsInv, AttachmentTypes, T!AvailableIsStored, CopiesAreRight
    <3>6. T!GivenIsTheAttachment'
      BY <3>1, <3>3 DEF AttachmentsInv, T!GivenIsTheAttachment, T!At
    <3> QED BY <3>2, <3>4, <3>5, <3>6 DEF AttachmentsInv
  <2> QED BY <1>12, <2>2, <2>3 DEF T!UpdateRow
<1>13. CASE T!CopyContent(t)
  <2>1. r.part \in Part /\ r.has = content[r.part] /\ files[r.has] = "whole"
    BY <1>13, <1>h DEF T!CopyContent, T!At, ForAttachments, Copying
  <2>2. opened[r.part] # "none" => opened[r.part] \in {content[r.part], "edited"}
    BY <2>1 DEF AttachmentsInv, CopiesAreRight
  <2> QED BY <1>13, <1>f, <1>g, <2>1, <2>2
          DEF T!CopyContent, T!Places, ForAttachments, Storing, Copying
<1>14. CASE T!PlaceCopy(t)
  <2>1. r.part \in Part /\ r.has = content[r.part] /\ files[r.has] = "whole"
    BY <1>14, <1>h DEF T!PlaceCopy, T!At, ForAttachments, Copying
  <2>2. /\ request' = [request EXCEPT ![t].at = "ready"]
        /\ UNCHANGED <<content, listed, hash, files>>
        /\ \/ opened' = [opened EXCEPT ![r.part] = content[r.part]]
           \/ opened[r.part] # "none" /\ opened' = opened
    BY <1>14, <2>1 DEF T!PlaceCopy, T!Go
  <2>3. /\ \A p \in Part : opened'[p] = opened[p] \/ opened'[p] = content[p]
        /\ opened'[r.part] \in {content[r.part], "edited"}
    BY <2>1, <2>2 DEF AttachmentsInv, AttachmentTypes, CopiesAreRight
  <2>4. AttachmentTypes'
    BY <1>r, <2>2 DEF AttachmentsInv, AttachmentTypes, RequestType, T!Places
  <2>5. /\ \A u \in Editor : u # t => request'[u] = request[u]
        /\ request'[t].at = "ready"
        /\ request'[t].part = r.part
    BY <1>r, <2>2 DEF AttachmentsInv, AttachmentTypes, RequestType
  <2>6. HandsAreRight'
    BY <2>2, <2>5 DEF AttachmentsInv, HandsAreRight, ForAttachments, Storing, Copying
  <2>7. T!AvailableIsStored' /\ CopiesAreRight'
    BY <2>2, <2>3 DEF AttachmentsInv, T!AvailableIsStored, CopiesAreRight
  <2>8. \A u \in Editor : request[u].part \in Part \cup {T!Raw}
    BY DEF AttachmentsInv, AttachmentTypes, RequestType
  <2>9. T!GivenIsTheAttachment'
    BY <2>2, <2>3, <2>5, <2>8 DEF AttachmentsInv, T!GivenIsTheAttachment, T!At
  <2> QED BY <2>4, <2>6, <2>7, <2>9 DEF AttachmentsInv
<1>15. CASE T!Deliver(t)
  BY <1>15, <1>f DEF T!Deliver
<1> QED BY <1>1, <1>2, <1>3, <1>4, <1>5, <1>6, <1>7, <1>8, <1>9, <1>10, <1>11, <1>12,
           <1>13, <1>14, <1>15 DEF T!RequestStep

\* What the rest of the program, other programs and the end of the process do.
LEMMA SurroundingsKeep ==
  ASSUME AttachmentsInv,
         (\E part \in Part : T!Edit(part) \/ T!replace_message_body(part))
         \/ T!reconcile_mailbox \/ T!EndProcess
  PROVE  AttachmentsInv'
<1>1. ASSUME NEW part \in Part, T!Edit(part) PROVE AttachmentsInv'
  <2>1. /\ UNCHANGED <<content, listed, hash, files, request>>
        /\ DOMAIN opened' = Part
        /\ \A p \in Part : opened'[p] = opened[p] \/ opened'[p] = "edited"
    BY <1>1 DEF T!Edit, AttachmentsInv, AttachmentTypes
  <2>2. \A u \in Editor : request[u].part \in Part \cup {T!Raw}
    BY DEF AttachmentsInv, AttachmentTypes, RequestType
  <2>3. AttachmentTypes' /\ HandsAreRight' /\ T!AvailableIsStored'
    BY <2>1 DEF AttachmentsInv, AttachmentTypes, HandsAreRight, T!AvailableIsStored
  <2>4. CopiesAreRight' /\ T!GivenIsTheAttachment'
    BY <2>1, <2>2 DEF AttachmentsInv, CopiesAreRight, T!GivenIsTheAttachment, T!At
  <2> QED BY <2>3, <2>4 DEF AttachmentsInv
<1>2. ASSUME NEW part \in Part, T!replace_message_body(part) PROVE AttachmentsInv'
  <2>1. /\ UNCHANGED <<content, files, opened, request>>
        /\ listed' \subseteq listed
        /\ hash' = [hash EXCEPT ![part] = "missing"]
    BY <1>2 DEF T!replace_message_body
  <2>2. AttachmentTypes' /\ HandsAreRight'
    BY <2>1 DEF AttachmentsInv, AttachmentTypes, HandsAreRight
  <2>3. T!AvailableIsStored'
    BY <2>1 DEF AttachmentsInv, AttachmentTypes, T!AvailableIsStored
  <2>4. CopiesAreRight' /\ T!GivenIsTheAttachment'
    BY <2>1 DEF AttachmentsInv, CopiesAreRight, T!GivenIsTheAttachment, T!At
  <2> QED BY <2>2, <2>3, <2>4 DEF AttachmentsInv
<1>3. CASE T!reconcile_mailbox
  BY <1>3 DEF T!reconcile_mailbox, AttachmentsInv, AttachmentTypes, HandsAreRight, T!AvailableIsStored,
              CopiesAreRight, T!GivenIsTheAttachment, T!At
<1>4. CASE T!EndProcess
  <2>1. /\ UNCHANGED <<content, listed, hash, files, opened>>
        /\ request' = [t \in Editor |-> T!Nothing]
    BY <1>4 DEF T!EndProcess
  <2>2. T!Nothing \in RequestType /\ T!Nothing.at = "idle"
    BY DEF T!Nothing, RequestType, T!Places
  <2>3. AttachmentTypes' /\ T!AvailableIsStored' /\ CopiesAreRight'
    BY <2>1, <2>2 DEF AttachmentsInv, AttachmentTypes, T!AvailableIsStored, CopiesAreRight
  <2>4. HandsAreRight' /\ T!GivenIsTheAttachment'
    BY <2>1, <2>2
    DEF HandsAreRight, T!GivenIsTheAttachment, T!At, ForAttachments, Storing, Copying
  <2> QED BY <2>3, <2>4 DEF AttachmentsInv
<1> QED BY <1>1, <1>2, <1>3, <1>4

\* A stutter keeps it.
LEMMA AttachmentsRest == ASSUME AttachmentsInv, UNCHANGED varsAttachments PROVE AttachmentsInv'
  BY DEF varsAttachments, AttachmentsInv, AttachmentTypes, HandsAreRight, T!AvailableIsStored, CopiesAreRight,
         T!GivenIsTheAttachment, T!At

\* Every step of the attachments keeps the invariant.
LEMMA AttachmentsGoOn ==
  ASSUME AttachmentsInv, T!Next
  PROVE  AttachmentsInv'
<1>1. ASSUME NEW t \in Editor, T!RequestStep(t) PROVE AttachmentsInv'
  BY <1>1, RequestStepKeeps
<1>2. CASE (\E part \in Part : T!Edit(part) \/ T!replace_message_body(part))
           \/ T!reconcile_mailbox \/ T!EndProcess
  BY <1>2, SurroundingsKeep
<1> QED
  BY <1>1, <1>2 DEF T!Next

-----------------------------------------------------------------------------
(* The composition *)

\* A step is one of the accounts or the attachments, or of something else.
LEMMA EachAlone ==
  ASSUME [Next]_vars
  PROVE  /\ UNCHANGED subject
         /\ subject = "accounts" => A!Next \/ UNCHANGED varsAccounts
         /\ subject = "attachments" => T!Next \/ UNCHANGED varsAttachments
  BY DEF Next, vars, AccountsStep, ContactsStep, DraftsStep, DefinitionsStep, NotificationsStep,
         MessageListStep, MailboxesStep, AttachmentsStep, ComposerStep

\* A step of another component leaves the accounts alone.
LEMMA AccountsRest ==
  ASSUME AccountsInv, UNCHANGED varsAccounts
  PROVE  AccountsInv'
<1>1. UNCHANGED <<accounts_file, keychain, slots, job, made, committed, unreadable, data_dir>>
  BY DEF varsAccounts
<1>2. DirectoryIsSound'
  BY <1>1 DEF AccountsInv, DirectoryIsSound
<1> QED
  BY <1>1, <1>2, ChoosingKeepsAccounts DEF AccountsInv

\* What is referred to is there: whichever step of an addition, a rotation, a removal, a
\* cleanup or the initialization of the data directory failed or was the last one, every
\* account can be used, no old password is left unmarked and the data directory in use is
\* whole; whatever a download met, an attachment shown as downloaded is stored whole, and
\* what the user is given is the attachment.
THEOREM ReferencesLast == Spec => []ReferencesHold
<1> DEFINE Inv == /\ subject = "accounts" => AccountsInv
                  /\ subject = "attachments" => AttachmentsInv
<1>1. Init => Inv
  BY AccountsBegin, AttachmentsBegin DEF Init
<1>2. Inv /\ [Next]_vars => Inv'
  <2> SUFFICES ASSUME Inv, [Next]_vars
               PROVE  Inv'
    OBVIOUS
  <2>1. subject = "accounts" => AccountsInv'
    BY EachAlone, AccountsGoOn, AccountsRest
  <2>2. subject = "attachments" => AttachmentsInv'
    BY EachAlone, AttachmentsGoOn, AttachmentsRest
  <2> QED
    BY <2>1, <2>2, EachAlone
<1>3. Inv => ReferencesHold
  <2>1. AttachmentsInv => T!AvailableIsStored /\ T!GivenIsTheAttachment
    BY DEF AttachmentsInv
  <2> QED
    BY <2>1, AccountsHold DEF ReferencesHold
<1> QED
  BY <1>1, <1>2, <1>3, PTL DEF Spec

-----------------------------------------------------------------------------
(* Templates, signatures and the settings that refer to them *)

SettingRow == [ref : {0} \cup F!Id, revision : 0 .. MaxWrites, version : 0 .. MaxWrites]
SettingDialog == [at : {"open", "checked"}, setting : F!Setting, ref : {0} \cup F!Id,
                  reset : BOOLEAN, revision : 0 .. MaxWrites, version : 0 .. MaxWrites]

\* The number of writes bounds the revisions, and an id is given once.
DefinitionsShape ==
    /\ definitions \subseteq [id : F!Id, kind : F!Kind, scope : F!Scope]
    /\ settings \in [F!Setting -> SettingRow]
    /\ dialogs \in [Dialog -> {F!Closed} \cup SettingDialog]
    /\ counts \in [definitions : 0 .. MaxDefinitions, writes : 0 .. MaxWrites]
    /\ \A s \in F!Setting : settings[s].revision <= counts.writes
DefinitionIds ==
    /\ \A d \in definitions : d.id <= counts.definitions
    /\ \A c, d \in definitions : c.id = d.id => c = d

\* Whichever definition has that id is one the setting may use.
Fits(ref, s) == \A d \in definitions : d.id = ref => d.kind = s[2] /\ d.scope \in {"global", s[1]}
\* A setting refers to a definition that is there, a checked dialog to one that was.
ReferencesFit ==
    /\ \A s \in F!Setting : settings[s].ref \in {0} \cup F!Ids /\ Fits(settings[s].ref, s)
    /\ \A e \in Dialog : dialogs[e].at = "checked" =>
         dialogs[e].ref <= counts.definitions /\ Fits(dialogs[e].ref, dialogs[e].setting)

\* A row that was never taken away is at least as far on as what a dialog has read of it.
DialogsFollow ==
    \A e \in Dialog : dialogs[e].at # "closed" /\ ~dialogs[e].reset =>
        LET row == settings[dialogs[e].setting] IN
        /\ dialogs[e].revision <= row.revision
        /\ dialogs[e].revision = row.revision => dialogs[e].version = row.version

DefinitionsInv == DefinitionsShape /\ DefinitionIds /\ ReferencesFit /\ DialogsFollow

\* No definition and no choice at the start.
LEMMA DefinitionsBegin == F!Init => DefinitionsInv
<1> SUFFICES ASSUME F!Init
             PROVE  DefinitionsInv
  OBVIOUS
<1>1. \A s \in F!Setting : settings[s] = F!NoRow
  BY DEF F!Init
<1>2. \A e \in Dialog : dialogs[e].at = "closed"
  BY DEF F!Init, F!Closed
<1>3. DefinitionsShape
  BY <1>1, DefinitionsAssumption DEF F!Init, DefinitionsShape, SettingRow, F!NoRow
<1>4. DefinitionIds /\ DialogsFollow
  BY <1>2 DEF F!Init, DefinitionIds, DialogsFollow
<1>5. ReferencesFit
  BY <1>1, <1>2 DEF F!Init, ReferencesFit, Fits, F!NoRow
<1> QED
  BY <1>3, <1>4, <1>5 DEF DefinitionsInv

\* A write of a setting changes its row, one revision up.
LEMMA WritingMovesOn ==
  ASSUME DefinitionsShape, NEW s \in F!Setting, NEW ref \in {0} \cup F!Id,
         counts'.writes = counts.writes + 1, counts.writes < MaxWrites,
         settings' = F!Written(s, ref)
  PROVE  /\ settings' \in [F!Setting -> SettingRow]
         /\ \A t \in F!Setting : settings'[t].revision <= counts'.writes
         /\ settings'[s].ref = ref /\ settings'[s].revision = settings[s].revision + 1
         /\ \A t \in F!Setting : t # s => settings'[t] = settings[t]
<1> DEFINE row == [ref |-> ref, revision |-> settings[s].revision + 1,
                   version |-> counts'.writes]
<1>1. /\ settings \in [F!Setting -> SettingRow] /\ counts.writes \in Nat
      /\ \A t \in F!Setting : settings[t].revision \in Nat
      /\ \A t \in F!Setting : settings[t].revision <= counts.writes
  BY DefinitionsAssumption DEF DefinitionsShape, SettingRow
<1>2. row \in SettingRow
  BY <1>1, DefinitionsAssumption DEF SettingRow
<1>3. settings' = [settings EXCEPT ![s] = row]
  BY DEF F!Written
<1>4. row.ref = ref /\ row.revision = settings[s].revision + 1
  OBVIOUS
<1> HIDE DEF row
<1>5. settings' \in [F!Setting -> SettingRow] /\ settings'[s] = row
      /\ \A t \in F!Setting : t # s => settings'[t] = settings[t]
  BY <1>1, <1>2, <1>3
<1>6. \A t \in F!Setting : settings'[t].revision <= counts'.writes
  BY <1>1, <1>4, <1>5
<1> QED
  BY <1>4, <1>5, <1>6

\* Dialogs that stay as they are follow rows that stay or move on.
LEMMA FollowingGoesOn ==
  ASSUME DefinitionsInv, dialogs' = dialogs,
         \A s \in F!Setting :
            \/ settings'[s].revision = settings[s].revision + 1
            \/ /\ settings'[s].revision = settings[s].revision
               /\ settings'[s].version = settings[s].version
  PROVE  DialogsFollow'
<1>1. \A e \in Dialog : dialogs[e].at # "closed" =>
         dialogs[e].setting \in F!Setting /\ dialogs[e].revision \in Nat
  BY DEF DefinitionsInv, DefinitionsShape, SettingDialog, F!Closed
<1>2. \A s \in F!Setting : settings[s].revision \in Nat
  BY DEF DefinitionsInv, DefinitionsShape, SettingRow
<1> QED
  BY <1>1, <1>2 DEF DefinitionsInv, DialogsFollow

\* A new definition takes nothing from the ones that are referred to.
LEMMA CreationKeepsFit ==
  ASSUME DefinitionsInv, NEW kind \in F!Kind, NEW scope \in F!Scope,
         counts.definitions < MaxDefinitions,
         counts'.definitions = counts.definitions + 1,
         definitions' = definitions \cup
            {[id |-> counts.definitions + 1, kind |-> kind, scope |-> scope]}
  PROVE  /\ definitions' \subseteq [id : F!Id, kind : F!Kind, scope : F!Scope]
         /\ DefinitionIds'
         /\ \A s, ref : ref <= counts.definitions /\ ref \in Nat /\ Fits(ref, s) =>
              \A d \in definitions' : d.id = ref => d.kind = s[2] /\ d.scope \in {"global", s[1]}
         /\ \A s \in F!Setting : settings[s].ref <= counts.definitions
<1> DEFINE new == [id |-> counts.definitions + 1, kind |-> kind, scope |-> scope]
<1>1. counts.definitions \in Nat /\ definitions \subseteq [id : F!Id, kind : F!Kind, scope : F!Scope]
  BY DEF DefinitionsInv, DefinitionsShape
<1>2. new \in [id : F!Id, kind : F!Kind, scope : F!Scope] /\ new.id = counts.definitions + 1
  BY <1>1, DefinitionsAssumption DEF F!Id
<1>3. \A d \in definitions : d.id \in Nat /\ d.id <= counts.definitions
  BY <1>1 DEF F!Id, DefinitionsInv, DefinitionIds
<1>4. definitions' = definitions \cup {new}
  OBVIOUS
<1> HIDE DEF new
<1>5. DefinitionIds'
  BY <1>1, <1>2, <1>3, <1>4 DEF DefinitionsInv, DefinitionIds
<1>6. ASSUME NEW s, NEW ref \in Nat, ref <= counts.definitions, Fits(ref, s)
      PROVE  \A d \in definitions' : d.id = ref => d.kind = s[2] /\ d.scope \in {"global", s[1]}
  BY <1>1, <1>2, <1>4, <1>6 DEF Fits
<1>7. \A s \in F!Setting : settings[s].ref <= counts.definitions
  BY <1>1, <1>3 DEF DefinitionsInv, ReferencesFit, F!Ids
<1> QED
  BY <1>1, <1>2, <1>4, <1>5, <1>6, <1>7

\* A new definition has an id that nothing refers to.
LEMMA DefinitionsGrow ==
  ASSUME DefinitionsInv, NEW scope \in F!Scope,
         F!create_mail_template(scope) \/ F!create_mail_signature(scope)
  PROVE  DefinitionsInv'
<1>t. /\ counts \in [definitions : 0 .. MaxDefinitions, writes : 0 .. MaxWrites]
      /\ counts.definitions \in Nat /\ counts.writes \in Nat
      /\ settings \in [F!Setting -> SettingRow]
      /\ dialogs \in [Dialog -> {F!Closed} \cup SettingDialog]
      /\ \A s \in F!Setting : settings[s].revision <= counts.writes
  BY DEF DefinitionsInv, DefinitionsShape
<1>i. /\ \A s \in F!Setting : settings[s].ref \in Nat
      /\ \A e \in Dialog : dialogs[e].at = "checked" => dialogs[e].ref \in Nat
                                                        /\ dialogs[e].setting \in F!Setting
  BY <1>t DEF SettingRow, SettingDialog, F!Id, F!Closed
<1>1. CASE F!create_mail_template(scope)
  <2>1. /\ counts.definitions < MaxDefinitions
        /\ counts' = [counts EXCEPT !.definitions = @ + 1]
        /\ definitions' = definitions \cup
             {[id |-> counts'.definitions, kind |-> "template", scope |-> scope]}
        /\ settings' = settings /\ dialogs' = dialogs
    BY <1>1 DEF F!create_mail_template
  <2>2. /\ counts'.definitions = counts.definitions + 1 /\ counts'.writes = counts.writes
        /\ counts' \in [definitions : 0 .. MaxDefinitions, writes : 0 .. MaxWrites]
    BY <2>1, <1>t, DefinitionsAssumption
  <2>3. "template" \in F!Kind
    BY DEF F!Kind
  <2>4. definitions' = definitions \cup
             {[id |-> counts.definitions + 1, kind |-> "template", scope |-> scope]}
    BY <2>1, <2>2
  <2>5. /\ definitions' \subseteq [id : F!Id, kind : F!Kind, scope : F!Scope] /\ DefinitionIds'
        /\ \A s, ref : ref <= counts.definitions /\ ref \in Nat /\ Fits(ref, s) =>
             \A d \in definitions' : d.id = ref => d.kind = s[2] /\ d.scope \in {"global", s[1]}
        /\ \A s \in F!Setting : settings[s].ref <= counts.definitions
    BY <2>1, <2>2, <2>3, <2>4, CreationKeepsFit
  <2>6. DefinitionsShape'
    BY <2>1, <2>2, <2>5, <1>t DEF DefinitionsShape
  <2>7. F!Ids \subseteq F!Ids'
    BY <2>1 DEF F!Ids
  <2>8. ReferencesFit'
    <3>1. \A s \in F!Setting : settings'[s].ref \in {0} \cup F!Ids' /\ Fits(settings[s].ref, s)'
      BY <2>1, <2>5, <2>7, <1>i DEF DefinitionsInv, ReferencesFit, Fits
    <3>2. \A e \in Dialog : dialogs'[e].at = "checked" =>
            /\ dialogs'[e].ref <= counts'.definitions
            /\ Fits(dialogs[e].ref, dialogs[e].setting)'
      BY <2>1, <2>2, <2>5, <1>i, <1>t DEF DefinitionsInv, ReferencesFit, Fits
    <3> QED
      BY <3>1, <3>2, <2>1 DEF ReferencesFit
  <2>9. DialogsFollow'
    BY <2>1, FollowingGoesOn
  <2> QED
    BY <2>5, <2>6, <2>8, <2>9 DEF DefinitionsInv
<1>2. CASE F!create_mail_signature(scope)
  <2>s. PICK s \in F!Setting : s = <<scope, "signature">>
    BY DEF F!Setting, F!Kind
  <2>1. /\ counts.definitions < MaxDefinitions /\ counts.writes < MaxWrites
        /\ definitions' = definitions \cup
             {[id |-> counts.definitions + 1, kind |-> "signature", scope |-> scope]}
        /\ counts' = [definitions |-> counts.definitions + 1,
                      writes |-> IF settings[s].ref = 0 THEN counts.writes + 1
                                 ELSE counts.writes]
        /\ settings' = IF settings[s].ref = 0 THEN F!Written(s, counts.definitions + 1)
                       ELSE settings
        /\ dialogs' = dialogs
    BY <1>2, <2>s DEF F!create_mail_signature
  <2>2. /\ counts'.definitions = counts.definitions + 1
        /\ counts'.writes = IF settings[s].ref = 0 THEN counts.writes + 1 ELSE counts.writes
        /\ counts' \in [definitions : 0 .. MaxDefinitions, writes : 0 .. MaxWrites]
    BY <2>1, <1>t, DefinitionsAssumption
  <2>3. "signature" \in F!Kind
    BY DEF F!Kind
  <2>5. /\ definitions' \subseteq [id : F!Id, kind : F!Kind, scope : F!Scope] /\ DefinitionIds'
        /\ \A t, ref : ref <= counts.definitions /\ ref \in Nat /\ Fits(ref, t) =>
             \A d \in definitions' : d.id = ref => d.kind = t[2] /\ d.scope \in {"global", t[1]}
        /\ \A t \in F!Setting : settings[t].ref <= counts.definitions
    BY <2>1, <2>2, <2>3, CreationKeepsFit
  <2>a. counts.definitions + 1 \in F!Id
    BY <2>1, <1>t, DefinitionsAssumption DEF F!Id
  <2>6. /\ settings' \in [F!Setting -> SettingRow]
        /\ \A t \in F!Setting : settings'[t].revision <= counts'.writes
        /\ \A t \in F!Setting : \/ settings'[t] = settings[t]
                                \/ /\ t = s /\ settings'[t].ref = counts.definitions + 1
                                   /\ settings'[t].revision = settings[t].revision + 1
    <3>1. CASE settings[s].ref = 0
      <4>1. /\ counts'.writes = counts.writes + 1
            /\ settings' = F!Written(s, counts.definitions + 1)
        BY <2>1, <2>2, <3>1
      <4>2. PICK ref \in {0} \cup F!Id : ref = counts.definitions + 1
        BY <2>a
      <4>3. DefinitionsShape /\ counts.writes < MaxWrites /\ settings' = F!Written(s, ref)
        BY <2>1, <4>1, <4>2 DEF DefinitionsInv
      <4>4. /\ settings' \in [F!Setting -> SettingRow]
            /\ \A t \in F!Setting : settings'[t].revision <= counts'.writes
            /\ settings'[s].ref = ref /\ settings'[s].revision = settings[s].revision + 1
            /\ \A t \in F!Setting : t # s => settings'[t] = settings[t]
        BY <4>1, <4>3, WritingMovesOn
      <4> QED
        BY <4>2, <4>4
    <3>2. CASE settings[s].ref # 0
      BY <3>2, <2>1, <2>2, <1>t
    <3> QED
      BY <3>1, <3>2
  <2>7. DefinitionsShape'
    BY <2>1, <2>2, <2>5, <2>6, <1>t DEF DefinitionsShape
  <2>8. F!Ids \subseteq F!Ids' /\ counts.definitions + 1 \in F!Ids'
    <3>1. [id |-> counts.definitions + 1, kind |-> "signature", scope |-> scope] \in definitions'
      BY <2>1
    <3>2. [id |-> counts.definitions + 1, kind |-> "signature", scope |-> scope].id
             = counts.definitions + 1
      OBVIOUS
    <3>3. definitions \subseteq definitions'
      BY <2>1
    <3> QED
      BY <3>1, <3>2, <3>3 DEF F!Ids
  <2>9. \A d \in definitions' : d.id = counts.definitions + 1 =>
           d.kind = s[2] /\ d.scope \in {"global", s[1]}
    <3>1. PICK new : /\ new.id = counts.definitions + 1 /\ new.kind = "signature"
                     /\ new.scope = scope /\ definitions' = definitions \cup {new}
      BY <2>1
    <3>2. \A d \in definitions : d.id # counts.definitions + 1
      BY <1>t DEF DefinitionsInv, DefinitionsShape, DefinitionIds, F!Id
    <3>3. s[1] = scope /\ s[2] = "signature"
      BY <2>s
    <3> QED
      BY <3>1, <3>2, <3>3
  <2>10. ReferencesFit'
    <3>1. \A t \in F!Setting :
             settings'[t].ref \in {0} \cup F!Ids' /\ Fits(settings[t].ref, t)'
      <4> TAKE t \in F!Setting
      <4>1. CASE settings'[t] = settings[t]
        <5>1. Fits(settings[t].ref, t) /\ settings[t].ref \in {0} \cup F!Ids
          BY DEF DefinitionsInv, ReferencesFit
        <5>2. \A d \in definitions' : d.id = settings[t].ref =>
                d.kind = t[2] /\ d.scope \in {"global", t[1]}
          BY <5>1, <2>5, <1>i
        <5> QED
          BY <5>1, <5>2, <4>1, <2>8 DEF Fits
      <4>2. CASE t = s /\ settings'[t].ref = counts.definitions + 1
        BY <4>2, <2>8, <2>9 DEF Fits
      <4> QED
        BY <4>1, <4>2, <2>6
    <3>2. \A e \in Dialog : dialogs'[e].at = "checked" =>
            /\ dialogs'[e].ref <= counts'.definitions
            /\ Fits(dialogs[e].ref, dialogs[e].setting)'
      BY <2>1, <2>2, <2>5, <1>i, <1>t DEF DefinitionsInv, ReferencesFit, Fits
    <3> QED
      BY <3>1, <3>2, <2>1 DEF ReferencesFit
  <2>11. DialogsFollow'
    BY <2>1, <2>6, FollowingGoesOn
  <2> QED
    BY <2>5, <2>7, <2>10, <2>11 DEF DefinitionsInv
<1> QED
  BY <1>1, <1>2

\* What is deleted is referred to by no rule, and preferences that refer to it lose it.
LEMMA DeletionKeepsDefinitions ==
  ASSUME DefinitionsInv, NEW id \in F!Id, F!Delete(id)
  PROVE  DefinitionsInv'
<1>t. /\ counts \in [definitions : 0 .. MaxDefinitions, writes : 0 .. MaxWrites]
      /\ settings \in [F!Setting -> SettingRow]
      /\ dialogs \in [Dialog -> {F!Closed} \cup SettingDialog]
      /\ definitions \subseteq [id : F!Id, kind : F!Kind, scope : F!Scope]
      /\ \A s \in F!Setting : settings[s].revision <= counts.writes
  BY DEF DefinitionsInv, DefinitionsShape
<1>1. /\ definitions' = {d \in definitions : d.id # id}
      /\ settings' = [s \in F!Setting |-> IF settings[s].ref = id
                                          THEN [settings[s] EXCEPT !.ref = 0] ELSE settings[s]]
      /\ dialogs' = dialogs /\ counts' = counts
  BY DEF F!Delete
<1>2. \A s \in F!Setting :
        /\ settings'[s] \in SettingRow
        /\ settings'[s].revision = settings[s].revision
        /\ settings'[s].version = settings[s].version
        /\ settings'[s].ref = IF settings[s].ref = id THEN 0 ELSE settings[s].ref
  <2> TAKE s \in F!Setting
  <2>1. settings[s] \in SettingRow
    BY <1>t
  <2>2. CASE settings[s].ref = id
    BY <1>1, <2>1, <2>2 DEF SettingRow
  <2>3. CASE settings[s].ref # id
    BY <1>1, <2>1, <2>3
  <2> QED
    BY <2>2, <2>3
<1>3. settings' \in [F!Setting -> SettingRow]
  <2>1. DOMAIN settings' = F!Setting /\ settings' = [s \in F!Setting |-> settings'[s]]
    BY <1>1
  <2> QED
    BY <2>1, <1>2
<1>4. DefinitionsShape'
  BY <1>1, <1>2, <1>3, <1>t DEF DefinitionsShape
<1>5. DefinitionIds'
  BY <1>1 DEF DefinitionsInv, DefinitionIds
<1>6. ReferencesFit'
  <2>1. \A x \in F!Ids : x # id => x \in F!Ids'
    BY <1>1 DEF F!Ids
  <2>2. \A s \in F!Setting : settings'[s].ref \in {0} \cup F!Ids' /\
           \A d \in definitions' : d.id = settings'[s].ref =>
              d.kind = s[2] /\ d.scope \in {"global", s[1]}
    <3> TAKE s \in F!Setting
    <3>1. settings[s].ref \in {0} \cup F!Ids /\ Fits(settings[s].ref, s)
      BY DEF DefinitionsInv, ReferencesFit
    <3>2. \A d \in definitions' : d \in definitions /\ d.id # 0
      BY <1>1, <1>t, DefinitionsAssumption DEF F!Id
    <3> QED
      BY <3>1, <3>2, <2>1, <1>2 DEF Fits
  <2>3. \A e \in Dialog : dialogs'[e].at = "checked" =>
          /\ dialogs'[e].ref <= counts'.definitions
          /\ Fits(dialogs[e].ref, dialogs[e].setting)'
    BY <1>1 DEF DefinitionsInv, ReferencesFit, Fits
  <2> QED
    BY <2>2, <2>3, <1>1 DEF ReferencesFit, Fits
<1>7. DialogsFollow'
  BY <1>1, <1>2, FollowingGoesOn
<1> QED
  BY <1>4, <1>5, <1>6, <1>7 DEF DefinitionsInv

\* Opening, checking and dismissing change one dialog, and no row.
LEMMA DialogsMoveAlone ==
  ASSUME DefinitionsInv, NEW e \in Dialog,
         UNCHANGED <<definitions, settings, counts>>,
         dialogs' \in [Dialog -> {F!Closed} \cup SettingDialog],
         \A f \in Dialog : f # e => dialogs'[f] = dialogs[f],
         \/ dialogs'[e] = F!Closed
         \/ /\ dialogs'[e].at = "checked" => /\ dialogs'[e].ref <= counts.definitions
                                             /\ Fits(dialogs'[e].ref, dialogs'[e].setting)
            /\ \/ dialogs'[e].reset
               \/ /\ dialogs'[e].revision <= settings[dialogs'[e].setting].revision
                  /\ dialogs'[e].revision = settings[dialogs'[e].setting].revision =>
                       dialogs'[e].version = settings[dialogs'[e].setting].version
  PROVE  DefinitionsInv'
<1>1. DefinitionsShape' /\ DefinitionIds'
  BY DEF DefinitionsInv, DefinitionsShape, DefinitionIds
<1>2. dialogs'[e] = F!Closed => dialogs'[e].at = "closed"
  BY DEF F!Closed
<1>3. DialogsFollow'
  BY <1>2 DEF DefinitionsInv, DialogsFollow
<1>4. ReferencesFit'
  <2>1. \A f \in Dialog : dialogs'[f].at = "checked" =>
          /\ dialogs'[f].ref <= counts.definitions
          /\ \A d \in definitions : d.id = dialogs'[f].ref =>
               d.kind = dialogs'[f].setting[2] /\ d.scope \in {"global", dialogs'[f].setting[1]}
    BY <1>2 DEF DefinitionsInv, ReferencesFit, Fits
  <2>2. F!Ids' = F!Ids
    BY DEF F!Ids
  <2> QED
    BY <2>1, <2>2 DEF DefinitionsInv, ReferencesFit, Fits
<1> QED
  BY <1>1, <1>3, <1>4 DEF DefinitionsInv

\* A dialog opens on the setting as it is, and a checked one has a reference that fits.
LEMMA DialogsKeepDefinitions ==
  ASSUME DefinitionsInv, NEW e \in Dialog,
         \/ \E s \in F!Setting : F!Open(e, s)
         \/ \E ref \in {0} \cup F!Id : F!CheckReference(e, ref)
  PROVE  DefinitionsInv'
<1>t. /\ dialogs \in [Dialog -> {F!Closed} \cup SettingDialog]
      /\ \A s \in F!Setting : settings[s] \in SettingRow
      /\ definitions \subseteq [id : F!Id, kind : F!Kind, scope : F!Scope]
      /\ counts.definitions \in Nat
  BY DEF DefinitionsInv, DefinitionsShape
<1>1. ASSUME NEW s \in F!Setting, F!Open(e, s)
      PROVE  DefinitionsInv'
  <2> DEFINE new == [at |-> "open", setting |-> s, ref |-> 0, reset |-> FALSE,
                     revision |-> settings[s].revision, version |-> settings[s].version]
  <2>1. dialogs' = [dialogs EXCEPT ![e] = new] /\ UNCHANGED <<definitions, settings, counts>>
    BY <1>1 DEF F!Open
  <2>2. new \in SettingDialog
    BY <1>t DEF SettingDialog, SettingRow
  <2>3. /\ new.at = "open" /\ new.setting = s /\ new.revision = settings[s].revision
        /\ new.version = settings[s].version
    OBVIOUS
  <2> HIDE DEF new
  <2>4. /\ dialogs' \in [Dialog -> {F!Closed} \cup SettingDialog] /\ dialogs'[e] = new
        /\ \A f \in Dialog : f # e => dialogs'[f] = dialogs[f]
    BY <2>1, <2>2, <1>t
  <2>5. settings[s].revision \in Nat
    BY <1>t DEF SettingRow
  <2>6. /\ dialogs'[e].at # "checked"
        /\ dialogs'[e].revision <= settings[dialogs'[e].setting].revision
        /\ dialogs'[e].version = settings[dialogs'[e].setting].version
    BY <2>3, <2>4, <2>5
  <2> QED
    BY <2>1, <2>4, <2>6, DialogsMoveAlone
<1>2. ASSUME NEW ref \in {0} \cup F!Id, F!CheckReference(e, ref)
      PROVE  DefinitionsInv'
  <2> DEFINE new == [dialogs[e] EXCEPT !.at = "checked", !.ref = ref]
  <2>1. /\ dialogs' = [dialogs EXCEPT ![e] = new] /\ UNCHANGED <<definitions, settings, counts>>
        /\ dialogs[e].at = "open"
        /\ ref \in {0} \cup F!Available(dialogs[e].setting[1], dialogs[e].setting[2])
    BY <1>2 DEF F!CheckReference
  <2>2. dialogs[e] \in SettingDialog
    BY <2>1, <1>t DEF F!Closed
  <2>3. new \in SettingDialog
    BY <2>2 DEF SettingDialog
  <2>4. /\ new.setting = dialogs[e].setting /\ new.ref = ref /\ new.reset = dialogs[e].reset
        /\ new.revision = dialogs[e].revision /\ new.version = dialogs[e].version
    BY <2>2 DEF SettingDialog
  <2> HIDE DEF new
  <2>5. /\ dialogs' \in [Dialog -> {F!Closed} \cup SettingDialog] /\ dialogs'[e] = new
        /\ \A f \in Dialog : f # e => dialogs'[f] = dialogs[f]
    BY <2>1, <2>3, <1>t
  <2>6. ref <= counts.definitions /\ Fits(ref, dialogs[e].setting)
    <3>1. CASE ref = 0
      BY <3>1, <1>t DEF Fits, F!Id
    <3>2. CASE ref \in F!Available(dialogs[e].setting[1], dialogs[e].setting[2])
      BY <3>2 DEF F!Available, Fits, DefinitionsInv, DefinitionIds
    <3> QED
      BY <3>1, <3>2, <2>1
  <2>7. \/ dialogs[e].reset
        \/ /\ dialogs[e].revision <= settings[dialogs[e].setting].revision
           /\ dialogs[e].revision = settings[dialogs[e].setting].revision =>
                dialogs[e].version = settings[dialogs[e].setting].version
    BY <2>1 DEF DefinitionsInv, DialogsFollow
  <2> QED
    BY <2>1, <2>4, <2>5, <2>6, <2>7, DialogsMoveAlone
<1> QED
  BY <1>1, <1>2

\* A row that goes leaves its mark on the dialogs that show it.
LEMMA InheritingKeepsDefinitions ==
  ASSUME DefinitionsInv, NEW e \in Dialog, F!Inherit(e)
  PROVE  DefinitionsInv'
<1>t. /\ dialogs \in [Dialog -> {F!Closed} \cup SettingDialog]
      /\ settings \in [F!Setting -> SettingRow]
      /\ counts \in [definitions : 0 .. MaxDefinitions, writes : 0 .. MaxWrites]
      /\ \A s \in F!Setting : settings[s].revision <= counts.writes
  BY DEF DefinitionsInv, DefinitionsShape
<1>c. F!Closed.at = "closed"
  BY DEF F!Closed
<1>s. PICK s \in F!Setting : s = dialogs[e].setting
  BY <1>t, <1>c DEF F!Inherit, SettingDialog
<1> DEFINE goes == F!Exists(s) /\ ~F!Conflict(e)
<1> DEFINE marked(f) == [dialogs[f] EXCEPT !.reset = TRUE]
<1>1. /\ UNCHANGED <<definitions, counts>>
      /\ settings' = IF goes THEN [settings EXCEPT ![s] = F!NoRow] ELSE settings
      /\ dialogs' = [f \in Dialog |->
            IF f = e THEN F!Closed
            ELSE IF goes /\ dialogs[f].at # "closed" /\ dialogs[f].setting = s
                 THEN marked(f) ELSE dialogs[f]]
  BY <1>s DEF F!Inherit
<1>2. \A f \in Dialog : dialogs[f].at # "closed" => dialogs[f] \in SettingDialog
  BY <1>t, <1>c
<1>3. \A f \in Dialog : dialogs[f] \in SettingDialog =>
        /\ marked(f) \in SettingDialog /\ marked(f).reset
        /\ marked(f).at = dialogs[f].at /\ marked(f).ref = dialogs[f].ref
        /\ marked(f).setting = dialogs[f].setting
  BY DEF SettingDialog
<1> HIDE DEF marked, goes
<1>4. \A f \in Dialog :
        \/ dialogs'[f] = F!Closed
        \/ dialogs'[f] = dialogs[f] /\ ~(goes /\ dialogs[f].at # "closed" /\ dialogs[f].setting = s)
        \/ /\ dialogs'[f] \in SettingDialog /\ dialogs'[f].reset
           /\ dialogs'[f].at = dialogs[f].at /\ dialogs'[f].ref = dialogs[f].ref
           /\ dialogs'[f].setting = dialogs[f].setting
  <2> TAKE f \in Dialog
  <2>1. CASE f = e
    BY <1>1, <2>1
  <2>2. CASE f # e /\ goes /\ dialogs[f].at # "closed" /\ dialogs[f].setting = s
    BY <1>1, <1>2, <1>3, <2>2
  <2>3. CASE f # e /\ ~(goes /\ dialogs[f].at # "closed" /\ dialogs[f].setting = s)
    BY <1>1, <2>3
  <2> QED
    BY <2>1, <2>2, <2>3
<1>5. dialogs' \in [Dialog -> {F!Closed} \cup SettingDialog]
  <2>1. \A f \in Dialog : dialogs'[f] \in {F!Closed} \cup SettingDialog
    BY <1>4, <1>t
  <2>2. dialogs' = [f \in Dialog |-> dialogs'[f]]
    BY <1>1
  <2> QED
    BY <2>1, <2>2
<1>6. /\ F!NoRow \in SettingRow /\ F!NoRow.ref = 0 /\ F!NoRow.revision = 0
      /\ counts.writes \in Nat
  BY <1>t, DefinitionsAssumption DEF F!NoRow, SettingRow
<1>7. /\ settings' \in [F!Setting -> SettingRow]
      /\ \A t \in F!Setting : \/ settings'[t] = settings[t]
                              \/ goes /\ t = s /\ settings'[t] = F!NoRow
  BY <1>1, <1>6, <1>t
<1>8. DefinitionsShape' /\ DefinitionIds'
  <2>1. \A t \in F!Setting : settings'[t].revision <= counts'.writes
    BY <1>1, <1>6, <1>7, <1>t
  <2> QED
    BY <2>1, <1>1, <1>5, <1>7 DEF DefinitionsInv, DefinitionsShape, DefinitionIds
<1>9. ReferencesFit'
  <2>1. F!Ids' = F!Ids
    BY <1>1 DEF F!Ids
  <2>2. \A t \in F!Setting : settings'[t].ref \in {0} \cup F!Ids /\
           \A d \in definitions : d.id = settings'[t].ref =>
              d.kind = t[2] /\ d.scope \in {"global", t[1]}
    <3>1. \A d \in definitions : d.id # 0
      BY DefinitionsAssumption DEF DefinitionsInv, DefinitionsShape, F!Id
    <3> QED
      BY <3>1, <1>6, <1>7 DEF DefinitionsInv, ReferencesFit, Fits
  <2>3. \A f \in Dialog : dialogs'[f].at = "checked" =>
          /\ dialogs'[f].ref <= counts.definitions
          /\ \A d \in definitions : d.id = dialogs'[f].ref =>
               d.kind = dialogs'[f].setting[2] /\ d.scope \in {"global", dialogs'[f].setting[1]}
    BY <1>4, <1>c DEF DefinitionsInv, ReferencesFit, Fits
  <2> QED
    BY <2>1, <2>2, <2>3, <1>1 DEF ReferencesFit, Fits
<1>10. DialogsFollow'
  <2> SUFFICES ASSUME NEW f \in Dialog, dialogs'[f].at # "closed", ~dialogs'[f].reset
               PROVE  LET row == settings'[dialogs'[f].setting]
                      IN  /\ dialogs'[f].revision <= row.revision
                          /\ dialogs'[f].revision = row.revision =>
                               dialogs'[f].version = row.version
    BY DEF DialogsFollow
  <2>1. /\ dialogs'[f] = dialogs[f] /\ dialogs[f].at # "closed" /\ ~dialogs[f].reset
        /\ ~(goes /\ dialogs[f].setting = s)
    BY <1>4, <1>c
  <2>2. dialogs[f].setting \in F!Setting
    BY <2>1, <1>2 DEF SettingDialog
  <2>3. settings'[dialogs[f].setting] = settings[dialogs[f].setting]
    BY <2>1, <2>2, <1>7
  <2> QED
    BY <2>1, <2>3 DEF DefinitionsInv, DialogsFollow
<1> QED
  BY <1>8, <1>9, <1>10 DEF DefinitionsInv

\* What is written was checked, and is there.
LEMMA WritingKeepsDefinitions ==
  ASSUME DefinitionsInv, NEW e \in Dialog, F!WriteSetting(e)
  PROVE  DefinitionsInv'
<1>t. /\ dialogs \in [Dialog -> {F!Closed} \cup SettingDialog]
      /\ settings \in [F!Setting -> SettingRow]
      /\ counts \in [definitions : 0 .. MaxDefinitions, writes : 0 .. MaxWrites]
      /\ \A t \in F!Setting : settings[t].revision <= counts.writes
  BY DEF DefinitionsInv, DefinitionsShape
<1>c. F!Closed.at = "closed"
  BY DEF F!Closed
<1>1. /\ dialogs[e].at = "checked" /\ definitions' = definitions
      /\ dialogs' = [dialogs EXCEPT ![e] = F!Closed]
      /\ \/ UNCHANGED <<settings, counts>>
         \/ /\ dialogs[e].ref \in {0} \cup F!Ids
            /\ counts.writes < MaxWrites /\ counts' = [counts EXCEPT !.writes = @ + 1]
            /\ settings' = F!Written(dialogs[e].setting, dialogs[e].ref)
  BY DEF F!WriteSetting, F!Write
<1>2. /\ dialogs' \in [Dialog -> {F!Closed} \cup SettingDialog] /\ dialogs'[e] = F!Closed
      /\ \A f \in Dialog : f # e => dialogs'[f] = dialogs[f]
  BY <1>1, <1>t
<1>3. CASE UNCHANGED <<settings, counts>>
  BY <1>1, <1>2, <1>3, DialogsMoveAlone
<1>4. CASE /\ dialogs[e].ref \in {0} \cup F!Ids
           /\ counts.writes < MaxWrites /\ counts' = [counts EXCEPT !.writes = @ + 1]
           /\ settings' = F!Written(dialogs[e].setting, dialogs[e].ref)
  <2>1. dialogs[e] \in SettingDialog
    BY <1>1, <1>c, <1>t
  <2>2. PICK s \in F!Setting, ref \in {0} \cup F!Id : s = dialogs[e].setting /\ ref = dialogs[e].ref
    BY <2>1 DEF SettingDialog
  <2>3. /\ counts'.writes = counts.writes + 1 /\ counts'.definitions = counts.definitions
        /\ counts' \in [definitions : 0 .. MaxDefinitions, writes : 0 .. MaxWrites]
    BY <1>4, <1>t, DefinitionsAssumption
  <2>4. /\ settings' \in [F!Setting -> SettingRow]
        /\ \A t \in F!Setting : settings'[t].revision <= counts'.writes
        /\ settings'[s].ref = ref /\ settings'[s].revision = settings[s].revision + 1
        /\ \A t \in F!Setting : t # s => settings'[t] = settings[t]
    <3>1. settings' = F!Written(s, ref)
      BY <1>4, <2>2
    <3> QED
      BY <3>1, <1>4, <2>3, WritingMovesOn DEF DefinitionsInv
  <2>5. DefinitionsShape' /\ DefinitionIds'
    BY <1>1, <1>2, <2>3, <2>4 DEF DefinitionsInv, DefinitionsShape, DefinitionIds
  <2>6. ReferencesFit'
    <3>1. F!Ids' = F!Ids
      BY <1>1 DEF F!Ids
    <3>2. Fits(ref, s) /\ ref \in {0} \cup F!Ids
      BY <1>1, <1>4, <2>2 DEF DefinitionsInv, ReferencesFit
    <3>3. \A t \in F!Setting : settings'[t].ref \in {0} \cup F!Ids /\
             \A d \in definitions : d.id = settings'[t].ref =>
                d.kind = t[2] /\ d.scope \in {"global", t[1]}
      BY <2>4, <3>2 DEF DefinitionsInv, ReferencesFit, Fits
    <3>4. \A f \in Dialog : dialogs'[f].at = "checked" =>
            /\ dialogs'[f].ref <= counts'.definitions
            /\ \A d \in definitions : d.id = dialogs'[f].ref =>
                 d.kind = dialogs'[f].setting[2] /\ d.scope \in {"global", dialogs'[f].setting[1]}
      BY <1>2, <1>c, <2>3 DEF DefinitionsInv, ReferencesFit, Fits
    <3> QED
      BY <3>1, <3>3, <3>4, <1>1 DEF ReferencesFit, Fits
  <2>7. DialogsFollow'
    <3> SUFFICES ASSUME NEW f \in Dialog, dialogs'[f].at # "closed", ~dialogs'[f].reset
                 PROVE  LET row == settings'[dialogs'[f].setting]
                        IN  /\ dialogs'[f].revision <= row.revision
                            /\ dialogs'[f].revision = row.revision =>
                                 dialogs'[f].version = row.version
      BY DEF DialogsFollow
    <3>1. dialogs'[f] = dialogs[f] /\ dialogs[f].at # "closed" /\ ~dialogs[f].reset
      BY <1>2, <1>c
    <3>2. /\ dialogs[f].setting \in F!Setting /\ dialogs[f].revision \in Nat
          /\ settings[s].revision \in Nat
      BY <3>1, <1>t, <1>c DEF SettingDialog, SettingRow
    <3>3. LET row == settings[dialogs[f].setting]
          IN  /\ dialogs[f].revision <= row.revision
              /\ dialogs[f].revision = row.revision => dialogs[f].version = row.version
      BY <3>1 DEF DefinitionsInv, DialogsFollow
    <3>4. CASE dialogs[f].setting = s
      BY <3>1, <3>2, <3>3, <3>4, <2>4
    <3>5. CASE dialogs[f].setting # s
      BY <3>1, <3>2, <3>3, <3>5, <2>4
    <3> QED
      BY <3>4, <3>5
  <2> QED
    BY <2>5, <2>6, <2>7 DEF DefinitionsInv
<1> QED
  BY <1>1, <1>3, <1>4

\* Every step of the definitions keeps what the settings refer to.
LEMMA DefinitionsGoOn ==
  ASSUME DefinitionsInv, F!Next \/ UNCHANGED varsDefinitions
  PROVE  DefinitionsInv'
<1>1. CASE F!Next
  BY <1>1, DefinitionsGrow, DeletionKeepsDefinitions, DialogsKeepDefinitions,
     InheritingKeepsDefinitions, WritingKeepsDefinitions DEF F!Next
<1>2. CASE UNCHANGED varsDefinitions
  BY <1>2 DEF varsDefinitions, DefinitionsInv, DefinitionsShape, DefinitionIds, ReferencesFit,
     Fits, DialogsFollow, F!Ids
<1> QED
  BY <1>1, <1>2

\* What the settings promise follows.
LEMMA DefinitionsPromise ==
  ASSUME DefinitionsInv
  PROVE  F!AcceptedDialogsAreCurrent /\ F!ReferencesResolve
<1>1. \A s \in F!Setting : settings[s].ref \in {0} \cup F!Available(s[1], s[2])
  <2> SUFFICES ASSUME NEW s \in F!Setting, settings[s].ref \in F!Ids
               PROVE  settings[s].ref \in F!Available(s[1], s[2])
    BY DEF DefinitionsInv, ReferencesFit
  <2>1. PICK d \in definitions : d.id = settings[s].ref
    BY DEF F!Ids
  <2>2. d.kind = s[2] /\ d.scope \in {"global", s[1]}
    BY <2>1 DEF DefinitionsInv, ReferencesFit, Fits
  <2> QED
    BY <2>1, <2>2 DEF F!Available
<1>2. ASSUME NEW account \in Slot, NEW kind \in F!Kind
      PROVE  F!Resolved(account, kind) \in {0} \cup F!Available(account, kind)
  <2>1. PICK own \in F!Setting, global \in F!Setting :
          own = <<account, kind>> /\ global = <<"global", kind>>
    BY DEF F!Setting, F!Scope
  <2>2. own[1] = account /\ own[2] = kind /\ global[1] = "global" /\ global[2] = kind
    BY <2>1
  <2>3. F!Available("global", kind) \subseteq F!Available(account, kind)
    BY DEF F!Available
  <2>4. settings[own].ref \in {0} \cup F!Available(account, kind)
        /\ settings[global].ref \in {0} \cup F!Available("global", kind)
    BY <1>1, <2>2
  <2> QED
    BY <2>1, <2>3, <2>4 DEF F!Resolved
<1>3. F!ReferencesResolve
  BY <1>1, <1>2 DEF F!ReferencesResolve, F!initial_composition_fails
<1>4. F!AcceptedDialogsAreCurrent
  BY DEF DefinitionsInv, DialogsFollow, F!AcceptedDialogsAreCurrent, F!Conflict
<1> QED
  BY <1>3, <1>4

\* The invariant of the definitions.
LEMMA DefinitionsHold == Spec => [](subject = "definitions" => DefinitionsInv)
<1> DEFINE Inv == subject = "definitions" => DefinitionsInv
<1>1. Init => Inv
  BY DefinitionsBegin DEF Init
<1>2. Inv /\ [Next]_vars => Inv'
  <2>1. [Next]_vars => /\ subject' = subject
                       /\ subject = "definitions" => F!Next \/ UNCHANGED varsDefinitions
    <3>1. CASE UNCHANGED vars
      BY <3>1 DEF vars
    <3>2. CASE Next
      BY <3>2 DEF Next, AccountsStep, ContactsStep, DraftsStep, DefinitionsStep,
         NotificationsStep, MessageListStep, MailboxesStep, AttachmentsStep, ComposerStep
    <3> QED
      BY <3>1, <3>2
  <2> QED
    BY <2>1, DefinitionsGoOn
<1> HIDE DEF Inv
<1>3. Spec => []Inv
  BY <1>1, <1>2, PTL DEF Spec
<1> QED
  BY <1>3 DEF Inv

-----------------------------------------------------------------------------
(* Drafts *)

DraftRow ==
    [status : {"editing", "queued", "sent", "deleted"}, revision : Nat,
     user_edited : BOOLEAN, empty : BOOLEAN, discard_if_untouched : BOOLEAN,
     source : Source \cup {"none"}]
DraftOperation ==
    [kind : {"append_draft", "append_sent"}, draft : D!Draft, revision : Nat,
     status : {"waiting", "running", "failed"}]

\* What the user saved was saved by hand, with something in it, which no window that
\* fails to open discards.
RowsInv ==
    /\ drafts \in Seq(DraftRow) /\ Len(drafts) <= MaxDrafts
    /\ \A d \in written :
          /\ d \in 1 .. Len(drafts) /\ drafts[d].status # "deleted"
          /\ drafts[d].user_edited /\ ~drafts[d].empty

AppendsShape ==
    /\ appends \subseteq DraftOperation
    /\ appending \in [at : {"rest", "search", "append", "replace", "done"}, old : SUBSET Nat]
    /\ IsFiniteSet(server_copies)
    /\ server_copies \subseteq [uid : Nat, draft : D!Draft, revision : Nat]
    /\ archived \in [D!Draft -> Nat]

\* One operation runs at a time.
OneRuns ==
    /\ appending.at = "rest" => \A o \in appends : o.status # "running"
    /\ appending.at # "rest" => \E o \in appends : o.status = "running"
    /\ \A o, p \in appends : o.status = "running" /\ p.status = "running" => o = p

UidsDiffer == \A c, e \in server_copies : c.uid = e.uid => c = e

\* A draft with nothing left to do has one version on the server at most.
OneVersionRemains ==
    \A d \in D!Draft :
        (\A o \in appends : o.kind = "append_draft" => o.draft # d) =>
            \A c, e \in server_copies : c.draft = d /\ e.draft = d => c = e

\* What a replacement knows: the versions that were there before its own.
ReplacementIsRight(o) ==
    /\ appending.at = "append" =>
          /\ \A c \in server_copies : c.uid \in appending.old <=> c.draft = o.draft
          /\ \A u \in appending.old : \E c \in server_copies : c.uid = u
    /\ appending.at = "replace" =>
          \E new \in server_copies :
             /\ new.draft = o.draft
             /\ \A c \in server_copies :
                   c.uid \in appending.old <=> c.draft = o.draft /\ c # new
    /\ appending.at = "done" =>
          \E new \in server_copies :
             /\ new.draft = o.draft
             /\ \A c \in server_copies : c.draft = o.draft => c = new

\* A message is appended to Sent when it is not there.
ArchivingIsRight(o) ==
    /\ appending.at = "append" => archived[o.draft] = 0
    /\ appending.at \in {"replace", "done"} => archived[o.draft] = 1

AppendsAreRight ==
    \A o \in appends : o.status = "running" =>
        /\ o.kind = "append_draft" => ReplacementIsRight(o)
        /\ o.kind = "append_sent" => ArchivingIsRight(o)

AppendsInv ==
    /\ AppendsShape /\ OneRuns /\ UidsDiffer /\ OneVersionRemains /\ AppendsAreRight
    /\ \A d \in D!Draft : archived[d] <= 1

DraftsInv == RowsInv /\ AppendsInv

\* The rows, whatever windows fail to open and whichever imports meet.
LEMMA RowsAreDrafts ==
  ASSUME RowsInv
  PROVE  /\ D!Rows = 1 .. Len(drafts) /\ Len(drafts) \in Nat
         /\ D!Rows \subseteq D!Draft
         /\ \A d \in D!Rows : drafts[d] \in DraftRow
BY DraftsAssumption DEF RowsInv, D!Rows, D!Draft

LEMMA NewRowsAreDrafts ==
  ASSUME NEW empty \in BOOLEAN, NEW discard \in BOOLEAN, NEW s \in Source \cup {"none"}
  PROVE  D!NewRow(empty, discard, s) \in DraftRow /\ D!Tombstone \in DraftRow
BY DEF D!NewRow, D!Tombstone, DraftRow

LEMMA AddingKeepsRows ==
  ASSUME RowsInv, NEW row \in DraftRow, Len(drafts) < MaxDrafts,
         drafts' = Append(drafts, row), written' = written
  PROVE  RowsInv'
<1>1. /\ Len(drafts) \in Nat /\ Len(drafts') = Len(drafts) + 1
      /\ drafts' \in Seq(DraftRow)
      /\ \A d \in 1 .. Len(drafts) : drafts'[d] = drafts[d]
  BY DEF RowsInv
<1>2. Len(drafts') <= MaxDrafts
  BY <1>1, DraftsAssumption
<1> QED
  BY <1>1, <1>2 DEF RowsInv

LEMMA ChangingKeepsRows ==
  ASSUME RowsInv, NEW d \in D!Rows, NEW row \in DraftRow,
         drafts' = [drafts EXCEPT ![d] = row],
         \A e \in written' : e \in written \/ e = d,
         d \in written' => row.status # "deleted" /\ row.user_edited /\ ~row.empty
  PROVE  RowsInv'
<1>1. D!Rows = 1 .. Len(drafts) /\ Len(drafts) \in Nat
  BY RowsAreDrafts
<1>2. /\ drafts' \in Seq(DraftRow) /\ Len(drafts') = Len(drafts)
      /\ drafts'[d] = row
      /\ \A e \in 1 .. Len(drafts) : e # d => drafts'[e] = drafts[e]
  BY <1>1 DEF RowsInv
<1>3. \A e \in written' : /\ e \in 1 .. Len(drafts') /\ drafts'[e].status # "deleted"
                          /\ drafts'[e].user_edited /\ ~drafts'[e].empty
  BY <1>1, <1>2 DEF RowsInv
<1> QED
  BY <1>2, <1>3 DEF RowsInv

LEMMA KeepingKeepsRows ==
  ASSUME RowsInv, drafts' = drafts, written' = written
  PROVE  RowsInv'
BY DEF RowsInv

LEMMA DeletingKeepsRows ==
  ASSUME RowsInv, NEW d \in D!Rows, drafts' = D!Deleted(d),
         \A e \in written' : e \in written /\ e # d
  PROVE  RowsInv'
<1>1. D!Tombstone \in DraftRow
  BY DEF D!Tombstone, DraftRow
<1>2. PICK row \in DraftRow : row = D!Tombstone
  BY <1>1
<1> QED
  BY <1>2, ChangingKeepsRows DEF D!Deleted

LEMMA SavingKeepsRows ==
  ASSUME RowsInv, NEW d \in D!Rows, D!Saves(d)
  PROVE  RowsInv'
<1>1. PICK blank \in BOOLEAN :
        /\ drafts' = [drafts EXCEPT ![d].revision = @ + 1, ![d].user_edited = TRUE,
                                    ![d].empty = blank]
        /\ written' = IF blank THEN written \ {d} ELSE written \cup {d}
  BY DEF D!Saves
<1>2. drafts[d] \in DraftRow /\ drafts[d].status = "editing"
  BY RowsAreDrafts DEF D!Saves, D!Editing
<1>3. PICK row : row = [drafts[d] EXCEPT !.revision = @ + 1, !.user_edited = TRUE,
                                         !.empty = blank]
  OBVIOUS
<1>4. row \in DraftRow /\ row.status = "editing" /\ row.user_edited /\ row.empty = blank
  <2>1. PICK old \in DraftRow : old = drafts[d]
    BY <1>2
  <2>2. PICK a, b : a = [old EXCEPT !.revision = @ + 1] /\ b = [a EXCEPT !.user_edited = TRUE]
    OBVIOUS
  <2>3. a \in DraftRow
    BY <2>2 DEF DraftRow
  <2>4. b \in DraftRow
    BY <2>2, <2>3 DEF DraftRow
  <2>5. row = [b EXCEPT !.empty = blank]
    BY <1>3, <2>1, <2>2
  <2>6. row \in DraftRow
    BY <2>4, <2>5 DEF DraftRow
  <2>7. row.status = "editing" /\ row.user_edited /\ row.empty = blank
    BY <1>2, <2>1, <2>2, <2>3, <2>4, <2>5 DEF DraftRow
  <2> QED
    BY <2>6, <2>7
<1>5. drafts' = [drafts EXCEPT ![d] = row]
  <2>1. d \in DOMAIN drafts
    BY DEF D!Rows
  <2>2. PICK a, b, c :
          /\ a = [drafts EXCEPT ![d].revision = @ + 1]
          /\ b = [a EXCEPT ![d].user_edited = TRUE]
          /\ c = [b EXCEPT ![d].empty = blank]
    OBVIOUS
  <2>3. /\ a = [drafts EXCEPT ![d] = a[d]]
        /\ b = [drafts EXCEPT ![d] = b[d]]
        /\ c = [drafts EXCEPT ![d] = c[d]]
    BY <2>1, <2>2
  <2>4. c[d] = row
    BY <1>2, <1>3, <2>1, <2>2 DEF DraftRow
  <2>5. drafts' = c
    BY <1>1, <2>2
  <2> QED
    BY <2>3, <2>4, <2>5
<1>6. \A e \in written' : e \in written \/ e = d
  BY <1>1
<1>7. d \in written' => row.status # "deleted" /\ row.user_edited /\ ~row.empty
  BY <1>1, <1>4
<1> QED
  BY <1>4, <1>5, <1>6, <1>7, ChangingKeepsRows

LEMMA RevisingKeepsRows ==
  ASSUME RowsInv, NEW d \in D!Rows, drafts[d].status # "deleted",
         NEW status \in {"queued", "sent"}, written' = written,
         drafts' = [drafts EXCEPT ![d].status = status, ![d].revision = @ + 1]
  PROVE  RowsInv'
<1>1. drafts[d] \in DraftRow
  BY RowsAreDrafts
<1>2. PICK row : row = [drafts[d] EXCEPT !.status = status, !.revision = @ + 1]
  OBVIOUS
<1>3. /\ row \in DraftRow /\ row.status = status
      /\ row.user_edited = drafts[d].user_edited /\ row.empty = drafts[d].empty
  <2>1. PICK old \in DraftRow : old = drafts[d]
    BY <1>1
  <2>2. PICK a : a = [old EXCEPT !.status = status]
    OBVIOUS
  <2>3. a \in DraftRow
    BY <2>2 DEF DraftRow
  <2>4. row = [a EXCEPT !.revision = @ + 1]
    BY <1>2, <2>1, <2>2
  <2>5. row \in DraftRow
    BY <2>3, <2>4 DEF DraftRow
  <2>6. /\ row.status = status
        /\ row.user_edited = drafts[d].user_edited /\ row.empty = drafts[d].empty
    BY <2>1, <2>2, <2>3, <2>4 DEF DraftRow
  <2> QED
    BY <2>5, <2>6
<1>4. drafts' = [drafts EXCEPT ![d] = row]
  <2>1. d \in DOMAIN drafts
    BY DEF D!Rows
  <2>2. PICK a, b : /\ a = [drafts EXCEPT ![d].status = status]
                    /\ b = [a EXCEPT ![d].revision = @ + 1]
    OBVIOUS
  <2>3. a = [drafts EXCEPT ![d] = a[d]] /\ b = [drafts EXCEPT ![d] = b[d]]
    BY <2>1, <2>2
  <2>4. b[d] = row
    BY <1>1, <1>2, <2>1, <2>2 DEF DraftRow
  <2>5. drafts' = b
    BY <2>2
  <2> QED
    BY <2>3, <2>4, <2>5
<1>5. d \in written' => row.status # "deleted" /\ row.user_edited /\ ~row.empty
  BY <1>3 DEF RowsInv
<1> QED
  BY <1>3, <1>4, <1>5, ChangingKeepsRows

\* What is discarded was not saved by the user.
LEMMA DiscardedIsNotWritten ==
  ASSUME RowsInv, NEW d \in D!Rows, D!Discardable(drafts[d])
  PROVE  d \notin written
BY DEF RowsInv, D!Discardable

LEMMA ImportsKeepRows ==
  ASSUME RowsInv, NEW s \in Source, D!BeginImport(s) \/ D!EndImport(s)
  PROVE  RowsInv'
<1>1. CASE UNCHANGED <<drafts, written>>
  BY <1>1, KeepingKeepsRows
<1>2. CASE D!EndImport(s) /\ ~UNCHANGED drafts
  <2>1. written' = written
    BY <1>2 DEF D!EndImport
  <2>2. CASE \E d \in D!Imported(s) : D!Discardable(drafts[d]) /\ drafts' = D!Deleted(d)
    <3>1. PICK d \in D!Rows : D!Discardable(drafts[d]) /\ drafts' = D!Deleted(d)
      BY <2>2 DEF D!Imported
    <3>2. d \notin written
      BY <3>1, DiscardedIsNotWritten
    <3> QED
      BY <2>1, <3>1, <3>2, DeletingKeepsRows
  <2>3. CASE /\ Len(drafts) < MaxDrafts
             /\ \/ drafts' = Append(drafts, D!NewRow(FALSE, TRUE, s))
                \/ drafts' = Append(drafts, D!Tombstone)
    <3>1. D!NewRow(FALSE, TRUE, s) \in DraftRow /\ D!Tombstone \in DraftRow
      BY NewRowsAreDrafts
    <3>2. PICK row \in DraftRow : drafts' = Append(drafts, row)
      BY <2>3, <3>1
    <3> QED
      BY <2>1, <2>3, <3>2, AddingKeepsRows
  <2> QED
    BY <1>2, <2>2, <2>3 DEF D!EndImport
<1> QED
  BY <1>1, <1>2 DEF D!BeginImport, D!EndImport

LEMMA RowsGoOn ==
  ASSUME RowsInv, D!Next
  PROVE  RowsInv'
<1>1. ASSUME NEW empty \in BOOLEAN, D!OpenComposer(empty) PROVE RowsInv'
  <2>1. D!NewRow(empty, FALSE, "none") \in DraftRow /\ D!Tombstone \in DraftRow
    BY NewRowsAreDrafts
  <2>2. PICK row \in DraftRow : drafts' = Append(drafts, row)
    BY <1>1, <2>1 DEF D!OpenComposer
  <2> QED
    BY <1>1, <2>2, AddingKeepsRows DEF D!OpenComposer
<1>2. CASE D!OpenFromMessage
  <2>1. D!NewRow(FALSE, TRUE, "none") \in DraftRow /\ D!Tombstone \in DraftRow
    BY NewRowsAreDrafts
  <2>2. PICK row \in DraftRow : drafts' = Append(drafts, row)
    BY <1>2, <2>1 DEF D!OpenFromMessage, D!MessageActionDraft
  <2> QED
    BY <1>2, <2>2, AddingKeepsRows DEF D!OpenFromMessage
<1>3. ASSUME NEW s \in Source, D!BeginImport(s) \/ D!EndImport(s) PROVE RowsInv'
  BY <1>3, ImportsKeepRows
<1>4. ASSUME NEW d \in D!Rows,
             \/ D!open_existing_composer(d) \/ D!Save(d) \/ D!SaveAndClose(d)
             \/ D!DiscardAndClose(d) \/ D!DeleteDraft(d) \/ D!QueueSend(d) \/ D!Sent(d)
      PROVE RowsInv'
  <2>1. CASE D!open_existing_composer(d)
    BY <2>1, KeepingKeepsRows DEF D!open_existing_composer
  <2>2. CASE D!Save(d) \/ D!SaveAndClose(d)
    BY <2>2, SavingKeepsRows DEF D!Save, D!SaveAndClose
  <2>3. CASE D!DiscardAndClose(d) \/ D!DeleteDraft(d)
    <3>1. drafts' = D!Deleted(d) /\ written' = written \ {d}
      BY <2>3 DEF D!DiscardAndClose, D!DeleteDraft
    <3> QED
      BY <3>1, DeletingKeepsRows
  <2>4. CASE D!QueueSend(d)
    BY <2>4, RevisingKeepsRows DEF D!QueueSend, D!Editing
  <2>5. CASE D!Sent(d)
    BY <2>5, RevisingKeepsRows DEF D!Sent
  <2> QED
    BY <1>4, <2>1, <2>2, <2>3, <2>4, <2>5
<1>5. CASE UNCHANGED <<drafts, written>>
  BY <1>5, KeepingKeepsRows
<1>6. ASSUME NEW o \in appends, D!Claim(o) \/ D!retry_pending_operation(o)
      PROVE UNCHANGED <<drafts, written>>
  BY <1>6 DEF D!Claim, D!retry_pending_operation, D!local
<1>7. (D!SearchCopies \/ D!AppendVersion \/ D!RemoveOld) => UNCHANGED <<drafts, written>>
  BY DEF D!SearchCopies, D!AppendVersion, D!RemoveOld, D!local
<1>8. (D!SearchSent \/ D!AppendSent \/ D!AppendAnswered) => UNCHANGED <<drafts, written>>
  BY DEF D!SearchSent, D!AppendSent, D!AppendAnswered, D!local
<1>9. (D!Complete \/ D!Fail \/ D!Crash) => UNCHANGED <<drafts, written>>
  BY DEF D!Complete, D!Fail, D!Crash, D!local
<1> QED
  BY <1>1, <1>2, <1>3, <1>4, <1>5, <1>6, <1>7, <1>8, <1>9 DEF D!Next

-----------------------------------------------------------------------------
(* The versions on the server *)

LEMMA OthersKeepVersions ==
  ASSUME AppendsInv, UNCHANGED <<appends, appending, server_copies, archived>>
  PROVE  AppendsInv'
BY DEF AppendsInv, AppendsShape, OneRuns, UidsDiffer, OneVersionRemains, AppendsAreRight,
       ReplacementIsRight, ArchivingIsRight

LEMMA RunningIs ==
  ASSUME OneRuns, NEW o \in appends, o.status = "running"
  PROVE  D!Running = o
BY DEF OneRuns, D!Running

\* An operation that works is the one that runs.
LEMMA RunningRuns ==
  ASSUME OneRuns, appending.at # "rest"
  PROVE  D!Running \in appends /\ D!Running.status = "running"
BY DEF OneRuns, D!Running

\* A number is free: there is one more than there are copies.
LEMMA FreeIsFree ==
  ASSUME IsFiniteSet(server_copies)
  PROVE  D!Free \in Nat /\ \A c \in server_copies : c.uid # D!Free
<1>1. PICK n \in Nat : n = Cardinality(server_copies)
  BY FS_CardinalityType
<1>2. D!Cardinality(server_copies) = n
  BY <1>1 DEF D!Cardinality, Cardinality
<1>3. \E uid \in 1 .. n + 1 : \A c \in server_copies : c.uid # uid
  <2> SUFFICES ASSUME \A uid \in 1 .. n + 1 : \E c \in server_copies : c.uid = uid
               PROVE  FALSE
    OBVIOUS
  <2>1. PICK f : f = [uid \in 1 .. n + 1 |-> CHOOSE c \in server_copies : c.uid = uid]
    OBVIOUS
  <2>2. \A uid \in 1 .. n + 1 : f[uid] \in server_copies /\ f[uid].uid = uid
    BY <2>1
  <2>3. f \in [1 .. n + 1 -> server_copies]
    BY <2>1, <2>2
  <2>4. IsFiniteSet(1 .. n + 1) /\ Cardinality(1 .. n + 1) = n + 1
    <3>1. 1 \in Int /\ n + 1 \in Int /\ ~(1 > n + 1) /\ (n + 1) - 1 + 1 = n + 1
      OBVIOUS
    <3> QED
      BY <3>1, FS_Interval
  <2>5. Cardinality(server_copies) < Cardinality(1 .. n + 1)
    BY <1>1, <2>4
  <2>6. PICK x \in 1 .. n + 1, y \in 1 .. n + 1 : x # y /\ f[x] = f[y]
    BY <2>3, <2>4, <2>5, FS_PigeonHole
  <2> QED
    BY <2>2, <2>6
<1>4. D!Free = CHOOSE uid \in 1 .. n + 1 : \A c \in server_copies : c.uid # uid
  BY <1>2 DEF D!Free
<1>5. D!Free \in 1 .. n + 1 /\ \A c \in server_copies : c.uid # D!Free
  BY <1>3, <1>4, Zenon
<1> QED
  BY <1>1, <1>5

\* What the user queues supersedes versions of the same draft that do not run.
LEMMA QueueingKeepsVersions ==
  ASSUME AppendsInv, NEW q \in DraftOperation, q.status = "waiting", NEW older,
         \A o \in older : o.status # "running" /\ o.kind = q.kind /\ o.draft = q.draft,
         appends' = (appends \ older) \cup {q},
         UNCHANGED <<appending, server_copies, archived>>
  PROVE  AppendsInv'
<1>1. AppendsShape'
  BY DEF AppendsInv, AppendsShape
<1>2. \A o \in appends' : o.status = "running" => o \in appends
  OBVIOUS
<1>3. \A o \in appends : o.status = "running" => o \in appends'
  OBVIOUS
<1>4. OneRuns'
  BY <1>2, <1>3 DEF AppendsInv, OneRuns
<1>5. OneVersionRemains'
  <2> SUFFICES ASSUME NEW d \in D!Draft,
                      \A o \in appends' : o.kind = "append_draft" => o.draft # d
               PROVE  \A c, e \in server_copies : c.draft = d /\ e.draft = d => c = e
    BY DEF OneVersionRemains
  <2>1. \A o \in appends : o.kind = "append_draft" => o.draft # d
    OBVIOUS
  <2> QED
    BY <2>1 DEF AppendsInv, OneVersionRemains
<1>6. AppendsAreRight'
  BY <1>2 DEF AppendsInv, AppendsAreRight, ReplacementIsRight, ArchivingIsRight
<1> QED
  BY <1>1, <1>4, <1>5, <1>6 DEF AppendsInv, UidsDiffer

\* An operation that starts, fails or is tried again is the operation it was.
LEMMA StatusKeepsVersions ==
  ASSUME AppendsInv, NEW o \in appends, NEW status \in {"waiting", "running", "failed"},
         appends' = (appends \ {o}) \cup {[o EXCEPT !.status = status]},
         appending' \in [at : {"rest", "search", "append", "replace", "done"},
                         old : SUBSET Nat],
         UNCHANGED <<server_copies, archived>>
  PROVE  /\ AppendsShape' /\ UidsDiffer' /\ OneVersionRemains'
         /\ \A d \in D!Draft : archived'[d] <= 1
         /\ \E r \in DraftOperation :
               /\ r.kind = o.kind /\ r.draft = o.draft /\ r.status = status
               /\ appends' = (appends \ {o}) \cup {r}
<1>1. PICK r : r = [o EXCEPT !.status = status]
  OBVIOUS
<1>2. o \in DraftOperation
  BY DEF AppendsInv, AppendsShape
<1>3. r \in DraftOperation
  BY <1>1, <1>2 DEF DraftOperation
<1>4. r.kind = o.kind /\ r.draft = o.draft /\ r.status = status
  BY <1>1, <1>2 DEF DraftOperation
<1>5. appends' = (appends \ {o}) \cup {r}
  BY <1>1
<1>6. AppendsShape'
  BY <1>3, <1>5 DEF AppendsInv, AppendsShape
<1>7. OneVersionRemains'
  <2> SUFFICES ASSUME NEW d \in D!Draft,
                      \A p \in appends' : p.kind = "append_draft" => p.draft # d
               PROVE  \A c, e \in server_copies : c.draft = d /\ e.draft = d => c = e
    BY DEF OneVersionRemains
  <2>1. \A p \in appends : p.kind = "append_draft" => p.draft # d
    BY <1>4, <1>5
  <2> QED
    BY <2>1 DEF AppendsInv, OneVersionRemains
<1> QED
  BY <1>3, <1>4, <1>5, <1>6, <1>7 DEF AppendsInv, UidsDiffer

LEMMA ClaimKeepsVersions ==
  ASSUME AppendsInv, NEW o \in appends, D!Claim(o)
  PROVE  AppendsInv'
<1>1. /\ appending.at = "rest" /\ UNCHANGED <<server_copies, archived>>
      /\ appends' = (appends \ {o}) \cup {[o EXCEPT !.status = "running"]}
  BY DEF D!Claim
<1>2. appending' = [at |-> "search", old |-> {}]
  BY DEF D!Claim, D!Resting
<1>3. appending' \in [at : {"rest", "search", "append", "replace", "done"}, old : SUBSET Nat]
  BY <1>2
<1>4. PICK status \in {"waiting", "running", "failed"} : status = "running"
  OBVIOUS
<1>5. /\ AppendsShape' /\ UidsDiffer' /\ OneVersionRemains'
      /\ \A d \in D!Draft : archived'[d] <= 1
      /\ \E r \in DraftOperation :
            /\ r.kind = o.kind /\ r.draft = o.draft /\ r.status = status
            /\ appends' = (appends \ {o}) \cup {r}
  BY <1>1, <1>3, <1>4, StatusKeepsVersions
<1>6. PICK r \in DraftOperation :
        /\ r.kind = o.kind /\ r.draft = o.draft /\ r.status = status
        /\ appends' = (appends \ {o}) \cup {r}
  BY <1>5
<1>7. \A p \in appends' : p.status = "running" => p = r
  BY <1>1, <1>6 DEF AppendsInv, OneRuns
<1>8. OneRuns'
  BY <1>2, <1>4, <1>6, <1>7 DEF OneRuns
<1>9. AppendsAreRight'
  BY <1>2 DEF AppendsAreRight, ReplacementIsRight, ArchivingIsRight
<1> QED
  BY <1>5, <1>8, <1>9 DEF AppendsInv

LEMMA FailKeepsVersions ==
  ASSUME AppendsInv, D!Fail
  PROVE  AppendsInv'
<1>1. PICK o \in appends : o = D!Running /\ o.status = "running"
  BY RunningRuns DEF D!Fail, AppendsInv
<1>2. PICK status \in {"waiting", "failed"} :
        appends' = (appends \ {o}) \cup {[o EXCEPT !.status = status]}
  BY <1>1 DEF D!Fail
<1>3. appending' = [at |-> "rest", old |-> {}] /\ UNCHANGED <<server_copies, archived>>
  BY DEF D!Fail, D!Resting
<1>4. appending' \in [at : {"rest", "search", "append", "replace", "done"}, old : SUBSET Nat]
  BY <1>3
<1>5. status \in {"waiting", "running", "failed"}
  OBVIOUS
<1>6. /\ AppendsShape' /\ UidsDiffer' /\ OneVersionRemains'
      /\ \A d \in D!Draft : archived'[d] <= 1
      /\ \E r \in DraftOperation :
            /\ r.kind = o.kind /\ r.draft = o.draft /\ r.status = status
            /\ appends' = (appends \ {o}) \cup {r}
  BY <1>2, <1>3, <1>4, <1>5, StatusKeepsVersions
<1>7. \A p \in appends' : p.status # "running"
  BY <1>1, <1>2, <1>6 DEF AppendsInv, OneRuns
<1>8. OneRuns' /\ AppendsAreRight'
  BY <1>3, <1>7 DEF OneRuns, AppendsAreRight
<1> QED
  BY <1>6, <1>8 DEF AppendsInv

LEMMA RetryKeepsVersions ==
  ASSUME AppendsInv, NEW o \in appends, D!retry_pending_operation(o)
  PROVE  AppendsInv'
<1>1. /\ o.status = "failed" /\ UNCHANGED <<appending, server_copies, archived>>
      /\ appends' = (appends \ {o}) \cup {[o EXCEPT !.status = "waiting"]}
  BY DEF D!retry_pending_operation
<1>2. PICK status \in {"waiting", "running", "failed"} : status = "waiting"
  OBVIOUS
<1>3. appending' \in [at : {"rest", "search", "append", "replace", "done"}, old : SUBSET Nat]
  BY <1>1 DEF AppendsInv, AppendsShape
<1>4. /\ AppendsShape' /\ UidsDiffer' /\ OneVersionRemains'
      /\ \A d \in D!Draft : archived'[d] <= 1
      /\ \E r \in DraftOperation :
            /\ r.kind = o.kind /\ r.draft = o.draft /\ r.status = status
            /\ appends' = (appends \ {o}) \cup {r}
  BY <1>1, <1>2, <1>3, StatusKeepsVersions
<1>5. \A p \in appends' : p.status = "running" => p \in appends
  BY <1>2, <1>4
<1>6. \A p \in appends : p.status = "running" => p \in appends'
  BY <1>1
<1>7. OneRuns'
  BY <1>1, <1>5, <1>6 DEF AppendsInv, OneRuns
<1>8. AppendsAreRight'
  BY <1>1, <1>5 DEF AppendsInv, AppendsAreRight, ReplacementIsRight, ArchivingIsRight
<1> QED
  BY <1>4, <1>7, <1>8 DEF AppendsInv

\* A new process finds every operation as it was, and none at work.
LEMMA CrashKeepsVersions ==
  ASSUME AppendsInv, D!Crash
  PROVE  AppendsInv'
<1> DEFINE Again(o) == IF o.status = "running" THEN [o EXCEPT !.status = "waiting"] ELSE o
<1>1. appends' = {Again(o) : o \in appends}
  BY DEF D!Crash
<1>2. appending' = [at |-> "rest", old |-> {}] /\ UNCHANGED <<server_copies, archived>>
  BY DEF D!Crash, D!Resting
<1>3. ASSUME NEW o \in appends
      PROVE  /\ Again(o) \in DraftOperation /\ Again(o).kind = o.kind
             /\ Again(o).draft = o.draft /\ Again(o).status # "running"
  <2>1. o \in DraftOperation
    BY DEF AppendsInv, AppendsShape
  <2>2. CASE o.status = "running"
    <3>1. PICK r : r = [o EXCEPT !.status = "waiting"]
      OBVIOUS
    <3>2. r \in DraftOperation
      BY <2>1, <3>1 DEF DraftOperation
    <3>3. r.kind = o.kind /\ r.draft = o.draft /\ r.status = "waiting"
      BY <2>1, <3>1 DEF DraftOperation
    <3> QED
      BY <2>2, <3>1, <3>2, <3>3
  <2>3. CASE o.status # "running"
    BY <2>1, <2>3
  <2> QED
    BY <2>2, <2>3
<1> HIDE DEF Again
<1>4. AppendsShape'
  BY <1>1, <1>2, <1>3 DEF AppendsInv, AppendsShape
<1>5. \A p \in appends' : p.status # "running"
  BY <1>1, <1>3
<1>6. OneRuns' /\ AppendsAreRight'
  BY <1>2, <1>5 DEF OneRuns, AppendsAreRight
<1>7. OneVersionRemains'
  <2> SUFFICES ASSUME NEW d \in D!Draft,
                      \A p \in appends' : p.kind = "append_draft" => p.draft # d
               PROVE  \A c, e \in server_copies : c.draft = d /\ e.draft = d => c = e
    BY <1>2 DEF OneVersionRemains
  <2>1. \A p \in appends : p.kind = "append_draft" => p.draft # d
    BY <1>1, <1>3
  <2> QED
    BY <2>1 DEF AppendsInv, OneVersionRemains
<1> QED
  BY <1>2, <1>4, <1>6, <1>7 DEF AppendsInv, UidsDiffer

LEMMA CompleteKeepsVersions ==
  ASSUME AppendsInv, D!Complete
  PROVE  AppendsInv'
<1>1. PICK o \in appends : o = D!Running /\ o.status = "running"
  BY RunningRuns DEF D!Complete, AppendsInv
<1>2. /\ appends' = appends \ {o} /\ appending.at = "done"
      /\ appending' = [at |-> "rest", old |-> {}] /\ UNCHANGED <<server_copies, archived>>
  BY <1>1 DEF D!Complete, D!Resting
<1>3. AppendsShape'
  BY <1>2 DEF AppendsInv, AppendsShape
<1>4. \A p \in appends' : p.status # "running"
  BY <1>1, <1>2 DEF AppendsInv, OneRuns
<1>5. OneRuns' /\ AppendsAreRight'
  BY <1>2, <1>4 DEF OneRuns, AppendsAreRight
<1>6. OneVersionRemains'
  <2> SUFFICES ASSUME NEW d \in D!Draft,
                      \A p \in appends' : p.kind = "append_draft" => p.draft # d
               PROVE  \A c, e \in server_copies : c.draft = d /\ e.draft = d => c = e
    BY <1>2 DEF OneVersionRemains
  <2>1. CASE o.kind = "append_draft" /\ o.draft = d
    BY <1>1, <1>2, <2>1 DEF AppendsInv, AppendsAreRight, ReplacementIsRight
  <2>2. CASE ~(o.kind = "append_draft" /\ o.draft = d)
    <3>1. \A p \in appends : p.kind = "append_draft" => p.draft # d
      BY <1>2, <2>2
    <3> QED
      BY <3>1 DEF AppendsInv, OneVersionRemains
  <2> QED
    BY <2>1, <2>2
<1> QED
  BY <1>2, <1>3, <1>5, <1>6 DEF AppendsInv, UidsDiffer

LEMMA SearchKeepsVersions ==
  ASSUME AppendsInv, D!SearchCopies
  PROVE  AppendsInv'
<1>1. PICK o \in appends : o = D!Running /\ o.status = "running"
  BY RunningRuns DEF D!SearchCopies, D!Runs, AppendsInv
<1>2. /\ o.kind = "append_draft" /\ appending.at = "search"
      /\ UNCHANGED <<appends, server_copies, archived>>
  BY <1>1 DEF D!SearchCopies, D!Runs
<1>3. PICK old : old = {c.uid : c \in D!Copies(o.draft)}
  OBVIOUS
<1>4. appending' = [at |-> "append", old |-> old]
  BY <1>1, <1>3 DEF D!SearchCopies
<1>5. old \in SUBSET Nat
  BY <1>3 DEF D!Copies, AppendsInv, AppendsShape
<1>6. AppendsShape'
  BY <1>2, <1>4, <1>5 DEF AppendsInv, AppendsShape
<1>7. OneRuns' /\ OneVersionRemains'
  BY <1>2, <1>4 DEF AppendsInv, OneRuns, OneVersionRemains
<1>8. \A c \in server_copies : c.uid \in old <=> c.draft = o.draft
  BY <1>3 DEF D!Copies, AppendsInv, UidsDiffer
<1>9. \A u \in old : \E c \in server_copies : c.uid = u
  BY <1>3 DEF D!Copies
<1>10. ASSUME NEW p \in appends', p.status = "running"
       PROVE  p = o
  BY <1>1, <1>2, <1>10 DEF AppendsInv, OneRuns
<1>11. AppendsAreRight'
  BY <1>2, <1>4, <1>8, <1>9, <1>10 DEF AppendsAreRight, ReplacementIsRight
<1> QED
  BY <1>2, <1>6, <1>7, <1>11 DEF AppendsInv, UidsDiffer

LEMMA VersionIsAdded ==
  ASSUME AppendsInv, D!AppendVersion
  PROVE  AppendsInv'
<1>1. PICK o \in appends : o = D!Running /\ o.status = "running"
  BY RunningRuns DEF D!AppendVersion, D!Runs, AppendsInv
<1>2. /\ o.kind = "append_draft" /\ appending.at = "append"
      /\ UNCHANGED <<appends, archived>>
      /\ appending' = [appending EXCEPT !.at = "replace"]
  BY <1>1 DEF D!AppendVersion, D!Runs
<1>3. PICK new : new = [uid |-> D!Free, draft |-> o.draft, revision |-> o.revision]
  OBVIOUS
<1>4. server_copies' = server_copies \cup {new}
  BY <1>1, <1>3 DEF D!AppendVersion
<1>5. D!Free \in Nat /\ \A c \in server_copies : c.uid # D!Free
  BY FreeIsFree DEF AppendsInv, AppendsShape
<1>6. o.draft \in D!Draft /\ o.revision \in Nat
  BY DEF AppendsInv, AppendsShape, DraftOperation
<1>7. /\ new \in [uid : Nat, draft : D!Draft, revision : Nat] /\ new.draft = o.draft
      /\ \A c \in server_copies : c.uid # new.uid
  BY <1>3, <1>5, <1>6
<1>8. appending'.at = "replace" /\ appending'.old = appending.old
      /\ appending' \in [at : {"rest", "search", "append", "replace", "done"}, old : SUBSET Nat]
  BY <1>2 DEF AppendsInv, AppendsShape
<1>9. IsFiniteSet(server_copies')
  BY <1>4, FS_AddElement DEF AppendsInv, AppendsShape
<1>10. AppendsShape'
  BY <1>2, <1>4, <1>7, <1>8, <1>9 DEF AppendsInv, AppendsShape
<1>11. OneRuns'
  BY <1>2, <1>8 DEF AppendsInv, OneRuns
<1>12. UidsDiffer'
  BY <1>4, <1>7 DEF AppendsInv, UidsDiffer
<1>13. OneVersionRemains'
  <2> SUFFICES ASSUME NEW d \in D!Draft,
                      \A p \in appends : p.kind = "append_draft" => p.draft # d
               PROVE  \A c, e \in server_copies' : c.draft = d /\ e.draft = d => c = e
    BY <1>2 DEF OneVersionRemains
  <2>1. new.draft # d
    BY <1>2, <1>7
  <2> QED
    BY <1>4, <2>1 DEF AppendsInv, OneVersionRemains
<1>14. ReplacementIsRight(o)
  BY <1>1, <1>2 DEF AppendsInv, AppendsAreRight
<1>15. new.uid \notin appending.old
  BY <1>2, <1>7, <1>14 DEF ReplacementIsRight
<1>16. \A c \in server_copies' : c.uid \in appending'.old <=> c.draft = o.draft /\ c # new
  BY <1>2, <1>4, <1>7, <1>8, <1>14, <1>15 DEF ReplacementIsRight
<1>17. ASSUME NEW p \in appends', p.status = "running"
       PROVE  p = o
  BY <1>1, <1>2, <1>17 DEF AppendsInv, OneRuns
<1>18. AppendsAreRight'
  BY <1>2, <1>4, <1>7, <1>8, <1>16, <1>17 DEF AppendsAreRight, ReplacementIsRight
<1> QED
  BY <1>2, <1>10, <1>11, <1>12, <1>13, <1>18 DEF AppendsInv

\* Its own version remains, and those of other drafts.
LEMMA OldVersionsGo ==
  ASSUME AppendsInv, D!RemoveOld
  PROVE  /\ AppendsInv'
         /\ \A c \in server_copies : \E e \in server_copies' : e.draft = c.draft
<1>1. PICK o \in appends : o = D!Running /\ o.status = "running"
  BY RunningRuns DEF D!RemoveOld, D!Runs, AppendsInv
<1>2. /\ o.kind = "append_draft" /\ appending.at = "replace"
      /\ UNCHANGED <<appends, archived>>
      /\ appending' = [appending EXCEPT !.at = "done"]
      /\ server_copies' = {c \in server_copies : c.uid \notin appending.old}
  BY <1>1 DEF D!RemoveOld, D!Runs
<1>3. /\ appending'.at = "done"
      /\ appending' \in [at : {"rest", "search", "append", "replace", "done"}, old : SUBSET Nat]
  BY <1>2 DEF AppendsInv, AppendsShape
<1>4. PICK new \in server_copies :
        /\ new.draft = o.draft
        /\ \A c \in server_copies : c.uid \in appending.old <=> c.draft = o.draft /\ c # new
  BY <1>1, <1>2 DEF AppendsInv, AppendsAreRight, ReplacementIsRight
<1>5. /\ new \in server_copies'
      /\ \A c \in server_copies' : c.draft = o.draft => c = new
      /\ \A c \in server_copies : c.draft # o.draft => c \in server_copies'
  BY <1>2, <1>4
<1>6. IsFiniteSet(server_copies')
  BY <1>2, FS_Subset DEF AppendsInv, AppendsShape
<1>7. AppendsShape'
  BY <1>2, <1>3, <1>6 DEF AppendsInv, AppendsShape
<1>8. OneRuns' /\ UidsDiffer' /\ OneVersionRemains'
  BY <1>2, <1>3 DEF AppendsInv, OneRuns, UidsDiffer, OneVersionRemains
<1>9. ASSUME NEW p \in appends', p.status = "running"
      PROVE  p = o
  BY <1>1, <1>2, <1>9 DEF AppendsInv, OneRuns
<1>10. AppendsAreRight'
  BY <1>2, <1>3, <1>4, <1>5, <1>9 DEF AppendsAreRight, ReplacementIsRight
<1>11. AppendsInv'
  BY <1>2, <1>7, <1>8, <1>10 DEF AppendsInv
<1> QED
  BY <1>4, <1>5, <1>11

LEMMA ArchivingKeepsVersions ==
  ASSUME AppendsInv, D!SearchSent \/ D!AppendSent \/ D!AppendAnswered
  PROVE  AppendsInv'
<1>1. appending.at # "rest" /\ D!Running.kind = "append_sent"
  BY DEF D!SearchSent, D!AppendSent, D!AppendAnswered, D!Runs
<1>2. PICK o \in appends : o = D!Running /\ o.status = "running" /\ o.kind = "append_sent"
  BY <1>1, RunningRuns DEF AppendsInv
<1>3. UNCHANGED <<appends, server_copies>>
  BY DEF D!SearchSent, D!AppendSent, D!AppendAnswered
<1>4. o.draft \in D!Draft
  BY DEF AppendsInv, AppendsShape, DraftOperation
<1>5. archived[o.draft] \in Nat /\ archived[o.draft] <= 1
  BY <1>4 DEF AppendsInv, AppendsShape
<1>6. PICK at \in {"append", "replace", "done"} : appending' = [appending EXCEPT !.at = at]
  BY DEF D!SearchSent, D!AppendSent, D!AppendAnswered
<1>7. /\ appending'.at = at
      /\ appending' \in [at : {"rest", "search", "append", "replace", "done"}, old : SUBSET Nat]
  BY <1>6 DEF AppendsInv, AppendsShape
<1>8. /\ archived' \in [D!Draft -> Nat] /\ \A d \in D!Draft : archived'[d] <= 1
      /\ at = "append" => archived'[o.draft] = 0
      /\ at \in {"replace", "done"} => archived'[o.draft] = 1
  <2>1. ArchivingIsRight(o)
    BY <1>2 DEF AppendsInv, AppendsAreRight
  <2>2. CASE D!SearchSent
    <3>1. /\ archived' = archived
          /\ appending' = [appending EXCEPT
                             !.at = IF archived[o.draft] > 0 THEN "done" ELSE "append"]
      BY <1>2, <2>2 DEF D!SearchSent
    <3>2. at = IF archived[o.draft] > 0 THEN "done" ELSE "append"
      BY <1>7, <3>1 DEF AppendsInv, AppendsShape
    <3> QED
      BY <1>5, <3>1, <3>2 DEF AppendsInv, AppendsShape
  <2>3. CASE D!AppendSent
    <3>1. /\ appending.at = "append" /\ appending' = [appending EXCEPT !.at = "replace"]
          /\ archived' = [archived EXCEPT ![o.draft] = @ + 1]
      BY <1>2, <2>3 DEF D!AppendSent, D!Runs
    <3>2. archived[o.draft] = 0
      BY <2>1, <3>1 DEF ArchivingIsRight
    <3>3. at = "replace"
      BY <1>7, <3>1 DEF AppendsInv, AppendsShape
    <3> QED
      BY <1>4, <3>1, <3>2, <3>3 DEF AppendsInv, AppendsShape
  <2>4. CASE D!AppendAnswered
    <3>1. /\ appending.at = "replace" /\ appending' = [appending EXCEPT !.at = "done"]
          /\ archived' = archived
      BY <2>4 DEF D!AppendAnswered, D!Runs
    <3>2. at = "done"
      BY <1>7, <3>1 DEF AppendsInv, AppendsShape
    <3> QED
      BY <2>1, <3>1, <3>2 DEF AppendsInv, AppendsShape, ArchivingIsRight
  <2> QED
    BY <2>2, <2>3, <2>4
<1>9. AppendsShape'
  BY <1>3, <1>7, <1>8 DEF AppendsInv, AppendsShape
<1>10. OneRuns' /\ UidsDiffer' /\ OneVersionRemains'
  BY <1>1, <1>3, <1>6, <1>7 DEF AppendsInv, OneRuns, UidsDiffer, OneVersionRemains
<1>11. ASSUME NEW p \in appends', p.status = "running"
       PROVE  p = o
  BY <1>2, <1>3, <1>11 DEF AppendsInv, OneRuns
<1>12. AppendsAreRight'
  BY <1>2, <1>7, <1>8, <1>11 DEF AppendsAreRight, ArchivingIsRight
<1> QED
  BY <1>8, <1>9, <1>10, <1>12 DEF AppendsInv

\* Every step keeps what is known of the versions.
LEMMA VersionsGoOn ==
  ASSUME RowsInv, AppendsInv, D!Next, RowsInv'
  PROVE  AppendsInv'
<1>1. CASE UNCHANGED <<appends, appending, server_copies, archived>>
  BY <1>1, OthersKeepVersions
<1>2. ASSUME NEW d \in D!Rows, D!SaveAndClose(d) PROVE AppendsInv'
  <2>1. CASE appends' = (appends \ D!Superseded(d)) \cup
                        {D!Queued("append_draft", d, drafts'[d].revision)}
    <3>1. D!Rows' = D!Rows /\ d \in D!Draft /\ drafts'[d].revision \in Nat
      <4>1. DOMAIN drafts' = DOMAIN drafts
        BY <1>2 DEF D!SaveAndClose, D!Saves
      <4>2. d \in D!Draft /\ d \in DOMAIN drafts'
        BY <4>1, RowsAreDrafts DEF D!Rows
      <4>3. drafts' \in Seq(DraftRow)
        BY DEF RowsInv
      <4>4. drafts'[d] \in DraftRow
        BY <4>2, <4>3
      <4> QED
        BY <4>1, <4>2, <4>4 DEF D!Rows, DraftRow
    <3>2. PICK q : q = D!Queued("append_draft", d, drafts'[d].revision)
      OBVIOUS
    <3>3. q \in DraftOperation /\ q.kind = "append_draft" /\ q.draft = d /\ q.status = "waiting"
      BY <3>1, <3>2 DEF D!Queued, DraftOperation
    <3>4. PICK older : older = D!Superseded(d)
      OBVIOUS
    <3>5. \A o \in older : o.status # "running" /\ o.kind = q.kind /\ o.draft = q.draft
      BY <3>3, <3>4 DEF D!Superseded
    <3>6. UNCHANGED <<appending, server_copies, archived>>
      BY <1>2 DEF D!SaveAndClose
    <3>7. appends' = (appends \ older) \cup {q}
      BY <2>1, <3>2, <3>4
    <3> QED
      BY <3>3, <3>5, <3>6, <3>7, QueueingKeepsVersions
  <2> QED
    BY <1>1, <1>2, <2>1 DEF D!SaveAndClose
<1>3. ASSUME NEW d \in D!Rows, D!Sent(d) PROVE AppendsInv'
  <2>1. CASE appends' = appends \cup {D!Queued("append_sent", d, drafts'[d].revision)}
    <3>1. d \in D!Draft /\ drafts'[d].revision \in Nat
      <4>1. DOMAIN drafts' = DOMAIN drafts
        BY <1>3 DEF D!Sent
      <4>2. d \in D!Draft /\ d \in DOMAIN drafts'
        BY <4>1, RowsAreDrafts DEF D!Rows
      <4>3. drafts' \in Seq(DraftRow)
        BY DEF RowsInv
      <4>4. drafts'[d] \in DraftRow
        BY <4>2, <4>3
      <4> QED
        BY <4>2, <4>4 DEF DraftRow
    <3>2. PICK q : q = D!Queued("append_sent", d, drafts'[d].revision)
      OBVIOUS
    <3>3. q \in DraftOperation /\ q.status = "waiting"
      BY <3>1, <3>2 DEF D!Queued, DraftOperation
    <3>4. PICK older : older = {}
      OBVIOUS
    <3>5. \A o \in older : o.status # "running" /\ o.kind = q.kind /\ o.draft = q.draft
      BY <3>4
    <3>6. UNCHANGED <<appending, server_copies, archived>>
      BY <1>3 DEF D!Sent
    <3>7. appends' = (appends \ older) \cup {q}
      BY <2>1, <3>2, <3>4
    <3> QED
      BY <3>3, <3>5, <3>6, <3>7, QueueingKeepsVersions
  <2> QED
    BY <1>1, <1>3, <2>1 DEF D!Sent
<1>4. ASSUME NEW empty \in BOOLEAN, D!OpenComposer(empty)
      PROVE  UNCHANGED <<appends, appending, server_copies, archived>>
  BY <1>4 DEF D!OpenComposer, D!remote
<1>5. D!OpenFromMessage => UNCHANGED <<appends, appending, server_copies, archived>>
  BY DEF D!OpenFromMessage, D!remote
<1>6. ASSUME NEW s \in Source, D!BeginImport(s) \/ D!EndImport(s)
      PROVE  UNCHANGED <<appends, appending, server_copies, archived>>
  BY <1>6 DEF D!BeginImport, D!EndImport, D!remote
<1>7. ASSUME NEW d \in D!Rows,
             \/ D!open_existing_composer(d) \/ D!Save(d) \/ D!DiscardAndClose(d)
             \/ D!DeleteDraft(d) \/ D!QueueSend(d)
      PROVE  UNCHANGED <<appends, appending, server_copies, archived>>
  BY <1>7 DEF D!open_existing_composer, D!Save, D!DiscardAndClose, D!DeleteDraft,
     D!QueueSend, D!remote
<1> QED
  BY <1>1, <1>2, <1>3, <1>4, <1>5, <1>6, <1>7, ClaimKeepsVersions, RetryKeepsVersions,
     SearchKeepsVersions, VersionIsAdded, OldVersionsGo, ArchivingKeepsVersions,
     CompleteKeepsVersions, FailKeepsVersions, CrashKeepsVersions
  DEF D!Next

LEMMA DraftsBegin == D!Init => DraftsInv
<1> SUFFICES ASSUME D!Init PROVE DraftsInv
  OBVIOUS
<1>1. /\ drafts = <<>> /\ appends = {} /\ appending = [at |-> "rest", old |-> {}]
      /\ server_copies = {} /\ archived = [d \in D!Draft |-> 0] /\ written = {}
  BY DEF D!Init, D!Resting
<1>2. RowsInv
  BY <1>1, DraftsAssumption DEF RowsInv
<1>3. IsFiniteSet(server_copies)
  BY <1>1, FS_EmptySet
<1>4. AppendsInv
  BY <1>1, <1>3 DEF AppendsInv, AppendsShape, OneRuns, UidsDiffer, OneVersionRemains,
     AppendsAreRight
<1> QED
  BY <1>2, <1>4 DEF DraftsInv

LEMMA DraftsGoOn ==
  ASSUME DraftsInv, D!Next \/ UNCHANGED varsDrafts
  PROVE  DraftsInv'
<1>1. CASE D!Next
  BY <1>1, RowsGoOn, VersionsGoOn DEF DraftsInv
<1>2. CASE UNCHANGED varsDrafts
  BY <1>2, KeepingKeepsRows, OthersKeepVersions DEF varsDrafts, DraftsInv
<1> QED
  BY <1>1, <1>2

LEMMA DraftsPromise ==
  ASSUME DraftsInv
  PROVE  D!WrittenDraftsSurvive /\ D!ArchivedOnce
<1>1. D!WrittenDraftsSurvive
  BY DEF DraftsInv, RowsInv, D!WrittenDraftsSurvive
<1>2. ASSUME appending.at = "done", D!Running.kind = "append_sent"
      PROVE  archived[D!Running.draft] = 1
  BY <1>2, RunningRuns DEF DraftsInv, AppendsInv, AppendsAreRight, ArchivingIsRight
<1> QED
  BY <1>1, <1>2 DEF DraftsInv, AppendsInv, D!ArchivedOnce

\* A version goes when its successor is there.
LEMMA VersionsAreReplaced ==
  ASSUME DraftsInv, DraftsInv', D!Next
  PROVE  D!Replaces
<1>1. \A c \in server_copies : \E e \in server_copies' : e.draft = c.draft
  <2>1. CASE D!RemoveOld
    BY <2>1, OldVersionsGo DEF DraftsInv
  <2>2. CASE server_copies \subseteq server_copies'
    BY <2>2
  <2>3. ASSUME NEW empty \in BOOLEAN, D!OpenComposer(empty)
        PROVE  server_copies' = server_copies
    BY <2>3 DEF D!OpenComposer, D!remote
  <2>4. ASSUME NEW s \in Source, D!BeginImport(s) \/ D!EndImport(s)
        PROVE  server_copies' = server_copies
    BY <2>4 DEF D!BeginImport, D!EndImport, D!remote
  <2>5. ASSUME NEW d \in D!Rows,
               \/ D!open_existing_composer(d) \/ D!Save(d) \/ D!SaveAndClose(d)
               \/ D!DiscardAndClose(d) \/ D!DeleteDraft(d) \/ D!QueueSend(d) \/ D!Sent(d)
        PROVE  server_copies' = server_copies
    BY <2>5 DEF D!open_existing_composer, D!Save, D!SaveAndClose, D!DiscardAndClose,
       D!DeleteDraft, D!QueueSend, D!Sent, D!remote
  <2>6. ASSUME NEW o \in appends, D!Claim(o) \/ D!retry_pending_operation(o)
        PROVE  server_copies' = server_copies
    BY <2>6 DEF D!Claim, D!retry_pending_operation
  <2>7. D!OpenFromMessage \/ D!SearchCopies \/ D!SearchSent \/ D!AppendSent
           \/ D!AppendAnswered \/ D!Complete \/ D!Fail \/ D!Crash
        => server_copies' = server_copies
    BY DEF D!OpenFromMessage, D!SearchCopies, D!SearchSent, D!AppendSent,
       D!AppendAnswered, D!Complete, D!Fail, D!Crash, D!remote
  <2>8. D!AppendVersion => server_copies \subseteq server_copies'
    BY DEF D!AppendVersion
  <2> QED
    BY <2>1, <2>2, <2>3, <2>4, <2>5, <2>6, <2>7, <2>8 DEF D!Next
<1>2. ASSUME NEW d \in D!Draft, D!Copies(d) # {}
      PROVE  D!Copies(d)' # {}
  BY <1>1, <1>2 DEF D!Copies
<1>3. ASSUME NEW d \in D!Draft,
             \A o \in appends' : o.kind = "append_draft" => o.draft # d
      PROVE  D!Cardinality(D!Copies(d)') <= 1
  <2>1. PICK copies : copies = D!Copies(d)'
    OBVIOUS
  <2>2. \A c, e \in copies : c = e
    BY <1>3, <2>1 DEF DraftsInv, AppendsInv, OneVersionRemains, D!Copies
  <2>3. Cardinality(copies) <= 1
    <3>1. CASE copies = {}
      BY <3>1, FS_EmptySet
    <3>2. CASE copies # {}
      <4>1. PICK c : copies = {c}
        BY <2>2, <3>2
      <4> QED
        BY SMTT(30), <4>1, FS_Singleton
    <3> QED
      BY <3>1, <3>2
  <2>4. D!Cardinality(copies) = Cardinality(copies)
    BY DEF D!Cardinality, Cardinality
  <2> QED
    BY <2>1, <2>3, <2>4
<1> QED
  BY <1>2, <1>3 DEF D!Replaces

\* The invariant of the drafts.
DraftsKept == subject = "drafts" => DraftsInv

LEMMA DraftsAlone ==
  ASSUME [Next]_vars
  PROVE  /\ subject' = subject
         /\ subject = "drafts" => D!Next \/ UNCHANGED varsDrafts
<1>1. CASE UNCHANGED vars
  BY <1>1 DEF vars
<1>2. CASE Next
  BY <1>2 DEF Next, AccountsStep, ContactsStep, DraftsStep, DefinitionsStep,
     NotificationsStep, MessageListStep, MailboxesStep, AttachmentsStep, ComposerStep
<1> QED
  BY <1>1, <1>2

LEMMA DraftsStay == DraftsKept /\ [Next]_vars => DraftsKept'
BY DraftsAlone, DraftsGoOn DEF DraftsKept

LEMMA DraftsHold == Spec => []DraftsKept
<1>1. Init => DraftsKept
  BY DraftsBegin DEF Init, DraftsKept
<1> QED
  BY <1>1, DraftsStay, PTL DEF Spec

LEMMA DraftsReplace == DraftsKept /\ [Next]_vars => [subject = "drafts" => D!Replaces]_vars
<1> SUFFICES ASSUME DraftsKept, [Next]_vars, ~UNCHANGED vars, subject = "drafts"
             PROVE  D!Replaces
  OBVIOUS
<1>1. D!Next
  BY DEF Next, AccountsStep, ContactsStep, DraftsStep, DefinitionsStep,
     NotificationsStep, MessageListStep, MailboxesStep, AttachmentsStep, ComposerStep
<1>2. DraftsInv /\ DraftsInv'
  BY DraftsStay, DraftsAlone DEF DraftsKept
<1> QED
  BY <1>1, <1>2, VersionsAreReplaced

=============================================================================
