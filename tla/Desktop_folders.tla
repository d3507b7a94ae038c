--------------------------- MODULE Desktop_folders ---------------------------
(***************************************************************************)
(* Folder commands keep the database in step with the server, a role is    *)
(* that of the mailbox found for it, and places stay distinct: FoldersIn-  *)
(* Step of MCDesktop, for every value of the constants.                    *)
(***************************************************************************)
EXTENDS MCDesktop, FiniteSetTheorems, SequenceTheorems, TLAPS

-----------------------------------------------------------------------------
(* What is stored *)

Word == {"inbox"} \cup Leaf
Name == Seq(Word) \ {<<>>}
RowShape == [name : Name, role : B!Role, selectable : BOOLEAN, unread : BOOLEAN,
             order : Nat]
CommandShape ==
    [at : {"idle", "read", "answered"},
     kind : {"create", "rename", "delete", "mark", "map", B!None},
     id : Nat, name : Seq(Word), to : Seq(Word), role : B!Mappable \cup {B!None}]
SpentShape == [rows : Nat, commands : Nat, events : Nat]

\* The mailboxes a server can have.
IsServer(folders) ==
    /\ IsFiniteSet(DOMAIN folders)
    /\ DOMAIN folders \subseteq B!Path
    /\ folders \in [DOMAIN folders -> B!Folder]
    /\ B!Inbox \in DOMAIN folders

\* Rows of which last were ever inserted.
IsTable(table, last) ==
    /\ DOMAIN table \subseteq 1..last
    /\ table \in [DOMAIN table -> RowShape]
    /\ \A i \in DOMAIN table : table[i].order <= last

\* Roles are mapped to mailboxes there are, and each mailbox has one at most.
IsMapping(roles, ids_) ==
    /\ roles \in [B!Mappable -> ids_ \cup {B!NoRow}]
    /\ \A r, s \in B!Mappable : roles[r] = roles[s] /\ roles[r] # B!NoRow => r = s

\* A command that works on a mailbox knows it, and renames no mailbox into itself.
IsCommand(c) ==
    /\ c \in CommandShape
    /\ c.at = "idle" => c = B!Idle
    /\ c.kind = "create" => c.to \in B!Path
    /\ c.kind = "rename" => c.to \in Name
    /\ c.kind \in {"rename", "delete"} =>
          c.id # B!NoRow /\ c.name \in Name /\ c.name # B!Inbox
    /\ c.kind = "rename" => ~B!Below(c.name, B!Front(c.to))
    /\ c.kind = "map" => c.role \in B!Mappable

\* A round works through the mailboxes that were listed.
IsRound(s) ==
    /\ s \in [on : BOOLEAN, listed : {s.listed}, ensure : {s.ensure}, left : {s.left}]
    /\ s.on => /\ IsServer(s.listed)
               /\ s.ensure \in Seq(DOMAIN s.listed)
               /\ s.left \in Seq(DOMAIN s.listed) /\ s.left # <<>>

MailboxesShape ==
    /\ spent \in SpentShape /\ spent.rows <= MaxRows
    /\ IsServer(server)
    /\ IsTable(mailboxes, spent.rows)
    /\ IsMapping(overrides, DOMAIN mailboxes)
    /\ DOMAIN command = Editor /\ \A t \in Editor : IsCommand(command[t])
    /\ IsRound(sync)
    /\ overlapped \in BOOLEAN

-----------------------------------------------------------------------------
(* The database and the server *)

\* A mailbox below another one has it above itself.
Closed(folders) ==
    \A p \in DOMAIN folders : Len(p) = 2 => B!Front(p) \in DOMAIN folders

\* The rows have names of the server's, and distinct ones; all that can be opened, but
\* those that are still to be inserted, have a row.
RowsMatch(ids_, name, folders, missing) ==
    /\ \A i \in ids_ : name[i] \in DOMAIN folders
    /\ \A i, j \in ids_ : name[i] = name[j] => i = j
    /\ \A p \in DOMAIN folders \ missing :
          folders[p].selectable => \E i \in ids_ : name[i] = p
NameOf(table) == [i \in DOMAIN table |-> table[i].name]
Match(table, folders) == RowsMatch(DOMAIN table, NameOf(table), folders, {})

\* What the rows still have to become when the server has answered a command.
CreateIsOwed(c, table, folders) ==
    /\ RowsMatch(DOMAIN table, NameOf(table), folders, {c.to})
    /\ c.to \in DOMAIN folders
    /\ \A i \in DOMAIN table : table[i].name # c.to
RenameIsOwed(c, table, folders) ==
    /\ RowsMatch(DOMAIN table,
                 [i \in DOMAIN table |-> B!Moved(table[i].name, c.name, c.to)], folders, {})
    /\ c.id \in DOMAIN table /\ table[c.id].name = c.name
DeleteIsOwed(c, table, folders) ==
    RowsMatch(DOMAIN table \ {c.id}, NameOf(table), folders, {})
Owed(c, table, folders) ==
    /\ c.kind = "create" => CreateIsOwed(c, table, folders)
    /\ c.kind = "rename" => RenameIsOwed(c, table, folders)
    /\ c.kind = "delete" => DeleteIsOwed(c, table, folders)

\* A command between the server and the database.
Working(c) == c.at = "answered" /\ c.kind \in {"create", "rename", "delete"}

\* With nothing in between, one command at most is between the server and the database,
\* the rest of the database is in step, and a round knows the server as it is.
InStep ==
    ~overlapped =>
        /\ Closed(server)
        /\ sync.on => sync.listed = server
        /\ \A t, u \in Editor : Working(command[t]) /\ Working(command[u]) => t = u
        /\ (\A t \in Editor : ~Working(command[t])) => Match(mailboxes, server)
        /\ \A t \in Editor : Working(command[t]) => Owed(command[t], mailboxes, server)

\* The places are distinct.
Ordered(table) ==
    \A i, j \in DOMAIN table :
        table[i].order = table[j].order /\ table[i].order # B!NoOrder => i = j

MailboxesInv == MailboxesShape /\ Ordered(mailboxes) /\ InStep

-----------------------------------------------------------------------------
(* Names *)

\* The folders at one or two levels have names.
LEMMA PathsAreNames ==
  ASSUME NEW p \in B!Path
  PROVE  p \in Name /\ Len(p) \in {1, 2}
PROOF
<1>1. CASE p = B!Inbox BY <1>1 DEF B!Inbox, Name, Word
<1>2. CASE \E n \in {1, 2} : p \in [1..n -> Leaf]
  <2>1. PICK n \in {1, 2} : p \in [1..n -> Leaf] BY <1>2
  <2>2. p \in Seq(Leaf) /\ Len(p) = n BY <2>1
  <2>3. p \in Seq(Word) BY <2>2 DEF Word
  <2> QED BY <2>1, <2>2, <2>3 DEF Name
<1> QED BY <1>1, <1>2 DEF B!Path

\* All but the inbox are made of leaves.
LEMMA PathIsOrdinary ==
  ASSUME NEW p \in B!Path, p # B!Inbox
  PROVE  p \in [1..Len(p) -> Leaf]
PROOF
<1>1. PICK n \in {1, 2} : p \in [1..n -> Leaf] BY DEF B!Path
<1>2. Len(p) = n BY <1>1
<1> QED BY <1>1, <1>2

LEMMA OneMoreLeaf ==
  ASSUME NEW s \in Seq(Leaf), NEW w \in Leaf
  PROVE  Append(s, w) \in Seq(Leaf) /\ Len(Append(s, w)) = Len(s) + 1
PROOF
OBVIOUS

\* A sequence is below the ones it continues.
LEMMA BelowIs ==
  ASSUME NEW s \in Seq(Word), NEW t \in Seq(Word)
  PROVE  B!Below(s, t) <=> Len(s) <= Len(t) /\ \A i \in 1..Len(s) : s[i] = t[i]
PROOF
<1>1. Len(s) \in Nat /\ Len(t) \in Nat OBVIOUS
<1>2. SubSeq(s, 1, Len(s)) = s BY SubSeqFull
<1> SUFFICES ASSUME Len(s) <= Len(t)
             PROVE  s = SubSeq(t, 1, Len(s)) <=> \A i \in 1..Len(s) : s[i] = t[i]
  BY <1>1, <1>2 DEF B!Below, B!IsPrefix
<1>3. \A i \in 1..Len(s) : t[i] \in Word BY <1>1
<1>4. /\ SubSeq(t, 1, Len(s)) \in Seq(Word)
      /\ Len(SubSeq(t, 1, Len(s))) = Len(s)
      /\ \A i \in 1..Len(s) : SubSeq(t, 1, Len(s))[i] = t[i]
  BY <1>1, <1>3, SubSeqProperties
<1>5. ASSUME \A i \in 1..Len(s) : s[i] = t[i] PROVE s = SubSeq(t, 1, Len(s))
  BY <1>4, <1>5, SeqEqual
<1> QED BY <1>4, <1>5

\* What is above a name.
LEMMA FrontIs ==
  ASSUME NEW s \in Name
  PROVE  /\ B!Front(s) \in Seq(Word) /\ Len(B!Front(s)) = Len(s) - 1
         /\ \A i \in 1..Len(s) - 1 : B!Front(s)[i] = s[i]
         /\ ~B!Below(s, B!Front(s))
PROOF
<1>1. s \in Seq(Word) /\ Len(s) \in Nat \ {0} BY EmptySeq DEF Name
<1>2. \A i \in 1..Len(s) - 1 : s[i] \in Word BY <1>1
<1>3. /\ B!Front(s) \in Seq(Word) /\ Len(B!Front(s)) = Len(s) - 1
      /\ \A i \in 1..Len(s) - 1 : B!Front(s)[i] = s[i]
  <2>1. PICK n \in Nat : n = Len(s) - 1 BY <1>1
  <2>2. \A i \in 1..n : s[i] \in Word BY <1>2, <2>1
  <2>3. /\ SubSeq(s, 1, n) \in Seq(Word) /\ Len(SubSeq(s, 1, n)) = n
        /\ \A i \in 1..n : SubSeq(s, 1, n)[i] = s[i]
    BY <2>2, SubSeqProperties
  <2> QED BY <2>1, <2>3 DEF B!Front
<1> QED BY <1>1, <1>3, BelowIs

LEMMA FrontOfAppend ==
  ASSUME NEW s \in Seq(Word), NEW w \in Word
  PROVE  Append(s, w) \in Name /\ B!Front(Append(s, w)) = s
PROOF
<1>1. /\ Append(s, w) \in Seq(Word) /\ Len(Append(s, w)) = Len(s) + 1
      /\ \A i \in 1..Len(s) : Append(s, w)[i] = s[i]
  OBVIOUS
<1>2. Append(s, w) \in Name BY <1>1, EmptySeq DEF Name
<1>3. /\ B!Front(Append(s, w)) \in Seq(Word) /\ Len(B!Front(Append(s, w))) = Len(s)
      /\ \A i \in 1..Len(s) : B!Front(Append(s, w))[i] = s[i]
  <2>1. Len(s) \in Nat /\ Len(Append(s, w)) - 1 = Len(s) BY <1>1
  <2> QED BY <1>1, <1>2, <2>1, FrontIs
<1>4. B!Front(Append(s, w)) = s BY <1>3, SeqEqual
<1> QED BY <1>2, <1>4

\* What a folder that moves takes along, and where the folder itself goes.
LEMMA MovedIs ==
  ASSUME NEW other \in Name, NEW name \in Name, NEW to \in Name
  PROVE  /\ B!Moved(other, name, to) \in Name
         /\ B!Moved(name, name, to) = to
         /\ ~B!Below(name, other) => B!Moved(other, name, to) = other
PROOF
<1>1. name \in Seq(Word) /\ other \in Seq(Word) /\ to \in Seq(Word) /\ to # <<>>
  BY DEF Name
<1>2. Len(name) \in Nat /\ Len(other) \in Nat BY <1>1
<1>3. \A i \in Len(name) + 1..Len(other) : other[i] \in Word BY <1>1, <1>2
<1>4. SubSeq(other, Len(name) + 1, Len(other)) \in Seq(Word) BY <1>2, <1>3, SubSeqProperties
<1>5. to \o SubSeq(other, Len(name) + 1, Len(other)) \in Name
  BY <1>1, <1>4, ConcatProperties, ConcatEqualIffEmpty DEF Name
<1>6. B!Moved(other, name, to) \in Name BY <1>5 DEF B!Moved
<1>7. SubSeq(name, Len(name) + 1, Len(name)) = <<>> BY <1>2, SubSeqEmpty
<1>8. to \o <<>> = to BY <1>1, ConcatEmptySeq
<1>9. B!Below(name, name) BY <1>1, BelowIs, <1>2
<1>10. B!Moved(name, name, to) = to BY <1>7, <1>8, <1>9 DEF B!Moved
<1> QED BY <1>6, <1>10 DEF B!Moved

\* Below a folder are the ones it is the parent of.
LEMMA BelowIsInside ==
  ASSUME NEW name \in B!Path, NEW p \in B!Path, B!Below(name, p), p # name
  PROVE  Len(name) = 1 /\ Len(p) = 2 /\ B!Front(p) = name
PROOF
<1>1. /\ name \in Seq(Word) /\ p \in Seq(Word) /\ p \in Name
      /\ Len(name) \in {1, 2} /\ Len(p) \in {1, 2}
  BY PathsAreNames DEF Name
<1>2. Len(name) <= Len(p) /\ \A i \in 1..Len(name) : name[i] = p[i] BY <1>1, BelowIs
<1>3. Len(name) # Len(p) BY <1>1, <1>2, SeqEqual
<1>4. Len(name) = 1 /\ Len(p) = 2 BY <1>1, <1>2, <1>3
<1>5. /\ B!Front(p) \in Seq(Word) /\ Len(B!Front(p)) = Len(p) - 1
      /\ \A i \in 1..Len(p) - 1 : B!Front(p)[i] = p[i]
  BY <1>1, FrontIs
<1>6. B!Front(p) = name BY <1>1, <1>2, <1>4, <1>5, SeqEqual
<1> QED BY <1>4, <1>6

\* A folder inside another one takes its last part along.
LEMMA InsideMoves ==
  ASSUME NEW name \in B!Path, NEW p \in B!Path, B!Below(name, p), p # name,
         NEW to \in Name
  PROVE  /\ B!Moved(p, name, to) = Append(to, p[2]) /\ p[2] \in Word
         /\ B!Front(B!Moved(p, name, to)) = to
         /\ Len(B!Moved(p, name, to)) = Len(to) + 1
PROOF
<1>1. Len(name) = 1 /\ Len(p) = 2 BY BelowIsInside
<1>2. p \in Seq(Word) /\ to \in Seq(Word) /\ to # <<>> BY PathsAreNames DEF Name
<1>3. p[2] \in Word BY <1>1, <1>2, 2 \in 1..Len(p), ElementOfSeq
<1>4. SubSeq(p, 2, 2) = <<p[2]>>
  <2>1. \A i \in 2..2 : p[i] \in Word BY <1>3
  <2>2. /\ SubSeq(p, 2, 2) \in Seq(Word) /\ Len(SubSeq(p, 2, 2)) = 1
        /\ \A i \in 1..1 : SubSeq(p, 2, 2)[i] = p[2 + i - 1]
    BY <2>1, SubSeqProperties
  <2>3. SubSeq(p, 2, 2)[1] = p[2] BY <2>2
  <2>4. <<p[2]>> \in Seq(Word) /\ Len(<<p[2]>>) = 1 /\ <<p[2]>>[1] = p[2] BY <1>3
  <2>5. \A i \in 1..1 : SubSeq(p, 2, 2)[i] = <<p[2]>>[i] BY <2>3, <2>4
  <2> QED BY <2>2, <2>4, <2>5, SeqEqual
<1>5. B!Moved(p, name, to) = to \o <<p[2]>> BY <1>1, <1>4 DEF B!Moved
<1>6. to \o <<p[2]>> = Append(to, p[2])
  <2>1. <<p[2]>> \in Seq(Word) /\ Len(<<p[2]>>) = 1 /\ <<p[2]>>[1] = p[2] BY <1>3
  <2>2. /\ to \o <<p[2]>> \in Seq(Word) /\ Len(to \o <<p[2]>>) = Len(to) + 1
        /\ \A i \in 1..Len(to) + 1 :
              (to \o <<p[2]>>)[i] = IF i <= Len(to) THEN to[i] ELSE <<p[2]>>[i - Len(to)]
    BY <2>1, <1>2, ConcatProperties
  <2>3. /\ Append(to, p[2]) \in Seq(Word) /\ Len(Append(to, p[2])) = Len(to) + 1
        /\ \A i \in 1..Len(to) : Append(to, p[2])[i] = to[i]
        /\ Append(to, p[2])[Len(to) + 1] = p[2]
    BY <1>2, <1>3
  <2>4. Len(to) \in Nat BY <1>2
  <2>5. ASSUME NEW i \in 1..Len(to) + 1
        PROVE  (to \o <<p[2]>>)[i] = Append(to, p[2])[i]
    <3>1. CASE i <= Len(to) BY <3>1, <2>2, <2>3, <2>4
    <3>2. CASE i = Len(to) + 1 BY <3>2, <2>1, <2>2, <2>3, <2>4
    <3> QED BY <3>1, <3>2, <2>4
  <2> QED BY <2>2, <2>3, <2>5, SeqEqual
<1>7. Len(Append(to, p[2])) = Len(to) + 1 BY <1>2, <1>3
<1> QED BY <1>2, <1>3, <1>5, <1>6, <1>7, FrontOfAppend

-----------------------------------------------------------------------------
(* The server *)

\* Nothing that is renamed takes the name of another mailbox.
LEMMA NothingIsTaken ==
  ASSUME NEW folders, IsServer(folders), Closed(folders),
         NEW name \in DOMAIN folders, NEW to \in Name, to \notin DOMAIN folders,
         NEW p \in DOMAIN folders, B!Below(name, p)
  PROVE  B!Moved(p, name, to) \notin DOMAIN folders
PROOF
<1>1. name \in B!Path /\ p \in B!Path /\ name \in Name /\ p \in Name
  BY PathsAreNames DEF IsServer
<1>2. CASE p = name BY <1>1, <1>2, MovedIs
<1>3. CASE p # name
  <2>1. /\ B!Front(B!Moved(p, name, to)) = to
        /\ Len(B!Moved(p, name, to)) = Len(to) + 1
    BY <1>1, <1>3, InsideMoves
  <2>2. Len(to) \in Nat \ {0} BY EmptySeq DEF Name
  <2>3. SUFFICES ASSUME B!Moved(p, name, to) \in DOMAIN folders PROVE FALSE OBVIOUS
  <2>4. Len(B!Moved(p, name, to)) \in {1, 2} BY <2>3, PathsAreNames DEF IsServer
  <2>5. Len(B!Moved(p, name, to)) = 2 BY <2>1, <2>2, <2>4
  <2> QED BY <2>1, <2>3, <2>5 DEF Closed
<1> QED BY <1>2, <1>3

LEMMA MovedApart ==
  ASSUME NEW folders, IsServer(folders), Closed(folders),
         NEW name \in DOMAIN folders, NEW to \in Name, to \notin DOMAIN folders,
         NEW p \in DOMAIN folders, NEW q \in DOMAIN folders,
         B!Moved(p, name, to) = B!Moved(q, name, to)
  PROVE  p = q
PROOF
<1>1. /\ name \in B!Path /\ p \in B!Path /\ q \in B!Path
      /\ name \in Name /\ p \in Name /\ q \in Name
  BY PathsAreNames DEF IsServer
<1>2. CASE ~B!Below(name, p) /\ ~B!Below(name, q) BY <1>1, <1>2, MovedIs
<1>3. CASE B!Below(name, p) /\ ~B!Below(name, q)
  <2>1. B!Moved(p, name, to) = q BY <1>1, <1>3, MovedIs
  <2> QED BY <1>3, <2>1, NothingIsTaken
<1>4. CASE ~B!Below(name, p) /\ B!Below(name, q)
  <2>1. B!Moved(q, name, to) = p BY <1>1, <1>4, MovedIs
  <2> QED BY <1>4, <2>1, NothingIsTaken
<1>5. CASE B!Below(name, p) /\ B!Below(name, q)
  <2>1. Len(to) \in Nat BY EmptySeq DEF Name
  <2>2. B!Moved(name, name, to) = to BY <1>1, MovedIs
  <2>3. CASE p = name /\ q # name
    <3>1. Len(B!Moved(q, name, to)) = Len(to) + 1 BY <1>1, <1>5, <2>3, InsideMoves
    <3> QED BY <2>1, <2>2, <2>3, <3>1
  <2>4. CASE p # name /\ q = name
    <3>1. Len(B!Moved(p, name, to)) = Len(to) + 1 BY <1>1, <1>5, <2>4, InsideMoves
    <3> QED BY <2>1, <2>2, <2>4, <3>1
  <2>5. CASE p # name /\ q # name
    <3>1. /\ B!Moved(p, name, to) = Append(to, p[2]) /\ p[2] \in Word
          /\ B!Moved(q, name, to) = Append(to, q[2]) /\ q[2] \in Word
      BY <1>1, <1>5, <2>5, InsideMoves
    <3>2. to \in Seq(Word) BY DEF Name
    <3>3. p[2] = q[2]
      <4>1. /\ Append(to, p[2])[Len(to) + 1] = p[2]
            /\ Append(to, q[2])[Len(to) + 1] = q[2]
        BY <3>1, <3>2, <2>1
      <4> QED BY <3>1, <4>1
    <3>4. Len(p) = 2 /\ Len(q) = 2 /\ B!Front(p) = name /\ B!Front(q) = name
      BY <1>1, <1>5, <2>5, BelowIsInside
    <3>5. p[1] = name[1] /\ q[1] = name[1]
      <4>1. \A i \in 1..Len(p) - 1 : B!Front(p)[i] = p[i] BY <1>1, FrontIs
      <4>2. \A i \in 1..Len(q) - 1 : B!Front(q)[i] = q[i] BY <1>1, FrontIs
      <4>3. 1 \in 1..Len(p) - 1 /\ 1 \in 1..Len(q) - 1 BY <3>4
      <4> QED BY <4>1, <4>2, <4>3, <3>4
    <3>6. \A i \in 1..Len(p) : p[i] = q[i] BY <3>3, <3>4, <3>5
    <3>7. p \in Seq(Word) /\ q \in Seq(Word) BY <1>1 DEF Name
    <3> QED BY <3>4, <3>6, <3>7, SeqEqual
  <2> QED BY <2>3, <2>4, <2>5
<1> QED BY <1>2, <1>3, <1>4, <1>5

\* Renaming leaves the server with mailboxes it can have.
LEMMA InboxStaysPut ==
  ASSUME NEW name \in Name, name # B!Inbox
  PROVE  ~B!Below(name, B!Inbox)
PROOF
<1>1. name \in Seq(Word) /\ Len(name) \in Nat \ {0} BY EmptySeq DEF Name
<1>2. B!Inbox \in Seq(Word) /\ Len(B!Inbox) = 1 BY DEF B!Inbox, Word
<1>3. SUFFICES ASSUME B!Below(name, B!Inbox) PROVE FALSE OBVIOUS
<1>4. Len(name) <= 1 /\ \A i \in 1..Len(name) : name[i] = B!Inbox[i]
  BY <1>1, <1>2, <1>3, BelowIs
<1>5. Len(name) = Len(B!Inbox) BY <1>1, <1>2, <1>4
<1> QED BY <1>1, <1>2, <1>4, <1>5, SeqEqual

LEMMA RenamingServes ==
  ASSUME NEW folders, IsServer(folders), NEW name \in Name, NEW to \in Name,
         name # B!Inbox,
         \A p \in DOMAIN folders :
            B!Below(name, p) => B!Moved(p, name, to) \in B!Path
  PROVE  IsServer(B!Renamed(folders, name, to))
PROOF
<1> DEFINE places == {B!Moved(q, name, to) : q \in DOMAIN folders}
<1>1. \A q \in DOMAIN folders : q \in Name BY PathsAreNames DEF IsServer
<1>2. places \subseteq B!Path
  <2>1. ASSUME NEW q \in DOMAIN folders PROVE B!Moved(q, name, to) \in B!Path
    <3>1. CASE B!Below(name, q) BY <3>1
    <3>2. CASE ~B!Below(name, q)
      <4>1. B!Moved(q, name, to) = q BY <1>1, <3>2, MovedIs
      <4> QED BY <4>1 DEF IsServer
    <3> QED BY <3>1, <3>2
  <2> QED BY <2>1
<1>3. IsFiniteSet(places)
  <2> DEFINE f == [q \in DOMAIN folders |-> B!Moved(q, name, to)]
  <2>1. f \in Surjection(DOMAIN folders, places) BY DEF Surjection
  <2> QED BY <2>1, FS_Surjection DEF IsServer
<1>4. B!Inbox \in places
  <2>1. B!Inbox \in DOMAIN folders BY DEF IsServer
  <2>2. B!Moved(B!Inbox, name, to) = B!Inbox BY <1>1, <2>1, InboxStaysPut, MovedIs
  <2> QED BY <2>1, <2>2
<1>5. ASSUME NEW p \in places
      PROVE  folders[CHOOSE q \in DOMAIN folders : B!Moved(q, name, to) = p] \in B!Folder
  <2>1. \E q \in DOMAIN folders : B!Moved(q, name, to) = p OBVIOUS
  <2>2. (CHOOSE q \in DOMAIN folders : B!Moved(q, name, to) = p) \in DOMAIN folders BY <2>1
  <2> QED BY <2>2 DEF IsServer
<1>6. B!Renamed(folders, name, to) \in [places -> B!Folder] BY <1>5 DEF B!Renamed
<1> QED BY <1>2, <1>3, <1>4, <1>6 DEF IsServer

\* What is found under a new name is what was there under the old one.
LEMMA RenamingMoves ==
  ASSUME NEW folders, IsServer(folders), Closed(folders),
         NEW name \in DOMAIN folders, NEW to \in Name, to \notin DOMAIN folders,
         Len(to) = 2 => B!Front(to) \in DOMAIN folders, ~B!Below(name, B!Front(to)),
         \A p \in DOMAIN folders :
            B!Below(name, p) => B!Moved(p, name, to) \in B!Path
  PROVE  /\ \A q \in DOMAIN folders :
                /\ B!Moved(q, name, to) \in DOMAIN B!Renamed(folders, name, to)
                /\ B!Renamed(folders, name, to)[B!Moved(q, name, to)] = folders[q]
         /\ \A p \in DOMAIN B!Renamed(folders, name, to) :
                \E q \in DOMAIN folders : p = B!Moved(q, name, to)
         /\ Closed(B!Renamed(folders, name, to))
PROOF
<1> DEFINE after == B!Renamed(folders, name, to)
           places == {B!Moved(q, name, to) : q \in DOMAIN folders}
<1>1. DOMAIN after = places BY DEF B!Renamed
<1>2. ASSUME NEW q \in DOMAIN folders PROVE after[B!Moved(q, name, to)] = folders[q]
  <2> DEFINE old == CHOOSE r \in DOMAIN folders :
                        B!Moved(r, name, to) = B!Moved(q, name, to)
  <2>1. old \in DOMAIN folders /\ B!Moved(old, name, to) = B!Moved(q, name, to) OBVIOUS
  <2> HIDE DEF old
  <2>2. old = q BY <2>1, MovedApart
  <2>3. after[B!Moved(q, name, to)] = folders[old] BY DEF B!Renamed, old
  <2> QED BY <2>2, <2>3
<1>3. name \in B!Path /\ name \in Name BY PathsAreNames DEF IsServer
<1>4. ASSUME NEW q \in DOMAIN folders, Len(B!Moved(q, name, to)) = 2
      PROVE  \E r \in DOMAIN folders : B!Front(B!Moved(q, name, to)) = B!Moved(r, name, to)
  <2>1. q \in B!Path /\ q \in Name BY PathsAreNames DEF IsServer
  <2>2. CASE q = name
    <3>1. B!Moved(q, name, to) = to BY <1>3, <2>2, MovedIs
    <3>2. B!Front(to) \in DOMAIN folders BY <1>4, <3>1
    <3>3. B!Front(to) \in Name BY <3>2, PathsAreNames DEF IsServer
    <3>4. B!Moved(B!Front(to), name, to) = B!Front(to) BY <1>3, <3>3, MovedIs
    <3> QED BY <3>1, <3>2, <3>4
  <2>3. CASE q # name /\ B!Below(name, q)
    <3>1. B!Front(B!Moved(q, name, to)) = to BY <1>3, <2>1, <2>3, InsideMoves
    <3>2. B!Moved(name, name, to) = to BY <1>3, MovedIs
    <3> QED BY <3>1, <3>2
  <2>4. CASE ~B!Below(name, q)
    <3>1. B!Moved(q, name, to) = q BY <1>3, <2>1, <2>4, MovedIs
    <3>2. B!Front(q) \in DOMAIN folders BY <1>4, <3>1 DEF Closed
    <3>3. B!Front(q) \in B!Path /\ B!Front(q) \in Name BY <3>2, PathsAreNames DEF IsServer
    <3>4. ~B!Below(name, B!Front(q))
      <4>1. SUFFICES ASSUME B!Below(name, B!Front(q)) PROVE FALSE OBVIOUS
      <4>2. /\ name \in Seq(Word) /\ q \in Seq(Word) /\ B!Front(q) \in Seq(Word)
            /\ Len(B!Front(q)) = Len(q) - 1 /\ Len(q) = 2
            /\ \A i \in 1..Len(q) - 1 : B!Front(q)[i] = q[i]
        BY <1>3, <1>4, <2>1, <3>1, FrontIs DEF Name
      <4>3. Len(name) <= Len(B!Front(q)) /\ \A i \in 1..Len(name) : name[i] = B!Front(q)[i]
        BY <4>1, <4>2, BelowIs
      <4>4. Len(name) \in Nat BY <4>2
      <4>5. Len(name) <= Len(q) /\ \A i \in 1..Len(name) : name[i] = q[i]
        BY <4>2, <4>3, <4>4
      <4> QED BY <2>4, <4>2, <4>5, BelowIs
    <3>5. B!Moved(B!Front(q), name, to) = B!Front(q) BY <1>3, <3>3, <3>4, MovedIs
    <3> QED BY <3>1, <3>2, <3>5
  <2> QED BY <2>2, <2>3, <2>4
<1>5. Closed(after) BY <1>1, <1>4 DEF Closed
<1> QED BY <1>1, <1>2, <1>5

\* A mailbox that is removed stays when others are below it, and cannot be opened.
LEMMA RemovingServes ==
  ASSUME NEW folders, IsServer(folders), NEW name \in DOMAIN folders, name # B!Inbox
  PROVE  /\ IsServer(B!Removed(folders, name))
         /\ DOMAIN B!Removed(folders, name) \subseteq DOMAIN folders
         /\ \A p \in DOMAIN folders \ {name} :
               /\ p \in DOMAIN B!Removed(folders, name)
               /\ B!Removed(folders, name)[p] = folders[p]
         /\ name \in DOMAIN B!Removed(folders, name)
               => ~B!Removed(folders, name)[name].selectable
         /\ Closed(folders) => Closed(B!Removed(folders, name))
PROOF
<1> DEFINE after == B!Removed(folders, name)
<1>0. folders[name] \in B!Folder BY DEF IsServer
<1>1. CASE \E p \in DOMAIN folders : p # name /\ B!Below(name, p)
  <2>1. after = [folders EXCEPT ![name].selectable = FALSE] BY <1>1 DEF B!Removed
  <2>2. [folders[name] EXCEPT !.selectable = FALSE] \in B!Folder BY <1>0 DEF B!Folder
  <2>3. DOMAIN after = DOMAIN folders BY <2>1
  <2>4. after \in [DOMAIN folders -> B!Folder] BY <2>1, <2>2 DEF IsServer
  <2>5. ~after[name].selectable BY <2>1, <1>0 DEF B!Folder
  <2>6. \A p \in DOMAIN folders \ {name} : after[p] = folders[p] BY <2>1
  <2> QED BY <2>3, <2>4, <2>5, <2>6 DEF IsServer, Closed
<1>2. CASE ~\E p \in DOMAIN folders : p # name /\ B!Below(name, p)
  <2>1. after = [p \in DOMAIN folders \ {name} |-> folders[p]] BY <1>2 DEF B!Removed
  <2>2. IsFiniteSet(DOMAIN folders \ {name}) BY FS_RemoveElement DEF IsServer
  <2>3. IsServer(after) BY <2>1, <2>2 DEF IsServer
  <2>4. ASSUME Closed(folders), NEW p \in DOMAIN folders \ {name}, Len(p) = 2
        PROVE  B!Front(p) # name
    <3>1. SUFFICES ASSUME B!Front(p) = name PROVE FALSE OBVIOUS
    <3>2. p \in Name BY PathsAreNames DEF IsServer
    <3>3. /\ p \in Seq(Word) /\ name \in Seq(Word) /\ Len(name) = Len(p) - 1
          /\ \A i \in 1..Len(p) - 1 : name[i] = p[i]
      BY <3>1, <3>2, FrontIs DEF Name
    <3>4. B!Below(name, p) BY <2>4, <3>3, BelowIs
    <3> QED BY <1>2, <3>4
  <2>5. Closed(folders) => Closed(after) BY <2>1, <2>4 DEF Closed
  <2> QED BY <2>1, <2>3, <2>5
<1> QED BY <1>1, <1>2

\* A mailbox that is added.
LEMMA AddingServes ==
  ASSUME NEW folders, IsServer(folders), NEW p \in B!Path, p \notin DOMAIN folders
  PROVE  /\ IsServer(B!Added(folders, p, B!PlainFolder))
         /\ DOMAIN B!Added(folders, p, B!PlainFolder) = DOMAIN folders \cup {p}
         /\ \A q \in DOMAIN folders : B!Added(folders, p, B!PlainFolder)[q] = folders[q]
         /\ Closed(folders) /\ (Len(p) = 2 => B!Front(p) \in DOMAIN folders)
               => Closed(B!Added(folders, p, B!PlainFolder))
PROOF
<1> DEFINE after == B!Added(folders, p, B!PlainFolder)
<1>1. B!PlainFolder \in B!Folder BY DEF B!PlainFolder, B!Folder, B!Role
<1>2. /\ DOMAIN after = DOMAIN folders \cup {p}
      /\ \A q \in DOMAIN folders : after[q] = folders[q]
      /\ after[p] = B!PlainFolder
      /\ after \in [DOMAIN folders \cup {p} -> B!Folder]
  BY <1>1 DEF B!Added, IsServer
<1>3. IsFiniteSet(DOMAIN folders \cup {p}) BY FS_AddElement DEF IsServer
<1> QED BY <1>2, <1>3 DEF IsServer, Closed

-----------------------------------------------------------------------------
(* What the steps have in common *)

SameFolders(f, g) ==
    DOMAIN f = DOMAIN g /\ \A p \in DOMAIN f : f[p].selectable <=> g[p].selectable
SameNames(t, u) == DOMAIN t = DOMAIN u /\ \A i \in DOMAIN t : t[i].name = u[i].name

LEMMA RowsMatchAlike ==
  ASSUME NEW ids_, NEW name, NEW missing, NEW f, NEW g, SameFolders(f, g),
         RowsMatch(ids_, name, f, missing)
  PROVE  RowsMatch(ids_, name, g, missing)
PROOF
BY DEF SameFolders, RowsMatch

LEMMA OwedAlike ==
  ASSUME NEW t, NEW u, SameNames(t, u), NEW f, NEW g, SameFolders(f, g)
  PROVE  /\ Match(t, f) => Match(u, g)
         /\ \A c : Owed(c, t, f) => Owed(c, u, g)
PROOF
<1>1. DOMAIN t = DOMAIN u BY DEF SameNames
<1>2. NameOf(t) = NameOf(u) BY DEF SameNames, NameOf
<1>3. Match(t, f) => Match(u, g) BY <1>1, <1>2, RowsMatchAlike DEF Match
<1>4. ASSUME NEW c, Owed(c, t, f) PROVE Owed(c, u, g)
  <2>1. c.kind = "create" => CreateIsOwed(c, u, g)
    BY <1>1, <1>2, <1>4, RowsMatchAlike DEF Owed, CreateIsOwed, SameNames, SameFolders
  <2>2. [i \in DOMAIN t |-> B!Moved(t[i].name, c.name, c.to)]
           = [i \in DOMAIN u |-> B!Moved(u[i].name, c.name, c.to)]
    BY DEF SameNames
  <2>3. c.kind = "rename" => RenameIsOwed(c, u, g)
    <3>1. SUFFICES ASSUME c.kind = "rename" PROVE RenameIsOwed(c, u, g) OBVIOUS
    <3>2. /\ RowsMatch(DOMAIN t, [i \in DOMAIN t |-> B!Moved(t[i].name, c.name, c.to)], f, {})
          /\ c.id \in DOMAIN t /\ t[c.id].name = c.name
      BY <1>4, <3>1 DEF Owed, RenameIsOwed
    <3>3. c.id \in DOMAIN u /\ u[c.id].name = c.name BY <3>2 DEF SameNames
    <3>4. RowsMatch(DOMAIN t, [i \in DOMAIN t |-> B!Moved(t[i].name, c.name, c.to)], g, {})
      BY <3>2, RowsMatchAlike
    <3> QED BY <1>1, <2>2, <3>3, <3>4 DEF RenameIsOwed
  <2>4. c.kind = "delete" => DeleteIsOwed(c, u, g)
    BY <1>1, <1>2, <1>4, RowsMatchAlike DEF Owed, DeleteIsOwed
  <2> QED BY <2>1, <2>3, <2>4 DEF Owed
<1> QED BY <1>3, <1>4

\* A step that changes no name and lets no command through leaves what is owed.
Undisturbed ==
    /\ ~overlapped
    /\ SameFolders(server, server')
    /\ SameNames(mailboxes, mailboxes')
    /\ sync'.on => sync'.listed = server'
    /\ \A t \in Editor : /\ Working(command'[t]) <=> Working(command[t])
                         /\ Working(command[t]) => command'[t] = command[t]

LEMMA UndisturbedKeeps ==
  ASSUME InStep, ~overlapped' => Undisturbed
  PROVE  InStep'
PROOF
<1> SUFFICES ASSUME ~overlapped'
             PROVE  /\ Closed(server')
                    /\ sync'.on => sync'.listed = server'
                    /\ \A t, u \in Editor :
                          Working(command'[t]) /\ Working(command'[u]) => t = u
                    /\ (\A t \in Editor : ~Working(command'[t])) => Match(mailboxes', server')
                    /\ \A t \in Editor :
                          Working(command'[t]) => Owed(command'[t], mailboxes', server')
  BY DEF InStep
<1>1. Undisturbed OBVIOUS
<1>2. Closed(server') BY <1>1 DEF Undisturbed, InStep, SameFolders, Closed
<1>3. /\ Match(mailboxes, server) => Match(mailboxes', server')
      /\ \A c : Owed(c, mailboxes, server) => Owed(c, mailboxes', server')
  BY <1>1, OwedAlike DEF Undisturbed
<1>4. \A t, u \in Editor : Working(command'[t]) /\ Working(command'[u]) => t = u
  BY <1>1 DEF Undisturbed, InStep
<1>5. (\A t \in Editor : ~Working(command'[t])) => Match(mailboxes', server')
  BY <1>1, <1>3 DEF Undisturbed, InStep
<1>6. ASSUME NEW t \in Editor, Working(command'[t])
      PROVE  Owed(command'[t], mailboxes', server')
  <2>1. Working(command[t]) /\ command'[t] = command[t] BY <1>1, <1>6 DEF Undisturbed
  <2>2. Owed(command[t], mailboxes, server) BY <1>1, <2>1 DEF Undisturbed, InStep
  <2> QED BY <1>3, <2>1, <2>2
<1> QED BY <1>1, <1>2, <1>4, <1>5, <1>6 DEF Undisturbed

\* What is counted.
LEMMA SpendingCounts ==
  ASSUME spent \in SpentShape
  PROVE  /\ B!Spend("rows") => spent' \in SpentShape /\ spent'.rows = spent.rows + 1
         /\ B!Spend("events") => spent' \in SpentShape /\ spent'.rows = spent.rows
         /\ B!SpendCommand => spent' \in SpentShape /\ spent'.rows = spent.rows
PROOF
<1>1. spent.rows \in Nat /\ spent.commands \in Nat /\ spent.events \in Nat
  BY DEF SpentShape
<1>2. ASSUME B!Spend("rows") PROVE spent' \in SpentShape /\ spent'.rows = spent.rows + 1
  <2>1. spent' = [spent EXCEPT !.rows = @ + 1] BY <1>2 DEF B!Spend
  <2> QED BY <1>1, <2>1 DEF SpentShape
<1>3. ASSUME B!Spend("events") PROVE spent' \in SpentShape /\ spent'.rows = spent.rows
  <2>1. spent' = [spent EXCEPT !.events = @ + 1] BY <1>3 DEF B!Spend
  <2> QED BY <1>1, <2>1 DEF SpentShape
<1>4. ASSUME B!SpendCommand PROVE spent' \in SpentShape /\ spent'.rows = spent.rows
  <2> DEFINE once == [spent EXCEPT !.commands = @ + 1]
  <2>1. once \in SpentShape /\ once.rows = spent.rows BY <1>1 DEF SpentShape
  <2>2. spent' = [once EXCEPT !.events = @ + 1] BY <1>4 DEF B!SpendCommand
  <2> HIDE DEF once
  <2>3. once.events \in Nat BY <2>1 DEF SpentShape
  <2> QED BY <2>1, <2>2, <2>3 DEF SpentShape
<1> QED BY <1>2, <1>3, <1>4

\* One more row, one row less.
LEMMA TableGrows ==
  ASSUME NEW last \in Nat, NEW table, IsTable(table, last), NEW row \in RowShape,
         row.order <= last + 1
  PROVE  /\ IsTable(B!Added(table, last + 1, row), last + 1)
         /\ last + 1 \notin DOMAIN table
         /\ DOMAIN B!Added(table, last + 1, row) = DOMAIN table \cup {last + 1}
         /\ \A i \in DOMAIN table : B!Added(table, last + 1, row)[i] = table[i]
         /\ B!Added(table, last + 1, row)[last + 1] = row
PROOF
<1> DEFINE after == B!Added(table, last + 1, row)
<1>1. last + 1 \notin DOMAIN table BY DEF IsTable
<1>2. DOMAIN after = DOMAIN table \cup {last + 1} BY DEF B!Added
<1>3. \A i \in DOMAIN table : after[i] = table[i] BY <1>1 DEF B!Added
<1>4. after[last + 1] = row BY DEF B!Added
<1>5. after \in [DOMAIN table \cup {last + 1} -> RowShape]
  <2>1. \A i \in DOMAIN table : table[i] \in RowShape BY DEF IsTable
  <2> QED BY <2>1 DEF B!Added
<1>6. \A i \in DOMAIN after : after[i].order <= last + 1
  <2>1. \A i \in DOMAIN table : table[i].order \in Nat /\ table[i].order <= last
    BY DEF IsTable, RowShape
  <2> QED BY <1>2, <1>3, <1>4, <2>1
<1>7. DOMAIN after \subseteq 1..last + 1 BY <1>2 DEF IsTable
<1> HIDE DEF after
<1>8. IsTable(after, last + 1) BY <1>2, <1>5, <1>6, <1>7 DEF IsTable
<1> QED BY <1>1, <1>2, <1>3, <1>4, <1>8 DEF after

LEMMA InsertingAdds ==
  ASSUME MailboxesShape, NEW row \in RowShape, row.order <= spent.rows + 1, B!Insert(row)
  PROVE  /\ spent' \in SpentShape /\ spent'.rows = spent.rows + 1 /\ spent'.rows <= MaxRows
         /\ mailboxes' = B!Added(mailboxes, spent.rows + 1, row)
         /\ IsTable(mailboxes', spent'.rows)
         /\ spent.rows + 1 \notin DOMAIN mailboxes
         /\ DOMAIN mailboxes' = DOMAIN mailboxes \cup {spent.rows + 1}
         /\ \A i \in DOMAIN mailboxes : mailboxes'[i] = mailboxes[i]
         /\ mailboxes'[spent.rows + 1] = row
PROOF
<1>1. spent \in SpentShape /\ spent.rows \in Nat BY DEF MailboxesShape, SpentShape
<1>2. spent' \in SpentShape /\ spent'.rows = spent.rows + 1
  BY <1>1, SpendingCounts DEF B!Insert
<1>3. spent'.rows <= MaxRows BY <1>1, <1>2, MailboxesAssumption DEF B!Insert
<1>4. mailboxes' = B!Added(mailboxes, spent.rows + 1, row) BY DEF B!Insert
<1>5. IsTable(mailboxes, spent.rows) BY DEF MailboxesShape
<1> QED BY <1>1, <1>2, <1>3, <1>4, <1>5, TableGrows

\* The place of a new row is after all that have one.
LEMMA SomePlaceIsLast ==
  ASSUME NEW places \in SUBSET Nat, NEW n \in Nat, \A m \in places : m <= n, places # {}
  PROVE  \E k \in places : \A m \in places : m <= k
PROOF
<1> DEFINE bounds == {k \in Nat : \A m \in places : m <= k}
           below == OpToRel(<, Nat)
<1>1. \A i, j \in Nat : i < j => <<i, j>> \in below BY DEF OpToRel
<1>2. n \in bounds /\ bounds \subseteq Nat OBVIOUS
<1> HIDE DEF below
<1>3. IsWellFoundedOn(below, Nat) BY NatLessThanWellFounded DEF below
<1>4. PICK k \in bounds : \A j \in bounds : ~(<<j, k>> \in below)
  <2> HIDE DEF bounds
  <2>1. bounds # {} BY <1>2
  <2> QED BY <1>2, <1>3, <2>1, WFMin
<1>5. k \in places
  <2>1. SUFFICES ASSUME k \notin places PROVE FALSE OBVIOUS
  <2>2. PICK m \in places : TRUE OBVIOUS
  <2>3. \A j \in places : j < k BY <2>1
  <2>4. k - 1 \in Nat BY <2>2, <2>3
  <2>5. k - 1 \in bounds BY <2>3, <2>4
  <2>6. <<k - 1, k>> \in below BY <1>1, <2>4
  <2> QED BY <1>4, <2>5, <2>6
<1> QED BY <1>5

LEMMA LastPlaceIsFree ==
  ASSUME NEW n \in Nat, IsTable(mailboxes, n)
  PROVE  /\ B!LastPlace \in Nat /\ B!LastPlace <= n + 1
         /\ \A i \in DOMAIN mailboxes :
               B!LastPlace = B!NoOrder \/ mailboxes[i].order # B!LastPlace
PROOF
<1> DEFINE places == {mailboxes[i].order : i \in DOMAIN mailboxes} \ {B!NoOrder}
<1>1. \A i \in DOMAIN mailboxes : mailboxes[i].order \in Nat /\ mailboxes[i].order <= n
  BY DEF IsTable, RowShape
<1>2. places \in SUBSET Nat /\ \A m \in places : m <= n BY <1>1
<1>3. CASE places = {}
  <2>1. B!LastPlace = B!NoOrder BY <1>3 DEF B!LastPlace
  <2> QED BY <2>1 DEF B!NoOrder
<1>4. CASE places # {}
  <2> DEFINE last == CHOOSE k \in places : \A m \in places : m <= k
  <2>1. last \in places /\ \A m \in places : m <= last
    <3>1. \E k \in places : \A m \in places : m <= k BY <1>2, <1>4, SomePlaceIsLast
    <3> QED BY <3>1
  <2>2. B!LastPlace = 1 + last BY <1>4 DEF B!LastPlace
  <2> HIDE DEF last
  <2>3. \A i \in DOMAIN mailboxes :
           mailboxes[i].order = B!NoOrder \/ mailboxes[i].order <= last
    BY <2>1
  <2>4. last \in Nat /\ last <= n BY <1>2, <2>1
  <2> QED BY <1>1, <2>2, <2>3, <2>4 DEF B!NoOrder
<1> QED BY <1>3, <1>4

-----------------------------------------------------------------------------
(* Commands begin *)

LEMMA IdleIsCommand == IsCommand(B!Idle) /\ ~Working(B!Idle)
PROOF
<1>1. B!Idle \in CommandShape BY EmptySeq DEF B!Idle, CommandShape, B!NoRow
<1> QED BY <1>1 DEF B!Idle, IsCommand, Working, B!None

LEMMA BeginKeeps ==
  ASSUME MailboxesInv, NEW t \in Editor, NEW c, IsCommand(c), c.at = "read", B!Begin(t, c)
  PROVE  MailboxesInv'
PROOF
<1>1. command' = [command EXCEPT ![t] = c] /\ command[t].at = "idle" BY DEF B!Begin
<1>2. UNCHANGED <<server, mailboxes, overrides, sync, overlapped>> BY DEF B!Begin
<1>3. spent' \in SpentShape /\ spent'.rows = spent.rows
  BY SpendingCounts DEF B!Begin, MailboxesInv, MailboxesShape
<1>4. DOMAIN command' = Editor /\ \A u \in Editor : IsCommand(command'[u])
  BY <1>1 DEF MailboxesInv, MailboxesShape
<1>5. MailboxesShape' BY <1>2, <1>3, <1>4 DEF MailboxesInv, MailboxesShape
<1>6. \A u \in Editor : /\ Working(command'[u]) <=> Working(command[u])
                        /\ Working(command[u]) => command'[u] = command[u]
  BY <1>1 DEF Working, MailboxesInv, MailboxesShape
<1>7. ~overlapped' => Undisturbed
  BY <1>2, <1>6 DEF MailboxesInv, InStep, Undisturbed, SameFolders, SameNames
<1>8. InStep' BY <1>7, UndisturbedKeeps DEF MailboxesInv
<1> QED BY <1>2, <1>5, <1>8 DEF MailboxesInv

LEMMA CreationBegins ==
  ASSUME MailboxesInv, NEW t \in Editor, B!create_mailbox(t)
  PROVE  MailboxesInv'
PROOF
<1>1. PICK to \in B!Path :
        B!Begin(t, [B!Idle EXCEPT !.at = "read", !.kind = "create", !.to = to])
  BY DEF B!create_mailbox
<1> DEFINE c == [B!Idle EXCEPT !.at = "read", !.kind = "create", !.to = to]
<1>2. to \in Seq(Word) BY PathsAreNames DEF Name
<1>3. /\ c.at = "read" /\ c.kind = "create" /\ c.to = to
      /\ c \in CommandShape
  BY <1>2, EmptySeq DEF B!Idle, CommandShape, B!NoRow
<1> HIDE DEF c
<1>4. IsCommand(c) BY <1>3 DEF IsCommand
<1> QED BY <1>1, <1>3, <1>4, BeginKeeps DEF c

\* A mailbox that the database has, and its name.
LEMMA RowsHaveNames ==
  ASSUME MailboxesShape, NEW i \in DOMAIN mailboxes
  PROVE  i \in Nat /\ i # B!NoRow /\ mailboxes[i] \in RowShape /\ mailboxes[i].name \in Name
PROOF
<1>1. spent.rows \in Nat /\ IsTable(mailboxes, spent.rows)
  BY DEF MailboxesShape, SpentShape
<1> QED BY <1>1 DEF IsTable, RowShape, B!NoRow

LEMMA RenamingBegins ==
  ASSUME MailboxesInv, NEW t \in Editor, NEW i \in DOMAIN mailboxes, NEW to,
         mailboxes[i].name # B!Inbox, to \in Name,
         ~B!Below(mailboxes[i].name, B!Front(to)),
         B!Begin(t, [B!Idle EXCEPT !.at = "read", !.kind = "rename", !.id = i,
                                   !.name = mailboxes[i].name, !.to = to])
  PROVE  MailboxesInv'
PROOF
<1>1. i \in Nat /\ i # B!NoRow /\ mailboxes[i].name \in Name
  BY RowsHaveNames DEF MailboxesInv
<1> DEFINE name == mailboxes[i].name
           c == [B!Idle EXCEPT !.at = "read", !.kind = "rename", !.id = i,
                               !.name = name, !.to = to]
<1>2. name \in Seq(Word) /\ to \in Seq(Word) BY <1>1 DEF Name
<1> HIDE DEF name
<1>3. /\ c.at = "read" /\ c.kind = "rename" /\ c.id = i /\ c.name = name /\ c.to = to
      /\ c \in CommandShape
  BY <1>1, <1>2 DEF B!Idle, CommandShape
<1> HIDE DEF c
<1>4. IsCommand(c) BY <1>1, <1>3 DEF IsCommand, name
<1> QED BY <1>3, <1>4, BeginKeeps DEF c, name

LEMMA RenamesBegin ==
  ASSUME MailboxesInv, NEW t \in Editor, B!rename_mailbox(t) \/ B!move_mailbox(t)
  PROVE  MailboxesInv'
PROOF
<1>1. CASE B!rename_mailbox(t)
  <2>1. PICK i \in DOMAIN mailboxes, leaf \in Leaf :
            /\ mailboxes[i].name # B!Inbox
            /\ B!Begin(t, [B!Idle EXCEPT !.at = "read", !.kind = "rename", !.id = i,
                                         !.name = mailboxes[i].name,
                                         !.to = Append(B!Front(mailboxes[i].name), leaf)])
    BY <1>1 DEF B!rename_mailbox
  <2> DEFINE to == Append(B!Front(mailboxes[i].name), leaf)
  <2>2. mailboxes[i].name \in Name BY RowsHaveNames DEF MailboxesInv
  <2>3. /\ B!Front(mailboxes[i].name) \in Seq(Word)
        /\ ~B!Below(mailboxes[i].name, B!Front(mailboxes[i].name))
    BY <2>2, FrontIs
  <2>4. leaf \in Word BY DEF Word
  <2>5. to \in Name /\ B!Front(to) = B!Front(mailboxes[i].name)
    BY <2>3, <2>4, FrontOfAppend
  <2> HIDE DEF to
  <2>6. ~B!Below(mailboxes[i].name, B!Front(to)) BY <2>3, <2>5
  <2>7. B!Begin(t, [B!Idle EXCEPT !.at = "read", !.kind = "rename", !.id = i,
                                  !.name = mailboxes[i].name, !.to = to])
    BY <2>1 DEF to
  <2> QED BY <2>1, <2>5, <2>6, <2>7, RenamingBegins
<1>2. CASE B!move_mailbox(t)
  <2>1. PICK i \in DOMAIN mailboxes, parent \in DOMAIN mailboxes \cup {B!NoRow} :
          LET name == mailboxes[i].name
              into == IF parent = B!NoRow THEN <<>> ELSE mailboxes[parent].name
              to == Append(into, B!Last(name))
          IN /\ name # B!Inbox /\ ~B!Below(name, into)
             /\ B!Begin(t, [B!Idle EXCEPT !.at = "read", !.kind = "rename", !.id = i,
                                          !.name = name, !.to = to])
    BY <1>2 DEF B!move_mailbox
  <2> DEFINE into == IF parent = B!NoRow THEN <<>> ELSE mailboxes[parent].name
             to == Append(into, B!Last(mailboxes[i].name))
  <2>2. mailboxes[i].name \in Name BY RowsHaveNames DEF MailboxesInv
  <2>3. into \in Seq(Word)
    <3>1. CASE parent = B!NoRow BY <3>1, EmptySeq
    <3>2. CASE parent # B!NoRow
      <4>1. mailboxes[parent].name \in Name BY <3>2, RowsHaveNames DEF MailboxesInv
      <4> QED BY <3>2, <4>1 DEF Name
    <3> QED BY <3>1, <3>2
  <2>4. B!Last(mailboxes[i].name) \in Word
    <3>1. /\ mailboxes[i].name \in Seq(Word)
          /\ Len(mailboxes[i].name) \in 1..Len(mailboxes[i].name)
      BY <2>2, EmptySeq DEF Name
    <3> QED BY <3>1, ElementOfSeq DEF B!Last
  <2>5. /\ mailboxes[i].name # B!Inbox /\ ~B!Below(mailboxes[i].name, into)
        /\ B!Begin(t, [B!Idle EXCEPT !.at = "read", !.kind = "rename", !.id = i,
                                     !.name = mailboxes[i].name, !.to = to])
    BY <2>1
  <2> HIDE DEF into
  <2>6. to \in Name /\ B!Front(to) = into BY <2>3, <2>4, FrontOfAppend
  <2> HIDE DEF to
  <2>7. ~B!Below(mailboxes[i].name, B!Front(to)) BY <2>5, <2>6
  <2> QED BY <2>5, <2>6, <2>7, RenamingBegins
<1> QED BY <1>1, <1>2

LEMMA OthersBegin ==
  ASSUME MailboxesInv, NEW t \in Editor,
         \/ B!delete_mailbox(t) \/ B!mark_mailbox_all_read(t)
         \/ B!set_mailbox_role_mapping(t)
  PROVE  MailboxesInv'
PROOF
<1>1. CASE B!delete_mailbox(t)
  <2>1. PICK i \in DOMAIN mailboxes :
            /\ mailboxes[i].name # B!Inbox
            /\ B!Begin(t, [B!Idle EXCEPT !.at = "read", !.kind = "delete", !.id = i,
                                         !.name = mailboxes[i].name])
    BY <1>1 DEF B!delete_mailbox
  <2> DEFINE name == mailboxes[i].name
             c == [B!Idle EXCEPT !.at = "read", !.kind = "delete", !.id = i, !.name = name]
  <2>2. i \in Nat /\ i # B!NoRow /\ name \in Name BY RowsHaveNames DEF MailboxesInv
  <2>3. name \in Seq(Word) BY <2>2 DEF Name
  <2> HIDE DEF name
  <2>4. /\ c.at = "read" /\ c.kind = "delete" /\ c.id = i /\ c.name = name
        /\ c \in CommandShape
    BY <2>2, <2>3, EmptySeq DEF B!Idle, CommandShape
  <2> HIDE DEF c
  <2>5. IsCommand(c) BY <2>1, <2>2, <2>4 DEF IsCommand, name
  <2> QED BY <2>1, <2>4, <2>5, BeginKeeps DEF c, name
<1>2. CASE B!mark_mailbox_all_read(t)
  <2>1. PICK i \in DOMAIN mailboxes :
            B!Begin(t, [B!Idle EXCEPT !.at = "read", !.kind = "mark", !.id = i,
                                      !.name = mailboxes[i].name])
    BY <1>2 DEF B!mark_mailbox_all_read
  <2> DEFINE name == mailboxes[i].name
             c == [B!Idle EXCEPT !.at = "read", !.kind = "mark", !.id = i, !.name = name]
  <2>2. i \in Nat /\ name \in Name BY RowsHaveNames DEF MailboxesInv
  <2>3. name \in Seq(Word) BY <2>2 DEF Name
  <2> HIDE DEF name
  <2>4. c.at = "read" /\ c.kind = "mark" /\ c \in CommandShape
    BY <2>2, <2>3, EmptySeq DEF B!Idle, CommandShape
  <2> HIDE DEF c
  <2>5. IsCommand(c) BY <2>4 DEF IsCommand
  <2> QED BY <2>1, <2>4, <2>5, BeginKeeps DEF c, name
<1>3. CASE B!set_mailbox_role_mapping(t)
  <2>1. PICK r \in B!Mappable :
          \/ \E i \in DOMAIN mailboxes :
                B!Begin(t, [B!Idle EXCEPT !.at = "read", !.kind = "map", !.id = i,
                                          !.role = r])
          \/ /\ overrides' = [overrides EXCEPT ![r] = B!NoRow] /\ B!SpendCommand
             /\ UNCHANGED <<server, mailboxes, command, sync, overlapped>>
    BY <1>3 DEF B!set_mailbox_role_mapping
  <2>2. ASSUME NEW i \in DOMAIN mailboxes,
               B!Begin(t, [B!Idle EXCEPT !.at = "read", !.kind = "map", !.id = i,
                                         !.role = r])
        PROVE  MailboxesInv'
    <3> DEFINE c == [B!Idle EXCEPT !.at = "read", !.kind = "map", !.id = i, !.role = r]
    <3>1. i \in Nat BY RowsHaveNames DEF MailboxesInv
    <3>2. c.at = "read" /\ c.kind = "map" /\ c.role = r /\ c \in CommandShape
      BY <3>1, EmptySeq DEF B!Idle, CommandShape
    <3> HIDE DEF c
    <3>3. IsCommand(c) BY <3>2 DEF IsCommand
    <3> QED BY <2>2, <3>2, <3>3, BeginKeeps DEF c
  <2>3. ASSUME overrides' = [overrides EXCEPT ![r] = B!NoRow], B!SpendCommand,
               UNCHANGED <<server, mailboxes, command, sync, overlapped>>
        PROVE  MailboxesInv'
    <3>1. IsMapping(overrides', DOMAIN mailboxes')
      BY <2>3 DEF MailboxesInv, MailboxesShape, IsMapping
    <3>2. spent' \in SpentShape /\ spent'.rows = spent.rows
      BY <2>3, SpendingCounts DEF MailboxesInv, MailboxesShape
    <3>3. MailboxesShape' BY <2>3, <3>1, <3>2 DEF MailboxesInv, MailboxesShape
    <3> QED BY <2>3, <3>3 DEF MailboxesInv, InStep
  <2> QED BY <2>1, <2>2, <2>3
<1> QED BY <1>1, <1>2, <1>3

-----------------------------------------------------------------------------
(* The server answers *)

LEMMA CreatingOwes ==
  ASSUME NEW f, IsServer(f), NEW table, Match(table, f), NEW c, c.kind = "create",
         c.to \in B!Path, c.to \notin DOMAIN f
  PROVE  Owed(c, table, B!Added(f, c.to, B!PlainFolder))
PROOF
<1> DEFINE after == B!Added(f, c.to, B!PlainFolder)
<1>1. /\ DOMAIN after = DOMAIN f \cup {c.to}
      /\ \A q \in DOMAIN f : after[q] = f[q]
  <2>1. PICK to \in B!Path : to = c.to OBVIOUS
  <2>2. to \notin DOMAIN f BY <2>1
  <2>3. /\ DOMAIN B!Added(f, to, B!PlainFolder) = DOMAIN f \cup {to}
        /\ \A q \in DOMAIN f : B!Added(f, to, B!PlainFolder)[q] = f[q]
    BY <2>2, AddingServes
  <2> QED BY <2>1, <2>3
<1> HIDE DEF after
<1>2. /\ \A i \in DOMAIN table : table[i].name \in DOMAIN f
      /\ \A i, j \in DOMAIN table : table[i].name = table[j].name => i = j
      /\ \A p \in DOMAIN f : f[p].selectable => \E i \in DOMAIN table : table[i].name = p
  BY DEF Match, RowsMatch, NameOf
<1>3. RowsMatch(DOMAIN table, NameOf(table), after, {c.to})
  BY <1>1, <1>2 DEF RowsMatch, NameOf
<1> QED BY <1>1, <1>2, <1>3 DEF Owed, CreateIsOwed, after

LEMMA RenamingOwes ==
  ASSUME NEW f, IsServer(f), Closed(f), NEW table, Match(table, f),
         NEW c, c.kind = "rename", c.name \in DOMAIN f, c.to \in Name, c.to \notin DOMAIN f,
         Len(c.to) = 2 => B!Front(c.to) \in DOMAIN f, ~B!Below(c.name, B!Front(c.to)),
         \A p \in DOMAIN f : B!Below(c.name, p) => B!Moved(p, c.name, c.to) \in B!Path,
         c.id \in DOMAIN table, table[c.id].name = c.name
  PROVE  Owed(c, table, B!Renamed(f, c.name, c.to)) /\ Closed(B!Renamed(f, c.name, c.to))
PROOF
<1>1. PICK name, to : name = c.name /\ to = c.to OBVIOUS
<1> DEFINE after == B!Renamed(f, name, to)
           new == [i \in DOMAIN table |-> B!Moved(table[i].name, name, to)]
<1>2. /\ \A q \in DOMAIN f : /\ B!Moved(q, name, to) \in DOMAIN after
                             /\ after[B!Moved(q, name, to)] = f[q]
      /\ \A p \in DOMAIN after : \E q \in DOMAIN f : p = B!Moved(q, name, to)
      /\ Closed(after)
  BY <1>1, RenamingMoves
<1> HIDE DEF after
<1>3. /\ \A i \in DOMAIN table : table[i].name \in DOMAIN f
      /\ \A i, j \in DOMAIN table : table[i].name = table[j].name => i = j
      /\ \A p \in DOMAIN f : f[p].selectable => \E i \in DOMAIN table : table[i].name = p
  BY DEF Match, RowsMatch, NameOf
<1>4. \A i \in DOMAIN table : new[i] \in DOMAIN after BY <1>2, <1>3
<1>5. ASSUME NEW i \in DOMAIN table, NEW j \in DOMAIN table, new[i] = new[j]
      PROVE  i = j
  <2>1. table[i].name = table[j].name BY <1>1, <1>3, <1>5, MovedApart
  <2> QED BY <1>3, <2>1
<1>6. ASSUME NEW p \in DOMAIN after, after[p].selectable
      PROVE  \E i \in DOMAIN table : new[i] = p
  <2>1. PICK q \in DOMAIN f : p = B!Moved(q, name, to) BY <1>2
  <2>2. f[q].selectable BY <1>2, <1>6, <2>1
  <2>3. PICK i \in DOMAIN table : table[i].name = q BY <1>3, <2>2
  <2> QED BY <2>1, <2>3
<1>7. RowsMatch(DOMAIN table, new, after, {}) BY <1>4, <1>5, <1>6 DEF RowsMatch
<1> QED BY <1>1, <1>2, <1>7 DEF Owed, RenameIsOwed, after

LEMMA DeletingOwes ==
  ASSUME NEW f, IsServer(f), NEW table, Match(table, f),
         NEW c, c.kind = "delete", c.name \in DOMAIN f, c.name # B!Inbox,
         c.id \in DOMAIN table, table[c.id].name = c.name
  PROVE  Owed(c, table, B!Removed(f, c.name))
PROOF
<1>1. PICK name : name = c.name OBVIOUS
<1> DEFINE after == B!Removed(f, name)
<1>2. /\ DOMAIN after \subseteq DOMAIN f
      /\ \A p \in DOMAIN f \ {name} : p \in DOMAIN after /\ after[p] = f[p]
      /\ name \in DOMAIN after => ~after[name].selectable
  BY <1>1, RemovingServes
<1> HIDE DEF after
<1>3. /\ \A i \in DOMAIN table : table[i].name \in DOMAIN f
      /\ \A i, j \in DOMAIN table : table[i].name = table[j].name => i = j
      /\ \A p \in DOMAIN f : f[p].selectable => \E i \in DOMAIN table : table[i].name = p
  BY DEF Match, RowsMatch, NameOf
<1>4. \A i \in DOMAIN table \ {c.id} : table[i].name # name BY <1>1, <1>3
<1>5. ASSUME NEW p \in DOMAIN after, after[p].selectable
      PROVE  \E i \in DOMAIN table \ {c.id} : table[i].name = p
  <2>1. p # name /\ f[p].selectable BY <1>2, <1>5
  <2>2. PICK i \in DOMAIN table : table[i].name = p BY <1>2, <1>3, <2>1
  <2> QED BY <1>1, <2>1, <2>2
<1>6. RowsMatch(DOMAIN table \ {c.id}, NameOf(table), after, {})
  BY <1>2, <1>3, <1>4, <1>5 DEF RowsMatch, NameOf
<1> QED BY <1>1, <1>6 DEF Owed, DeleteIsOwed, after

\* What the server answers is a server's state again.
LEMMA ChangingServes ==
  ASSUME MailboxesShape, NEW c, IsCommand(c), B!Accepted(c)
  PROVE  IsServer(B!Changed(c))
PROOF
<1>1. IsServer(server) BY DEF MailboxesShape
<1>2. CASE c.kind = "create"
  <2>1. PICK to \in B!Path : to = c.to BY <1>2 DEF IsCommand
  <2>2. /\ to \notin DOMAIN server
        /\ B!Changed(c) = B!Added(server, to, B!PlainFolder)
    BY <1>2, <2>1 DEF B!Accepted, B!Changed
  <2>3. IsServer(B!Added(server, to, B!PlainFolder)) BY <1>1, <2>2, AddingServes
  <2> QED BY <2>2, <2>3
<1>3. CASE c.kind = "rename"
  <2>1. PICK name, to : name = c.name /\ to = c.to OBVIOUS
  <2>2. /\ name \in Name /\ name # B!Inbox /\ to \in Name
        /\ \A p \in DOMAIN server :
              B!Below(name, p) => B!Moved(p, name, to) \in B!Path
    BY <1>3, <2>1 DEF IsCommand, B!Accepted
  <2>3. B!Changed(c) = B!Renamed(server, name, to) BY <1>3, <2>1 DEF B!Changed
  <2> QED BY <1>1, <2>2, <2>3, RenamingServes
<1>4. CASE c.kind = "delete"
  <2>1. PICK name : name = c.name OBVIOUS
  <2>2. name \in DOMAIN server /\ name # B!Inbox BY <1>4, <2>1 DEF IsCommand, B!Accepted
  <2>3. B!Changed(c) = B!Removed(server, name) BY <1>4, <2>1 DEF B!Changed
  <2> QED BY <1>1, <2>2, <2>3, RemovingServes
<1>5. CASE c.kind \notin {"create", "rename", "delete"}
  <2>1. PICK name : name = c.name OBVIOUS
  <2>2. name \in DOMAIN server BY <1>5, <2>1 DEF B!Accepted
  <2>3. B!Changed(c) = [server EXCEPT ![name].unread = FALSE] BY <1>5, <2>1 DEF B!Changed
  <2>4. server[name] \in B!Folder BY <1>1, <2>2 DEF IsServer
  <2>5. [server[name] EXCEPT !.unread = FALSE] \in B!Folder BY <2>4 DEF B!Folder
  <2> QED BY <1>1, <2>3, <2>5 DEF IsServer
<1> QED BY <1>2, <1>3, <1>4, <1>5

LEMMA AnswersOwe ==
  ASSUME MailboxesShape, Closed(server), Match(mailboxes, server),
         NEW t \in Editor, Working([command[t] EXCEPT !.at = "answered"]),
         B!Accepted(command[t]), ~B!ContextIsOld(t)
  PROVE  /\ Owed(command[t], mailboxes, B!Changed(command[t]))
         /\ Closed(B!Changed(command[t]))
PROOF
<1> DEFINE c == command[t]
<1>1. IsCommand(c) /\ IsServer(server) BY DEF MailboxesShape
<1>2. c.kind \in {"create", "rename", "delete"}
  BY <1>1 DEF Working, IsCommand, CommandShape
<1>3. /\ c.id # B!NoRow => c.id \in DOMAIN mailboxes /\ mailboxes[c.id].name = c.name
      /\ Len(c.to) = 2 => B!Named(B!Front(c.to)) # {}
  BY DEF B!ContextIsOld
<1>4. \A i \in DOMAIN mailboxes : mailboxes[i].name \in DOMAIN server
  BY DEF Match, RowsMatch, NameOf
<1>5. Len(c.to) = 2 => B!Front(c.to) \in DOMAIN server BY <1>3, <1>4 DEF B!Named
<1>6. B!Accepted(c) OBVIOUS
<1> HIDE DEF c
<1>7. CASE c.kind = "create"
  <2>1. c.to \in B!Path /\ c.to \notin DOMAIN server
    BY <1>1, <1>6, <1>7 DEF IsCommand, B!Accepted
  <2>2. B!Changed(c) = B!Added(server, c.to, B!PlainFolder) BY <1>7 DEF B!Changed
  <2>3. Owed(c, mailboxes, B!Changed(c)) BY <1>1, <1>7, <2>1, <2>2, CreatingOwes
  <2>4. Closed(B!Changed(c))
    <3>1. PICK to \in B!Path : to = c.to BY <2>1
    <3>2. to \notin DOMAIN server /\ (Len(to) = 2 => B!Front(to) \in DOMAIN server)
      BY <1>5, <2>1, <3>1
    <3>3. Closed(B!Added(server, to, B!PlainFolder)) BY <1>1, <3>2, AddingServes
    <3> QED BY <2>2, <3>1, <3>3
  <2> QED BY <2>3, <2>4 DEF c
<1>8. CASE c.kind = "rename"
  <2>1. /\ c.id # B!NoRow /\ c.to \in Name /\ ~B!Below(c.name, B!Front(c.to))
        /\ c.name \in DOMAIN server /\ c.to \notin DOMAIN server
        /\ \A p \in DOMAIN server :
              B!Below(c.name, p) => B!Moved(p, c.name, c.to) \in B!Path
    BY <1>1, <1>6, <1>8 DEF IsCommand, B!Accepted
  <2>2. c.id \in DOMAIN mailboxes /\ mailboxes[c.id].name = c.name BY <1>3, <2>1
  <2>3. B!Changed(c) = B!Renamed(server, c.name, c.to) BY <1>8 DEF B!Changed
  <2> QED BY <1>1, <1>5, <1>8, <2>1, <2>2, <2>3, RenamingOwes DEF c
<1>9. CASE c.kind = "delete"
  <2>1. c.id # B!NoRow /\ c.name \in DOMAIN server /\ c.name # B!Inbox
    BY <1>1, <1>6, <1>9 DEF IsCommand, B!Accepted
  <2>2. c.id \in DOMAIN mailboxes /\ mailboxes[c.id].name = c.name BY <1>3, <2>1
  <2>3. B!Changed(c) = B!Removed(server, c.name) BY <1>9 DEF B!Changed
  <2>4. Owed(c, mailboxes, B!Changed(c)) BY <1>1, <1>9, <2>1, <2>2, <2>3, DeletingOwes
  <2>5. Closed(B!Changed(c)) BY <1>1, <2>1, <2>3, RemovingServes
  <2> QED BY <2>4, <2>5 DEF c
<1> QED BY <1>2, <1>7, <1>8, <1>9

LEMMA ApplyingKeeps ==
  ASSUME MailboxesInv, NEW t \in Editor, B!apply_mailbox_operation(t)
  PROVE  MailboxesInv'
PROOF
<1>1. /\ command[t].at = "read" /\ ~sync.on
      /\ UNCHANGED <<mailboxes, overrides, sync, spent>>
  BY DEF B!apply_mailbox_operation
<1>2. MailboxesShape /\ InStep /\ IsCommand(command[t]) BY DEF MailboxesInv, MailboxesShape
<1>3. ~Working(command[t]) BY <1>1 DEF Working
<1>4. CASE ~B!Accepted(command[t])
  <2>1. command' = [command EXCEPT ![t] = B!Idle] /\ UNCHANGED <<server, overlapped>>
    BY <1>4 DEF B!apply_mailbox_operation
  <2>2. DOMAIN command' = Editor /\ \A u \in Editor : IsCommand(command'[u])
    BY <1>2, <2>1, IdleIsCommand DEF MailboxesShape
  <2>3. MailboxesShape' BY <1>1, <1>2, <2>1, <2>2 DEF MailboxesShape
  <2>4. \A u \in Editor : /\ Working(command'[u]) <=> Working(command[u])
                          /\ Working(command[u]) => command'[u] = command[u]
    BY <1>2, <1>3, <2>1, IdleIsCommand DEF MailboxesShape
  <2>5. ~overlapped' => Undisturbed
    BY <1>1, <2>1, <2>4 DEF Undisturbed, SameFolders, SameNames
  <2>6. InStep' BY <1>2, <2>5, UndisturbedKeeps
  <2> QED BY <1>1, <2>3, <2>6 DEF MailboxesInv
<1>5. CASE B!Accepted(command[t])
  <2> DEFINE c == command[t]
             d == [c EXCEPT !.at = "answered"]
  <2>1. /\ server' = B!Changed(c)
        /\ command' = [command EXCEPT ![t].at = "answered"]
        /\ overlapped' = (overlapped \/ B!ContextIsOld(t)
                                     \/ \E u \in Editor : u # t /\ B!InFlight(u))
    BY <1>5 DEF B!apply_mailbox_operation
  <2>2. command' = [command EXCEPT ![t] = d] BY <2>1
  <2>3. /\ d \in CommandShape /\ d.at = "answered" /\ d.kind = c.kind /\ d.id = c.id
        /\ d.name = c.name /\ d.to = c.to /\ d.role = c.role
    BY <1>2 DEF IsCommand, CommandShape
  <2> HIDE DEF d
  <2>4. IsCommand(d) BY <1>2, <2>3 DEF IsCommand
  <2>5. DOMAIN command' = Editor /\ \A u \in Editor : IsCommand(command'[u])
    BY <1>2, <2>2, <2>4 DEF MailboxesShape
  <2>6. IsServer(server') BY <1>2, <1>5, <2>1, ChangingServes
  <2>7. MailboxesShape'
    <3>1. overlapped' \in BOOLEAN BY <2>1
    <3> QED BY <1>1, <1>2, <2>5, <2>6, <3>1 DEF MailboxesShape
  <2>8. ASSUME ~overlapped'
        PROVE  /\ ~overlapped /\ ~B!ContextIsOld(t)
               /\ \A u \in Editor : ~Working(command[u])
               /\ Closed(server) /\ Match(mailboxes, server)
    <3>1. \A u \in Editor : u # t => ~Working(command[u])
      BY <2>1, <2>8 DEF B!InFlight, Working
    <3>2. \A u \in Editor : ~Working(command[u]) BY <1>3, <3>1
    <3> QED BY <1>2, <2>1, <2>8, <3>2 DEF InStep
  <2>9. \A u \in Editor \ {t} : command'[u] = command[u] BY <1>2, <2>2 DEF MailboxesShape
  <2>10. command'[t] = d BY <1>2, <2>2 DEF MailboxesShape
  <2>11. CASE ~Working(d)
    <3>1. ASSUME ~overlapped' PROVE Undisturbed
      <4>1. \A u \in Editor : ~Working(command'[u]) /\ ~Working(command[u])
        BY <2>8, <2>9, <2>10, <2>11, <3>1
      <4>2. SameFolders(server, server')
        <5>1. c.kind \notin {"create", "rename", "delete"} BY <2>3, <2>11 DEF Working
        <5>2. server' = [server EXCEPT ![c.name].unread = FALSE]
          BY <2>1, <5>1 DEF B!Changed
        <5>3. \A p \in DOMAIN server : server[p] \in B!Folder
          BY <1>2 DEF MailboxesShape, IsServer
        <5> HIDE DEF c
        <5>4. DOMAIN server' = DOMAIN server BY <5>2
        <5>5. ASSUME NEW p \in DOMAIN server
              PROVE  server[p].selectable <=> server'[p].selectable
          <6>1. CASE p = c.name
            <7>1. server'[p] = [server[p] EXCEPT !.unread = FALSE] BY <5>2, <6>1
            <7> QED BY <5>3, <7>1 DEF B!Folder
          <6>2. CASE p # c.name BY <5>2, <6>2
          <6> QED BY <6>1, <6>2
        <5> QED BY <5>4, <5>5 DEF SameFolders
      <4> QED BY <1>1, <2>8, <3>1, <4>1, <4>2 DEF Undisturbed, SameNames
    <3>2. InStep' BY <1>2, <3>1, UndisturbedKeeps
    <3> QED BY <1>1, <2>7, <3>2 DEF MailboxesInv
  <2>12. CASE Working(d)
    <3>1. ASSUME ~overlapped'
          PROVE  Owed(d, mailboxes, server') /\ Closed(server')
      <4>1. Owed(c, mailboxes, server') /\ Closed(server')
        BY <1>2, <1>5, <2>1, <2>8, <2>12, <3>1, AnswersOwe DEF d
      <4>2. Owed(d, mailboxes, server')
        BY <2>3, <4>1 DEF Owed, CreateIsOwed, RenameIsOwed, DeleteIsOwed
      <4> QED BY <4>1, <4>2
    <3>2. ASSUME ~overlapped', NEW u \in Editor PROVE Working(command'[u]) <=> u = t
      BY <2>8, <2>9, <2>10, <2>12, <3>2
    <3>3. InStep'
      <4>1. SUFFICES ASSUME ~overlapped'
                     PROVE  /\ Closed(server')
                            /\ sync'.on => sync'.listed = server'
                            /\ \A u, v \in Editor :
                                  Working(command'[u]) /\ Working(command'[v]) => u = v
                            /\ ~\A u \in Editor : ~Working(command'[u])
                            /\ \A u \in Editor : Working(command'[u])
                                  => Owed(command'[u], mailboxes', server')
        BY DEF InStep
      <4> QED BY <1>1, <2>10, <3>1, <3>2, <4>1
    <3> QED BY <1>1, <2>7, <3>3 DEF MailboxesInv
  <2> QED BY <2>11, <2>12
<1> QED BY <1>4, <1>5

-----------------------------------------------------------------------------
(* The database follows *)

\* A new row brings the database in step when its mailbox is the one that was missing.
LEMMA InsertingMatches ==
  ASSUME NEW table, NEW f, NEW key, key \notin DOMAIN table, NEW after,
         DOMAIN after = DOMAIN table \cup {key},
         \A i \in DOMAIN table : after[i] = table[i],
         after[key].name \in DOMAIN f,
         \A i \in DOMAIN table : table[i].name # after[key].name,
         RowsMatch(DOMAIN table, NameOf(table), f, {after[key].name})
  PROVE  Match(after, f)
PROOF
<1>1. PICK p : p = after[key].name OBVIOUS
<1>2. /\ \A i \in DOMAIN table : after[i].name \in DOMAIN f /\ after[i].name # p
      /\ \A i, j \in DOMAIN table : after[i].name = after[j].name => i = j
      /\ \A q \in DOMAIN f \ {p} :
            f[q].selectable => \E i \in DOMAIN table : after[i].name = q
  BY <1>1 DEF RowsMatch, NameOf
<1>3. \A i \in DOMAIN after : after[i].name \in DOMAIN f BY <1>1, <1>2
<1>4. \A i, j \in DOMAIN after : after[i].name = after[j].name => i = j BY <1>1, <1>2
<1>5. \A q \in DOMAIN f : f[q].selectable => \E i \in DOMAIN after : after[i].name = q
  BY <1>1, <1>2
<1> QED BY <1>3, <1>4, <1>5 DEF Match, RowsMatch, NameOf

LEMMA NewRowsAreRows ==
  ASSUME NEW p \in B!Path, NEW folder \in B!Folder, NEW order \in Nat
  PROVE  /\ B!NewRow(p, folder, order) \in RowShape
         /\ B!NewRow(p, folder, order).name = p
         /\ B!NewRow(p, folder, order).order = order
         /\ B!NewRow(p, folder, order).selectable = folder.selectable
PROOF
<1>1. p \in Name BY PathsAreNames
<1> QED BY <1>1 DEF B!NewRow, RowShape, B!Folder

\* Places stay distinct when a row is inserted without one, or at the last place.
LEMMA InsertingOrders ==
  ASSUME MailboxesInv, NEW row, B!Insert(row), row \in RowShape,
         row.order = B!NoOrder \/ row.order = B!LastPlace
  PROVE  /\ spent' \in SpentShape /\ spent'.rows <= MaxRows
         /\ IsTable(mailboxes', spent'.rows)
         /\ DOMAIN mailboxes' = DOMAIN mailboxes \cup {spent.rows + 1}
         /\ spent.rows + 1 \notin DOMAIN mailboxes
         /\ \A i \in DOMAIN mailboxes : mailboxes'[i] = mailboxes[i]
         /\ mailboxes'[spent.rows + 1] = row
         /\ IsMapping(overrides, DOMAIN mailboxes')
         /\ Ordered(mailboxes')
PROOF
<1>1. spent.rows \in Nat /\ IsTable(mailboxes, spent.rows)
  BY DEF MailboxesInv, MailboxesShape, SpentShape
<1>2. /\ B!LastPlace \in Nat /\ B!LastPlace <= spent.rows + 1
      /\ \A i \in DOMAIN mailboxes :
            B!LastPlace = B!NoOrder \/ mailboxes[i].order # B!LastPlace
  BY <1>1, LastPlaceIsFree
<1>3. row.order <= spent.rows + 1 BY <1>1, <1>2 DEF B!NoOrder
<1>4. /\ spent' \in SpentShape /\ spent'.rows <= MaxRows
      /\ IsTable(mailboxes', spent'.rows)
      /\ spent.rows + 1 \notin DOMAIN mailboxes
      /\ DOMAIN mailboxes' = DOMAIN mailboxes \cup {spent.rows + 1}
      /\ \A i \in DOMAIN mailboxes : mailboxes'[i] = mailboxes[i]
      /\ mailboxes'[spent.rows + 1] = row
  BY <1>3, InsertingAdds DEF MailboxesInv
<1>5. IsMapping(overrides, DOMAIN mailboxes')
  BY <1>4 DEF MailboxesInv, MailboxesShape, IsMapping
<1>6. Ordered(mailboxes') BY <1>2, <1>4 DEF MailboxesInv, Ordered
<1> QED BY <1>4, <1>5, <1>6

\* What is left when a task has finished its command.
LEMMA FinishingFrees ==
  ASSUME MailboxesInv, NEW t \in Editor, B!Finish(t)
  PROVE  /\ UNCHANGED <<server, sync, overlapped>>
         /\ DOMAIN command' = Editor /\ \A u \in Editor : IsCommand(command'[u])
         /\ ~Working(command'[t])
         /\ \A u \in Editor \ {t} : command'[u] = command[u]
PROOF
BY IdleIsCommand DEF B!Finish, MailboxesInv, MailboxesShape

\* A command that has changed the server is the only one; when it is done, none is left.
LEMMA FinishedIsInStep ==
  ASSUME MailboxesInv, NEW t \in Editor, B!Finish(t), Working(command[t]),
         Owed(command[t], mailboxes, server) => Match(mailboxes', server)
  PROVE  InStep'
PROOF
<1>1. /\ UNCHANGED <<server, sync, overlapped>>
      /\ ~Working(command'[t])
      /\ \A u \in Editor \ {t} : command'[u] = command[u]
  BY FinishingFrees
<1> SUFFICES ASSUME ~overlapped'
             PROVE  /\ Closed(server')
                    /\ sync'.on => sync'.listed = server'
                    /\ \A u \in Editor : ~Working(command'[u])
                    /\ Match(mailboxes', server')
  BY DEF InStep
<1>2. /\ Closed(server) /\ (sync.on => sync.listed = server)
      /\ \A u, v \in Editor : Working(command[u]) /\ Working(command[v]) => u = v
      /\ Owed(command[t], mailboxes, server)
  BY <1>1 DEF MailboxesInv, InStep
<1>3. \A u \in Editor : ~Working(command'[u]) BY <1>1, <1>2
<1> QED BY <1>1, <1>2, <1>3

LEMMA CreatingKeeps ==
  ASSUME MailboxesInv, NEW t \in Editor, B!insert_created_mailbox(t)
  PROVE  MailboxesInv'
PROOF
<1> DEFINE c == command[t]
<1>1. /\ c.at = "answered" /\ c.kind = "create" /\ B!Finish(t) /\ UNCHANGED overrides
  BY DEF B!insert_created_mailbox
<1>2. MailboxesShape /\ IsCommand(c) BY DEF MailboxesInv, MailboxesShape
<1>3. Working(c) /\ c.to \in B!Path BY <1>1, <1>2 DEF Working, IsCommand
<1>4. /\ UNCHANGED <<server, sync, overlapped>>
      /\ DOMAIN command' = Editor /\ \A u \in Editor : IsCommand(command'[u])
  BY <1>1, FinishingFrees
<1>5. CASE B!Named(c.to) = {}
  <2> DEFINE row == B!NewRow(c.to, B!PlainFolder, B!LastPlace)
  <2>1. B!Insert(row) BY <1>5 DEF B!insert_created_mailbox
  <2>2. /\ row \in RowShape /\ row.name = c.to /\ row.order = B!LastPlace
    <3>1. spent.rows \in Nat /\ IsTable(mailboxes, spent.rows)
      BY <1>2 DEF MailboxesShape, SpentShape
    <3>2. B!LastPlace \in Nat BY <3>1, LastPlaceIsFree
    <3>3. B!PlainFolder \in B!Folder BY DEF B!PlainFolder, B!Folder, B!Role
    <3>4. PICK to \in B!Path : to = c.to BY <1>3
    <3>5. /\ B!NewRow(to, B!PlainFolder, B!LastPlace) \in RowShape
          /\ B!NewRow(to, B!PlainFolder, B!LastPlace).name = to
          /\ B!NewRow(to, B!PlainFolder, B!LastPlace).order = B!LastPlace
      BY <3>2, <3>3, NewRowsAreRows
    <3> QED BY <3>4, <3>5
  <2> HIDE DEF row
  <2>3. /\ spent' \in SpentShape /\ spent'.rows <= MaxRows
        /\ IsTable(mailboxes', spent'.rows)
        /\ DOMAIN mailboxes' = DOMAIN mailboxes \cup {spent.rows + 1}
        /\ spent.rows + 1 \notin DOMAIN mailboxes
        /\ \A i \in DOMAIN mailboxes : mailboxes'[i] = mailboxes[i]
        /\ mailboxes'[spent.rows + 1] = row
        /\ IsMapping(overrides, DOMAIN mailboxes')
        /\ Ordered(mailboxes')
    BY <2>1, <2>2, InsertingOrders
  <2>4. MailboxesShape' BY <1>1, <1>2, <1>4, <2>3 DEF MailboxesShape
  <2>5. Owed(c, mailboxes, server) => Match(mailboxes', server)
    <3>1. SUFFICES ASSUME CreateIsOwed(c, mailboxes, server) PROVE Match(mailboxes', server)
      BY <1>1 DEF Owed
    <3>2. /\ RowsMatch(DOMAIN mailboxes, NameOf(mailboxes), server, {c.to})
          /\ c.to \in DOMAIN server
          /\ \A i \in DOMAIN mailboxes : mailboxes[i].name # c.to
      BY <3>1 DEF CreateIsOwed
    <3>3. PICK key : key = spent.rows + 1 OBVIOUS
    <3>4. mailboxes'[key].name = c.to BY <2>2, <2>3, <3>3
    <3> QED BY <2>3, <3>2, <3>3, <3>4, InsertingMatches
  <2>6. InStep' BY <1>1, <1>3, <2>5, FinishedIsInStep
  <2> QED BY <2>3, <2>4, <2>6 DEF MailboxesInv
<1>6. CASE B!Named(c.to) # {}
  <2>1. UNCHANGED <<mailboxes, spent>> BY <1>6 DEF B!insert_created_mailbox
  <2>2. MailboxesShape' BY <1>1, <1>2, <1>4, <2>1 DEF MailboxesShape
  <2>3. ~Owed(c, mailboxes, server) BY <1>1, <1>6 DEF Owed, CreateIsOwed, B!Named
  <2>4. InStep' BY <1>1, <1>3, <2>3, FinishedIsInStep
  <2> QED BY <2>1, <2>2, <2>4 DEF MailboxesInv
<1> QED BY <1>5, <1>6

\* The rows of a folder that is renamed.
LEMMA RenamedRows ==
  ASSUME NEW n, IsTable(mailboxes, n), NEW name \in Name, NEW to \in Name, NEW id
  PROVE  LET after == B!RenameRows(name, to, id)
         IN /\ IsTable(after, n) /\ DOMAIN after = DOMAIN mailboxes
            /\ \A i \in DOMAIN mailboxes : after[i].order = mailboxes[i].order
PROOF
<1> DEFINE affected == {i \in DOMAIN mailboxes :
                          i = id \/ (mailboxes[i].name # name
                                     /\ B!Below(name, mailboxes[i].name))}
           New(i) == IF i = id THEN to ELSE B!Moved(mailboxes[i].name, name, to)
           after == B!RenameRows(name, to, id)
<1>1. CASE \E i \in affected, j \in DOMAIN mailboxes \ affected :
              mailboxes[j].name = New(i)
  <2>1. after = mailboxes BY <1>1 DEF B!RenameRows
  <2> QED BY <2>1
<1>2. CASE ~\E i \in affected, j \in DOMAIN mailboxes \ affected :
              mailboxes[j].name = New(i)
  <2>1. after = [i \in DOMAIN mailboxes |->
                   IF i \in affected THEN [mailboxes[i] EXCEPT !.name = New(i)]
                                     ELSE mailboxes[i]]
    BY <1>2 DEF B!RenameRows
  <2> HIDE DEF after, affected
  <2>2. ASSUME NEW i \in DOMAIN mailboxes
        PROVE  after[i] \in RowShape /\ after[i].order = mailboxes[i].order
    <3>1. mailboxes[i] \in RowShape /\ mailboxes[i].name \in Name BY DEF IsTable, RowShape
    <3>2. New(i) \in Name BY <3>1, MovedIs
    <3> HIDE DEF New
    <3>3. /\ [mailboxes[i] EXCEPT !.name = New(i)] \in RowShape
          /\ [mailboxes[i] EXCEPT !.name = New(i)].order = mailboxes[i].order
      BY <3>1, <3>2 DEF RowShape
    <3> QED BY <2>1, <3>1, <3>3
  <2>3. DOMAIN after = DOMAIN mailboxes BY <2>1
  <2>4. after \in [DOMAIN mailboxes -> RowShape] BY <2>1, <2>2
  <2> QED BY <2>2, <2>3, <2>4 DEF IsTable, after
<1> QED BY <1>1, <1>2

LEMMA RenamedRowsMatch ==
  ASSUME NEW n, IsTable(mailboxes, n), NEW c, c.kind = "rename",
         c.name \in Name, c.to \in Name, Owed(c, mailboxes, server)
  PROVE  Match(B!RenameRows(c.name, c.to, c.id), server)
PROOF
<1>1. PICK name \in Name, to \in Name, id \in {c.id} : name = c.name /\ to = c.to
  OBVIOUS
<1> DEFINE goal(i) == B!Moved(mailboxes[i].name, name, to)
           affected == {i \in DOMAIN mailboxes :
                          i = id \/ (mailboxes[i].name # name
                                     /\ B!Below(name, mailboxes[i].name))}
           New(i) == IF i = id THEN to ELSE goal(i)
           after == B!RenameRows(name, to, id)
<1>2. /\ \A i \in DOMAIN mailboxes : goal(i) \in DOMAIN server
      /\ \A i, j \in DOMAIN mailboxes : goal(i) = goal(j) => i = j
      /\ \A p \in DOMAIN server :
            server[p].selectable => \E i \in DOMAIN mailboxes : goal(i) = p
      /\ id \in DOMAIN mailboxes /\ mailboxes[id].name = name
  <2>1. RenameIsOwed(c, mailboxes, server) BY DEF Owed
  <2> QED BY <1>1, <2>1 DEF RenameIsOwed, RowsMatch
<1>3. \A i \in DOMAIN mailboxes : mailboxes[i] \in RowShape /\ mailboxes[i].name \in Name
  BY DEF IsTable, RowShape
<1>4. goal(id) = to BY <1>2, MovedIs
<1>5. ASSUME NEW i \in affected PROVE New(i) = goal(i) BY <1>4
<1>6. ASSUME NEW i \in DOMAIN mailboxes \ affected PROVE mailboxes[i].name = goal(i)
  <2>1. i # id BY <1>6
  <2>2. mailboxes[i].name # name BY <1>2, <1>6, <2>1
  <2>3. ~B!Below(name, mailboxes[i].name) BY <2>2
  <2> QED BY <1>3, <2>3, MovedIs
<1> HIDE DEF goal
<1>7. ~\E i \in affected, j \in DOMAIN mailboxes \ affected : mailboxes[j].name = New(i)
  BY <1>2, <1>5, <1>6
<1>8. after = [i \in DOMAIN mailboxes |->
                 IF i \in affected THEN [mailboxes[i] EXCEPT !.name = New(i)]
                                   ELSE mailboxes[i]]
  BY <1>7 DEF B!RenameRows, goal
<1> HIDE DEF after, affected
<1>9. DOMAIN after = DOMAIN mailboxes BY <1>8
<1>10. ASSUME NEW i \in DOMAIN mailboxes PROVE after[i].name = goal(i)
  <2>1. CASE i \in affected
    <3>1. after[i] = [mailboxes[i] EXCEPT !.name = goal(i)] BY <1>5, <1>8, <2>1
    <3> QED BY <1>3, <3>1 DEF RowShape
  <2>2. CASE i \notin affected BY <1>6, <1>8, <2>2
  <2> QED BY <2>1, <2>2
<1>11. Match(after, server) BY <1>2, <1>9, <1>10 DEF Match, RowsMatch, NameOf
<1> QED BY <1>1, <1>11 DEF after

LEMMA RenamingKeeps ==
  ASSUME MailboxesInv, NEW t \in Editor, B!rename_mailbox_tree(t)
  PROVE  MailboxesInv'
PROOF
<1> DEFINE c == command[t]
<1>1. /\ c.at = "answered" /\ c.kind = "rename" /\ B!Finish(t)
      /\ mailboxes' = B!RenameRows(c.name, c.to, c.id)
      /\ UNCHANGED <<overrides, spent>>
  BY DEF B!rename_mailbox_tree
<1>2. MailboxesShape /\ IsCommand(c) BY DEF MailboxesInv, MailboxesShape
<1>3. Working(c) /\ c.name \in Name /\ c.to \in Name
  BY <1>1, <1>2 DEF Working, IsCommand
<1>4. /\ UNCHANGED <<server, sync, overlapped>>
      /\ DOMAIN command' = Editor /\ \A u \in Editor : IsCommand(command'[u])
  BY <1>1, FinishingFrees
<1>5. IsTable(mailboxes, spent.rows) BY <1>2 DEF MailboxesShape
<1> HIDE DEF c
<1>6. /\ IsTable(mailboxes', spent.rows) /\ DOMAIN mailboxes' = DOMAIN mailboxes
      /\ \A i \in DOMAIN mailboxes : mailboxes'[i].order = mailboxes[i].order
  <2>1. PICK name \in Name, to \in Name, id \in {c.id} : name = c.name /\ to = c.to
    BY <1>3
  <2>2. mailboxes' = B!RenameRows(name, to, id) BY <1>1, <2>1
  <2> QED BY <1>5, <2>2, RenamedRows
<1>7. MailboxesShape' BY <1>1, <1>2, <1>4, <1>6 DEF MailboxesShape
<1>8. Owed(c, mailboxes, server) => Match(mailboxes', server)
  BY <1>1, <1>3, <1>5, RenamedRowsMatch
<1>9. InStep' BY <1>1, <1>3, <1>8, FinishedIsInStep DEF c
<1>10. Ordered(mailboxes') BY <1>6 DEF MailboxesInv, Ordered
<1> QED BY <1>7, <1>9, <1>10 DEF MailboxesInv

LEMMA DeletingKeeps ==
  ASSUME MailboxesInv, NEW t \in Editor, B!delete_mailbox_row(t)
  PROVE  MailboxesInv'
PROOF
<1> DEFINE c == command[t]
<1>1. /\ c.at = "answered" /\ c.kind = "delete" /\ B!Finish(t)
      /\ mailboxes' = [i \in DOMAIN mailboxes \ {c.id} |-> mailboxes[i]]
      /\ overrides' = [r \in B!Mappable |->
                          IF overrides[r] = c.id THEN B!NoRow ELSE overrides[r]]
      /\ UNCHANGED spent
  BY DEF B!delete_mailbox_row
<1>2. MailboxesShape BY DEF MailboxesInv
<1>3. Working(c) BY <1>1 DEF Working
<1>4. /\ UNCHANGED <<server, sync, overlapped>>
      /\ DOMAIN command' = Editor /\ \A u \in Editor : IsCommand(command'[u])
  BY <1>1, FinishingFrees
<1> HIDE DEF c
<1>5. DOMAIN mailboxes' = DOMAIN mailboxes \ {c.id} BY <1>1
<1>6. \A i \in DOMAIN mailboxes' : mailboxes'[i] = mailboxes[i] BY <1>1
<1>7. IsTable(mailboxes', spent.rows)
  <2>1. mailboxes' \in [DOMAIN mailboxes' -> RowShape]
    BY <1>1, <1>2 DEF MailboxesShape, IsTable
  <2> QED BY <1>2, <1>5, <1>6, <2>1 DEF MailboxesShape, IsTable
<1>8. IsMapping(overrides', DOMAIN mailboxes')
  <2>1. IsMapping(overrides, DOMAIN mailboxes) BY <1>2 DEF MailboxesShape
  <2>2. \A r \in B!Mappable : overrides'[r] = overrides[r] \/ overrides'[r] = B!NoRow
    BY <1>1
  <2>3. \A r \in B!Mappable : overrides'[r] \in DOMAIN mailboxes' \cup {B!NoRow}
    BY <1>1, <1>5, <2>1 DEF IsMapping
  <2> QED BY <1>1, <2>1, <2>2, <2>3 DEF IsMapping
<1>9. MailboxesShape' BY <1>1, <1>2, <1>4, <1>7, <1>8 DEF MailboxesShape
<1>10. Owed(c, mailboxes, server) => Match(mailboxes', server)
  BY <1>1, <1>5, <1>6 DEF Owed, DeleteIsOwed, Match, RowsMatch, NameOf
<1>11. InStep' BY <1>1, <1>3, <1>10, FinishedIsInStep DEF c
<1>12. Ordered(mailboxes') BY <1>5, <1>6 DEF MailboxesInv, Ordered
<1> QED BY <1>9, <1>11, <1>12 DEF MailboxesInv

-----------------------------------------------------------------------------
(* Steps that change no name *)

LEMMA MarkingKeeps ==
  ASSUME MailboxesInv, NEW t \in Editor, B!mark_all_read(t)
  PROVE  MailboxesInv'
PROOF
<1> DEFINE c == command[t]
<1>1. /\ c.kind = "mark" /\ B!Finish(t) /\ UNCHANGED <<overrides, spent>>
      /\ mailboxes' = [i \in DOMAIN mailboxes |->
                         IF i = c.id THEN [mailboxes[i] EXCEPT !.unread = FALSE]
                                     ELSE mailboxes[i]]
  BY DEF B!mark_all_read
<1>2. MailboxesShape /\ ~Working(c) BY <1>1 DEF MailboxesInv, Working
<1>3. /\ UNCHANGED <<server, sync, overlapped>>
      /\ DOMAIN command' = Editor /\ \A u \in Editor : IsCommand(command'[u])
      /\ ~Working(command'[t]) /\ \A u \in Editor \ {t} : command'[u] = command[u]
  BY <1>1, FinishingFrees
<1>4. ASSUME NEW i \in DOMAIN mailboxes
      PROVE  /\ mailboxes'[i] \in RowShape /\ mailboxes'[i].order = mailboxes[i].order
             /\ mailboxes'[i].name = mailboxes[i].name
  <2>1. mailboxes[i] \in RowShape BY <1>2 DEF MailboxesShape, IsTable
  <2>2. /\ [mailboxes[i] EXCEPT !.unread = FALSE] \in RowShape
        /\ [mailboxes[i] EXCEPT !.unread = FALSE].order = mailboxes[i].order
        /\ [mailboxes[i] EXCEPT !.unread = FALSE].name = mailboxes[i].name
    BY <2>1 DEF RowShape
  <2> QED BY <1>1, <2>1, <2>2
<1>5. DOMAIN mailboxes' = DOMAIN mailboxes /\ mailboxes' \in [DOMAIN mailboxes -> RowShape]
  BY <1>1, <1>4
<1>6. IsTable(mailboxes', spent.rows)
  BY <1>2, <1>4, <1>5 DEF MailboxesShape, IsTable
<1>7. MailboxesShape' BY <1>1, <1>2, <1>3, <1>5, <1>6 DEF MailboxesShape
<1>8. \A u \in Editor : /\ Working(command'[u]) <=> Working(command[u])
                        /\ Working(command[u]) => command'[u] = command[u]
  BY <1>2, <1>3
<1>9. ~overlapped' => Undisturbed
  BY <1>3, <1>4, <1>5, <1>8
  DEF MailboxesInv, InStep, Undisturbed, SameFolders, SameNames
<1>10. InStep' BY <1>9, UndisturbedKeeps DEF MailboxesInv
<1>11. Ordered(mailboxes') BY <1>4, <1>5 DEF MailboxesInv, Ordered
<1> QED BY <1>7, <1>10, <1>11 DEF MailboxesInv

LEMMA MappingKeeps ==
  ASSUME MailboxesInv, NEW t \in Editor, B!ClearOtherRoles(t) \/ B!InsertRole(t)
  PROVE  MailboxesInv'
PROOF
<1> DEFINE c == command[t]
<1>0. MailboxesShape /\ IsCommand(c) BY DEF MailboxesInv, MailboxesShape
<1>1. CASE B!ClearOtherRoles(t)
  <2> DEFINE d == [c EXCEPT !.at = "answered"]
  <2>1. /\ c.at = "read" /\ c.kind = "map"
        /\ overrides' = [r \in B!Mappable |->
                           IF r # c.role /\ overrides[r] = c.id
                           THEN B!NoRow ELSE overrides[r]]
        /\ command' = [command EXCEPT ![t] = d]
        /\ UNCHANGED <<server, mailboxes, sync, spent, overlapped>>
    BY <1>1 DEF B!ClearOtherRoles
  <2>2. /\ d \in CommandShape /\ d.at = "answered" /\ d.kind = c.kind /\ d.id = c.id
        /\ d.name = c.name /\ d.to = c.to /\ d.role = c.role
    BY <1>0 DEF IsCommand, CommandShape
  <2> HIDE DEF d
  <2>3. IsCommand(d) BY <1>0, <2>2 DEF IsCommand
  <2>4. DOMAIN command' = Editor /\ \A u \in Editor : IsCommand(command'[u])
    BY <1>0, <2>1, <2>3 DEF MailboxesShape
  <2>5. IsMapping(overrides', DOMAIN mailboxes')
    <3>1. \A r \in B!Mappable : overrides'[r] = overrides[r] \/ overrides'[r] = B!NoRow
      BY <2>1
    <3>2. IsMapping(overrides, DOMAIN mailboxes) BY <1>0 DEF MailboxesShape
    <3>3. overrides' \in [B!Mappable -> DOMAIN mailboxes' \cup {B!NoRow}]
      BY <2>1, <3>1, <3>2 DEF IsMapping
    <3> QED BY <3>1, <3>2, <3>3 DEF IsMapping
  <2>6. MailboxesShape' BY <1>0, <2>1, <2>4, <2>5 DEF MailboxesShape
  <2>7. \A u \in Editor : /\ Working(command'[u]) <=> Working(command[u])
                          /\ Working(command[u]) => command'[u] = command[u]
    <3>1. ~Working(c) /\ ~Working(d) BY <2>1, <2>2 DEF Working
    <3>2. command'[t] = d /\ \A u \in Editor \ {t} : command'[u] = command[u]
      BY <1>0, <2>1 DEF MailboxesShape
    <3> QED BY <3>1, <3>2
  <2>8. ~overlapped' => Undisturbed
    BY <2>1, <2>7 DEF MailboxesInv, InStep, Undisturbed, SameFolders, SameNames
  <2>9. InStep' BY <2>8, UndisturbedKeeps DEF MailboxesInv
  <2> QED BY <2>1, <2>6, <2>9 DEF MailboxesInv
<1>2. CASE B!InsertRole(t)
  <2>1. /\ c.kind = "map" /\ B!Finish(t) /\ UNCHANGED <<mailboxes, spent>>
        /\ overrides' = IF c.id \in DOMAIN mailboxes
                              /\ \A r \in B!Mappable \ {c.role} : overrides[r] # c.id
                        THEN [overrides EXCEPT ![c.role] = c.id]
                        ELSE overrides
    BY <1>2 DEF B!InsertRole
  <2>2. c.role \in B!Mappable /\ ~Working(c) BY <1>0, <2>1 DEF IsCommand, Working
  <2>3. /\ UNCHANGED <<server, sync, overlapped>>
        /\ DOMAIN command' = Editor /\ \A u \in Editor : IsCommand(command'[u])
        /\ ~Working(command'[t]) /\ \A u \in Editor \ {t} : command'[u] = command[u]
    BY <2>1, FinishingFrees
  <2>4. IsMapping(overrides, DOMAIN mailboxes) BY <1>0 DEF MailboxesShape
  <2>5. IsMapping(overrides', DOMAIN mailboxes')
    <3>1. CASE /\ c.id \in DOMAIN mailboxes
               /\ \A r \in B!Mappable \ {c.role} : overrides[r] # c.id
      <4>1. overrides' = [overrides EXCEPT ![c.role] = c.id] BY <2>1, <3>1
      <4>2. overrides' \in [B!Mappable -> DOMAIN mailboxes' \cup {B!NoRow}]
        BY <2>1, <2>2, <2>4, <3>1, <4>1 DEF IsMapping
      <4>3. \A r \in B!Mappable :
               overrides'[r] = IF r = c.role THEN c.id ELSE overrides[r]
        BY <2>4, <4>1 DEF IsMapping
      <4> QED BY <2>4, <3>1, <4>2, <4>3 DEF IsMapping
    <3>2. CASE ~(/\ c.id \in DOMAIN mailboxes
                 /\ \A r \in B!Mappable \ {c.role} : overrides[r] # c.id)
      BY <2>1, <2>4, <3>2
    <3> QED BY <3>1, <3>2
  <2>6. MailboxesShape' BY <1>0, <2>1, <2>3, <2>5 DEF MailboxesShape
  <2>7. \A u \in Editor : /\ Working(command'[u]) <=> Working(command[u])
                          /\ Working(command[u]) => command'[u] = command[u]
    BY <2>2, <2>3
  <2>8. ~overlapped' => Undisturbed
    BY <2>1, <2>3, <2>7 DEF MailboxesInv, InStep, Undisturbed, SameFolders, SameNames
  <2>9. InStep' BY <2>8, UndisturbedKeeps DEF MailboxesInv
  <2> QED BY <2>1, <2>6, <2>9 DEF MailboxesInv
<1> QED BY <1>1, <1>2

LEMMA ReorderingKeeps ==
  ASSUME MailboxesInv, B!reorder
  PROVE  MailboxesInv'
PROOF
<1>1. PICK f \in [DOMAIN mailboxes -> 1..B!Cardinality(DOMAIN mailboxes)] :
        /\ \A i, j \in DOMAIN mailboxes : f[i] = f[j] => i = j
        /\ mailboxes' = [i \in DOMAIN mailboxes |-> [mailboxes[i] EXCEPT !.order = f[i]]]
  BY DEF B!reorder
<1>2. B!SpendCommand /\ UNCHANGED <<server, overrides, command, sync, overlapped>>
  BY DEF B!reorder
<1>3. MailboxesShape /\ IsTable(mailboxes, spent.rows) /\ spent.rows \in Nat
  BY DEF MailboxesInv, MailboxesShape, SpentShape
<1>4. spent' \in SpentShape /\ spent'.rows = spent.rows
  BY <1>2, <1>3, SpendingCounts DEF MailboxesShape
<1>5. \A i \in DOMAIN mailboxes : f[i] \in Nat /\ f[i] <= spent.rows
  <2>1. PICK last \in Nat : last = spent.rows BY <1>3
  <2>2. IsFiniteSet(1..last) /\ Cardinality(1..last) = last BY FS_Interval
  <2>3. DOMAIN mailboxes \in SUBSET (1..last) BY <1>3, <2>1 DEF IsTable
  <2>4. IsFiniteSet(DOMAIN mailboxes) /\ Cardinality(DOMAIN mailboxes) <= last
    BY <2>2, <2>3, FS_Subset
  <2>5. Cardinality(DOMAIN mailboxes) \in Nat BY <2>4, FS_CardinalityType
  <2>6. B!Cardinality(DOMAIN mailboxes) = Cardinality(DOMAIN mailboxes)
    BY DEF B!Cardinality, Cardinality
  <2> QED BY <2>1, <2>4, <2>5, <2>6
<1>6. ASSUME NEW i \in DOMAIN mailboxes
      PROVE  /\ mailboxes'[i] \in RowShape /\ mailboxes'[i].order = f[i]
             /\ mailboxes'[i].name = mailboxes[i].name
  <2>1. mailboxes[i] \in RowShape BY <1>3 DEF IsTable
  <2>2. /\ [mailboxes[i] EXCEPT !.order = f[i]] \in RowShape
        /\ [mailboxes[i] EXCEPT !.order = f[i]].order = f[i]
        /\ [mailboxes[i] EXCEPT !.order = f[i]].name = mailboxes[i].name
    BY <1>5, <2>1 DEF RowShape
  <2> QED BY <1>1, <2>2
<1>7. DOMAIN mailboxes' = DOMAIN mailboxes /\ mailboxes' \in [DOMAIN mailboxes -> RowShape]
  BY <1>1, <1>6
<1>8. IsTable(mailboxes', spent'.rows) BY <1>3, <1>4, <1>5, <1>6, <1>7 DEF IsTable
<1>9. MailboxesShape' BY <1>2, <1>3, <1>4, <1>7, <1>8 DEF MailboxesShape
<1>10. ~overlapped' => Undisturbed
  BY <1>2, <1>6, <1>7 DEF MailboxesInv, InStep, Undisturbed, SameFolders, SameNames
<1>11. InStep' BY <1>10, UndisturbedKeeps DEF MailboxesInv
<1>12. Ordered(mailboxes') BY <1>1, <1>6, <1>7 DEF Ordered
<1> QED BY <1>9, <1>11, <1>12 DEF MailboxesInv

-----------------------------------------------------------------------------
(* Rounds of synchronization, other clients, the end of the process *)

\* The mailboxes of a server in some order.
LEMMA ListingsAreWhole ==
  ASSUME NEW S, IsFiniteSet(S)
  PROVE  /\ B!SetToSeq(S) \in [1..Cardinality(S) -> S] /\ Cardinality(S) \in Nat
         /\ \A i, j \in 1..Cardinality(S) : B!SetToSeq(S)[i] = B!SetToSeq(S)[j] => i = j
         /\ \A x \in S : \E i \in 1..Cardinality(S) : B!SetToSeq(S)[i] = x
PROOF
<1>1. PICK n \in Nat : n = Cardinality(S) BY FS_CardinalityType
<1>2. ExistsBijection(1..n, S) BY <1>1, FS_CardinalityType
<1>3. PICK b \in [1..n -> S] : \A i, j \in 1..n : b[i] = b[j] => i = j
  BY <1>2 DEF ExistsBijection, Bijection, Injection, Surjection, IsInjective
<1>4. B!Cardinality(S) = n BY <1>1 DEF B!Cardinality, Cardinality
<1> DEFINE s == CHOOSE f \in [1..n -> S] : B!IsInjective(f)
<1>5. B!SetToSeq(S) = s BY <1>4 DEF B!SetToSeq
<1>6. s \in [1..n -> S] /\ B!IsInjective(s)
  <2>1. B!IsInjective(b) BY <1>3 DEF B!IsInjective
  <2> QED BY <2>1
<1> HIDE DEF s
<1>7. \A i, j \in 1..n : s[i] = s[j] => i = j BY <1>6 DEF B!IsInjective
<1>8. s \in Injection(1..n, S) BY <1>6, <1>7 DEF Injection, IsInjective
<1>9. Cardinality(1..n) = n BY FS_Interval
<1>10. s \in Surjection(1..n, S) BY <1>1, <1>8, <1>9, FS_Injection
<1>11. \A x \in S : \E i \in 1..n : s[i] = x BY <1>10 DEF Surjection
<1> QED BY <1>1, <1>5, <1>6, <1>7, <1>11

LEMMA RoundsMove ==
  ASSUME IsRound(sync), sync.on, NEW rest \in Seq(DOMAIN sync.listed)
  PROVE  /\ IsRound([sync EXCEPT !.ensure = rest])
         /\ rest # <<>> => IsRound([sync EXCEPT !.left = rest])
         /\ [sync EXCEPT !.ensure = rest].listed = sync.listed
         /\ [sync EXCEPT !.left = rest].listed = sync.listed
         /\ [sync EXCEPT !.ensure = rest].on /\ [sync EXCEPT !.left = rest].on
         /\ IsRound(B!NoSync) /\ ~B!NoSync.on
PROOF
<1>1. /\ IsServer(sync.listed) /\ sync.ensure \in Seq(DOMAIN sync.listed)
      /\ sync.left \in Seq(DOMAIN sync.listed) /\ sync.left # <<>>
      /\ sync \in [on : BOOLEAN, listed : {sync.listed}, ensure : {sync.ensure},
                   left : {sync.left}]
  BY DEF IsRound
<1>2. PICK s : s = [sync EXCEPT !.ensure = rest] OBVIOUS
<1>3. /\ s.on = sync.on /\ s.listed = sync.listed /\ s.ensure = rest /\ s.left = sync.left
      /\ s \in [on : BOOLEAN, listed : {s.listed}, ensure : {s.ensure}, left : {s.left}]
  BY <1>1, <1>2
<1>4. PICK u : u = [sync EXCEPT !.left = rest] OBVIOUS
<1>5. /\ u.on = sync.on /\ u.listed = sync.listed /\ u.ensure = sync.ensure /\ u.left = rest
      /\ u \in [on : BOOLEAN, listed : {u.listed}, ensure : {u.ensure}, left : {u.left}]
  BY <1>1, <1>4
<1>6. IsRound(s) BY <1>1, <1>3 DEF IsRound
<1>7. rest # <<>> => IsRound(u) BY <1>1, <1>5 DEF IsRound
<1>8. IsRound(B!NoSync) /\ ~B!NoSync.on BY DEF B!NoSync, IsRound
<1> QED BY <1>2, <1>3, <1>4, <1>5, <1>6, <1>7, <1>8

LEMMA NoRoundIsRound == IsRound(B!NoSync) /\ ~B!NoSync.on
PROOF
BY DEF B!NoSync, IsRound

LEMMA ListingKeeps ==
  ASSUME MailboxesInv, B!sync_session
  PROVE  MailboxesInv'
PROOF
<1> DEFINE names == B!SetToSeq(DOMAIN server)
<1>1. /\ sync' = [on |-> TRUE, listed |-> server, ensure |-> names, left |-> names]
      /\ B!Spend("events")
      /\ UNCHANGED <<server, mailboxes, overrides, command, overlapped>>
  BY DEF B!sync_session, B!Event
<1>2. MailboxesShape /\ IsServer(server) BY DEF MailboxesInv, MailboxesShape
<1>3. names \in Seq(DOMAIN server) /\ names # <<>>
  <2>1. IsFiniteSet(DOMAIN server) /\ B!Inbox \in DOMAIN server BY <1>2 DEF IsServer
  <2>2. PICK n \in Nat : n = Cardinality(DOMAIN server) BY <2>1, FS_CardinalityType
  <2>3. names \in [1..n -> DOMAIN server] /\ \E i \in 1..n : names[i] = B!Inbox
    BY <2>1, <2>2, ListingsAreWhole
  <2> HIDE DEF names
  <2>4. names \in Seq(DOMAIN server) BY <2>3
  <2>5. n # 0 /\ Len(names) = n BY <2>3
  <2> QED BY <2>4, <2>5
<1> HIDE DEF names
<1>4. spent' \in SpentShape /\ spent'.rows = spent.rows
  BY <1>1, <1>2, SpendingCounts DEF MailboxesShape
<1>5. sync'.on /\ sync'.listed = server /\ sync'.ensure = names /\ sync'.left = names
  BY <1>1
<1>6. IsRound(sync')
  <2>1. sync' \in [on : BOOLEAN, listed : {sync'.listed}, ensure : {sync'.ensure},
                   left : {sync'.left}]
    BY <1>1
  <2> QED BY <1>2, <1>3, <1>5, <2>1 DEF IsRound
<1>7. MailboxesShape' BY <1>1, <1>2, <1>4, <1>6 DEF MailboxesShape
<1>8. ~overlapped' => Undisturbed
  BY <1>1, <1>5 DEF Undisturbed, SameFolders, SameNames
<1>9. InStep' BY <1>8, UndisturbedKeeps DEF MailboxesInv
<1> QED BY <1>1, <1>7, <1>9 DEF MailboxesInv

\* A round inserts a row for a mailbox that was listed and has none.
LEMMA RoundsInsert ==
  ASSUME MailboxesInv, NEW p \in B!Path, NEW folder \in B!Folder,
         sync.on, p \in DOMAIN sync.listed, B!Named(p) = {},
         B!Insert(B!NewRow(p, folder, B!NoOrder)),
         overlapped' = (overlapped \/ \E t \in Editor : B!InFlight(t)),
         UNCHANGED <<server, overrides, command>>, IsRound(sync'),
         sync'.on => sync'.listed = sync.listed
  PROVE  MailboxesInv'
PROOF
<1>1. PICK row \in RowShape :
        /\ row = B!NewRow(p, folder, B!NoOrder) /\ row.name = p /\ row.order = B!NoOrder
  BY NewRowsAreRows DEF B!NoOrder
<1>2. /\ spent' \in SpentShape /\ spent'.rows <= MaxRows
      /\ IsTable(mailboxes', spent'.rows)
      /\ DOMAIN mailboxes' = DOMAIN mailboxes \cup {spent.rows + 1}
      /\ spent.rows + 1 \notin DOMAIN mailboxes
      /\ \A i \in DOMAIN mailboxes : mailboxes'[i] = mailboxes[i]
      /\ mailboxes'[spent.rows + 1] = row
      /\ IsMapping(overrides, DOMAIN mailboxes')
      /\ Ordered(mailboxes')
  <2>1. B!Insert(row) BY <1>1
  <2> QED BY <1>1, <2>1, InsertingOrders
<1>3. MailboxesShape' BY <1>2 DEF MailboxesInv, MailboxesShape
<1>4. InStep'
  <2> SUFFICES ASSUME ~overlapped'
               PROVE  /\ Closed(server')
                      /\ sync'.on => sync'.listed = server'
                      /\ \A u \in Editor : ~Working(command'[u])
                      /\ Match(mailboxes', server')
    BY DEF InStep
  <2>1. ~overlapped /\ \A u \in Editor : ~Working(command[u]) BY DEF B!InFlight, Working
  <2>2. Closed(server) /\ sync.listed = server /\ Match(mailboxes, server)
    BY <2>1 DEF MailboxesInv, InStep
  <2>3. PICK key : key = spent.rows + 1 OBVIOUS
  <2>4. mailboxes'[key].name = p BY <1>1, <1>2, <2>3
  <2>5. \A i \in DOMAIN mailboxes : mailboxes[i].name # p BY DEF B!Named
  <2>6. RowsMatch(DOMAIN mailboxes, NameOf(mailboxes), server, {p})
    BY <2>2 DEF Match, RowsMatch
  <2>7. Match(mailboxes', server)
    <3>1. mailboxes'[key].name \in DOMAIN server BY <2>2, <2>4
    <3>2. /\ \A i \in DOMAIN mailboxes : mailboxes[i].name # mailboxes'[key].name
          /\ RowsMatch(DOMAIN mailboxes, NameOf(mailboxes), server, {mailboxes'[key].name})
      BY <2>4, <2>5, <2>6
    <3>3. /\ key \notin DOMAIN mailboxes /\ DOMAIN mailboxes' = DOMAIN mailboxes \cup {key}
          /\ \A i \in DOMAIN mailboxes : mailboxes'[i] = mailboxes[i]
      BY <1>2, <2>3
    <3> QED BY <3>1, <3>2, <3>3, InsertingMatches
  <2> QED BY <2>1, <2>2, <2>7
<1> QED BY <1>2, <1>3, <1>4 DEF MailboxesInv

LEMMA EnsuringKeeps ==
  ASSUME MailboxesInv, B!ensure_mailbox
  PROVE  MailboxesInv'
PROOF
<1>1. /\ sync.on /\ sync.ensure # <<>>
      /\ sync' = [sync EXCEPT !.ensure = Tail(sync.ensure)]
      /\ UNCHANGED <<server, overrides, command>>
  BY DEF B!ensure_mailbox
<1>2. MailboxesShape /\ IsRound(sync) /\ IsServer(sync.listed)
  BY <1>1 DEF MailboxesInv, MailboxesShape, IsRound
<1>3. PICK rest \in Seq(DOMAIN sync.listed) : rest = Tail(sync.ensure)
  <2>1. sync.ensure \in Seq(DOMAIN sync.listed) BY <1>1, <1>2 DEF IsRound
  <2>2. Tail(sync.ensure) \in Seq(DOMAIN sync.listed) BY <1>1, <2>1, HeadTailProperties
  <2> QED BY <2>2
<1>4. IsRound(sync') /\ sync'.listed = sync.listed BY <1>1, <1>2, <1>3, RoundsMove
<1>5. PICK p \in DOMAIN sync.listed : p = Head(sync.ensure)
  BY <1>1, <1>2 DEF IsRound
<1>6. CASE B!Named(p) = {}
  <2> DEFINE folder == [sync.listed[p] EXCEPT !.unread = FALSE]
  <2>1. p \in B!Path /\ sync.listed[p] \in B!Folder BY <1>2 DEF IsServer
  <2>2. folder \in B!Folder BY <2>1 DEF B!Folder
  <2>3. /\ B!Insert(B!NewRow(p, folder, B!NoOrder))
        /\ overlapped' = (overlapped \/ \E t \in Editor : B!InFlight(t))
    BY <1>5, <1>6 DEF B!ensure_mailbox
  <2> HIDE DEF folder
  <2> QED BY <1>1, <1>4, <1>6, <2>1, <2>2, <2>3, RoundsInsert
<1>7. CASE B!Named(p) # {}
  <2>1. UNCHANGED <<mailboxes, spent, overlapped>> BY <1>5, <1>7 DEF B!ensure_mailbox
  <2>2. MailboxesShape' BY <1>1, <1>2, <1>4, <2>1 DEF MailboxesShape
  <2>3. ~overlapped' => Undisturbed
    BY <1>1, <1>4, <2>1 DEF MailboxesInv, InStep, Undisturbed, SameFolders, SameNames
  <2>4. InStep' BY <2>3, UndisturbedKeeps DEF MailboxesInv
  <2> QED BY <2>1, <2>2, <2>4 DEF MailboxesInv
<1> QED BY <1>6, <1>7

LEMMA VisitingKeeps ==
  ASSUME MailboxesInv, B!upsert_mailbox
  PROVE  MailboxesInv'
PROOF
<1>1. sync.on /\ UNCHANGED <<server, overrides, command>> BY DEF B!upsert_mailbox
<1>2. /\ MailboxesShape /\ IsRound(sync) /\ IsServer(sync.listed)
      /\ sync.left \in Seq(DOMAIN sync.listed) /\ sync.left # <<>>
  BY <1>1 DEF MailboxesInv, MailboxesShape, IsRound
<1>3. PICK p \in DOMAIN sync.listed : p = Head(sync.left) BY <1>2
<1>4. PICK found \in BOOLEAN : found = (p \in DOMAIN server /\ server[p].selectable)
  OBVIOUS
<1>5. CASE sync' = B!NoSync /\ UNCHANGED <<mailboxes, spent, overlapped>>
  <2>1. MailboxesShape' BY <1>1, <1>2, <1>5, NoRoundIsRound DEF MailboxesShape
  <2>2. ~overlapped' => Undisturbed
    BY <1>1, <1>5, NoRoundIsRound
    DEF MailboxesInv, InStep, Undisturbed, SameFolders, SameNames
  <2>3. InStep' BY <2>2, UndisturbedKeeps DEF MailboxesInv
  <2> QED BY <1>5, <2>1, <2>3 DEF MailboxesInv
<1> DEFINE folder == [sync.listed[p] EXCEPT !.unread = found /\ server[p].unread]
<1>6. CASE /\ sync' = IF Len(sync.left) = 1 THEN B!NoSync
                      ELSE [sync EXCEPT !.left = Tail(sync.left)]
           /\ B!Upsert(p, folder)
  <2>1. IsRound(sync') /\ (sync'.on => sync'.listed = sync.listed)
    <3>1. CASE Len(sync.left) = 1 BY <1>6, <3>1, NoRoundIsRound
    <3>2. CASE Len(sync.left) # 1
      <4>1. PICK rest \in Seq(DOMAIN sync.listed) : rest = Tail(sync.left)
        <5>1. Tail(sync.left) \in Seq(DOMAIN sync.listed) BY <1>2, HeadTailProperties
        <5> QED BY <5>1
      <4>2. Len(sync.left) \in Nat \ {0} BY <1>2, EmptySeq
      <4>3. Len(rest) = Len(sync.left) - 1 BY <1>2, <4>1, HeadTailProperties
      <4>4. rest # <<>>
        <5>1. Len(rest) # 0 BY <3>2, <4>2, <4>3
        <5>2. Len(<<>>) = 0 OBVIOUS
        <5> QED BY <5>1, <5>2
      <4>5. sync' = [sync EXCEPT !.left = rest] BY <1>6, <3>2, <4>1
      <4> QED BY <1>1, <1>2, <4>4, <4>5, RoundsMove
    <3> QED BY <3>1, <3>2
  <2>2. p \in B!Path /\ sync.listed[p] \in B!Folder BY <1>2 DEF IsServer
  <2>3. folder \in B!Folder
    <3>1. PICK unread \in BOOLEAN : unread = (found /\ server[p].unread)
      <4>1. (found /\ server[p].unread) \in BOOLEAN
        <5>1. CASE found
          <6>1. p \in DOMAIN server BY <1>4, <5>1
          <6>2. server[p] \in B!Folder BY <1>2, <6>1 DEF MailboxesShape, IsServer
          <6> QED BY <6>2 DEF B!Folder
        <5>2. CASE ~found BY <5>2
        <5> QED BY <5>1, <5>2
      <4> QED BY <4>1
    <3>2. [sync.listed[p] EXCEPT !.unread = unread] \in B!Folder BY <2>2 DEF B!Folder
    <3> QED BY <3>1, <3>2
  <2> HIDE DEF folder
  <2>4. CASE B!Named(p) = {}
    <3>1. /\ B!Insert(B!NewRow(p, folder, B!NoOrder))
          /\ overlapped' = (overlapped \/ \E t \in Editor : B!InFlight(t))
      BY <1>6, <2>4 DEF B!Upsert
    <3> QED BY <1>1, <2>1, <2>2, <2>3, <2>4, <3>1, RoundsInsert
  <2>5. CASE B!Named(p) # {}
    <3>1. /\ mailboxes' = [i \in DOMAIN mailboxes |->
                             IF i \in B!Named(p)
                             THEN B!NewRow(p, folder, mailboxes[i].order)
                             ELSE mailboxes[i]]
          /\ UNCHANGED <<spent, overlapped>>
      BY <1>6, <2>5 DEF B!Upsert
    <3>2. ASSUME NEW i \in DOMAIN mailboxes
          PROVE  /\ mailboxes'[i] \in RowShape /\ mailboxes'[i].order = mailboxes[i].order
                 /\ mailboxes'[i].name = mailboxes[i].name
      <4>1. mailboxes[i] \in RowShape /\ mailboxes[i].order \in Nat
        BY <1>2 DEF MailboxesShape, IsTable, RowShape
      <4>2. CASE i \in B!Named(p)
        <5>1. mailboxes[i].name = p BY <4>2 DEF B!Named
        <5>2. mailboxes'[i] = B!NewRow(p, folder, mailboxes[i].order) BY <3>1, <4>2
        <5>3. PICK order \in Nat : order = mailboxes[i].order BY <4>1
        <5>4. /\ B!NewRow(p, folder, order) \in RowShape
              /\ B!NewRow(p, folder, order).name = p
              /\ B!NewRow(p, folder, order).order = order
          BY <2>2, <2>3, NewRowsAreRows
        <5> QED BY <5>1, <5>2, <5>3, <5>4
      <4>3. CASE i \notin B!Named(p) BY <3>1, <4>1, <4>3
      <4> QED BY <4>2, <4>3
    <3>3. /\ DOMAIN mailboxes' = DOMAIN mailboxes
          /\ mailboxes' \in [DOMAIN mailboxes -> RowShape]
      BY <3>1, <3>2
    <3>4. IsTable(mailboxes', spent.rows)
      BY <1>2, <3>2, <3>3 DEF MailboxesShape, IsTable
    <3>5. MailboxesShape' BY <1>1, <1>2, <2>1, <3>1, <3>3, <3>4 DEF MailboxesShape
    <3>6. ~overlapped' => Undisturbed
      BY <1>1, <2>1, <3>1, <3>2, <3>3
      DEF MailboxesInv, InStep, Undisturbed, SameFolders, SameNames
    <3>7. InStep' BY <3>6, UndisturbedKeeps DEF MailboxesInv
    <3>8. Ordered(mailboxes') BY <3>2, <3>3 DEF MailboxesInv, Ordered
    <3> QED BY <3>5, <3>7, <3>8 DEF MailboxesInv
  <2> QED BY <2>4, <2>5
<1> QED BY <1>3, <1>4, <1>5, <1>6 DEF B!upsert_mailbox

LEMMA SurroundingsKeepFolders ==
  ASSUME MailboxesInv, B!SyncFails \/ B!OtherClient \/ B!Restart
  PROVE  MailboxesInv'
PROOF
<1>0. MailboxesShape /\ IsServer(server) BY DEF MailboxesInv, MailboxesShape
<1>1. CASE B!SyncFails
  <2>1. /\ sync' = B!NoSync
        /\ UNCHANGED <<server, mailboxes, overrides, command, spent, overlapped>>
    BY <1>1 DEF B!SyncFails
  <2>2. MailboxesShape' BY <1>0, <2>1, NoRoundIsRound DEF MailboxesShape
  <2>3. ~overlapped' => Undisturbed
    BY <2>1, NoRoundIsRound DEF MailboxesInv, InStep, Undisturbed, SameFolders, SameNames
  <2>4. InStep' BY <2>3, UndisturbedKeeps DEF MailboxesInv
  <2> QED BY <2>1, <2>2, <2>4 DEF MailboxesInv
<1>2. CASE B!OtherClient
  <2>1. /\ B!Spend("events") /\ overlapped' = TRUE
        /\ UNCHANGED <<mailboxes, overrides, command, sync>>
    BY <1>2 DEF B!OtherClient, B!Event
  <2>2. \/ \E p \in B!Path \ DOMAIN server : server' = B!Added(server, p, B!PlainFolder)
        \/ \E p \in DOMAIN server \ {B!Inbox} : server' = B!Removed(server, p)
        \/ \E p \in DOMAIN server \ {B!Inbox}, to \in B!Path \ DOMAIN server :
              /\ Len(p) = Len(to) /\ B!Front(p) = B!Front(to)
              /\ server' = B!Renamed(server, p, to)
    BY <1>2 DEF B!OtherClient
  <2>3. IsServer(server')
    <3>1. ASSUME NEW p \in B!Path \ DOMAIN server,
                 server' = B!Added(server, p, B!PlainFolder)
          PROVE  IsServer(server')
      BY <1>0, <3>1, AddingServes
    <3>2. ASSUME NEW p \in DOMAIN server \ {B!Inbox}, server' = B!Removed(server, p)
          PROVE  IsServer(server')
      BY <1>0, <3>2, RemovingServes
    <3>3. ASSUME NEW p \in DOMAIN server \ {B!Inbox}, NEW to \in B!Path \ DOMAIN server,
                 Len(p) = Len(to), server' = B!Renamed(server, p, to)
          PROVE  IsServer(server')
      <4>1. p \in B!Path /\ p \in Name /\ to \in Name BY <1>0, PathsAreNames DEF IsServer
      <4>2. ASSUME NEW q \in DOMAIN server, B!Below(p, q)
            PROVE  B!Moved(q, p, to) \in B!Path
        <5>1. q \in B!Path BY <1>0 DEF IsServer
        <5>2. CASE q = p
          <6>1. B!Moved(q, p, to) = to BY <4>1, <5>2, MovedIs
          <6> QED BY <6>1
        <5>3. CASE q # p
          <6>1. Len(p) = 1 /\ Len(q) = 2 BY <4>1, <4>2, <5>1, <5>3, BelowIsInside
          <6>2. B!Moved(q, p, to) = Append(to, q[2]) BY <4>1, <4>2, <5>1, <5>3, InsideMoves
          <6>3. q \in [1..2 -> Leaf] /\ to \in [1..1 -> Leaf]
            <7>1. to # B!Inbox BY <1>0 DEF IsServer
            <7>2. q # B!Inbox BY <6>1 DEF B!Inbox
            <7>3. Len(to) = 1 BY <3>3, <6>1
            <7> QED BY <5>1, <6>1, <7>1, <7>2, <7>3, PathIsOrdinary
          <6>4. to \in Seq(Leaf) /\ Len(to) = 1 /\ q[2] \in Leaf BY <6>3
          <6>5. Append(to, q[2]) \in [1..2 -> Leaf]
            <7>1. Append(to, q[2]) \in Seq(Leaf) /\ Len(Append(to, q[2])) = 2
              <8>1. PICK w \in Leaf : w = q[2] BY <6>4
              <8>2. Append(to, w) \in Seq(Leaf) /\ Len(Append(to, w)) = Len(to) + 1
                BY <6>4, OneMoreLeaf
              <8> QED BY <6>4, <8>1, <8>2
            <7> QED BY <7>1, LenProperties
          <6> QED BY <6>2, <6>5 DEF B!Path
        <5> QED BY <5>2, <5>3
      <4> QED BY <1>0, <3>3, <4>1, <4>2, RenamingServes
    <3> QED BY <2>2, <3>1, <3>2, <3>3
  <2>4. spent' \in SpentShape /\ spent'.rows = spent.rows
    BY <1>0, <2>1, SpendingCounts DEF MailboxesShape
  <2>5. MailboxesShape' BY <1>0, <2>1, <2>3, <2>4 DEF MailboxesShape
  <2> QED BY <2>1, <2>5 DEF MailboxesInv, InStep
<1>3. CASE B!Restart
  <2>1. /\ overlapped' = (overlapped \/ \E t \in Editor : command[t].at = "answered")
        /\ command' = [t \in Editor |-> B!Idle] /\ sync' = B!NoSync
        /\ B!Spend("events") /\ UNCHANGED <<server, mailboxes, overrides>>
    BY <1>3 DEF B!Restart, B!Event
  <2>2. spent' \in SpentShape /\ spent'.rows = spent.rows
    BY <1>0, <2>1, SpendingCounts DEF MailboxesShape
  <2>3. DOMAIN command' = Editor /\ \A u \in Editor : IsCommand(command'[u])
    BY <2>1, IdleIsCommand
  <2>4. overlapped' \in BOOLEAN BY <2>1
  <2>5. MailboxesShape' BY <1>0, <2>1, <2>2, <2>3, <2>4, NoRoundIsRound DEF MailboxesShape
  <2>6. ASSUME ~overlapped' PROVE Undisturbed
    <3>1. ~overlapped /\ \A u \in Editor : ~Working(command[u]) /\ ~Working(command'[u])
      BY <2>1, <2>6, IdleIsCommand DEF Working
    <3> QED BY <2>1, <3>1, NoRoundIsRound DEF Undisturbed, SameFolders, SameNames
  <2>7. InStep' BY <2>6, UndisturbedKeeps DEF MailboxesInv
  <2> QED BY <2>1, <2>5, <2>7 DEF MailboxesInv
<1> QED BY <1>1, <1>2, <1>3

-----------------------------------------------------------------------------
(* The theorem *)

LEMMA ThreeAreCounted ==
  ASSUME NEW a, NEW b, NEW c, a # b, a # c, b # c
  PROVE  IsFiniteSet({a, b, c}) /\ Cardinality({a, b, c}) = 3
PROOF
<1>1. IsFiniteSet({a}) /\ Cardinality({a}) = 1 BY FS_Singleton
<1>2. IsFiniteSet({a} \cup {b}) /\ Cardinality({a} \cup {b}) = 2
  BY <1>1, FS_AddElement
<1>3. /\ IsFiniteSet(({a} \cup {b}) \cup {c})
      /\ Cardinality(({a} \cup {b}) \cup {c}) = 3
  BY <1>2, FS_AddElement
<1>4. {a, b, c} = ({a} \cup {b}) \cup {c} OBVIOUS
<1> QED BY <1>3, <1>4

LEMMA FoldersBegin == B!Init => MailboxesInv
PROOF
<1> SUFFICES ASSUME B!Init PROVE MailboxesInv OBVIOUS
<1>1. PICK l \in Leaf :
        server = [p \in {B!Inbox, <<l>>, <<l, l>>} |->
                    IF p = B!Inbox
                    THEN [B!PlainFolder EXCEPT !.role = "inbox", !.unread = TRUE]
                    ELSE IF p = <<l>> THEN B!PlainFolder
                    ELSE [B!PlainFolder EXCEPT !.role = "trash"]]
  BY DEF B!Init
<1> DEFINE Folders == DOMAIN server
           names == B!SetToSeq(Folders)
<1>2. /\ mailboxes = [i \in 1..3 |-> B!NewRow(names[i], server[names[i]], B!NoOrder)]
      /\ overrides = [r \in B!Mappable |-> B!NoRow]
      /\ command = [t \in Editor |-> B!Idle] /\ sync = B!NoSync
      /\ spent = [rows |-> 3, commands |-> 0, events |-> 0] /\ overlapped = FALSE
  BY DEF B!Init
<1>3. Folders = {B!Inbox, <<l>>, <<l, l>>} BY <1>1
<1>4. <<l>> \in B!Path /\ <<l, l>> \in B!Path /\ B!Inbox \in B!Path
  <2>1. <<l>> \in [1..1 -> Leaf] /\ <<l, l>> \in [1..2 -> Leaf] OBVIOUS
  <2> QED BY <2>1 DEF B!Path
<1>5. B!Inbox # <<l>> /\ B!Inbox # <<l, l>> /\ <<l>> # <<l, l>>
  BY MailboxesAssumption DEF B!Inbox
<1>6. IsFiniteSet(Folders) /\ Cardinality(Folders) = 3
  <2>1. PICK a, b, c : a = B!Inbox /\ b = <<l>> /\ c = <<l, l>> OBVIOUS
  <2>2. a # b /\ a # c /\ b # c BY <1>5, <2>1
  <2>3. Folders = {a, b, c} BY <1>3, <2>1
  <2>4. IsFiniteSet({a, b, c}) /\ Cardinality({a, b, c}) = 3 BY <2>2, ThreeAreCounted
  <2> QED BY <2>3, <2>4
<1>7. \A p \in Folders : server[p] \in B!Folder
  <2>1. /\ [B!PlainFolder EXCEPT !.role = "inbox", !.unread = TRUE] \in B!Folder
        /\ B!PlainFolder \in B!Folder
        /\ [B!PlainFolder EXCEPT !.role = "trash"] \in B!Folder
    BY DEF B!PlainFolder, B!Folder, B!Role
  <2> QED BY <1>1, <1>3, <2>1
<1>8. IsServer(server)
  <2>1. server \in [Folders -> B!Folder] BY <1>1, <1>7
  <2>2. Folders \subseteq B!Path /\ B!Inbox \in Folders BY <1>3, <1>4
  <2> QED BY <1>6, <2>1, <2>2 DEF IsServer
<1>9. /\ names \in [1..3 -> Folders]
      /\ \A i, j \in 1..3 : names[i] = names[j] => i = j
      /\ \A p \in Folders : \E i \in 1..3 : names[i] = p
  <2>1. PICK S : S = Folders OBVIOUS
  <2>2. IsFiniteSet(S) /\ Cardinality(S) = 3 BY <1>6, <2>1
  <2>3. /\ B!SetToSeq(S) \in [1..Cardinality(S) -> S]
        /\ \A i, j \in 1..Cardinality(S) : B!SetToSeq(S)[i] = B!SetToSeq(S)[j] => i = j
        /\ \A x \in S : \E i \in 1..Cardinality(S) : B!SetToSeq(S)[i] = x
    BY <2>2, ListingsAreWhole
  <2>4. names = B!SetToSeq(S) BY <2>1
  <2> HIDE DEF names, Folders
  <2> QED BY <2>1, <2>2, <2>3, <2>4
<1> HIDE DEF names, Folders
<1>10. ASSUME NEW i \in 1..3
       PROVE  /\ mailboxes[i] \in RowShape /\ mailboxes[i].name = names[i]
              /\ mailboxes[i].order = B!NoOrder
  <2>1. PICK p \in Folders : p = names[i] BY <1>9
  <2>2. p \in B!Path BY <1>8 DEF IsServer, Folders
  <2>3. PICK folder \in B!Folder : folder = server[p] BY <1>7
  <2>4. /\ B!NewRow(p, folder, 0) \in RowShape /\ B!NewRow(p, folder, 0).name = p
        /\ B!NewRow(p, folder, 0).order = 0
    BY <2>2, NewRowsAreRows
  <2>5. mailboxes[i] = B!NewRow(p, folder, 0) BY <1>2, <2>1, <2>3 DEF B!NoOrder
  <2> QED BY <2>1, <2>4, <2>5 DEF B!NoOrder
<1>11. DOMAIN mailboxes = 1..3 BY <1>2
<1>12. IsTable(mailboxes, 3)
  <2>1. mailboxes \in [1..3 -> RowShape] BY <1>2, <1>10
  <2>2. \A i \in 1..3 : mailboxes[i].order <= 3 BY <1>10 DEF B!NoOrder
  <2> QED BY <1>11, <2>1, <2>2 DEF IsTable
<1>13. MailboxesShape
  <2>1. spent \in SpentShape /\ spent.rows = 3 BY <1>2 DEF SpentShape
  <2>2. spent.rows <= MaxRows BY <2>1, MailboxesAssumption
  <2>3. IsMapping(overrides, DOMAIN mailboxes) BY <1>2 DEF IsMapping
  <2>4. DOMAIN command = Editor /\ \A t \in Editor : IsCommand(command[t])
    BY <1>2, IdleIsCommand
  <2> QED BY <1>2, <1>8, <1>12, <2>1, <2>2, <2>3, <2>4, NoRoundIsRound DEF MailboxesShape
<1>14. Ordered(mailboxes) BY <1>10, <1>11 DEF Ordered
<1>15. Closed(server)
  <2>1. Len(B!Inbox) = 1 /\ Len(<<l>>) = 1 BY DEF B!Inbox
  <2>2. B!Front(<<l, l>>) = <<l>>
    <3>1. <<l, l>> \in Name /\ <<l>> \in Seq(Word) BY <1>4, PathsAreNames DEF Name
    <3>2. Len(<<l, l>>) = 2 /\ <<l, l>>[1] = l /\ Len(<<l>>) = 1 /\ <<l>>[1] = l
      OBVIOUS
    <3>3. PICK p \in Name : p = <<l, l>> BY <3>1
    <3>4. /\ B!Front(p) \in Seq(Word) /\ Len(B!Front(p)) = Len(p) - 1
          /\ \A i \in 1..Len(p) - 1 : B!Front(p)[i] = p[i]
      BY FrontIs
    <3>5. Len(B!Front(p)) = 1 /\ B!Front(p)[1] = l
      <4>1. Len(p) = 2 /\ p[1] = l BY <3>2, <3>3
      <4>2. 1 \in 1..Len(p) - 1 BY <4>1
      <4> QED BY <3>4, <4>1, <4>2
    <3>6. \A i \in 1..1 : B!Front(p)[i] = <<l>>[i] BY <3>2, <3>5
    <3> QED BY <3>1, <3>2, <3>3, <3>4, <3>5, <3>6, SeqEqual
  <2> QED BY <1>3, <2>1, <2>2 DEF Closed, Folders
<1>16. Match(mailboxes, server)
  <2>1. \A i \in DOMAIN mailboxes : mailboxes[i].name \in Folders BY <1>9, <1>10, <1>11
  <2>2. \A i, j \in DOMAIN mailboxes : mailboxes[i].name = mailboxes[j].name => i = j
    BY <1>9, <1>10, <1>11
  <2>3. \A p \in Folders : \E i \in DOMAIN mailboxes : mailboxes[i].name = p
    BY <1>9, <1>10, <1>11
  <2> QED BY <2>1, <2>2, <2>3 DEF Match, RowsMatch, NameOf, Folders
<1>17. InStep
  <2>1. \A t \in Editor : ~Working(command[t]) BY <1>2, IdleIsCommand
  <2> QED BY <1>2, <1>15, <1>16, <2>1, NoRoundIsRound DEF InStep
<1> QED BY <1>13, <1>14, <1>17 DEF MailboxesInv

LEMMA FoldersGoOn ==
  ASSUME MailboxesInv, B!Next \/ UNCHANGED varsMailboxes
  PROVE  MailboxesInv'
PROOF
<1>1. CASE UNCHANGED varsMailboxes
  <2>1. UNCHANGED <<server, mailboxes, overrides, command, sync, spent, overlapped>>
    BY <1>1 DEF varsMailboxes
  <2> QED BY <2>1 DEF MailboxesInv, MailboxesShape, InStep
<1>2. CASE \E t \in Editor : B!CommandStep(t)
  <2>1. PICK t \in Editor : B!CommandStep(t) BY <1>2
  <2> QED
    BY <2>1, CreationBegins, RenamesBegin, OthersBegin, ApplyingKeeps, CreatingKeeps,
       RenamingKeeps, DeletingKeeps, MarkingKeeps, MappingKeeps
    DEF B!CommandStep
<1>3. CASE \/ B!reorder \/ B!sync_session \/ B!ensure_mailbox \/ B!upsert_mailbox
           \/ B!SyncFails \/ B!OtherClient \/ B!Restart
  BY <1>3, ReorderingKeeps, ListingKeeps, EnsuringKeeps, VisitingKeeps,
     SurroundingsKeepFolders
<1> QED BY <1>1, <1>2, <1>3 DEF B!Next

\* The invariant of the mailboxes.
LEMMA FoldersHold == Spec => [](subject = "mailboxes" => MailboxesInv)
PROOF
<1> DEFINE Inv == subject = "mailboxes" => MailboxesInv
<1>1. Init => Inv BY FoldersBegin DEF Init
<1>2. Inv /\ [Next]_vars => Inv'
  <2>1. [Next]_vars => /\ subject' = subject
                       /\ subject = "mailboxes" => B!Next \/ UNCHANGED varsMailboxes
    <3>1. CASE UNCHANGED vars BY <3>1 DEF vars
    <3>2. CASE Next
      BY <3>2 DEF Next, AccountsStep, ContactsStep, DraftsStep, DefinitionsStep,
         NotificationsStep, MessageListStep, MailboxesStep, AttachmentsStep, ComposerStep
    <3> QED BY <3>1, <3>2
  <2> QED BY <2>1, FoldersGoOn
<1> HIDE DEF Inv
<1>3. Spec => []Inv BY <1>1, <1>2, PTL DEF Spec
<1> QED BY <1>3 DEF Inv

\* A role is the role of the mailbox that is found for it.
LEMMA MappingsAgree ==
  ASSUME MailboxesShape
  PROVE  B!RolesAgree
PROOF
<1>1. /\ overrides \in [B!Mappable -> DOMAIN mailboxes \cup {B!NoRow}]
      /\ \A r, s \in B!Mappable : overrides[r] = overrides[s] /\ overrides[r] # B!NoRow
            => r = s
  BY DEF MailboxesShape, IsMapping
<1> SUFFICES ASSUME NEW r \in B!Mappable,
                    overrides[r] # B!NoRow => mailboxes[overrides[r]].selectable,
                    NEW i \in B!mailbox_for_role(r)
             PROVE  B!mailbox_role_for_id(i) = r
  BY DEF B!RolesAgree
<1> DEFINE Selectable == {j \in DOMAIN mailboxes : mailboxes[j].selectable}
           Mapped == {j \in Selectable : overrides[r] = j}
           Own == {j \in Selectable : /\ mailboxes[j].role = r
                                      /\ \A s \in B!Mappable : overrides[s] # j}
<1>2. i \in IF Mapped # {} THEN Mapped ELSE Own BY DEF B!mailbox_for_role
<1>3. i \in DOMAIN mailboxes BY <1>2
<1>4. i # B!NoRow BY <1>3, RowsHaveNames
<1>5. CASE overrides[r] # B!NoRow
  <2>1. overrides[r] \in Mapped BY <1>1, <1>5
  <2>2. i = overrides[r] BY <1>2, <2>1
  <2>3. \A s \in B!Mappable : overrides[s] = i => s = r BY <1>1, <1>5, <2>2
  <2>4. (CHOOSE s \in B!Mappable : overrides[s] = i) = r BY <2>2, <2>3
  <2> QED BY <2>2, <2>4 DEF B!mailbox_role_for_id
<1>6. CASE overrides[r] = B!NoRow
  <2>1. Mapped = {} BY <1>6, RowsHaveNames
  <2>2. mailboxes[i].role = r /\ \A s \in B!Mappable : overrides[s] # i BY <1>2, <2>1
  <2> QED BY <1>6, <2>2 DEF B!mailbox_role_for_id
<1> QED BY <1>5, <1>6

\* Every mailbox that can be opened has one row when no command is at work.
LEMMA FoldersAreInStep ==
  ASSUME MailboxesInv
  PROVE  B!FoldersInStep
PROOF
<1> SUFFICES ASSUME ~overlapped, \A t \in Editor : ~B!InFlight(t)
             PROVE  /\ \A i \in DOMAIN mailboxes : mailboxes[i].name \in DOMAIN server
                    /\ \A p \in DOMAIN server :
                          server[p].selectable => B!Cardinality(B!Named(p)) = 1
                    /\ \A i, j \in DOMAIN mailboxes :
                          mailboxes[i].name = mailboxes[j].name => i = j
  BY DEF B!FoldersInStep
<1>1. \A t \in Editor : ~Working(command[t]) BY DEF B!InFlight, Working
<1>2. Match(mailboxes, server) BY <1>1 DEF MailboxesInv, InStep
<1>3. /\ \A i \in DOMAIN mailboxes : mailboxes[i].name \in DOMAIN server
      /\ \A i, j \in DOMAIN mailboxes : mailboxes[i].name = mailboxes[j].name => i = j
      /\ \A p \in DOMAIN server :
            server[p].selectable => \E i \in DOMAIN mailboxes : mailboxes[i].name = p
  BY <1>2 DEF Match, RowsMatch, NameOf
<1>4. ASSUME NEW p \in DOMAIN server, server[p].selectable
      PROVE  B!Cardinality(B!Named(p)) = 1
  <2>1. PICK i \in DOMAIN mailboxes : mailboxes[i].name = p BY <1>3, <1>4
  <2>2. B!Named(p) = {i} BY <1>3, <2>1 DEF B!Named
  <2>3. Cardinality({i}) = 1 BY FS_Singleton
  <2> QED BY <2>2, <2>3 DEF B!Cardinality, Cardinality
<1> QED BY <1>3, <1>4

\* Whatever another task, a round of synchronization, another client or the end of the
\* process does between the steps of a folder command: when nothing came between, each
\* mailbox that can be opened has exactly one row, under its name, and no row has a name
\* that is gone; the mailbox found for a role has that role; and no two mailboxes have
\* one place in the order (mail_runtime/operations.rs, mailbox_repository.rs,
\* message_sync_repository.rs).
THEOREM FoldersStayInStep == Spec => []FoldersInStep
PROOF
<1>1. (subject = "mailboxes" => MailboxesInv) => FoldersInStep
  BY FoldersAreInStep, MappingsAgree
  DEF MailboxesInv, FoldersInStep, Ordered, B!OrderIsTotal
<1> QED BY <1>1, FoldersHold, PTL
=============================================================================
