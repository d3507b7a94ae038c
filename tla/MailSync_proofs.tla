------------------------------ MODULE MailSync_proofs ------------------------------
(***************************************************************************)
(* Proofs about rounds of synchronization, for every mailbox, every number of   *)
(* renumberings, sessions and operations, and every choice of what the          *)
(* environment does: a message is never shown with the body of another one, new *)
(* mail is announced once and what was there before is not, mail that arrives   *)
(* is announced by the round that stores it, and a round that nothing disturbed *)
(* leaves exactly the mailbox of the server.                                    *)
(***************************************************************************)
EXTENDS MailSync, FiniteSetTheorems, TLAPS

ReaderType == [at : {"idle", "fetch", "store", "fetch_whole", "store_whole"},
               message : Messages, key : Keys, content : 0 .. Last, unread : BOOLEAN]

Types ==
    /\ bodies \in [Messages -> 0 .. Last]
    /\ reader \in ReaderType

\* What a request for a body has in hand: the location it read is one of its message, and
\* what it fetched is the message at that location, although both may be gone since.
ReaderIsRight ==
    /\ reader.at \in {"fetch", "store"} => reader.message = MessageOf(reader.key)
    /\ reader.at \in {"store", "store_whole"} => reader.content = MessageOf(reader.key)

BodiesInv == Types /\ ReaderIsRight /\ BodiesFit

-----------------------------------------------------------------------------

\* A UID names a message, under every UIDVALIDITY.
LEMMA UidsNameMessages == \A k \in Keys : MessageOf(k) \in Messages
  BY MailSyncAssumption DEF Keys, Uids, Messages, MessageOf, MessageAt

\* Before the first round there is no body, and no request for one.
LEMMA BodiesInit == Init => BodiesInv
<1> SUFFICES ASSUME Init PROVE BodiesInv
  OBVIOUS
<1>1. NoReader \in ReaderType /\ NoReader.at = "idle"
  BY MailSyncAssumption DEF NoReader, ReaderType, Messages, Keys, Uids
<1>2. bodies = [m \in Messages |-> 0] /\ reader = NoReader
  BY DEF Init
<1>3. 0 \in 0 .. Last
  BY MailSyncAssumption
<1> QED BY <1>1, <1>2, <1>3 DEF BodiesInv, Types, ReaderIsRight, BodiesFit

\* Steps that neither touch bodies nor the request keep the invariant.
LEMMA OthersKeep == ASSUME BodiesInv, UNCHANGED <<bodies, reader>> PROVE BodiesInv'
  BY DEF BodiesInv, Types, ReaderIsRight, BodiesFit

\* The request ends and the message it was for gets its body, or nothing is stored.
LEMMA RequestEnds ==
  ASSUME BodiesInv, reader' = NoReader,
         \/ UNCHANGED bodies
         \/ \E m \in Messages : bodies' = [bodies EXCEPT ![m] = m]
  PROVE  BodiesInv'
<1>1. NoReader \in ReaderType /\ NoReader.at = "idle"
  BY MailSyncAssumption DEF NoReader, ReaderType, Messages, Keys, Uids
<1>2. bodies' \in [Messages -> 0 .. Last]
  BY MailSyncAssumption DEF BodiesInv, Types, Messages
<1>3. BodiesFit'
  BY DEF BodiesInv, Types, BodiesFit
<1> QED BY <1>1, <1>2, <1>3 DEF BodiesInv, Types, ReaderIsRight

\* A round stores a body it fetched under the UID it fetched.
LEMMA RoundKeeps == ASSUME BodiesInv, StoreBody PROVE BodiesInv'
<1> DEFINE m == MessageOf(<<round.validity, round.uid>>)
<1>1. bodies' = [bodies EXCEPT ![m] = m] /\ reader' = reader
  BY DEF StoreBody
<1> HIDE DEF m
<1>2. \A n \in Messages : bodies'[n] \in {bodies[n], n}
  BY <1>1 DEF BodiesInv, Types
<1>a. m \in Messages => m \in 0 .. Last
  BY MailSyncAssumption DEF Messages
<1>3. bodies' \in [Messages -> 0 .. Last]
  BY <1>1, <1>a DEF BodiesInv, Types
<1> QED BY <1>1, <1>2, <1>3 DEF BodiesInv, Types, ReaderIsRight, BodiesFit

\* The steps of the request itself.
LEMMA RequestKeeps ==
  ASSUME BodiesInv, Read \/ \E k \in Keys : RequestMessageBody(k)
  PROVE  BodiesInv'
<1>t. reader \in ReaderType /\ reader.key \in Keys
  BY DEF BodiesInv, Types, ReaderType
<1>1. ASSUME NEW k \in Keys, RequestMessageBody(k) PROVE BodiesInv'
  <2>1. PICK place \in {"fetch", "fetch_whole"} :
          reader' = [NoReader EXCEPT !.at = place, !.message = MessageOf(k), !.key = k]
    BY <1>1 DEF RequestMessageBody
  <2>a. reader' = [at |-> place, message |-> MessageOf(k), key |-> k, content |-> 0,
                   unread |-> FALSE]
    BY <2>1 DEF NoReader
  <2>b. MessageOf(k) \in Messages /\ 0 \in 0 .. Last
    BY UidsNameMessages, MailSyncAssumption
  <2>2. /\ reader' \in ReaderType
        /\ reader'.at = place /\ reader'.message = MessageOf(k) /\ reader'.key = k
    BY <2>a, <2>b DEF ReaderType
  <2>3. bodies' = bodies
    BY <1>1 DEF RequestMessageBody
  <2> QED BY <2>2, <2>3 DEF BodiesInv, Types, ReaderIsRight, BodiesFit
<1>2. CASE FetchMessageBody
  <2>1. /\ server.validity = reader.key[1]
        /\ reader.at \in {"fetch", "fetch_whole"}
    BY <1>2 DEF FetchMessageBody, There
  <2>2. /\ reader' = [reader EXCEPT !.at = IF reader.at = "fetch" THEN "store" ELSE "store_whole",
                                    !.content = MessageAt(server.validity, reader.key[2]),
                                    !.unread = UnreadThere(reader.key)]
        /\ bodies' = bodies
    BY <1>2 DEF FetchMessageBody
  <2>3. MessageAt(server.validity, reader.key[2]) = MessageOf(reader.key)
    BY <2>1 DEF MessageOf
  <2>4. MessageOf(reader.key) \in 0 .. Last
    BY <1>t, UidsNameMessages DEF Messages
  <2>5. UnreadThere(reader.key) \in BOOLEAN
    BY ZenonT(20) DEF UnreadThere, There
  <2>6. /\ reader'.at = IF reader.at = "fetch" THEN "store" ELSE "store_whole"
        /\ reader'.content = MessageOf(reader.key)
        /\ reader'.key = reader.key /\ reader'.message = reader.message
        /\ reader'.unread = UnreadThere(reader.key)
    BY <1>t, <2>2, <2>3 DEF ReaderType
  <2>7. reader' \in ReaderType
    BY <1>t, <2>2, <2>3, <2>4, <2>5 DEF ReaderType
  <2> QED BY <2>1, <2>2, <2>6, <2>7 DEF BodiesInv, Types, ReaderIsRight, BodiesFit
<1>3. CASE SelectiveFetchUnsupported
  <2>1. PICK k \in RowsOf(reader.message) :
          reader' = [reader EXCEPT !.at = "fetch_whole", !.key = k]
    BY <1>3 DEF SelectiveFetchUnsupported
  <2>2. k \in Keys
    BY DEF RowsOf, Stored
  <2>3. reader' \in ReaderType /\ reader'.at = "fetch_whole"
    BY <1>t, <2>1, <2>2 DEF ReaderType
  <2>4. bodies' = bodies
    BY <1>3 DEF SelectiveFetchUnsupported
  <2> QED BY <2>3, <2>4 DEF BodiesInv, Types, ReaderIsRight, BodiesFit
<1>4. CASE ReplaceMessageBody
  <2>1. reader.content = reader.message /\ reader.message \in Messages
    BY <1>4 DEF ReplaceMessageBody, BodiesInv, Types, ReaderType, ReaderIsRight
  <2> QED BY <1>4, <2>1, RequestEnds DEF ReplaceMessageBody
<1>5. CASE StoreWholeMessage
  <2>1. reader.content = MessageOf(reader.key) /\ MessageOf(reader.key) \in Messages
    BY <1>5, <1>t, UidsNameMessages DEF StoreWholeMessage, BodiesInv, ReaderIsRight
  <2> QED BY <1>5, <2>1, RequestEnds DEF StoreWholeMessage
<1>6. CASE RequestFails
  BY <1>6, RequestEnds DEF RequestFails
<1> QED BY <1>1, <1>2, <1>3, <1>4, <1>5, <1>6 DEF Read

-----------------------------------------------------------------------------

\* The body that is stored for a message is its own, for every interleaving of rounds,
\* operations and requests with renumberings of the mailbox: a UID is used over the
\* network only together with the UIDVALIDITY it was read with.
THEOREM BodiesBelong == Spec => []BodiesFit
<1>1. BodiesInv /\ [Next]_vars => BodiesInv'
  <2> SUFFICES ASSUME BodiesInv, [Next]_vars PROVE BodiesInv'
    OBVIOUS
  <2>1. CASE Server
    BY <2>1, OthersKeep
    DEF Server, Arrive, OtherClientExpunges, OtherClientSetsRead, RenumberMailbox
  <2>2. CASE User
    BY <2>2, OthersKeep, RequestKeeps DEF User, QueueDelete, QueueSetRead
  <2>3. CASE Operations
    BY <2>3, OthersKeep
    DEF Operations, ApplyOperation, CompletePendingOperation, FailPendingOperation
  <2>4. CASE Headers
    BY <2>4, OthersKeep
    DEF Headers, FetchSummaries, HeadersOnly, FetchBodystructures, BatchDone,
        BodystructureFails, WorkerFails, UpsertMessage, UpsertAgain
  <2>5. CASE Synchronize /\ ~Headers /\ ~StoreBody
    BY <2>5, OthersKeep
    DEF Synchronize, StartRound, OpenMailbox, UpsertMailbox, SearchAll, DiffStoredUids,
        JoinWorkers, FetchBody, BodiesDone, FetchFlags, ReconcileMailbox, CompleteMailbox,
        EndRound, RoundFails, RoundReplaced
  <2>6. CASE StoreBody
    BY <2>6, RoundKeeps
  <2>7. CASE Read
    BY <2>7, RequestKeeps
  <2>8. CASE Crash
    BY <2>8, RequestEnds DEF Crash
  <2>9. CASE UNCHANGED vars
    BY <2>9, OthersKeep DEF vars
  <2> QED BY <2>1, <2>2, <2>3, <2>4, <2>5, <2>6, <2>7, <2>8, <2>9 DEF Next, Synchronize
<1>2. BodiesInv => BodiesFit
  BY DEF BodiesInv
<1> QED BY BodiesInit, <1>1, <1>2, PTL DEF Spec
-----------------------------------------------------------------------------
(* Types *)

ServerType == [validity : Validities, there : SUBSET Messages, seen : SUBSET Messages,
               unborn : SUBSET Messages]
MailboxType == [validity : Validities \cup {0}, counts : Counts]
HistoryType == [calm : BOOLEAN, lost : BOOLEAN, rebuilt : BOOLEAN,
                old : SUBSET Messages, new : SUBSET Messages]

\* TypeOK, one variable after the other.
LEMMA TypesOfVariables ==
  TypeOK <=> /\ server \in ServerType /\ mailbox \in MailboxType
             /\ rows \in [Keys -> Row] /\ bodies \in [Messages -> 0 .. Last]
             /\ ops \in [OpIds -> Operation] /\ round \in Round
             /\ workers \in [Workers -> Worker] /\ reader \in Reader
             /\ compatible \in BOOLEAN /\ baseline \in BOOLEAN
             /\ announced \in [Messages -> 0 .. 2] /\ history \in HistoryType
             /\ budget \in [Expenses -> Nat]
  BY DEF TypeOK, ServerType, MailboxType, HistoryType

\* UIDs and messages correspond, under every UIDVALIDITY.
LEMMA UidsCorrespond ==
  \A v : \A u \in Uids : /\ MessageAt(v, u) \in Messages /\ UidOf(v, u) \in Uids
                         /\ UidOf(v, MessageAt(v, u)) = u
                         /\ MessageAt(v, UidOf(v, u)) = u
<1> SUFFICES ASSUME NEW v, NEW u \in Uids
             PROVE  MessageAt(v, u) \in Uids /\ MessageAt(v, MessageAt(v, u)) = u
  BY DEF UidOf, Uids, Messages
<1>1. CASE v % 2 = 1
  BY <1>1 DEF MessageAt
<1>2. CASE v % 2 # 1
  BY <1>2, MailSyncAssumption DEF MessageAt, Uids
<1> QED BY <1>1, <1>2

\* Two UIDs of one UIDVALIDITY name different messages.
LEMMA UidsDiffer ==
  \A v : \A u1, u2 \in Uids : MessageAt(v, u1) = MessageAt(v, u2) => u1 = u2
  BY UidsCorrespond

LEMMA KeysAreFinite ==
  /\ IsFiniteSet(Keys) /\ IsFiniteSet(Uids) /\ IsFiniteSet(Messages)
  /\ Cardinality(Keys) \in Nat
<1>1. IsFiniteSet(Uids)
  BY MailSyncAssumption, FS_Interval DEF Uids
<1>2. IsFiniteSet(Keys)
  BY <1>1, MailSyncAssumption, FS_Product DEF Keys
<1> QED BY <1>1, <1>2, FS_CardinalityType DEF Uids, Messages

\* The counts of a projection, and of a set of messages, are counts.
LEMMA CountsAreTyped ==
  /\ \A rs : CountsOf(rs) \in Counts
  /\ \A ms, ns \in SUBSET Messages :
       [total |-> Cardinality(ms), unread |-> Cardinality(ns)] \in Counts
<1> DEFINE limit == Cardinality(Keys)
<1>0. limit \in Nat
  BY KeysAreFinite
<1>1. \A S \in SUBSET Keys : Cardinality(S) \in 0 .. limit
  <2> TAKE S \in SUBSET Keys
  <2>1. IsFiniteSet(S) /\ Cardinality(S) <= limit
    BY KeysAreFinite, FS_Subset
  <2>2. Cardinality(S) \in Nat
    BY <2>1, FS_CardinalityType
  <2> QED BY <2>1, <2>2, <1>0
<1>2. \A S \in SUBSET Messages : Cardinality(S) \in 0 .. limit
  <2> TAKE S \in SUBSET Messages
  <2> DEFINE f == [m \in S |-> <<1, m>>]
  <2> DEFINE T == {<<1, m>> : m \in S}
  <2>1. T \in SUBSET Keys
    BY MailSyncAssumption DEF Keys, Uids, Messages
  <2>2. IsFiniteSet(T) /\ Cardinality(T) \in 0 .. limit
    BY <2>1, <1>1, KeysAreFinite, FS_Subset
  <2>3. f \in Injection(S, T)
    <3>1. f \in [S -> T]
      OBVIOUS
    <3>2. \A m, n \in S : f[m] = f[n] => m = n
      OBVIOUS
    <3> QED BY <3>1, <3>2 DEF Injection, IsInjective
  <2>4. IsFiniteSet(S) /\ Cardinality(S) <= Cardinality(T)
    BY <2>2, <2>3, FS_Injection
  <2>5. Cardinality(S) \in Nat
    BY <2>4, FS_CardinalityType
  <2> QED BY <2>2, <2>4, <2>5, <1>0
<1>3. ASSUME NEW rs PROVE CountsOf(rs) \in Counts
  <2>1. Visible(rs) \in SUBSET Keys /\ {k \in Visible(rs) : rs[k].unread} \in SUBSET Keys
    BY DEF Visible
  <2> QED BY <2>1, <1>1 DEF CountsOf, Counts
<1> QED BY <1>2, <1>3 DEF Counts

LEMMA DefaultsAreTyped ==
  /\ NoRow \in Row /\ NoOperation \in Operation /\ NoRound \in Round /\ NoReader \in Reader
  /\ NoWorker \in Worker /\ NoWorkers \in [Workers -> Worker]
  /\ [total |-> 0, unread |-> 0] \in Counts
<1>1. <<1, 1>> \in Keys /\ 1 \in Uids /\ 1 \in Messages /\ 1 \in Validities /\ 0 \in 0 .. Last
  BY MailSyncAssumption DEF Keys, Uids, Messages
<1>2. [total |-> 0, unread |-> 0] \in Counts
  BY KeysAreFinite DEF Counts
<1>3. NoRow \in Row /\ NoOperation \in Operation
  BY <1>1 DEF NoRow, Row, NoOperation, Operation
<1>4. NoReader \in Reader
  BY <1>1 DEF NoReader, Reader
<1>5. NoWorker \in Worker
  BY DEF NoWorker, Worker
<1>6. NoRound \in Round
  BY <1>1, <1>2 DEF NoRound, Round, Place
<1> QED BY <1>2, <1>3, <1>4, <1>5, <1>6 DEF NoWorkers

\* What is spent was there.
LEMMA SpendIsTyped ==
  ASSUME budget \in [Expenses -> Nat], NEW kind \in Expenses \ {"all"}, Spend(kind)
  PROVE  budget' \in [Expenses -> Nat]
<1>1. "all" \in Expenses
  BY DEF Expenses
<1>2. /\ budget[kind] > 0 /\ budget["all"] > 0
      /\ budget' = [budget EXCEPT ![kind] = @ - 1, !["all"] = @ - 1]
  BY DEF Spend
<1> QED BY <1>1, <1>2

\* The projections of the user's operations, and a location written again.
LEMMA ProjectionsAreTyped ==
  ASSUME rows \in [Keys -> Row], NEW m, NEW k \in Keys, NEW b \in BOOLEAN
  PROVE  /\ Hide(rows, m, b) \in [Keys -> Row] /\ MarkRead(rows, m, b) \in [Keys -> Row]
         /\ Remove(rows, m) \in [Keys -> Row] /\ Reconciled \in [Keys -> Row]
         /\ UpsertLocation(rows, k, b) \in [Keys -> Row]
<1>0. /\ \A h \in Keys : rows[h] \in Row /\ rows[h].unread \in BOOLEAN
                         /\ rows[h].hidden \in BOOLEAN
      /\ NoRow \in Row
  BY DefaultsAreTyped DEF Row
<1>1. \A h \in Keys : \A c \in BOOLEAN : /\ [rows[h] EXCEPT !.hidden = c] \in Row
                                         /\ [rows[h] EXCEPT !.unread = c] \in Row
  BY <1>0 DEF Row
<1>2. Hide(rows, m, b) \in [Keys -> Row]
  BY <1>0, <1>1 DEF Hide
<1>3. MarkRead(rows, m, b) \in [Keys -> Row]
  BY <1>0, <1>1 DEF MarkRead
<1>4. Remove(rows, m) \in [Keys -> Row]
  BY <1>0 DEF Remove
<1>5. Reconciled \in [Keys -> Row]
  <2>1. \A h \in Keys : (h[2] \notin round.seen) \in BOOLEAN
    BY Zenon
  <2>2. \A h \in Keys : [rows[h] EXCEPT !.unread = h[2] \notin round.seen] \in Row
    BY <1>1, <2>1
  <2> QED BY <1>0, <2>2 DEF Reconciled
<1>6. UpsertLocation(rows, k, b) \in [Keys -> Row]
  <2>1. [stored |-> TRUE, hidden |-> rows[k].hidden,
         unread |-> IF rows[k].stored /\ ActiveFlagOn(MessageOf(k)) # {}
                    THEN rows[k].unread ELSE b] \in Row
    BY <1>0 DEF Row
  <2> QED BY <2>1 DEF UpsertLocation
<1> QED BY <1>2, <1>3, <1>4, <1>5, <1>6

LEMMA ProjectIsTyped ==
  ASSUME mailbox \in MailboxType, NEW rs \in [Keys -> Row], Project(rs)
  PROVE  rows' \in [Keys -> Row] /\ mailbox' \in MailboxType
  BY CountsAreTyped DEF Project, MailboxType

LEMMA TypesInit == Init => TypeOK
<1> SUFFICES ASSUME Init PROVE TypeOK
  OBVIOUS
<1>1. PICK there \in SUBSET Messages : \E seen \in SUBSET there :
        /\ server = [validity |-> 1, there |-> there, seen |-> seen,
                     unborn |-> Messages \ there]
        /\ history = [calm |-> FALSE, lost |-> FALSE, rebuilt |-> FALSE, old |-> there,
                      new |-> {}]
  BY DEF Init
<1>2. server \in ServerType /\ history \in HistoryType
  BY <1>1, MailSyncAssumption DEF ServerType, HistoryType
<1>3. mailbox \in MailboxType
  BY DefaultsAreTyped DEF Init, MailboxType
<1>4. 0 \in 0 .. Last /\ 0 \in 0 .. 2
  BY MailSyncAssumption
<1>5. bodies \in [Messages -> 0 .. Last] /\ announced \in [Messages -> 0 .. 2]
  BY <1>4 DEF Init
<1>6. /\ rows \in [Keys -> Row] /\ ops \in [OpIds -> Operation] /\ round \in Round
      /\ workers \in [Workers -> Worker] /\ reader \in Reader
      /\ compatible \in BOOLEAN /\ baseline \in BOOLEAN /\ budget \in [Expenses -> Nat]
  BY DefaultsAreTyped, BudgetAssumption DEF Init
<1> QED BY <1>2, <1>3, <1>5, <1>6, TypesOfVariables

\* What the properties remember is of its type, however it is disturbed or lost.
LEMMA HistoryIsTyped ==
  ASSUME history \in HistoryType, NEW ms \in SUBSET Messages, NEW b \in BOOLEAN,
         \/ history' = [history EXCEPT !.calm = FALSE, !.new = ms]
         \/ history' = [history EXCEPT !.calm = b]
         \/ history' = [history EXCEPT !.rebuilt = b]
         \/ history' = [history EXCEPT !.lost = TRUE, !.rebuilt = b]
         \/ UNCHANGED history
  PROVE  history' \in HistoryType
  BY DEF HistoryType

\* The mailbox changes on the server.
LEMMA ServerTypes == ASSUME TypeOK, Server PROVE TypeOK'
<1>t. server \in ServerType /\ history \in HistoryType
  BY TypesOfVariables
<1>b. \A kind \in {"arrivals", "changes", "renumber"} :
        Spend(kind) => budget' \in [Expenses -> Nat]
  BY TypesOfVariables, SpendIsTyped DEF Expenses
<1>h. history.new \in SUBSET Messages
  BY <1>t DEF HistoryType
<1>1. ASSUME NEW m \in Messages, Arrive(m) PROVE TypeOK'
  <2>1. server' \in ServerType
    BY <1>1, <1>t DEF Arrive, ServerType
  <2>2. PICK ms \in SUBSET Messages : history' = [history EXCEPT !.calm = FALSE, !.new = ms]
    BY <1>1, <1>t, <1>h DEF Arrive, HistoryType
  <2>3. history' \in HistoryType
    BY <1>t, <2>2, HistoryIsTyped
  <2> QED BY <1>1, <1>b, <2>1, <2>3 DEF Arrive, TypeOK, ServerType, HistoryType
<1>2. ASSUME NEW m \in Messages, OtherClientExpunges(m) PROVE TypeOK'
  <2>1. server' \in ServerType
    BY <1>2, <1>t DEF OtherClientExpunges, ServerType
  <2>3. history' \in HistoryType
    BY <1>2, <1>t, HistoryIsTyped DEF OtherClientExpunges, Disturb
  <2> QED BY <1>2, <1>b, <2>1, <2>3 DEF OtherClientExpunges, TypeOK, ServerType, HistoryType
<1>3. ASSUME NEW m \in Messages, NEW read \in BOOLEAN, OtherClientSetsRead(m, read)
      PROVE  TypeOK'
  <2>1. server' \in ServerType
    BY <1>3, <1>t DEF OtherClientSetsRead, ServerType
  <2>2. history' = [history EXCEPT !.calm = FALSE, !.new = history.new \ {m}]
    BY <1>3, <1>t DEF OtherClientSetsRead, HistoryType
  <2>3. history' \in HistoryType
    BY <1>t, <1>h, <2>2, HistoryIsTyped
  <2> QED BY <1>3, <1>b, <2>1, <2>3 DEF OtherClientSetsRead, TypeOK, ServerType, HistoryType
<1>4. CASE RenumberMailbox
  <2>1. server' \in ServerType
    BY <1>4, <1>t DEF RenumberMailbox, ServerType
  <2>3. history' \in HistoryType
    BY <1>4, <1>t, HistoryIsTyped DEF RenumberMailbox
  <2> QED BY <1>4, <1>b, <2>1, <2>3 DEF RenumberMailbox, TypeOK, ServerType, HistoryType
<1> QED BY <1>1, <1>2, <1>3, <1>4 DEF Server

\* The user acts, and his operations are executed.
LEMMA OperationsTypes == ASSUME TypeOK, User \/ Operations PROVE TypeOK'
<1>t. /\ history \in HistoryType /\ ops \in [OpIds -> Operation] /\ rows \in [Keys -> Row]
      /\ mailbox \in MailboxType /\ server \in ServerType /\ reader \in Reader
  BY TypesOfVariables
<1>b. \A kind \in {"operations", "reads", "faults"} :
        Spend(kind) => budget' \in [Expenses -> Nat]
  BY TypesOfVariables, SpendIsTyped DEF Expenses
<1>d. Disturb => history' \in HistoryType
  BY <1>t, HistoryIsTyped DEF Disturb
<1>s. \A o \in OpIds : \A status \in {"running", "succeeded", "failed"} :
        [ops EXCEPT ![o].status = status] \in [OpIds -> Operation]
  BY <1>t DEF Operation
<1>1. ASSUME NEW o \in OpIds, NEW k \in Keys, QueueDelete(o, k) PROVE TypeOK'
  <2>1. ops' \in [OpIds -> Operation]
    BY <1>1, <1>t DEF QueueDelete, Operation
  <2>2. rows' \in [Keys -> Row] /\ mailbox' \in MailboxType
    BY <1>1, <1>t, ProjectionsAreTyped, ProjectIsTyped DEF QueueDelete
  <2> QED BY <1>1, <1>b, <1>d, <2>1, <2>2 DEF QueueDelete, TypeOK, MailboxType, HistoryType
<1>2. ASSUME NEW o \in OpIds, NEW k \in Keys, NEW read \in BOOLEAN, QueueSetRead(o, k, read)
      PROVE  TypeOK'
  <2>0. (~rows[k].unread) \in BOOLEAN
    BY Zenon
  <2>1. ops' \in [OpIds -> Operation]
    BY <1>2, <1>t, <2>0 DEF QueueSetRead, Operation
  <2>2. rows' \in [Keys -> Row] /\ mailbox' \in MailboxType
    BY <1>2, <1>t, ProjectionsAreTyped, ProjectIsTyped DEF QueueSetRead
  <2> QED BY <1>2, <1>b, <1>d, <2>1, <2>2 DEF QueueSetRead, TypeOK, MailboxType, HistoryType
<1>3. ASSUME NEW k \in Keys, RequestMessageBody(k) PROVE TypeOK'
  <2>1. reader' \in Reader
    BY <1>3, <1>t, DefaultsAreTyped, UidsNameMessages DEF RequestMessageBody, Reader
  <2> QED BY <1>3, <1>b, <1>d, <2>1 DEF RequestMessageBody, TypeOK, HistoryType
<1>4. ASSUME NEW o \in OpIds, ApplyOperation(o) PROVE TypeOK'
  <2> DEFINE m == MessageOf(ops[o].key)
  <2>0. m \in Messages
    BY <1>t, UidsNameMessages DEF Operation
  <2>1. ops' \in [OpIds -> Operation]
    BY <1>4, <1>s DEF ApplyOperation
  <2>2. history' \in HistoryType /\ server' \in ServerType
    <3>1. CASE /\ server' = [server EXCEPT !.seen = IF ops[o].value THEN @ \cup {m} ELSE @ \ {m}]
               /\ history' = [history EXCEPT !.calm = FALSE, !.new = @ \ {m}]
      <4>1. history.new \ {m} \in SUBSET Messages
        BY <1>t DEF HistoryType
      <4>2. history' = [history EXCEPT !.calm = FALSE, !.new = history.new \ {m}]
        BY <3>1, <1>t DEF HistoryType
      <4> HIDE DEF m
      <4> QED BY <2>0, <3>1, <4>1, <4>2, <1>t, HistoryIsTyped DEF ServerType
    <3>2. CASE /\ server' = [server EXCEPT !.there = @ \ {m}, !.seen = @ \ {m}]
               /\ Disturb
      <4> HIDE DEF m
      <4> QED BY <2>0, <3>2, <1>d, <1>t DEF ServerType
    <3> QED BY <1>4, <3>1, <3>2 DEF ApplyOperation
  <2> QED BY <1>4, <2>1, <2>2 DEF ApplyOperation, TypeOK, HistoryType, ServerType
<1>5. ASSUME NEW o \in OpIds, CompletePendingOperation(o) PROVE TypeOK'
  <2>1. ops' \in [OpIds -> Operation]
    BY <1>5, <1>s DEF CompletePendingOperation
  <2>0. ops[o].key \in Keys
    BY <1>t DEF Operation
  <2>a. Remove(rows, MessageOf(ops[o].key)) \in [Keys -> Row]
    BY <1>t, <2>0, ProjectionsAreTyped
  <2>2. rows' \in [Keys -> Row] /\ mailbox' \in MailboxType
    BY <1>5, <1>t, <2>a, ProjectIsTyped DEF CompletePendingOperation
  <2> QED BY <1>5, <1>d, <2>1, <2>2
      DEF CompletePendingOperation, TypeOK, MailboxType, HistoryType
<1>6. ASSUME NEW o \in OpIds, FailPendingOperation(o) PROVE TypeOK'
  <2>1. ops' \in [OpIds -> Operation]
    BY <1>6, <1>s DEF FailPendingOperation
  <2>0. ops[o].previous \in BOOLEAN /\ ops[o].key \in Keys
    BY <1>t DEF Operation
  <2>a. /\ Hide(rows, MessageOf(ops[o].key), FALSE) \in [Keys -> Row]
        /\ MarkRead(rows, MessageOf(ops[o].key), ops[o].previous) \in [Keys -> Row]
    BY <1>t, <2>0, ProjectionsAreTyped
  <2>2. rows' \in [Keys -> Row] /\ mailbox' \in MailboxType
    BY <1>6, <1>t, <2>a, ProjectIsTyped DEF FailPendingOperation
  <2>3. budget' \in [Expenses -> Nat]
    BY <1>6, <1>b, TypesOfVariables DEF FailPendingOperation
  <2> QED BY <1>6, <1>d, <2>1, <2>2, <2>3
      DEF FailPendingOperation, TypeOK, MailboxType, HistoryType
<1> QED BY <1>1, <1>2, <1>3, <1>4, <1>5, <1>6 DEF User, Operations

\* A worker's step.
LEMMA WorkerIsTyped ==
  ASSUME workers \in [Workers -> Worker], NEW w \in Workers,
         NEW x \in Worker, workers' = [workers EXCEPT ![w] = x]
  PROVE  workers' \in [Workers -> Worker]
  OBVIOUS

LEMMA NotifyIsTyped ==
  ASSUME TypeOK, NEW w \in Workers
  PROVE  NotifyArrivals(w) \in Round
<1>1. round \in Round /\ workers[w] \in Worker
  BY TypesOfVariables
<1>2. workers[w].new \in SUBSET Uids
  BY <1>1 DEF Worker
<1>3. Arrivals(w) \in SUBSET Messages
  BY <1>2, UidsCorrespond DEF Arrivals
<1>4. round.candidates \cup Arrivals(w) \in SUBSET Messages
  BY <1>1, <1>3 DEF Round
<1> QED BY <1>1, <1>4 DEF NotifyArrivals, notify, Round

\* The headers of a round.
LEMMA HeadersTypes == ASSUME TypeOK, Headers PROVE TypeOK'
<1>t. /\ round \in Round /\ workers \in [Workers -> Worker] /\ rows \in [Keys -> Row]
      /\ \A w \in Workers : workers[w] \in Worker
  BY TypesOfVariables
<1>b. Spend("faults") => budget' \in [Expenses -> Nat]
  BY TypesOfVariables, SpendIsTyped DEF Expenses
<1>p. \A w \in Workers : \A at \in {"structure", "again", "done", "unusable", "failed"} :
        [workers EXCEPT ![w].at = at] \in [Workers -> Worker]
  BY <1>t DEF Worker
<1>n. \A w \in Workers : [workers EXCEPT ![w] = NoWorker] \in [Workers -> Worker]
  BY <1>t, DefaultsAreTyped
<1>1. ASSUME NEW w \in Workers, FetchSummaries(w) PROVE TypeOK'
  <2>1. CASE workers' = [workers EXCEPT ![w].at = "done"] /\ UNCHANGED round
    <3>1. workers' \in [Workers -> Worker]
      BY <1>p, <2>1
    <3> QED BY <1>1, <2>1, <3>1 DEF FetchSummaries, TypeOK
  <2>2. ASSUME NEW b \in SUBSET round.left,
               round' = [round EXCEPT !.left = @ \ b],
               workers' = [workers EXCEPT ![w] =
                       [NoWorker EXCEPT !.at = "store",
                            !.batch = {u \in b : There(<<round.validity, u>>)},
                            !.unread = {u \in b : UnreadThere(<<round.validity, u>>)}]]
        PROVE TypeOK'
    <3>1. round' \in Round
      BY <1>t, <2>2 DEF Round
    <3>2. PICK c \in SUBSET round.left, d \in SUBSET round.left :
            workers' = [workers EXCEPT ![w] =
                          [NoWorker EXCEPT !.at = "store", !.batch = c, !.unread = d]]
      BY <2>2
    <3>3. c \in SUBSET Uids /\ d \in SUBSET Uids
      BY <1>t DEF Round
    <3>4. [NoWorker EXCEPT !.at = "store", !.batch = c, !.unread = d] \in Worker
      BY <3>3 DEF NoWorker, Worker
    <3>5. workers' \in [Workers -> Worker]
      BY <1>t, <3>2, <3>4
    <3> QED BY <1>1, <3>1, <3>5 DEF FetchSummaries, TypeOK
  <2> QED BY <1>1, <2>1, <2>2 DEF FetchSummaries
<1>2. ASSUME NEW w \in Workers, NEW u \in Uids, UpsertMessage(w, u) PROVE TypeOK'
  <2>1. <<round.validity, u>> \in Keys /\ (u \in workers[w].unread) \in BOOLEAN
    BY <1>t DEF Keys, Round
  <2>2. UpsertLocation(rows, <<round.validity, u>>, u \in workers[w].unread) \in [Keys -> Row]
    BY <1>t, <2>1, ProjectionsAreTyped
  <2>3. workers' \in [Workers -> Worker]
    <3>1. PICK n \in SUBSET Uids :
            workers' = [workers EXCEPT ![w].done = @ \cup {u}, ![w].new = n]
      <4>1. workers[w].new \in SUBSET Uids /\ workers[w].new \cup {u} \in SUBSET Uids
        BY <1>t DEF Worker
      <4> QED BY <1>2, <1>t, <4>1 DEF UpsertMessage
    <3>2. [workers[w] EXCEPT !.done = workers[w].done \cup {u}, !.new = n] \in Worker
      BY <1>t DEF Worker
    <3>3. workers' = [workers EXCEPT ![w] =
                        [workers[w] EXCEPT !.done = workers[w].done \cup {u}, !.new = n]]
      BY <3>1, <1>t
    <3> QED BY <3>2, <3>3, <1>t
  <2> QED BY <1>2, <2>2, <2>3 DEF UpsertMessage, TypeOK
<1>3. ASSUME NEW w \in Workers, NEW u \in Uids, UpsertAgain(w, u) PROVE TypeOK'
  <2>1. <<round.validity, u>> \in Keys /\ (u \in workers[w].unread) \in BOOLEAN
    BY <1>t DEF Keys, Round
  <2>2. UpsertLocation(rows, <<round.validity, u>>, u \in workers[w].unread) \in [Keys -> Row]
    BY <1>t, <2>1, ProjectionsAreTyped
  <2>3. workers' \in [Workers -> Worker]
    <3>1. workers' = [workers EXCEPT ![w] =
                        [workers[w] EXCEPT !.done = workers[w].done \cup {u}]]
      BY <1>3 DEF UpsertAgain
    <3>2. [workers[w] EXCEPT !.done = workers[w].done \cup {u}] \in Worker
      BY <1>t DEF Worker
    <3> QED BY <3>1, <3>2, <1>t
  <2> QED BY <1>3, <2>2, <2>3 DEF UpsertAgain, TypeOK
<1>4. ASSUME NEW w \in Workers, HeadersOnly(w) PROVE TypeOK'
  <2>1. /\ workers' \in [Workers -> Worker]
        /\ round' = round \/ round' = NotifyArrivals(w)
    <3>1. [workers[w] EXCEPT !.at = "structure"] \in Worker
      BY <1>t DEF Worker
    <3> QED BY <1>4, <1>n, <1>t, <3>1 DEF HeadersOnly
  <2>2. round' \in Round
    BY <2>1, <1>t, NotifyIsTyped
  <2> QED BY <1>4, <2>1, <2>2 DEF HeadersOnly, TypeOK
<1>5. ASSUME NEW w \in Workers, FetchBodystructures(w) PROVE TypeOK'
  <2>1. PICK changed \in {{}, workers[w].batch} :
          workers' = [workers EXCEPT ![w].at = "again", ![w].done = @ \ changed]
    BY <1>5 DEF FetchBodystructures
  <2>2. [workers[w] EXCEPT !.at = "again", !.done = workers[w].done \ changed] \in Worker
    BY <1>t DEF Worker
  <2>3. workers' = [workers EXCEPT ![w] =
                      [workers[w] EXCEPT !.at = "again", !.done = workers[w].done \ changed]]
    BY <2>1, <1>t
  <2>4. workers' \in [Workers -> Worker]
    BY <2>2, <2>3, <1>t
  <2> QED BY <1>5, <2>4 DEF FetchBodystructures, TypeOK
<1>6. ASSUME NEW w \in Workers, BatchDone(w) PROVE TypeOK'
  <2>1. workers' \in [Workers -> Worker] /\ round' \in Round
    BY <1>6, <1>n, NotifyIsTyped DEF BatchDone
  <2> QED BY <1>6, <2>1 DEF BatchDone, TypeOK
<1>7. ASSUME NEW w \in Workers, BodystructureFails(w) PROVE TypeOK'
  <2>1. workers' \in [Workers -> Worker] /\ round' \in Round
    BY <1>7, <1>p, NotifyIsTyped DEF BodystructureFails
  <2> QED BY <1>7, <1>b, <2>1 DEF BodystructureFails, TypeOK
<1>8. ASSUME NEW w \in Workers, WorkerFails(w) PROVE TypeOK'
  <2>1. workers' \in [Workers -> Worker]
    BY <1>8, <1>p DEF WorkerFails
  <2>2. budget' \in [Expenses -> Nat]
    BY <1>8, <1>b, TypesOfVariables DEF WorkerFails
  <2> QED BY <1>8, <2>1, <2>2 DEF WorkerFails, TypeOK
<1> QED BY <1>1, <1>2, <1>3, <1>4, <1>5, <1>6, <1>7, <1>8 DEF Headers

\* The rest of a round.
LEMMA RoundTypes == ASSUME TypeOK, Synchronize, ~Headers PROVE TypeOK'
<1>t. /\ round \in Round /\ workers \in [Workers -> Worker] /\ rows \in [Keys -> Row]
      /\ mailbox \in MailboxType /\ server \in ServerType /\ history \in HistoryType
      /\ bodies \in [Messages -> 0 .. Last] /\ announced \in [Messages -> 0 .. 2]
      /\ baseline \in BOOLEAN /\ compatible \in BOOLEAN
  BY TypesOfVariables
<1>b. Spend("faults") => budget' \in [Expenses -> Nat]
  BY TypesOfVariables, SpendIsTyped DEF Expenses
<1>n. NoWorkers \in [Workers -> Worker] /\ NoRound \in Round
  BY DefaultsAreTyped
<1>u. \A v \in Validities, ms \in SUBSET Messages : {UidOf(v, m) : m \in ms} \in SUBSET Uids
  BY UidsCorrespond DEF Uids, Messages
<1>s. server.validity \in Validities /\ server.there \in SUBSET Messages
      /\ server.seen \in SUBSET Messages
  BY <1>t DEF ServerType
<1>p. {"idle", "open", "upsert", "search", "diff", "headers", "bodies", "body", "reconcile",
        "commit", "complete", "end"} \subseteq Place
  BY DEF Place
<1>1. CASE StartRound
  <2>1. round' \in Round
    BY <1>1, <1>t, <1>n, <1>p DEF StartRound, Round
  <2>2. history' \in HistoryType
    <3>1. ((\A o \in OpIds : ~Active(o)) /\ reader.at = "idle") \in BOOLEAN
      BY Zenon
    <3> QED BY <1>1, <3>1, <1>t, HistoryIsTyped DEF StartRound
  <2> QED BY <1>1, <2>1, <2>2 DEF StartRound, TypeOK, HistoryType
<1>2. CASE OpenMailbox
  <2>1. [total |-> Cardinality(server.there),
         unread |-> Cardinality(server.there \ server.seen)] \in Counts
    BY <1>s, CountsAreTyped
  <2>2. PICK required \in BOOLEAN, counts \in Counts :
          round' = [round EXCEPT !.at = "upsert", !.validity = server.validity,
                                 !.required = required, !.counts = counts]
    <3>1. (mailbox.validity = 0 \/ (mailbox.validity # 0 /\ mailbox.validity # server.validity))
            \in BOOLEAN
      BY Zenon
    <3> QED BY <1>2, <2>1, <3>1 DEF OpenMailbox
  <2>3. round' \in Round
    BY <1>t, <1>s, <2>2, <1>p DEF Round
  <2>4. rows' \in [Keys -> Row]
    BY <1>2, <1>t, DefaultsAreTyped DEF OpenMailbox
  <2> QED BY <1>2, <2>3, <2>4 DEF OpenMailbox, TypeOK
<1>3. CASE UpsertMailbox
  <2>1. NoRound.counts \in Counts
    BY <1>n DEF Round
  <2>2. round' \in Round
    BY <1>3, <1>t, <2>1, <1>p DEF UpsertMailbox, Round
  <2>3. mailbox' \in MailboxType
    BY <1>3, <1>t DEF UpsertMailbox, MailboxType, Round
  <2> QED BY <1>3, <2>2, <2>3 DEF UpsertMailbox, TypeOK, MailboxType
<1>4. CASE SearchAll
  <2>1. {UidOf(server.validity, m) : m \in server.there} \in SUBSET Uids
    BY <1>u, <1>s
  <2>2. round' \in Round
    BY <1>4, <1>t, <2>1, <1>p DEF SearchAll, Round
  <2> QED BY <1>4, <2>2 DEF SearchAll, TypeOK
<1>5. CASE DiffStoredUids
  <2>1. Missing \in SUBSET Uids
    BY <1>t DEF Missing, Round
  <2>2. round' \in Round
    BY <1>5, <1>t, <2>1, <1>p DEF DiffStoredUids, Round
  <2> QED BY <1>5, <1>n, <2>2 DEF DiffStoredUids, TypeOK
<1>6. CASE JoinWorkers
  <2>1. MissingBodies \in SUBSET Uids /\ Incompatible \in BOOLEAN
    <3>1. MissingBodies \in SUBSET Uids
      BY <1>t DEF MissingBodies, Round
    <3>2. Incompatible \in BOOLEAN
      BY DEF Incompatible
    <3> QED BY <3>1, <3>2
  <2>2. round' \in Round
    BY <1>6, <1>t, <2>1, <1>p DEF JoinWorkers, Round
  <2>3. workers' \in [Workers -> Worker]
    <3>1. workers[1].at \in {"done", "unusable"}
      BY <1>6, MailSyncAssumption DEF JoinWorkers
    <3> QED BY <1>6, <1>n, <3>1, MailSyncAssumption DEF JoinWorkers, Worker
  <2> QED BY <1>6, <2>2, <2>3 DEF JoinWorkers, TypeOK
<1>7. ASSUME NEW u \in Uids, FetchBody(u) PROVE TypeOK'
  <2>1. PICK seen \in SUBSET Uids :
          \/ round' = [round EXCEPT !.at = "body", !.left = @ \ {u}, !.uid = u, !.seen = seen]
          \/ round' = [round EXCEPT !.left = @ \ {u}]
    BY <1>7 DEF FetchBody
  <2>2. round' \in Round
    <3>1. round' = [round EXCEPT !.at = "body", !.left = @ \ {u}, !.uid = u, !.seen = seen]
            => round' \in Round
      <4>1. "body" \in Place /\ round.left \ {u} \in SUBSET Uids
        BY <1>t, <1>p DEF Round
      <4> QED BY <1>t, <4>1 DEF Round
    <3>2. round' = [round EXCEPT !.left = @ \ {u}] => round' \in Round
      BY <1>t DEF Round
    <3> QED BY <2>1, <3>1, <3>2
  <2> QED BY <1>7, <2>2 DEF FetchBody, TypeOK
<1>8. CASE StoreBody
  <2> DEFINE k == <<round.validity, round.uid>>
  <2>0. k \in Keys /\ (round.uid \notin round.seen) \in BOOLEAN
    BY <1>t DEF Keys, Round
  <2>1. MessageOf(k) \in 0 .. Last /\ MessageOf(k) \in Messages
    BY <2>0, UidsNameMessages DEF Messages
  <2>2. bodies' \in [Messages -> 0 .. Last]
    <3>1. bodies' = [bodies EXCEPT ![MessageOf(k)] = MessageOf(k)]
      BY <1>8 DEF StoreBody
    <3> HIDE DEF k
    <3> QED BY <3>1, <2>1, <1>t
  <2>3. rows' \in [Keys -> Row]
    BY <1>8, <1>t, <2>0, ProjectionsAreTyped DEF StoreBody
  <2>4. round' \in Round
    <3>1. round' = [round EXCEPT !.at = "bodies", !.uid = 1, !.seen = {}]
      BY <1>8 DEF StoreBody
    <3>2. 1 \in Uids
      BY MailSyncAssumption DEF Uids
    <3> QED BY <1>t, <3>1, <3>2, <1>p DEF Round
  <2> QED BY <1>8, <2>2, <2>3, <2>4 DEF StoreBody, TypeOK
<1>9. CASE BodiesDone
  <2>1. \/ round' = [round EXCEPT !.at = "reconcile"]
        \/ round' = [round EXCEPT !.at = "reconcile", !.left = {}, !.incompatible = TRUE]
    BY <1>9 DEF BodiesDone
  <2>3. round' \in Round
    <3>1. round' = [round EXCEPT !.at = "reconcile"] => round' \in Round
      BY <1>t, <1>p DEF Round
    <3>2. round' = [round EXCEPT !.at = "reconcile", !.left = {}, !.incompatible = TRUE]
            => round' \in Round
      BY <1>t, <1>p DEF Round
    <3> QED BY <2>1, <3>1, <3>2
  <2>2. budget' \in [Expenses -> Nat]
    BY <1>9, <1>b, TypesOfVariables DEF BodiesDone
  <2> QED BY <1>9, <2>2, <2>3 DEF BodiesDone, TypeOK
<1>10. CASE FetchFlags
  <2>1. /\ {UidOf(server.validity, m) : m \in server.there} \in SUBSET Uids
        /\ {UidOf(server.validity, m) : m \in server.seen} \in SUBSET Uids
    BY <1>u, <1>s
  <2>2. PICK r \in SUBSET Uids, n \in SUBSET Uids :
          \/ round' = [round EXCEPT !.at = "commit", !.remote = r, !.seen = n]
          \/ round' = [round EXCEPT !.at = "complete"]
    BY <1>10, <2>1 DEF FetchFlags
  <2>3. round' \in Round
    BY <1>t, <2>2, <1>p DEF Round
  <2> QED BY <1>10, <2>3 DEF FetchFlags, TypeOK
<1>11. CASE ReconcileMailbox
  <2>0. Reconciled \in [Keys -> Row]
    <3>1. <<1, 1>> \in Keys
      BY MailSyncAssumption DEF Keys, Uids
    <3> QED BY <3>1, <1>t, ProjectionsAreTyped
  <2>1. rows' \in [Keys -> Row] /\ mailbox' \in MailboxType
    BY <1>11, <1>t, <2>0, ProjectIsTyped DEF ReconcileMailbox
  <2>2. round' \in Round
    BY <1>11, <1>t, <1>p DEF ReconcileMailbox, Round
  <2> QED BY <1>11, <2>1, <2>2 DEF ReconcileMailbox, TypeOK, MailboxType
<1>12. CASE CompleteMailbox
  <2>1. round' \in Round
    <3>1. \/ round' = [round EXCEPT !.at = "end"]
          \/ round' = [NoRound EXCEPT !.at = "open", !.ready = round.ready,
                                      !.candidates = round.candidates]
      BY <1>12 DEF CompleteMailbox
    <3>2. [round EXCEPT !.at = "end"] \in Round
      BY <1>t, <1>p DEF Round
    <3>3. [NoRound EXCEPT !.at = "open", !.ready = round.ready,
                          !.candidates = round.candidates] \in Round
      BY <1>t, <1>n, <1>p DEF Round
    <3> QED BY <3>1, <3>2, <3>3
  <2>2. history' \in HistoryType /\ compatible' \in BOOLEAN
    <3>1. Rebuilding \in BOOLEAN /\ history.rebuilt \in BOOLEAN
      BY <1>t DEF Rebuilding, Round, HistoryType
    <3>2. CASE UNCHANGED <<compatible, history>>
      BY <3>2, <1>t
    <3>3. CASE compatible' = FALSE /\ history' = [history EXCEPT !.rebuilt = @ \/ Rebuilding]
      <4>1. history' = [history EXCEPT !.rebuilt = history.rebuilt \/ Rebuilding]
        BY <3>3, <1>t DEF HistoryType
      <4> QED BY <3>1, <3>3, <4>1, <1>t, HistoryIsTyped
    <3> QED BY <1>12, <3>2, <3>3 DEF CompleteMailbox
  <2> QED BY <1>12, <1>n, <2>1, <2>2 DEF CompleteMailbox, TypeOK, HistoryType
<1>13. CASE EndRound
  <2>1. announced' \in [Messages -> 0 .. 2]
    BY <1>13, <1>t DEF EndRound
  <2> QED BY <1>13, <1>n, <2>1 DEF EndRound, TypeOK
<1>14. ASSUME NoMoreRound
       PROVE  round' \in Round /\ workers' \in [Workers -> Worker] /\ history' \in HistoryType
  <2>1. PICK b \in BOOLEAN : history' = [history EXCEPT !.lost = TRUE, !.rebuilt = b]
    <3>1. (history.rebuilt \/ (Rebuilding /\ round.at \notin {"open", "upsert", "end"}))
            \in BOOLEAN
      BY Zenon
    <3> QED BY <1>14, <3>1, <1>t DEF NoMoreRound, Losing, HistoryType
  <2> QED BY <1>14, <1>n, <1>t, <2>1, HistoryIsTyped DEF NoMoreRound
<1>15. CASE RoundFails
  <2>1. budget' \in [Expenses -> Nat]
    BY <1>15, <1>b, TypesOfVariables DEF RoundFails
  <2> QED BY <1>14, <1>15, <2>1 DEF RoundFails, TypeOK, HistoryType
<1>16. CASE RoundReplaced
  BY <1>14, <1>16, <1>b DEF RoundReplaced, TypeOK, HistoryType
<1> QED BY <1>1, <1>2, <1>3, <1>4, <1>5, <1>6, <1>7, <1>8, <1>9, <1>10, <1>11, <1>12, <1>13,
           <1>15, <1>16 DEF Synchronize

\* Requests for bodies, and the end of the process.
LEMMA ReaderTypes == ASSUME TypeOK, Read \/ Crash PROVE TypeOK'
<1>t. /\ reader \in Reader /\ rows \in [Keys -> Row] /\ bodies \in [Messages -> 0 .. Last]
      /\ history \in HistoryType /\ ops \in [OpIds -> Operation] /\ server \in ServerType
      /\ compatible \in BOOLEAN
  BY TypesOfVariables
<1>k. reader.key \in Keys /\ reader.unread \in BOOLEAN /\ reader.content \in 0 .. Last
      /\ reader.message \in Messages
  BY <1>t DEF Reader
<1>b. \A kind \in {"faults", "crashes"} : Spend(kind) => budget' \in [Expenses -> Nat]
  BY TypesOfVariables, SpendIsTyped DEF Expenses
<1>d. Disturb => history' \in HistoryType
  BY <1>t, HistoryIsTyped DEF Disturb
<1>n. NoReader \in Reader /\ NoRound \in Round /\ NoWorkers \in [Workers -> Worker]
  BY DefaultsAreTyped
<1>1. CASE FetchMessageBody
  <2>1. reader.key[2] \in Uids
    BY <1>k DEF Keys
  <2>2. MessageAt(server.validity, reader.key[2]) \in 0 .. Last
    BY <2>1, UidsCorrespond DEF Messages
  <2>3. UnreadThere(reader.key) \in BOOLEAN
    BY DEF UnreadThere, There
  <2>4. reader' \in Reader
    BY <1>1, <1>t, <2>2, <2>3 DEF FetchMessageBody, Reader
  <2> QED BY <1>1, <1>d, <2>4 DEF FetchMessageBody, TypeOK, HistoryType
<1>2. CASE SelectiveFetchUnsupported
  <2>1. reader' \in Reader
    BY <1>2, <1>t DEF SelectiveFetchUnsupported, RowsOf, Stored, Reader
  <2>2. compatible' \in BOOLEAN
    BY <1>2, <1>t DEF SelectiveFetchUnsupported
  <2> QED BY <1>2, <1>b, <1>d, <2>1, <2>2 DEF SelectiveFetchUnsupported, TypeOK, HistoryType
<1>3. CASE ReplaceMessageBody
  <2>1. bodies' \in [Messages -> 0 .. Last]
    BY <1>3, <1>k, <1>t DEF ReplaceMessageBody
  <2> QED BY <1>3, <1>d, <1>n, <2>1 DEF ReplaceMessageBody, TypeOK, HistoryType
<1>4. CASE StoreWholeMessage
  <2>1. bodies' \in [Messages -> 0 .. Last]
    BY <1>4, <1>k, <1>t, UidsNameMessages DEF StoreWholeMessage
  <2>2. rows' \in [Keys -> Row]
    BY <1>4, <1>k, <1>t, ProjectionsAreTyped DEF StoreWholeMessage
  <2> QED BY <1>4, <1>d, <1>n, <2>1, <2>2 DEF StoreWholeMessage, TypeOK, HistoryType
<1>5. CASE RequestFails
  <2>1. budget' \in [Expenses -> Nat]
    BY <1>5, <1>b, TypesOfVariables DEF RequestFails
  <2> QED BY <1>5, <1>d, <1>n, <2>1 DEF RequestFails, TypeOK, HistoryType
<1>6. CASE Crash
  <2>1. ops' \in [OpIds -> Operation]
    <3>1. \A o \in OpIds : /\ ops[o] \in Operation
                           /\ [ops[o] EXCEPT !.status = "queued"] \in Operation
      BY <1>t DEF Operation
    <3> QED BY <1>6, <3>1 DEF Crash
  <2>2. history' \in HistoryType
    <3>1. (history.rebuilt \/ (Rebuilding /\ round.at \notin {"open", "upsert", "end"}))
            \in BOOLEAN
      BY Zenon
    <3>2. CASE Losing
      <4>1. PICK b \in BOOLEAN : history' = [history EXCEPT !.lost = TRUE, !.rebuilt = b]
        BY <3>1, <3>2, <1>t DEF Losing, HistoryType
      <4> QED BY <4>1, <1>t, HistoryIsTyped
    <3> QED BY <1>6, <3>2, <1>t DEF Crash
  <2> QED BY <1>6, <1>b, <1>n, <2>1, <2>2 DEF Crash, TypeOK, HistoryType
<1> QED BY <1>1, <1>2, <1>3, <1>4, <1>5, <1>6 DEF Read

LEMMA TypesStep == ASSUME TypeOK, [Next]_vars PROVE TypeOK'
<1>1. CASE UNCHANGED vars
  BY <1>1 DEF vars, TypeOK
<1> QED BY <1>1, ServerTypes, OperationsTypes, HeadersTypes, RoundTypes, ReaderTypes
        DEF Next, User, Synchronize

\* Every variable keeps its type: what a round takes from the server, and the counts of
\* the mailbox, stay within what can be stored.
THEOREM TypeCorrect == Spec => []TypeOK
  BY TypesInit, TypesStep, PTL DEF Spec

-----------------------------------------------------------------------------
(* What a round relies on *)

\* Not there at first and never announced.
Fresh(m) == m \notin history.old /\ announced[m] = 0
\* Mail the account knows: no round may take it for new again.
Known(m) == ~Fresh(m) \/ m \in round.candidates
\* Mail the round in progress may not miss.
Must(m) == history.calm \/ Known(m)
\* The message a UID of the round names.
Msg(u) == MessageAt(round.validity, u)
\* Known mail of the server is stored.
Covered(v) == \A u \in Uids : /\ MessageAt(v, u) \in server.there
                              /\ Known(MessageAt(v, u))
                              => <<v, u>> \in Stored

\* What a worker has committed of its batch.
Committed(w) == IF workers[w].at = "store" THEN workers[w].done
                ELSE IF workers[w].at \in {"structure", "again"} THEN workers[w].batch ELSE {}
\* Workers whose batch is not announced yet.
Busied(w) == workers[w].at \in {"store", "structure", "again", "failed"}

\* The places of a round, and the UIDVALIDITY it works under.
RoundShape ==
    /\ round.at \in {"idle", "open"} => /\ ~round.required /\ ~round.incompatible
                                        /\ round.remote = {} /\ round.left = {}
    /\ round.at = "idle" => round.candidates = {}
    /\ round.at # "idle" => round.ready = baseline
    /\ round.at \notin {"idle", "open", "upsert"} => round.validity = mailbox.validity
    /\ round.at = "upsert" => IF round.required THEN mailbox.validity # server.validity
                              ELSE mailbox.validity = round.validity
    /\ mailbox.validity <= server.validity
    /\ round.validity <= server.validity

\* A worker's batch, and what of it is stored.
WorkerShape == \A w \in Workers :
    /\ round.at # "headers" => /\ workers[w].at \in {"take", "done", "unusable"}
                               /\ workers[w].batch = {}
    /\ workers[w].new \subseteq workers[w].batch
    /\ workers[w].done \subseteq workers[w].batch
    /\ workers[w].at = "store" => workers[w].new \subseteq workers[w].done
    /\ workers[w].at \in {"take", "done"} => workers[w].batch = {}
    /\ workers[w].at = "done" /\ round.at = "headers" => round.left = {}
    /\ \A u \in Committed(w) : Msg(u) \in server.there => <<round.validity, u>> \in Stored
    /\ w = 1 /\ round.at \in {"bodies", "body", "reconcile"} /\ workers[w].at # "done"
         => round.incompatible

\* Mail that has not arrived is nowhere.
UnbornIsNowhere == \A m \in server.unborn :
    /\ m \notin server.there
    /\ \A k \in Stored : MessageOf(k) # m
    /\ \A o \in OpIds : ops[o].status # "none" => MessageOf(ops[o].key) # m
    /\ reader.at # "idle" => MessageOf(reader.key) # m
    /\ \A w \in Workers : \A u \in workers[w].batch : Msg(u) # m
    /\ \A u \in round.remote \cup round.left : Msg(u) # m
    /\ round.at = "body" => Msg(round.uid) # m
    /\ ~Known(m) /\ m \notin history.new

SeenIsThere == server.seen \subseteq server.there

\* A deletion that the server executed is final.
DeletedIsGone == \A o \in OpIds :
    ops[o].status = "running" /\ ops[o].kind = "delete" => MessageOf(ops[o].key) \notin server.there

\* Only a deletion in progress hides a message.
HiddenIsDeleted == \A k \in Keys :
    rows[k].hidden => /\ rows[k].stored
                      /\ \E o \in ActiveOn(MessageOf(k)) : ops[o].kind = "delete"

ShapeInv ==
    /\ TypeOK /\ RoundShape /\ WorkerShape /\ UnbornIsNowhere
    /\ SeenIsThere /\ DeletedIsGone /\ HiddenIsDeleted

\* No step of a round loses mail that it may not miss: it is listed, then left, in a
\* batch or stored, and in the end stored.
NothingMissed == \A u \in Uids : Msg(u) \in server.there /\ Must(Msg(u)) =>
    /\ round.at \in {"diff", "commit"} => u \in round.remote
    /\ round.at = "headers" =>
         \/ u \in round.left
         \/ <<round.validity, u>> \in Stored
         \/ \E w \in Workers : /\ workers[w].at \in {"store", "failed"}
                               /\ u \in workers[w].batch \ workers[w].done
    /\ /\ round.at \in {"bodies", "body", "reconcile", "commit", "complete"}
       /\ ~round.incompatible
       => <<round.validity, u>> \in Stored
    /\ round.at = "end" => <<round.validity, u>> \in Stored

\* Known mail stays stored, so that what is not stored is fresh.
OnlyFreshIsMissing == ~history.rebuilt =>
    /\ /\ baseline /\ round.at \in {"idle", "open"} /\ mailbox.validity = server.validity
       => Covered(mailbox.validity)
    /\ baseline /\ round.at \notin {"idle", "open"} /\ ~round.required => Covered(round.validity)
    /\ baseline => \A m \in round.candidates : Fresh(m)
    /\ baseline /\ round.at = "headers" /\ ~round.required =>
         /\ \A u \in round.left : Msg(u) \in server.there => Fresh(Msg(u))
         /\ \A w \in Workers : \A u \in workers[w].batch : Fresh(Msg(u))

FreshInv == ShapeInv /\ NothingMissed /\ OnlyFreshIsMissing /\ NewMailIsNew

\* New mail that was announced, or will be by the round in progress.
Told(m) ==
    \/ announced[m] > 0 \/ m \in round.candidates
    \/ \E w \in Workers : /\ Busied(w)
                          /\ \E u \in workers[w].new \cap workers[w].unread : Msg(u) = m
\* New mail that is stored, or may be stored by what is in progress.
Heard(m) ==
    \/ \E k \in Stored : MessageOf(k) = m
    \/ reader.at # "idle" /\ MessageOf(reader.key) = m
    \/ \E w \in Workers : \E u \in Committed(w) : Msg(u) = m
    \/ round.at \in {"bodies", "body"} /\ \E u \in round.left : Msg(u) = m
    \/ round.at = "body" /\ Msg(round.uid) = m

\* Whatever stores new mail tells of it.
NewsAreTold ==
    /\ history.new # {} => /\ baseline /\ mailbox.validity = server.validity
                           /\ ~round.required
    /\ history.new \cap server.seen = {}
    /\ \A w \in Workers : \A u \in workers[w].batch :
         Msg(u) \in history.new => u \in workers[w].unread
    /\ ~history.lost => \A m \in history.new : Heard(m) => Told(m)

NewsInv == ShapeInv /\ NewsAreTold

\* What an undisturbed round has reached.
Undisturbed == history.calm =>
    /\ \A o \in OpIds : ~Active(o)
    /\ reader.at = "idle"
    /\ round.at \notin {"idle", "open"} => round.validity = server.validity
    /\ round.at \in {"diff", "headers", "commit"} =>
         \A u \in Uids : u \in round.remote <=> Msg(u) \in server.there
    /\ round.at = "commit" => \A u \in Uids : u \in round.seen <=> Msg(u) \in server.seen
    /\ DownloadFullMessages /\ ~round.incompatible => \A u \in Uids : Msg(u) \in server.there =>
         /\ round.at \in {"bodies", "body"} => \/ bodies[Msg(u)] # 0 \/ u \in round.left
                                               \/ round.at = "body" /\ u = round.uid
         /\ round.at \in {"reconcile", "commit", "complete"} => bodies[Msg(u)] # 0
    /\ round.at = "complete" /\ ~round.incompatible => Exact
    /\ round.at = "end" => Exact

ExactInv == ShapeInv /\ NothingMissed /\ Undisturbed

-----------------------------------------------------------------------------
(* Steps beside the round: the server, the user, his operations and requests *)

Outside ==
    /\ UNCHANGED <<round, workers, baseline, announced>>
    /\ mailbox'.validity = mailbox.validity
    /\ history'.old = history.old /\ history'.rebuilt = history.rebuilt
    /\ history'.lost = history.lost /\ ~history'.calm
    /\ \/ server'.validity = server.validity
       \/ server'.validity = server.validity + 1 /\ history'.new = {}
    /\ server'.unborn \subseteq server.unborn
    /\ server'.there \subseteq server.there \cup (server.unborn \ server'.unborn)
    /\ history'.new \subseteq history.new \cup (server.unborn \ server'.unborn)
    /\ history'.new \subseteq history.new \/ Announcing
    /\ history'.new \cap server'.seen \subseteq history.new \cap server.seen
    /\ \A k \in Stored' : k \in Stored \/ (reader.at # "idle" /\ k = reader.key)
    /\ \A k \in Stored : k \in Stored' \/ MessageOf(k) \notin server'.there
    /\ \A o \in OpIds : ops'[o].status # "none" =>
         \/ ops[o].status # "none" /\ ops'[o].key = ops[o].key
         \/ ops'[o].key \in Stored
    /\ reader'.at # "idle" => \/ reader.at # "idle" /\ reader'.key = reader.key
                              \/ reader'.key \in Stored

\* What the three properties of operations and projections need.
Settled == SeenIsThere /\ DeletedIsGone /\ HiddenIsDeleted

\* The keys a projection stores.
LEMMA StoredAfter ==
  ASSUME rows \in [Keys -> Row], NEW m, NEW b \in BOOLEAN, NEW key \in Keys
  PROVE  /\ rows' = rows => Stored' = Stored
         /\ rows' = Hide(rows, m, b) => Stored' = Stored
         /\ rows' = MarkRead(rows, m, b) => Stored' = Stored
         /\ rows' = Remove(rows, m) => Stored' = {k \in Stored : MessageOf(k) # m}
         /\ rows' = UpsertLocation(rows, key, b) => Stored' = Stored \cup {key}
<1>0. \A k \in Keys : rows[k] \in Row
  OBVIOUS
<1>1. rows' = rows => Stored' = Stored
  BY DEF Stored
<1>2. rows' = Hide(rows, m, b) => Stored' = Stored
  BY <1>0 DEF Stored, Hide, Row
<1>3. rows' = MarkRead(rows, m, b) => Stored' = Stored
  BY <1>0 DEF Stored, MarkRead, Row
<1>4. rows' = Remove(rows, m) => Stored' = {k \in Stored : MessageOf(k) # m}
  BY DEF Stored, Remove, NoRow
<1>5. rows' = UpsertLocation(rows, key, b) => Stored' = Stored \cup {key}
  BY DEF Stored, UpsertLocation
<1> QED BY <1>1, <1>2, <1>3, <1>4, <1>5

\* What stays hidden when locations change.
LEMMA HiddenAfter ==
  ASSUME rows \in [Keys -> Row], NEW m, NEW b \in BOOLEAN, NEW key \in Keys, NEW k \in Keys
  PROVE  /\ rows' = Hide(rows, m, b) =>
              rows'[k].hidden <=> IF rows[k].stored /\ MessageOf(k) = m THEN b
                                  ELSE rows[k].hidden
         /\ rows' = MarkRead(rows, m, b) => rows'[k].hidden = rows[k].hidden
         /\ rows' = Remove(rows, m) => (rows'[k].hidden <=> MessageOf(k) # m /\ rows[k].hidden)
         /\ rows' = UpsertLocation(rows, key, b) => rows'[k].hidden = rows[k].hidden
<1>0. rows[k] \in Row
  OBVIOUS
<1>1. rows' = Hide(rows, m, b) =>
        rows'[k].hidden <=> IF rows[k].stored /\ MessageOf(k) = m THEN b ELSE rows[k].hidden
  BY <1>0 DEF Hide, Row
<1>2. rows' = MarkRead(rows, m, b) => rows'[k].hidden = rows[k].hidden
  BY <1>0 DEF MarkRead, Row
<1>3. rows' = Remove(rows, m) => (rows'[k].hidden <=> MessageOf(k) # m /\ rows[k].hidden)
  BY <1>0 DEF Remove, NoRow, Row
<1>4. rows' = UpsertLocation(rows, key, b) => rows'[k].hidden = rows[k].hidden
  BY <1>0 DEF UpsertLocation
<1> QED BY <1>1, <1>2, <1>3, <1>4

\* The server's steps.
LEMMA ServerIsOutside == ASSUME ShapeInv, Server PROVE Outside /\ Settled'
<1>t. /\ server \in ServerType /\ history \in HistoryType /\ rows \in [Keys -> Row]
      /\ SeenIsThere /\ DeletedIsGone /\ HiddenIsDeleted /\ UnbornIsNowhere
  BY TypesOfVariables DEF ShapeInv
<1>f. /\ server.there \in SUBSET Messages /\ server.unborn \in SUBSET Messages
      /\ history.new \in SUBSET Messages
  BY <1>t DEF ServerType, HistoryType
<1>s. rows' = rows => Stored' = Stored
  BY DEF Stored
<1>o. UNCHANGED <<rows, ops>> => HiddenIsDeleted'
  BY <1>t DEF HiddenIsDeleted, ActiveOn, Active
<1>1. ASSUME NEW m \in Messages, Arrive(m) PROVE Outside /\ Settled'
  <2>1. /\ m \in server.unborn
        /\ server'.validity = server.validity /\ server'.there = server.there \cup {m}
        /\ server'.seen = server.seen /\ server'.unborn = server.unborn \ {m}
        /\ history'.old = history.old /\ history'.rebuilt = history.rebuilt
        /\ history'.lost = history.lost /\ ~history'.calm
        /\ history'.new = IF Announcing THEN history.new \cup {m} ELSE history.new
        /\ UNCHANGED <<mailbox, rows, ops, round, workers, reader, baseline, announced>>
    BY <1>1, <1>t DEF Arrive, ServerType, HistoryType
  <2>2. m \notin server.seen /\ \A o \in OpIds : ops[o].status # "none" => MessageOf(ops[o].key) # m
    BY <1>t, <2>1 DEF SeenIsThere, UnbornIsNowhere
  <2>3. Outside
    BY <1>f, <1>s, <2>1, <2>2 DEF Outside
  <2>4. SeenIsThere' /\ DeletedIsGone'
    BY <1>t, <2>1, <2>2 DEF SeenIsThere, DeletedIsGone
  <2> QED BY <1>o, <2>1, <2>3, <2>4 DEF Settled
<1>2. ASSUME NEW m \in Messages, OtherClientExpunges(m) PROVE Outside /\ Settled'
  <2>1. /\ server'.validity = server.validity /\ server'.there = server.there \ {m}
        /\ server'.seen = server.seen \ {m} /\ server'.unborn = server.unborn
        /\ history'.old = history.old /\ history'.rebuilt = history.rebuilt
        /\ history'.lost = history.lost /\ ~history'.calm /\ history'.new = history.new
        /\ UNCHANGED <<mailbox, rows, ops, round, workers, reader, baseline, announced>>
    BY <1>2, <1>t DEF OtherClientExpunges, Disturb, ServerType, HistoryType
  <2>3. Outside
    BY <1>f, <1>s, <2>1 DEF Outside
  <2>4. SeenIsThere' /\ DeletedIsGone'
    BY <1>t, <2>1 DEF SeenIsThere, DeletedIsGone
  <2> QED BY <1>o, <2>1, <2>3, <2>4 DEF Settled
<1>3. ASSUME NEW m \in Messages, NEW read \in BOOLEAN, OtherClientSetsRead(m, read)
      PROVE  Outside /\ Settled'
  <2>1. /\ server'.validity = server.validity /\ server'.there = server.there
        /\ server'.seen \subseteq server.seen \cup {m} /\ server'.unborn = server.unborn
        /\ history'.old = history.old /\ history'.rebuilt = history.rebuilt
        /\ history'.lost = history.lost /\ ~history'.calm
        /\ history'.new = history.new \ {m} /\ m \in server.there
        /\ UNCHANGED <<mailbox, rows, ops, round, workers, reader, baseline, announced>>
    BY <1>3, <1>t DEF OtherClientSetsRead, ServerType, HistoryType
  <2>3. Outside
    BY <1>f, <1>s, <2>1 DEF Outside
  <2>4. SeenIsThere' /\ DeletedIsGone'
    BY <1>t, <2>1 DEF SeenIsThere, DeletedIsGone
  <2> QED BY <1>o, <2>1, <2>3, <2>4 DEF Settled
<1>4. CASE RenumberMailbox
  <2>1. /\ server'.validity = server.validity + 1 /\ server'.there = server.there
        /\ server'.seen = server.seen /\ server'.unborn = server.unborn
        /\ history'.old = history.old /\ history'.rebuilt = history.rebuilt
        /\ history'.lost = history.lost /\ ~history'.calm /\ history'.new = {}
        /\ UNCHANGED <<mailbox, rows, ops, round, workers, reader, baseline, announced>>
    BY <1>4, <1>t DEF RenumberMailbox, ServerType, HistoryType
  <2>3. Outside
    BY <1>f, <1>s, <2>1 DEF Outside
  <2>4. SeenIsThere' /\ DeletedIsGone'
    BY <1>t, <2>1 DEF SeenIsThere, DeletedIsGone
  <2> QED BY <1>o, <2>1, <2>3, <2>4 DEF Settled
<1> QED BY <1>1, <1>2, <1>3, <1>4 DEF Server

\* The user's steps, and those of his operations.
LEMMA OperationsAreOutside == ASSUME ShapeInv, User \/ Operations PROVE Outside /\ Settled'
<1>t. /\ server \in ServerType /\ history \in HistoryType /\ rows \in [Keys -> Row]
      /\ ops \in [OpIds -> Operation] /\ reader \in Reader /\ mailbox \in MailboxType
      /\ SeenIsThere /\ DeletedIsGone /\ HiddenIsDeleted /\ UnbornIsNowhere
  BY TypesOfVariables DEF ShapeInv
<1>f. /\ server.there \in SUBSET Messages /\ server.unborn \in SUBSET Messages
      /\ history.new \in SUBSET Messages
      /\ \A o \in OpIds : ops[o].key \in Keys /\ ops[o].previous \in BOOLEAN
  BY <1>t DEF ServerType, HistoryType, Operation
<1>d. Disturb => /\ history'.old = history.old /\ history'.rebuilt = history.rebuilt
                 /\ history'.lost = history.lost /\ ~history'.calm
                 /\ history'.new = history.new
  BY <1>t DEF Disturb, HistoryType
<1>m. \A rs : Project(rs) => mailbox'.validity = mailbox.validity /\ rows' = rs
  BY <1>t DEF Project, MailboxType
<1>1. ASSUME NEW o \in OpIds, NEW k \in Keys, QueueDelete(o, k) PROVE Outside /\ Settled'
  <2>1. /\ ops[o].status = "none" /\ k \in Visible(rows) /\ Disturb
        /\ ops' = [ops EXCEPT ![o] = [kind |-> "delete", key |-> k, value |-> FALSE,
                                      previous |-> FALSE, status |-> "queued"]]
        /\ Project(Hide(rows, MessageOf(k), TRUE))
        /\ UNCHANGED <<server, round, workers, reader, baseline, announced>>
    BY <1>1 DEF QueueDelete
  <2>2. /\ ops'[o].kind = "delete" /\ ops'[o].key = k /\ ops'[o].status = "queued"
        /\ \A p \in OpIds \ {o} : ops'[p] = ops[p]
    BY <1>t, <2>1
  <2>3. Stored' = Stored /\ k \in Stored /\ rows' = Hide(rows, MessageOf(k), TRUE)
    BY <1>t, <1>m, <2>1, StoredAfter DEF Visible, Stored
  <2>4. Outside
    BY <1>d, <1>m, <1>f, <2>1, <2>2, <2>3 DEF Outside
  <2>5. DeletedIsGone' /\ SeenIsThere'
    BY <1>t, <2>1, <2>2 DEF DeletedIsGone, SeenIsThere
  <2>6. HiddenIsDeleted'
    <3> SUFFICES ASSUME NEW h \in Keys, rows'[h].hidden
                 PROVE  /\ rows'[h].stored
                        /\ \E p \in OpIds : /\ ops'[p].status \in {"queued", "running"}
                                            /\ MessageOf(ops'[p].key) = MessageOf(h)
                                            /\ ops'[p].kind = "delete"
      BY DEF HiddenIsDeleted, ActiveOn, Active
    <3>1. CASE rows[h].hidden
      <4>1. PICK p \in OpIds : /\ ops[p].status \in {"queued", "running"}
                               /\ MessageOf(ops[p].key) = MessageOf(h)
                               /\ ops[p].kind = "delete"
        BY <1>t, <3>1 DEF HiddenIsDeleted, ActiveOn, Active
      <4>2. p # o
        BY <4>1, <2>1
      <4>3. h \in Stored
        BY <1>t, <3>1 DEF HiddenIsDeleted, Stored
      <4> QED BY <4>1, <4>2, <4>3, <2>2, <2>3 DEF Stored
    <3>2. CASE rows[h].stored /\ MessageOf(h) = MessageOf(k)
      <4>1. h \in Stored
        BY <3>2 DEF Stored
      <4> QED BY <3>2, <4>1, <2>2, <2>3 DEF Stored
    <3> QED BY <1>t, <2>3, <3>1, <3>2, HiddenAfter
  <2> QED BY <2>4, <2>5, <2>6 DEF Settled
<1>2. ASSUME NEW o \in OpIds, NEW k \in Keys, NEW read \in BOOLEAN, QueueSetRead(o, k, read)
      PROVE  Outside /\ Settled'
  <2>1. /\ ops[o].status = "none" /\ k \in Visible(rows) /\ Disturb
        /\ ops' = [ops EXCEPT ![o] = [kind |-> "set_read", key |-> k, value |-> read,
                                      previous |-> ~rows[k].unread, status |-> "queued"]]
        /\ Project(MarkRead(rows, MessageOf(k), read))
        /\ UNCHANGED <<server, round, workers, reader, baseline, announced>>
    BY <1>2 DEF QueueSetRead
  <2>2. /\ ops'[o].kind = "set_read" /\ ops'[o].key = k /\ ops'[o].status = "queued"
        /\ \A p \in OpIds \ {o} : ops'[p] = ops[p]
    BY <1>t, <2>1
  <2>3. Stored' = Stored /\ k \in Stored /\ rows' = MarkRead(rows, MessageOf(k), read)
    BY <1>t, <1>m, <2>1, StoredAfter DEF Visible, Stored
  <2>4. Outside
    BY <1>d, <1>m, <1>f, <2>1, <2>2, <2>3 DEF Outside
  <2>5. DeletedIsGone' /\ SeenIsThere'
    BY <1>t, <2>1, <2>2 DEF DeletedIsGone, SeenIsThere
  <2>6. HiddenIsDeleted'
    <3> SUFFICES ASSUME NEW h \in Keys, rows'[h].hidden
                 PROVE  /\ rows'[h].stored
                        /\ \E p \in OpIds : /\ ops'[p].status \in {"queued", "running"}
                                            /\ MessageOf(ops'[p].key) = MessageOf(h)
                                            /\ ops'[p].kind = "delete"
      BY DEF HiddenIsDeleted, ActiveOn, Active
    <3>0. rows[h].hidden
      BY <1>t, <2>3, HiddenAfter
    <3>1. PICK p \in OpIds : /\ ops[p].status \in {"queued", "running"}
                             /\ MessageOf(ops[p].key) = MessageOf(h)
                             /\ ops[p].kind = "delete"
      BY <1>t, <3>0 DEF HiddenIsDeleted, ActiveOn, Active
    <3>2. p # o
      BY <3>1, <2>1
    <3>3. h \in Stored
      BY <1>t, <3>0 DEF HiddenIsDeleted, Stored
    <3> QED BY <3>1, <3>2, <3>3, <2>2, <2>3 DEF Stored
  <2> QED BY <2>4, <2>5, <2>6 DEF Settled
<1>3. ASSUME NEW k \in Keys, RequestMessageBody(k) PROVE Outside /\ Settled'
  <2>1. /\ k \in Stored /\ Disturb /\ reader'.key = k
        /\ UNCHANGED <<server, mailbox, rows, ops, round, workers, baseline, announced>>
    BY <1>3 DEF RequestMessageBody, NoReader
  <2>2. Stored' = Stored
    BY <2>1 DEF Stored
  <2>3. Outside
    BY <1>d, <1>f, <2>1, <2>2 DEF Outside
  <2> QED BY <1>t, <2>1, <2>3
      DEF Settled, SeenIsThere, DeletedIsGone, HiddenIsDeleted, ActiveOn, Active
<1>4. ASSUME NEW o \in OpIds, ApplyOperation(o) PROVE Outside /\ Settled'
  <2>0. PICK m : m = MessageOf(ops[o].key)
    OBVIOUS
  <2>1. /\ ops[o].status = "queued"
        /\ ops' = [ops EXCEPT ![o].status = "running"]
        /\ UNCHANGED <<mailbox, rows, round, workers, reader, baseline, announced>>
    BY <1>4 DEF ApplyOperation
  <2>2. /\ \A p \in OpIds : ops'[p].key = ops[p].key /\ ops'[p].kind = ops[p].kind
        /\ \A p \in OpIds \ {o} : ops'[p] = ops[p]
        /\ ops'[o].status = "running"
    BY <1>t, <2>1 DEF Operation
  <2>3. /\ server'.validity = server.validity /\ server'.unborn = server.unborn
        /\ server'.there \subseteq server.there
        /\ history'.old = history.old /\ history'.rebuilt = history.rebuilt
        /\ history'.lost = history.lost /\ ~history'.calm /\ history'.new \subseteq history.new
        /\ history'.new \cap server'.seen \subseteq server.seen
        /\ server'.seen \subseteq server'.there
        /\ ops[o].kind = "delete" => m \notin server'.there
    <3>1. CASE /\ ops[o].kind = "set_read" /\ m \in server.there
               /\ server' = [server EXCEPT !.seen = IF ops[o].value THEN @ \cup {m} ELSE @ \ {m}]
               /\ history' = [history EXCEPT !.calm = FALSE, !.new = @ \ {m}]
      BY <1>t, <3>1 DEF ServerType, HistoryType, SeenIsThere
    <3>2. CASE /\ server' = [server EXCEPT !.there = @ \ {m}, !.seen = @ \ {m}]
               /\ Disturb
      BY <1>t, <1>d, <3>2 DEF ServerType, SeenIsThere
    <3> QED BY <1>4, <2>0, <3>1, <3>2 DEF ApplyOperation
  <2>4. Stored' = Stored
    BY <2>1 DEF Stored
  <2>a. \A p \in OpIds : ops'[p].status # "none" => ops[p].status # "none"
    BY <2>1, <2>2
  <2>5. Outside
    BY <1>f, <2>1, <2>2, <2>3, <2>4, <2>a DEF Outside
  <2>6. DeletedIsGone' /\ SeenIsThere'
    BY <1>t, <2>0, <2>2, <2>3 DEF DeletedIsGone, SeenIsThere
  <2>7. \A k \in Keys : \A p \in OpIds : p \in ActiveOn(MessageOf(k)) => p \in ActiveOn(MessageOf(k))'
    BY <2>1, <2>2 DEF ActiveOn, Active
  <2>8. HiddenIsDeleted'
    <3> SUFFICES ASSUME NEW k \in Keys, rows'[k].hidden
                 PROVE  rows'[k].stored /\ \E p \in ActiveOn(MessageOf(k))' : ops'[p].kind = "delete"
      BY DEF HiddenIsDeleted
    <3>1. rows[k].stored /\ \E p \in ActiveOn(MessageOf(k)) : ops[p].kind = "delete"
      BY <1>t, <2>1 DEF HiddenIsDeleted
    <3>2. PICK p \in OpIds : p \in ActiveOn(MessageOf(k)) /\ ops[p].kind = "delete"
      BY <3>1 DEF ActiveOn
    <3> QED BY <2>1, <2>2, <2>7, <3>1, <3>2
  <2> QED BY <2>5, <2>6, <2>8 DEF Settled
<1>5. ASSUME NEW o \in OpIds,
             CompletePendingOperation(o) \/ FailPendingOperation(o)
      PROVE  Outside /\ Settled'
  <2>0. PICK m : m = MessageOf(ops[o].key)
    OBVIOUS
  <2>1. /\ Disturb /\ \E status \in {"succeeded", "failed"} : ops' = [ops EXCEPT ![o].status = status]
        /\ UNCHANGED <<server, round, workers, reader, baseline, announced>>
        /\ ops[o].status # "none"
    BY <1>5 DEF CompletePendingOperation, FailPendingOperation
  <2>2. /\ \A p \in OpIds : ops'[p].key = ops[p].key /\ ops'[p].kind = ops[p].kind
        /\ \A p \in OpIds \ {o} : ops'[p] = ops[p]
        /\ ops'[o].status \in {"succeeded", "failed"}
    BY <1>t, <2>1 DEF Operation
  <2>3. /\ mailbox'.validity = mailbox.validity
        /\ \/ rows' = Remove(rows, m) /\ ops[o].kind = "delete" /\ ops[o].status = "running"
           \/ rows' = Hide(rows, m, FALSE) /\ ops[o].kind = "delete"
           \/ rows' = MarkRead(rows, m, ops[o].previous) /\ ops[o].kind = "set_read"
           \/ rows' = rows /\ ops[o].kind = "set_read"
    BY <1>5, <1>m, <2>0 DEF CompletePendingOperation, FailPendingOperation
  <2>4. /\ \A k \in Stored' : k \in Stored
        /\ \A k \in Stored : k \in Stored' \/ MessageOf(k) \notin server.there
    <3>0. ops[o].key \in Keys /\ ops[o].previous \in BOOLEAN
      BY <1>f
    <3>1. CASE rows' = Remove(rows, m) /\ ops[o].kind = "delete" /\ ops[o].status = "running"
      <4>1. m \notin server.there
        BY <1>t, <2>0, <3>1 DEF DeletedIsGone
      <4>2. Stored' = {k \in Stored : MessageOf(k) # m}
        BY <1>t, <3>0, <3>1, StoredAfter
      <4> QED BY <4>1, <4>2
    <3>2. CASE \/ rows' = Hide(rows, m, FALSE)
               \/ rows' = MarkRead(rows, m, ops[o].previous)
               \/ rows' = rows
      <4>1. Stored' = Stored
        BY <1>t, <3>0, <3>2, StoredAfter
      <4> QED BY <4>1
    <3> QED BY <2>3, <3>1, <3>2
  <2>a. \A p \in OpIds : ops'[p].status # "none" => ops[p].status # "none"
    BY <2>1, <2>2
  <2>5. Outside
    BY <1>d, <1>f, <2>1, <2>2, <2>3, <2>4, <2>a DEF Outside
  <2>6. DeletedIsGone' /\ SeenIsThere'
    BY <1>t, <2>1, <2>2 DEF DeletedIsGone, SeenIsThere
  <2>7. HiddenIsDeleted'
    <3> SUFFICES ASSUME NEW k \in Keys, rows'[k].hidden
                 PROVE  /\ rows'[k].stored
                        /\ \E p \in OpIds : /\ ops'[p].status \in {"queued", "running"}
                                            /\ MessageOf(ops'[p].key) = MessageOf(k)
                                            /\ ops'[p].kind = "delete"
      BY DEF HiddenIsDeleted, ActiveOn, Active
    <3>0. ops[o].key \in Keys /\ ops[o].previous \in BOOLEAN
      BY <1>f
    <3>1. /\ rows[k].hidden
          /\ ops[o].kind = "delete" => MessageOf(k) # m
      <4>1. CASE rows' = Remove(rows, m) /\ ops[o].kind = "delete"
        BY <1>t, <3>0, <4>1, HiddenAfter
      <4>2. CASE rows' = Hide(rows, m, FALSE) /\ ops[o].kind = "delete"
        <5>1. IF rows[k].stored /\ MessageOf(k) = m THEN FALSE ELSE rows[k].hidden
          BY <1>t, <3>0, <4>2, HiddenAfter
        <5> QED BY <1>t, <5>1 DEF HiddenIsDeleted
      <4>3. CASE rows' = MarkRead(rows, m, ops[o].previous) /\ ops[o].kind = "set_read"
        BY <1>t, <3>0, <4>3, HiddenAfter
      <4>4. CASE rows' = rows /\ ops[o].kind = "set_read"
        BY <4>4
      <4> QED BY <2>3, <4>1, <4>2, <4>3, <4>4
    <3>2. PICK p \in OpIds : /\ ops[p].status \in {"queued", "running"}
                             /\ MessageOf(ops[p].key) = MessageOf(k)
                             /\ ops[p].kind = "delete"
      BY <1>t, <3>1 DEF HiddenIsDeleted, ActiveOn, Active
    <3>3. p # o
      BY <2>0, <3>1, <3>2
    <3>4. k \in Stored
      BY <1>t, <3>1 DEF HiddenIsDeleted, Stored
    <3>5. k \in Stored'
      <4>1. CASE rows' = Remove(rows, m) /\ ops[o].kind = "delete"
        BY <1>t, <3>0, <3>1, <3>4, <4>1, StoredAfter
      <4>2. CASE \/ rows' = Hide(rows, m, FALSE)
                 \/ rows' = MarkRead(rows, m, ops[o].previous)
                 \/ rows' = rows
        BY <1>t, <3>0, <3>4, <4>2, StoredAfter
      <4> QED BY <2>3, <4>1, <4>2
    <3> QED BY <2>2, <3>2, <3>3, <3>5 DEF Stored
  <2> QED BY <2>5, <2>6, <2>7 DEF Settled
<1> QED BY <1>1, <1>2, <1>3, <1>4, <1>5 DEF User, Operations

\* Requests for bodies.
LEMMA ReadsAreOutside == ASSUME ShapeInv, Read PROVE Outside /\ Settled'
<1>t. /\ history \in HistoryType /\ rows \in [Keys -> Row] /\ reader \in Reader
      /\ SeenIsThere /\ DeletedIsGone /\ HiddenIsDeleted
  BY TypesOfVariables DEF ShapeInv
<1>k. reader.key \in Keys /\ reader.unread \in BOOLEAN
  BY <1>t DEF Reader
<1>d. Disturb => /\ history'.old = history.old /\ history'.rebuilt = history.rebuilt
                 /\ history'.lost = history.lost /\ ~history'.calm
                 /\ history'.new = history.new
  BY <1>t DEF Disturb, HistoryType
<1>1. /\ Disturb
      /\ UNCHANGED <<server, mailbox, ops, round, workers, baseline, announced>>
  BY DEF Read, FetchMessageBody, SelectiveFetchUnsupported, ReplaceMessageBody,
         StoreWholeMessage, RequestFails
<1>2. reader'.at # "idle" => \/ reader.at # "idle" /\ reader'.key = reader.key
                             \/ reader'.key \in Stored
  <2>1. CASE FetchMessageBody
    BY <2>1, <1>t DEF FetchMessageBody, Reader
  <2>2. CASE SelectiveFetchUnsupported
    BY <2>2, <1>t DEF SelectiveFetchUnsupported, RowsOf, Reader
  <2>3. NoReader.at = "idle"
    BY DEF NoReader
  <2> QED BY <2>1, <2>2, <2>3 DEF Read, ReplaceMessageBody, StoreWholeMessage, RequestFails
<1>3. \/ rows' = rows
      \/ reader.at # "idle" /\ rows' = UpsertLocation(rows, reader.key, reader.unread)
  BY DEF Read, FetchMessageBody, SelectiveFetchUnsupported, ReplaceMessageBody,
         StoreWholeMessage, RequestFails
<1>4. /\ \A k \in Stored' : k \in Stored \/ (reader.at # "idle" /\ k = reader.key)
      /\ \A k \in Stored : k \in Stored'
  BY <1>t, <1>k, <1>3, StoredAfter
<1>5. Outside
  BY <1>1, <1>2, <1>4, <1>d DEF Outside
<1>6. \A k \in Keys : rows'[k].hidden = rows[k].hidden
  BY <1>t, <1>k, <1>3, HiddenAfter
<1>7. \A k \in Keys : rows[k].stored => rows'[k].stored
  BY <1>4 DEF Stored
<1>8. HiddenIsDeleted'
  BY <1>t, <1>1, <1>6, <1>7 DEF HiddenIsDeleted, ActiveOn, Active
<1> QED BY <1>t, <1>1, <1>5, <1>8 DEF Settled, SeenIsThere, DeletedIsGone

LEMMA ValiditiesAreNumbers ==
  /\ server \in ServerType => server.validity \in Nat \ {0}
  /\ mailbox \in MailboxType => mailbox.validity \in Nat
  /\ round \in Round => round.validity \in Nat \ {0}
<1>1. Validities \subseteq Nat \ {0}
  BY MailSyncAssumption
<1>2. server \in ServerType => server.validity \in Nat \ {0}
  BY <1>1 DEF ServerType
<1>3. mailbox \in MailboxType => mailbox.validity \in Nat
  <2>1. mailbox \in MailboxType => mailbox.validity \in Validities \cup {0}
    BY DEF MailboxType
  <2>2. Validities \cup {0} \subseteq Nat
    BY <1>1
  <2> QED BY <2>1, <2>2
<1>4. round \in Round => round.validity \in Nat \ {0}
  BY <1>1 DEF Round
<1> QED BY <1>2, <1>3, <1>4

LEMMA CommittedIsFetched ==
  ASSUME WorkerShape PROVE \A w \in Workers : Committed(w) \subseteq workers[w].batch
  BY DEF WorkerShape, Committed

\* Whatever happens beside a round leaves it its shape.
LEMMA OutsideKeepsShape ==
  ASSUME ShapeInv, TypeOK', Outside, Settled'
  PROVE  ShapeInv'
<1>t. /\ RoundShape /\ WorkerShape /\ UnbornIsNowhere /\ round \in Round
      /\ workers \in [Workers -> Worker] /\ server \in ServerType
      /\ server' \in ServerType /\ mailbox \in MailboxType
  BY TypesOfVariables DEF ShapeInv, TypeOK, ServerType
<1>v. /\ server.validity \in Nat /\ mailbox.validity \in Nat /\ round.validity \in Nat
  BY <1>t, ValiditiesAreNumbers
<1>1. RoundShape'
  BY <1>t, <1>v DEF Outside, RoundShape
<1>k. \A m \in server.unborn : /\ \A w \in Workers : \A u \in workers[w].batch : Msg(u) # m
                               /\ \A u \in round.remote \cup round.left : Msg(u) # m
  BY <1>t DEF UnbornIsNowhere
<1>c. \A w \in Workers : Committed(w) \subseteq workers[w].batch
  BY <1>t, CommittedIsFetched
<1>2. WorkerShape'
  <2> SUFFICES ASSUME NEW w \in Workers, NEW u \in Committed(w), Msg(u) \in server'.there
               PROVE  <<round.validity, u>> \in Stored'
    BY <1>t DEF WorkerShape, Outside, Committed, Msg
  <2>1. Msg(u) \in server.there
    BY <1>k, <1>c DEF Outside
  <2>2. <<round.validity, u>> \in Stored
    BY <1>t, <2>1 DEF WorkerShape
  <2>3. MessageOf(<<round.validity, u>>) = Msg(u)
    BY DEF MessageOf, Msg
  <2> QED BY <2>2, <2>3 DEF Outside
<1>3. UnbornIsNowhere'
  <2> SUFFICES ASSUME NEW m \in server'.unborn
               PROVE  /\ m \notin server'.there
                      /\ \A k \in Stored' : MessageOf(k) # m
                      /\ \A o \in OpIds : ops'[o].status # "none" => MessageOf(ops'[o].key) # m
                      /\ reader'.at # "idle" => MessageOf(reader'.key) # m
                      /\ ~Known(m)' /\ m \notin history'.new
    BY <1>t DEF UnbornIsNowhere, Outside, Msg
  <2>1. m \in server.unborn
    BY DEF Outside
  <2>2. /\ m \notin server.there /\ ~Known(m) /\ m \notin history.new
        /\ \A k \in Stored : MessageOf(k) # m
        /\ \A o \in OpIds : ops[o].status # "none" => MessageOf(ops[o].key) # m
        /\ reader.at # "idle" => MessageOf(reader.key) # m
    BY <1>t, <2>1 DEF UnbornIsNowhere
  <2>3. ~Known(m)'
    BY <2>2 DEF Outside, Known, Fresh
  <2>4. /\ m \notin server'.there /\ m \notin history'.new
        /\ \A k \in Stored' : MessageOf(k) # m
        /\ reader'.at # "idle" => MessageOf(reader'.key) # m
    BY <2>2 DEF Outside
  <2>5. \A o \in OpIds : ops'[o].status # "none" => MessageOf(ops'[o].key) # m
    BY <2>2 DEF Outside
  <2> QED BY <2>3, <2>4, <2>5
<1> QED BY <1>1, <1>2, <1>3 DEF ShapeInv, Settled

\* And none of it loses known mail, or makes the round take known mail for new.
LEMMA OutsideKeepsFreshness ==
  ASSUME ShapeInv, NothingMissed, TypeOK', Outside
  PROVE  /\ NothingMissed'
         /\ FreshInv => OnlyFreshIsMissing' /\ NewMailIsNew'
<1>t. /\ RoundShape /\ WorkerShape /\ UnbornIsNowhere
      /\ round \in Round /\ workers \in [Workers -> Worker]
      /\ server \in ServerType /\ mailbox \in MailboxType /\ server' \in ServerType
  BY TypesOfVariables DEF ShapeInv, TypeOK, ServerType
<1>v. /\ server.validity \in Nat /\ mailbox.validity \in Nat /\ round.validity \in Nat
      /\ mailbox.validity <= server.validity
  BY <1>t, ValiditiesAreNumbers DEF RoundShape
<1>m. /\ \A m : Known(m)' <=> Known(m)
      /\ \A m : Fresh(m)' <=> Fresh(m)
      /\ \A u : Msg(u)' = Msg(u)
      /\ \A m : Must(m)' => Known(m)
  BY DEF Outside, Known, Fresh, Msg, Must
<1>n. \A m \in server'.there : Known(m) => m \in server.there
  BY <1>t DEF UnbornIsNowhere, Outside
<1>s. \A v : \A u \in Uids :
        MessageAt(v, u) \in server'.there /\ <<v, u>> \in Stored => <<v, u>> \in Stored'
  BY DEF Outside, MessageOf
<1>1. NothingMissed'
  <2> SUFFICES ASSUME NEW u \in Uids, Msg(u) \in server'.there, Known(Msg(u))
               PROVE
      /\ round.at \in {"diff", "commit"} => u \in round.remote
      /\ round.at = "headers" =>
           \/ u \in round.left
           \/ <<round.validity, u>> \in Stored'
           \/ \E w \in Workers : /\ workers[w].at \in {"store", "failed"}
                                 /\ u \in workers[w].batch \ workers[w].done
      /\ /\ round.at \in {"bodies", "body", "reconcile", "commit", "complete"}
         /\ ~round.incompatible
         => <<round.validity, u>> \in Stored'
      /\ round.at = "end" => <<round.validity, u>> \in Stored'
    BY <1>m DEF NothingMissed, Outside
  <2>1. <<round.validity, u>> \in Stored => <<round.validity, u>> \in Stored'
    BY <1>s DEF Msg
  <2>2. Must(Msg(u)) /\ Msg(u) \in server.there
    BY <1>n DEF Must
  <2> QED BY <1>t, <2>1, <2>2 DEF NothingMissed
<1>c. /\ Covered(mailbox.validity) => Covered(mailbox.validity)'
      /\ Covered(round.validity) => Covered(round.validity)'
  BY <1>m, <1>n, <1>s DEF Covered, Outside
<1>2. ASSUME OnlyFreshIsMissing PROVE OnlyFreshIsMissing'
  <2> SUFFICES ASSUME ~history.rebuilt, baseline
               PROVE
      /\ round.at \in {"idle", "open"} /\ mailbox.validity = server'.validity
           => Covered(mailbox.validity)'
      /\ round.at \notin {"idle", "open"} /\ ~round.required => Covered(round.validity)'
      /\ \A m \in round.candidates : Fresh(m)
      /\ round.at = "headers" /\ ~round.required =>
           /\ \A u \in round.left : Msg(u) \in server'.there => Fresh(Msg(u))
           /\ \A w \in Workers : \A u \in workers[w].batch : Fresh(Msg(u))
    <3>2. /\ mailbox'.validity = mailbox.validity /\ round' = round /\ workers' = workers
          /\ baseline' = baseline /\ history'.rebuilt = history.rebuilt
      BY DEF Outside
    <3> QED BY <1>m, <3>2 DEF OnlyFreshIsMissing, Covered
  <2>1. /\ round.at \in {"idle", "open"} /\ mailbox.validity = server.validity
             => Covered(mailbox.validity)
        /\ round.at \notin {"idle", "open"} /\ ~round.required => Covered(round.validity)
        /\ \A m \in round.candidates : Fresh(m)
        /\ round.at = "headers" /\ ~round.required =>
             /\ \A u \in round.left : Msg(u) \in server.there => Fresh(Msg(u))
             /\ \A w \in Workers : \A u \in workers[w].batch : Fresh(Msg(u))
    BY <1>2 DEF OnlyFreshIsMissing
  <2>2. mailbox.validity = server'.validity => mailbox.validity = server.validity
    BY <1>v DEF Outside
  <2>3. \A u \in round.left : Msg(u) \in server'.there => Msg(u) \in server.there
    BY <1>t DEF UnbornIsNowhere, Outside
  <2> QED BY <1>c, <2>1, <2>2, <2>3
<1>3. ASSUME NewMailIsNew PROVE NewMailIsNew'
  BY <1>3 DEF NewMailIsNew, Outside
<1> QED BY <1>1, <1>2, <1>3 DEF FreshInv

\* Mail that arrives is told of if it can be heard of.
LEMMA OutsideKeepsNews == ASSUME NewsInv, TypeOK', Outside, Settled' PROVE NewsAreTold'
<1>t. /\ UnbornIsNowhere /\ NewsAreTold /\ SeenIsThere /\ WorkerShape
      /\ SeenIsThere' /\ workers \in [Workers -> Worker]
  BY TypesOfVariables DEF NewsInv, ShapeInv, Settled
<1>0. \A m \in server.unborn \ server'.unborn : m \notin server.seen
  BY <1>t DEF UnbornIsNowhere, SeenIsThere
<1>1. history'.new # {} => /\ baseline /\ mailbox.validity = server'.validity /\ ~round.required
  BY <1>t DEF NewsAreTold, Outside, Announcing
<1>2. history'.new \cap server'.seen = {}
  BY <1>t DEF NewsAreTold, Outside
<1>3. \A w \in Workers : \A u \in workers[w].batch :
         Msg(u) \in history'.new => u \in workers[w].unread
  BY <1>t DEF NewsAreTold, UnbornIsNowhere, Outside
<1>4. \A m \in history'.new : Heard(m)' => Heard(m) /\ m \in history.new
  <2> SUFFICES ASSUME NEW m \in history'.new, Heard(m)' PROVE Heard(m) /\ m \in history.new
    OBVIOUS
  <2>1. Heard(m)
    BY DEF Heard, Outside, Msg, Committed
  <2>2. m \notin server.unborn
    BY <1>t, <2>1, CommittedIsFetched DEF Heard, UnbornIsNowhere
  <2> QED BY <2>1, <2>2 DEF Outside
<1>5. \A m : Told(m) => Told(m)'
  BY DEF Told, Outside, Msg, Busied
<1>6. ~history'.lost => \A m \in history'.new : Heard(m)' => Told(m)'
  BY <1>t, <1>4, <1>5 DEF NewsAreTold, Outside
<1>7. \A u : Msg(u)' = Msg(u)
  BY DEF Msg, Outside
<1> QED BY <1>1, <1>2, <1>3, <1>6, <1>7 DEF NewsAreTold, Outside

-----------------------------------------------------------------------------
(* Steps of a round *)

\* What a step of a round keeps.
Keeps ==
    /\ ShapeInv'
    /\ NothingMissed => NothingMissed'
    /\ FreshInv => OnlyFreshIsMissing' /\ NewMailIsNew'
    /\ NewsAreTold => NewsAreTold'
    /\ NothingMissed /\ Undisturbed => Undisturbed'

\* Locations that are kept or written keep what the operations rely on.
LEMMA SettledStays ==
  ASSUME ShapeInv, UNCHANGED <<server, ops>>,
         \A k \in Keys : rows'[k].hidden => rows[k].hidden /\ rows'[k].stored
  PROVE  Settled'
<1>1. SeenIsThere' /\ DeletedIsGone'
  BY DEF ShapeInv, SeenIsThere, DeletedIsGone
<1>2. HiddenIsDeleted'
  BY DEF ShapeInv, HiddenIsDeleted, ActiveOn, Active
<1> QED BY <1>1, <1>2 DEF Settled

\* A worker goes on with its batch, is through with it, or breaks.
WorkerMoves(w) ==
    /\ round.at = "headers"
    /\ UNCHANGED <<server, mailbox, rows, bodies, ops, reader, baseline, announced, history>>
    /\ \A v \in Workers \ {w} : workers'[v] = workers[v]
    /\ round'.at = round.at /\ round'.ready = round.ready
    /\ round'.validity = round.validity /\ round'.required = round.required
    /\ round'.remote = round.remote /\ round'.left = round.left /\ round'.seen = round.seen
    /\ round'.uid = round.uid /\ round'.incompatible = round.incompatible
    /\ \/ round'.candidates = round.candidates
       \/ /\ round'.candidates = round.candidates \cup Arrivals(w) /\ ~round.required
          /\ workers[w].new \cap workers[w].unread \subseteq Committed(w)
    /\ workers'[w].at \notin {"store", "done"}
    /\ workers'[w].batch \in {{}, workers[w].batch}
    /\ workers'[w].batch # {} => workers'[w].unread = workers[w].unread
    /\ workers'[w].at = "take" => workers'[w].batch = {}
    /\ workers'[w].new \cup workers'[w].done \subseteq workers'[w].batch
    /\ Committed(w)' \subseteq Committed(w)
    /\ workers[w].at \in {"store", "failed"} => \A u \in workers[w].batch \ workers[w].done :
         workers'[w].at = "failed" /\ u \in workers'[w].batch \ workers'[w].done
    /\ Busied(w) => \A u \in workers[w].new \cap workers[w].unread :
         \/ Busied(w)' /\ u \in workers'[w].new \cap workers'[w].unread
         \/ round.required \/ Msg(u) \in round'.candidates

LEMMA WorkerMovesKeep ==
  ASSUME ShapeInv, TypeOK', NEW w \in Workers, WorkerMoves(w)
  PROVE  Keeps
<1>t. /\ RoundShape /\ WorkerShape /\ UnbornIsNowhere /\ workers \in [Workers -> Worker]
      /\ round \in Round
  BY TypesOfVariables DEF ShapeInv
<1>m. /\ Stored' = Stored /\ \A u : Msg(u)' = Msg(u)
      /\ \A m : Fresh(m)' <=> Fresh(m)
      /\ \A m : Known(m) => Known(m)'
  BY DEF WorkerMoves, Stored, Msg, Fresh, Known
<1>c. /\ \A v \in Workers : Committed(v)' \subseteq Committed(v)
      /\ \A v \in Workers : Committed(v) \subseteq workers[v].batch
      /\ \A v \in Workers : workers'[v].batch \in {{}, workers[v].batch}
  <2>1. \A v \in Workers \ {w} : Committed(v)' = Committed(v)
    BY DEF WorkerMoves, Committed
  <2> QED BY <2>1, <1>t, CommittedIsFetched DEF WorkerMoves
\* New candidates are messages of the batch that is committed.
<1>a. \A m \in round'.candidates \ round.candidates :
        ~round.required /\ \E u \in Committed(w) : m = Msg(u)
  BY DEF WorkerMoves, Arrivals, Msg
<1>k. \A u \in Uids : Known(Msg(u))' /\ ~Known(Msg(u)) /\ Msg(u) \in server.there
        => <<round.validity, u>> \in Stored
  <2> SUFFICES ASSUME NEW u \in Uids, Known(Msg(u))', ~Known(Msg(u)), Msg(u) \in server.there
               PROVE  <<round.validity, u>> \in Stored
    OBVIOUS
  <2>1. Msg(u) \in round'.candidates \ round.candidates
    BY <1>m DEF Known
  <2>2. PICK x \in Committed(w) : Msg(x) = Msg(u)
    BY <1>a, <2>1
  <2>3. x \in Uids
    BY <1>t, <1>c DEF Worker
  <2>4. x = u
    BY <2>2, <2>3, UidsDiffer DEF Msg
  <2> QED BY <1>t, <2>2, <2>4 DEF WorkerShape
<1>1. RoundShape'
  BY <1>t DEF RoundShape, WorkerMoves
<1>2. WorkerShape'
  <2> SUFFICES ASSUME NEW v \in Workers
               PROVE
        /\ workers'[v].new \subseteq workers'[v].batch
        /\ workers'[v].done \subseteq workers'[v].batch
        /\ workers'[v].at = "store" => workers'[v].new \subseteq workers'[v].done
        /\ workers'[v].at \in {"take", "done"} => workers'[v].batch = {}
        /\ workers'[v].at = "done" /\ round'.at = "headers" => round'.left = {}
        /\ \A u \in Committed(v)' : Msg(u) \in server.there => <<round.validity, u>> \in Stored
    BY <1>m DEF WorkerShape, WorkerMoves
  <2>1. \A u \in Committed(v)' : Msg(u) \in server.there => <<round.validity, u>> \in Stored
    BY <1>t, <1>c DEF WorkerShape
  <2>2. CASE v = w
    BY <2>1, <2>2 DEF WorkerMoves
  <2>3. CASE v # w
    BY <1>t, <2>1, <2>3 DEF WorkerMoves, WorkerShape
  <2> QED BY <2>2, <2>3
<1>3. UnbornIsNowhere'
  <2> SUFFICES ASSUME NEW m \in server.unborn
               PROVE  /\ \A v \in Workers : \A u \in workers'[v].batch : Msg(u) # m
                      /\ ~Known(m)'
    BY <1>t, <1>m DEF UnbornIsNowhere, WorkerMoves
  <2>1. \A v \in Workers : \A u \in workers[v].batch : Msg(u) # m
    BY <1>t DEF UnbornIsNowhere
  <2>2. ~Known(m) /\ m \notin round'.candidates \ round.candidates
    BY <1>t, <1>a, <1>c, <2>1 DEF UnbornIsNowhere
  <2>3. ~Known(m)'
    BY <1>m, <2>2 DEF Known
  <2> QED BY <1>c, <2>1, <2>3
<1>4. Settled'
  <2>1. \A k \in Keys : rows'[k].hidden => rows[k].hidden /\ rows'[k].stored
    BY DEF WorkerMoves, ShapeInv, HiddenIsDeleted
  <2> QED BY <2>1, SettledStays DEF WorkerMoves
<1>5. ASSUME NothingMissed PROVE NothingMissed'
  <2> SUFFICES ASSUME NEW u \in Uids, Msg(u) \in server.there, Must(Msg(u))'
               PROVE  \/ u \in round.left
                      \/ <<round.validity, u>> \in Stored
                      \/ \E v \in Workers : /\ workers'[v].at \in {"store", "failed"}
                                            /\ u \in workers'[v].batch \ workers'[v].done
    BY <1>m DEF NothingMissed, WorkerMoves
  <2>1. CASE ~Must(Msg(u))
    BY <1>k, <2>1 DEF Must, WorkerMoves
  <2>2. CASE u \in round.left \/ <<round.validity, u>> \in Stored
    BY <2>2
  <2>3. ASSUME NEW v \in Workers, workers[v].at \in {"store", "failed"},
               u \in workers[v].batch \ workers[v].done
        PROVE  /\ workers'[v].at \in {"store", "failed"}
               /\ u \in workers'[v].batch \ workers'[v].done
    BY <2>3 DEF WorkerMoves
  <2> QED BY <1>5, <2>1, <2>2, <2>3 DEF NothingMissed, WorkerMoves
<1>6. ASSUME FreshInv PROVE OnlyFreshIsMissing' /\ NewMailIsNew'
  <2>1. NewMailIsNew'
    BY <1>6 DEF FreshInv, NewMailIsNew, WorkerMoves
  <2>2. ASSUME ~history.rebuilt, baseline, ~round.required
        PROVE  /\ Covered(round.validity)'
               /\ \A m \in round'.candidates : Fresh(m)
               /\ \A u \in round.left : Msg(u) \in server.there => Fresh(Msg(u))
               /\ \A v \in Workers : \A u \in workers'[v].batch : Fresh(Msg(u))
    <3>1. /\ Covered(round.validity)
          /\ \A m \in round.candidates : Fresh(m)
          /\ \A u \in round.left : Msg(u) \in server.there => Fresh(Msg(u))
          /\ \A v \in Workers : \A u \in workers[v].batch : Fresh(Msg(u))
      BY <1>6, <2>2 DEF FreshInv, OnlyFreshIsMissing, WorkerMoves
    <3>2. Covered(round.validity)'
      BY <1>k, <1>m, <3>1 DEF Covered, Msg, WorkerMoves
    <3>3. \A m \in round'.candidates : Fresh(m)
      BY <1>a, <1>c, <3>1
    <3> QED BY <1>c, <3>1, <3>2, <3>3
  <2>3. ASSUME ~history.rebuilt, baseline, round.required
        PROVE  \A m \in round'.candidates : Fresh(m)
    BY <1>6, <1>a, <2>3 DEF FreshInv, OnlyFreshIsMissing
  <2>4. OnlyFreshIsMissing'
    BY <1>m, <2>2, <2>3 DEF OnlyFreshIsMissing, WorkerMoves
  <2> QED BY <2>1, <2>4
<1>7. ASSUME NewsAreTold PROVE NewsAreTold'
  <2>1. \A v \in Workers : \A u \in workers'[v].batch :
          Msg(u) \in history.new => u \in workers'[v].unread
    <3> SUFFICES ASSUME NEW v \in Workers, NEW u \in workers'[v].batch, Msg(u) \in history.new
                 PROVE  u \in workers'[v].unread
      OBVIOUS
    <3>1. u \in workers[v].unread /\ workers'[v].unread = workers[v].unread
      BY <1>7, <1>c DEF NewsAreTold, WorkerMoves
    <3> QED BY <3>1
  <2>2. \A m : Heard(m)' => Heard(m)
    BY <1>m, <1>c DEF Heard, WorkerMoves
  <2>3. \A m \in history.new : Told(m) => Told(m)'
    <3> SUFFICES ASSUME NEW m \in history.new, Told(m) PROVE Told(m)'
      OBVIOUS
    <3>1. CASE announced[m] > 0 \/ m \in round.candidates
      BY <3>1 DEF Told, WorkerMoves
    <3>2. ASSUME NEW v \in Workers, Busied(v),
                 NEW u \in workers[v].new \cap workers[v].unread, Msg(u) = m
          PROVE  Told(m)'
      <4>1. CASE v # w
        BY <1>m, <3>2, <4>1 DEF Told, Busied, WorkerMoves
      <4>2. CASE v = w
        <5>1. ~round.required
          BY <1>7 DEF NewsAreTold
        <5> QED BY <1>m, <3>2, <4>2, <5>1 DEF Told, WorkerMoves
      <4> QED BY <4>1, <4>2
    <3> QED BY <3>1, <3>2 DEF Told
  <2> QED BY <1>7, <1>m, <2>1, <2>2, <2>3 DEF NewsAreTold, WorkerMoves
<1>8. ASSUME Undisturbed PROVE Undisturbed'
  BY <1>8, <1>m DEF Undisturbed, WorkerMoves, Active
<1> QED BY <1>1, <1>2, <1>3, <1>4, <1>5, <1>6, <1>7, <1>8 DEF Keeps, ShapeInv, Settled

\* notify_arrivals changes nothing of the round but its candidates.
SameButCandidates ==
    /\ round'.at = round.at /\ round'.ready = round.ready
    /\ round'.validity = round.validity /\ round'.required = round.required
    /\ round'.remote = round.remote /\ round'.left = round.left
    /\ round'.seen = round.seen /\ round'.uid = round.uid
    /\ round'.incompatible = round.incompatible

LEMMA NotifyChanges ==
  ASSUME round \in Round, NEW w \in Workers, round' = NotifyArrivals(w)
  PROVE  /\ SameButCandidates
         /\ \/ round'.candidates = round.candidates /\ round.required
            \/ round'.candidates = round.candidates \cup Arrivals(w) /\ ~round.required
  BY DEF NotifyArrivals, notify, Round, SameButCandidates

LEMMA WorkersMove ==
  ASSUME ShapeInv, NEW w \in Workers,
         \/ HeadersOnly(w) \/ FetchBodystructures(w) \/ BatchDone(w)
         \/ BodystructureFails(w) \/ WorkerFails(w)
  PROVE  WorkerMoves(w)
<1>t. /\ round \in Round /\ workers \in [Workers -> Worker] /\ workers[w] \in Worker
      /\ WorkerShape
  BY TypesOfVariables DEF ShapeInv
<1>s. /\ workers[w].new \subseteq workers[w].batch /\ workers[w].done \subseteq workers[w].batch
      /\ workers[w].at = "take" => workers[w].batch = {}
  BY <1>t DEF WorkerShape
<1>a. Arrivals(w) = {Msg(u) : u \in workers[w].new \cap workers[w].unread}
  BY DEF Arrivals, Msg
<1>0. /\ round.at = "headers"
      /\ UNCHANGED <<server, mailbox, rows, bodies, ops, reader, baseline, announced, history>>
  BY DEF HeadersOnly, FetchBodystructures, BatchDone, BodystructureFails, WorkerFails
<1>r. UNCHANGED round => SameButCandidates /\ round'.candidates = round.candidates
  BY DEF SameButCandidates
<1>1. CASE /\ workers' = [workers EXCEPT ![w].at = "structure"] /\ UNCHANGED round
           /\ workers[w].at = "store" /\ workers[w].batch = workers[w].done
  <2>1. /\ workers'[w].at = "structure" /\ workers'[w].batch = workers[w].batch
        /\ workers'[w].done = workers[w].done /\ workers'[w].new = workers[w].new
        /\ workers'[w].unread = workers[w].unread
        /\ \A v \in Workers \ {w} : workers'[v] = workers[v]
    BY <1>t, <1>1 DEF Worker
  <2> QED BY <1>0, <1>s, <1>r, <1>1, <2>1
          DEF WorkerMoves, Busied, Committed, SameButCandidates
<1>2. CASE FetchBodystructures(w)
  <2>1. PICK changed \in {{}, workers[w].batch} :
          workers' = [workers EXCEPT ![w].at = "again", ![w].done = @ \ changed]
    BY <1>2 DEF FetchBodystructures
  <2>2. /\ workers'[w].at = "again" /\ workers'[w].batch = workers[w].batch
        /\ workers'[w].done \subseteq workers[w].done /\ workers'[w].new = workers[w].new
        /\ workers'[w].unread = workers[w].unread
        /\ \A v \in Workers \ {w} : workers'[v] = workers[v]
    BY <1>t, <2>1 DEF Worker
  <2>3. UNCHANGED round /\ workers[w].at = "structure"
    BY <1>2 DEF FetchBodystructures
  <2> QED BY <1>0, <1>s, <1>r, <2>2, <2>3
          DEF WorkerMoves, Busied, Committed, SameButCandidates
<1>3. CASE WorkerFails(w)
  <2>1. /\ workers' = [workers EXCEPT ![w].at = "failed"] /\ UNCHANGED round
        /\ workers[w].at \in {"take", "store", "structure", "again"}
    BY <1>3 DEF WorkerFails
  <2>2. /\ workers'[w].at = "failed" /\ workers'[w].batch = workers[w].batch
        /\ workers'[w].done = workers[w].done /\ workers'[w].new = workers[w].new
        /\ workers'[w].unread = workers[w].unread
        /\ \A v \in Workers \ {w} : workers'[v] = workers[v]
    BY <1>t, <2>1 DEF Worker
  <2> QED BY <1>0, <1>s, <1>r, <2>1, <2>2
          DEF WorkerMoves, Busied, Committed, SameButCandidates
<1>n. round' = NotifyArrivals(w) =>
        /\ SameButCandidates
        /\ \/ round'.candidates = round.candidates /\ round.required
           \/ round'.candidates = round.candidates \cup Arrivals(w) /\ ~round.required
        /\ \A u \in workers[w].new \cap workers[w].unread :
             round.required \/ Msg(u) \in round'.candidates
  BY <1>t, <1>a, NotifyChanges
<1>4. CASE /\ workers' = [workers EXCEPT ![w] = NoWorker] /\ round' = NotifyArrivals(w)
           /\ \/ workers[w].at = "store" /\ workers[w].batch = workers[w].done
              \/ workers[w].at = "again"
  <2>1. /\ workers'[w].at = "take" /\ workers'[w].batch = {}
        /\ workers'[w].done = {} /\ workers'[w].new = {}
        /\ \A v \in Workers \ {w} : workers'[v] = workers[v]
    BY <1>t, <1>4 DEF NoWorker
  <2> QED BY <1>0, <1>s, <1>n, <1>4, <2>1
          DEF WorkerMoves, Busied, Committed, SameButCandidates
<1>5. CASE BodystructureFails(w)
  <2>1. /\ workers' = [workers EXCEPT ![w].at = "unusable"] /\ round' = NotifyArrivals(w)
        /\ workers[w].at = "structure"
    BY <1>5 DEF BodystructureFails
  <2>2. /\ workers'[w].at = "unusable" /\ workers'[w].batch = workers[w].batch
        /\ workers'[w].done = workers[w].done /\ workers'[w].new = workers[w].new
        /\ workers'[w].unread = workers[w].unread
        /\ \A v \in Workers \ {w} : workers'[v] = workers[v]
    BY <1>t, <2>1 DEF Worker
  <2> QED BY <1>0, <1>s, <1>n, <2>1, <2>2
          DEF WorkerMoves, Busied, Committed, SameButCandidates
<1> QED BY <1>1, <1>2, <1>3, <1>4, <1>5 DEF HeadersOnly, BatchDone

\* A worker stores a header of its batch, for the first or the second time.
LEMMA UpsertsKeep ==
  ASSUME ShapeInv, TypeOK', NEW w \in Workers, NEW u \in Uids,
         UpsertMessage(w, u) \/ UpsertAgain(w, u)
  PROVE  Keeps
<1>t. /\ RoundShape /\ WorkerShape /\ UnbornIsNowhere /\ workers \in [Workers -> Worker]
      /\ round \in Round /\ rows \in [Keys -> Row] /\ workers[w] \in Worker
  BY TypesOfVariables DEF ShapeInv
<1>s. PICK key \in Keys : key = <<round.validity, u>>
  BY <1>t DEF Round, Keys
<1>0. /\ round.at = "headers" /\ u \in workers[w].batch \ workers[w].done
      /\ UNCHANGED <<server, mailbox, bodies, ops, round, reader, baseline, announced, history>>
      /\ rows' = UpsertLocation(rows, key, u \in workers[w].unread)
      /\ workers[w].at \in {"store", "again"}
  BY <1>s DEF UpsertMessage, UpsertAgain
<1>1. /\ workers'[w].at = workers[w].at /\ workers'[w].batch = workers[w].batch
      /\ workers'[w].done = workers[w].done \cup {u}
      /\ workers'[w].unread = workers[w].unread
      /\ \/ workers'[w].new = workers[w].new
         \/ workers'[w].new = workers[w].new \cup {u}
      /\ \A v \in Workers \ {w} : workers'[v] = workers[v]
      /\ workers[w].at = "store" => key \in Stored \/ u \in workers'[w].new
  <2>1. CASE UpsertAgain(w, u)
    BY <1>t, <2>1 DEF UpsertAgain, Worker
  <2>2. CASE UpsertMessage(w, u)
    <3>1. PICK n : /\ workers' = [workers EXCEPT ![w].done = @ \cup {u}, ![w].new = n]
                   /\ n = IF key \in Stored THEN workers[w].new ELSE workers[w].new \cup {u}
      <4>1. workers' = [workers EXCEPT ![w].done = @ \cup {u},
                                  ![w].new = IF key \in Stored THEN @ ELSE @ \cup {u}]
        BY <2>2, <1>s DEF UpsertMessage, Stored
      <4> QED BY <4>1, <1>t
    <3> QED BY <1>t, <3>1 DEF Worker
  <2> QED BY <2>1, <2>2
<1>2. Stored' = Stored \cup {key}
  <2>1. (u \in workers[w].unread) \in BOOLEAN
    OBVIOUS
  <2> QED BY <1>0, <1>t, <2>1, StoredAfter
<1>m. /\ \A x : Msg(x)' = Msg(x) /\ MessageOf(key) = Msg(u)
      /\ \A m : Fresh(m)' <=> Fresh(m)
      /\ \A m : Known(m)' <=> Known(m)
      /\ \A v : Covered(v) => Covered(v)'
  <2>1. /\ \A x : Msg(x)' = Msg(x) /\ MessageOf(key) = Msg(u)
        /\ \A m : Fresh(m)' <=> Fresh(m)
        /\ \A m : Known(m)' <=> Known(m)
    BY <1>0, <1>s DEF Msg, Fresh, Known, MessageOf
  <2> QED BY <1>0, <1>2, <2>1 DEF Covered
<1>c. /\ \A v \in Workers : workers'[v].batch = workers[v].batch
      /\ \A v \in Workers : Committed(v)' \subseteq Committed(v) \cup
                              (IF v = w /\ workers[w].at = "store" THEN {u} ELSE {})
  BY <1>1 DEF Committed
<1>3. RoundShape'
  BY <1>t, <1>0 DEF RoundShape
<1>4. WorkerShape'
  <2> SUFFICES ASSUME NEW v \in Workers
               PROVE
        /\ workers'[v].new \subseteq workers'[v].batch
        /\ workers'[v].done \subseteq workers'[v].batch
        /\ workers'[v].at = "store" => workers'[v].new \subseteq workers'[v].done
        /\ workers'[v].at \in {"take", "done"} => workers'[v].batch = {}
        /\ workers'[v].at = "done" => round.left = {}
        /\ \A x \in Committed(v)' : Msg(x) \in server.there => <<round.validity, x>> \in Stored'
    BY <1>0, <1>m DEF WorkerShape
  <2>1. \A x \in Committed(v)' : Msg(x) \in server.there => <<round.validity, x>> \in Stored'
    BY <1>t, <1>s, <1>2, <1>c DEF WorkerShape
  <2>2. CASE v = w
    BY <1>t, <1>0, <1>1, <2>1, <2>2 DEF WorkerShape
  <2>3. CASE v # w
    BY <1>t, <1>0, <1>1, <2>1, <2>3 DEF WorkerShape
  <2> QED BY <2>2, <2>3
<1>5. UnbornIsNowhere'
  <2>1. \A m \in server.unborn : MessageOf(key) # m
    BY <1>t, <1>0, <1>m DEF UnbornIsNowhere
  <2> QED BY <1>t, <1>0, <1>2, <1>m, <1>c, <2>1 DEF UnbornIsNowhere
<1>6. Settled'
  <2>1. \A k \in Keys : rows'[k].hidden => rows[k].hidden /\ rows'[k].stored
    <3>1. (u \in workers[w].unread) \in BOOLEAN
      OBVIOUS
    <3>2. \A k \in Keys : rows'[k].hidden = rows[k].hidden
      BY <1>t, <1>0, <3>1, HiddenAfter
    <3>3. \A k \in Keys : rows[k].hidden => k \in Stored
      BY DEF ShapeInv, HiddenIsDeleted, Stored
    <3> QED BY <1>2, <3>2, <3>3 DEF Stored
  <2> QED BY <1>0, <2>1, SettledStays
<1>7. ASSUME NothingMissed PROVE NothingMissed'
  <2> SUFFICES ASSUME NEW x \in Uids, Msg(x) \in server.there, Must(Msg(x))
               PROVE  \/ x \in round.left
                      \/ <<round.validity, x>> \in Stored'
                      \/ \E v \in Workers : /\ workers'[v].at \in {"store", "failed"}
                                            /\ x \in workers'[v].batch \ workers'[v].done
    BY <1>0, <1>m DEF NothingMissed, Must
  <2>1. CASE x = u
    BY <1>2, <1>s, <2>1
  <2>2. CASE x # u
    <3>1. CASE x \in round.left \/ <<round.validity, x>> \in Stored
      BY <1>2, <3>1
    <3>2. ASSUME NEW v \in Workers, workers[v].at \in {"store", "failed"},
                 x \in workers[v].batch \ workers[v].done
          PROVE  workers'[v].at \in {"store", "failed"} /\ x \in workers'[v].batch \ workers'[v].done
      BY <1>1, <2>2, <3>2
    <3> QED BY <1>7, <1>0, <3>1, <3>2 DEF NothingMissed
  <2> QED BY <2>1, <2>2
<1>8. ASSUME FreshInv PROVE OnlyFreshIsMissing' /\ NewMailIsNew'
  <2>1. NewMailIsNew'
    BY <1>8, <1>0 DEF FreshInv, NewMailIsNew
  <2>2. Covered(round.validity) => Covered(round.validity)'
    BY <1>0, <1>2, <1>m DEF Covered
  <2> QED BY <1>8, <1>0, <1>m, <1>c, <2>1, <2>2 DEF FreshInv, OnlyFreshIsMissing
<1>9. ASSUME NewsAreTold PROVE NewsAreTold'
  <2>1. \A m : Told(m) => Told(m)'
    <3> SUFFICES ASSUME NEW m, Told(m) PROVE Told(m)'
      OBVIOUS
    <3>1. CASE announced[m] > 0 \/ m \in round.candidates
      BY <1>0, <3>1 DEF Told
    <3>2. ASSUME NEW v \in Workers, Busied(v),
                 NEW x \in workers[v].new \cap workers[v].unread, Msg(x) = m
          PROVE  Told(m)'
      <4>1. Busied(v)' /\ x \in workers'[v].new \cap workers'[v].unread
        BY <1>1, <3>2 DEF Busied
      <4> QED BY <1>m, <3>2, <4>1 DEF Told
    <3> QED BY <3>1, <3>2 DEF Told
  <2>2. \A m \in history.new : Heard(m)' => Heard(m) \/ Told(m)'
    <3> SUFFICES ASSUME NEW m \in history.new, Heard(m)', ~Heard(m) PROVE Told(m)'
      OBVIOUS
    <3>1. m = Msg(u)
      BY <1>0, <1>2, <1>m, <1>c DEF Heard
    <3>2. workers[w].at = "store"
      BY <1>0, <3>1 DEF Heard, Committed
    <3>3. key \notin Stored
      BY <1>m, <3>1 DEF Heard
    <3>4. u \in workers'[w].new \cap workers'[w].unread /\ Busied(w)'
      BY <1>9, <1>0, <1>1, <3>1, <3>2, <3>3 DEF NewsAreTold, Busied
    <3> QED BY <1>m, <3>1, <3>4 DEF Told
  <2>3. \A v \in Workers : \A x \in workers'[v].batch :
          Msg(x) \in history.new => x \in workers'[v].unread
    BY <1>9, <1>1 DEF NewsAreTold
  <2> QED BY <1>9, <1>0, <1>m, <2>1, <2>2, <2>3 DEF NewsAreTold
<1>10. ASSUME Undisturbed PROVE Undisturbed'
  BY <1>10, <1>0, <1>m DEF Undisturbed, Active
<1> QED BY <1>3, <1>4, <1>5, <1>6, <1>7, <1>8, <1>9, <1>10 DEF Keeps, ShapeInv, Settled

\* Only UIDs that are left are taken from them.
SameButLeft(b) ==
    /\ round'.at = round.at /\ round'.ready = round.ready
    /\ round'.validity = round.validity /\ round'.required = round.required
    /\ round'.remote = round.remote /\ round'.left = round.left \ b
    /\ round'.seen = round.seen /\ round'.uid = round.uid
    /\ round'.incompatible = round.incompatible /\ round'.candidates = round.candidates

\* A worker takes a batch, or there is none left.
LEMMA FetchSummariesKeeps ==
  ASSUME ShapeInv, TypeOK', NEW w \in Workers, FetchSummaries(w)
  PROVE  Keeps
<1>t. /\ RoundShape /\ WorkerShape /\ UnbornIsNowhere /\ workers \in [Workers -> Worker]
      /\ round \in Round /\ workers[w] \in Worker
  BY TypesOfVariables DEF ShapeInv
<1>0. /\ round.at = "headers" /\ workers[w].at = "take" /\ workers[w].batch = {}
      /\ UNCHANGED <<server, mailbox, rows, bodies, ops, reader, baseline, announced, history>>
  BY <1>t DEF FetchSummaries, WorkerShape
<1>1. \E b \in SUBSET round.left :
        /\ SameButLeft(b)
        /\ \A v \in Workers \ {w} : workers'[v] = workers[v]
        /\ \/ /\ workers'[w].at = "done" /\ workers'[w].batch = {} /\ b = {} /\ round.left = {}
              /\ workers'[w].new = {} /\ workers'[w].done = {}
           \/ /\ workers'[w].at = "store" /\ workers'[w].new = {} /\ workers'[w].done = {}
              /\ workers'[w].batch = {u \in b : Msg(u) \in server.there}
              /\ workers'[w].unread = {u \in b : /\ Msg(u) \in server.there
                                                 /\ Msg(u) \notin server.seen}
  <2>1. CASE /\ round.left = {} /\ UNCHANGED round
             /\ workers' = [workers EXCEPT ![w].at = "done"]
    <3>1. /\ workers'[w].at = "done" /\ workers'[w].batch = {}
          /\ workers'[w].new = {} /\ workers'[w].done = {}
          /\ \A v \in Workers \ {w} : workers'[v] = workers[v]
      BY <1>t, <1>0, <2>1 DEF Worker, WorkerShape
    <3>2. SameButLeft({})
      BY <2>1 DEF SameButLeft
    <3> QED BY <2>1, <3>1, <3>2
  <2>2. ASSUME NEW b \in SUBSET round.left, Connected,
               round' = [round EXCEPT !.left = @ \ b],
               workers' = [workers EXCEPT ![w] =
                       [NoWorker EXCEPT !.at = "store",
                            !.batch = {u \in b : There(<<round.validity, u>>)},
                            !.unread = {u \in b : UnreadThere(<<round.validity, u>>)}]]
        PROVE  /\ SameButLeft(b)
               /\ \A v \in Workers \ {w} : workers'[v] = workers[v]
               /\ workers'[w].at = "store" /\ workers'[w].new = {} /\ workers'[w].done = {}
               /\ workers'[w].batch = {u \in b : Msg(u) \in server.there}
               /\ workers'[w].unread = {u \in b : /\ Msg(u) \in server.there
                                                  /\ Msg(u) \notin server.seen}
    <3>1. SameButLeft(b)
      BY <1>t, <2>2 DEF SameButLeft, Round
    <3>2. /\ \A v \in Workers \ {w} : workers'[v] = workers[v]
          /\ workers'[w].at = "store" /\ workers'[w].new = {} /\ workers'[w].done = {}
          /\ workers'[w].batch = {u \in b : There(<<round.validity, u>>)}
          /\ workers'[w].unread = {u \in b : UnreadThere(<<round.validity, u>>)}
      BY <1>t, <2>2 DEF NoWorker
    <3>3. \A u \in b : /\ There(<<round.validity, u>>) <=> Msg(u) \in server.there
                       /\ UnreadThere(<<round.validity, u>>) <=>
                            Msg(u) \in server.there /\ Msg(u) \notin server.seen
      BY <2>2 DEF Connected, There, UnreadThere, MessageOf, Msg
    <3> QED BY <3>1, <3>2, <3>3
  <2> QED BY <2>1, <2>2 DEF FetchSummaries
<1>2. PICK b \in SUBSET round.left :
        /\ SameButLeft(b)
        /\ \A v \in Workers \ {w} : workers'[v] = workers[v]
        /\ \/ /\ workers'[w].at = "done" /\ workers'[w].batch = {} /\ b = {} /\ round.left = {}
              /\ workers'[w].new = {} /\ workers'[w].done = {}
           \/ /\ workers'[w].at = "store" /\ workers'[w].new = {} /\ workers'[w].done = {}
              /\ workers'[w].batch = {u \in b : Msg(u) \in server.there}
              /\ workers'[w].unread = {u \in b : /\ Msg(u) \in server.there
                                                 /\ Msg(u) \notin server.seen}
  BY <1>1
<1>m. /\ Stored' = Stored /\ \A u : Msg(u)' = Msg(u)
      /\ \A m : Fresh(m)' <=> Fresh(m)
      /\ \A m : Known(m)' <=> Known(m)
      /\ \A m : Must(m)' <=> Must(m)
  BY <1>0, <1>2 DEF Stored, Msg, Fresh, Known, Must, SameButLeft
<1>c. /\ \A v \in Workers \ {w} : Committed(v)' = Committed(v)
      /\ Committed(w)' = {}
  BY <1>2 DEF Committed
<1>3. RoundShape'
  BY <1>t, <1>0, <1>2 DEF RoundShape, SameButLeft
<1>4. WorkerShape'
  <2> SUFFICES ASSUME NEW v \in Workers
               PROVE
        /\ workers'[v].new \subseteq workers'[v].batch
        /\ workers'[v].done \subseteq workers'[v].batch
        /\ workers'[v].at = "store" => workers'[v].new \subseteq workers'[v].done
        /\ workers'[v].at \in {"take", "done"} => workers'[v].batch = {}
        /\ workers'[v].at = "done" => round'.left = {}
        /\ \A u \in Committed(v)' : Msg(u) \in server.there => <<round.validity, u>> \in Stored
    BY <1>0, <1>2, <1>m DEF WorkerShape, SameButLeft
  <2>1. CASE v = w
    BY <1>2, <1>c, <2>1 DEF SameButLeft
  <2>2. CASE v # w
    BY <1>t, <1>0, <1>2, <1>c, <2>2 DEF WorkerShape, SameButLeft
  <2> QED BY <2>1, <2>2
<1>5. UnbornIsNowhere'
  <2> SUFFICES ASSUME NEW m \in server.unborn
               PROVE  /\ \A v \in Workers : \A u \in workers'[v].batch : Msg(u) # m
                      /\ \A u \in round'.left : Msg(u) # m
    BY <1>t, <1>0, <1>2, <1>m DEF UnbornIsNowhere, SameButLeft
  <2>1. /\ \A v \in Workers : \A u \in workers[v].batch : Msg(u) # m
        /\ \A u \in round.left : Msg(u) # m
    BY <1>t DEF UnbornIsNowhere
  <2> QED BY <1>2, <2>1 DEF SameButLeft
<1>6. Settled'
  <2>1. \A k \in Keys : rows'[k].hidden => rows[k].hidden /\ rows'[k].stored
    BY <1>0 DEF ShapeInv, HiddenIsDeleted
  <2> QED BY <1>0, <2>1, SettledStays
<1>7. ASSUME NothingMissed PROVE NothingMissed'
  <2> SUFFICES ASSUME NEW x \in Uids, Msg(x) \in server.there, Must(Msg(x))
               PROVE  \/ x \in round'.left
                      \/ <<round.validity, x>> \in Stored
                      \/ \E v \in Workers : /\ workers'[v].at \in {"store", "failed"}
                                            /\ x \in workers'[v].batch \ workers'[v].done
    BY <1>0, <1>2, <1>m DEF NothingMissed, SameButLeft
  <2>1. CASE x \in b
    BY <1>2, <2>1
  <2>2. CASE x \in round.left \ b \/ <<round.validity, x>> \in Stored
    BY <1>2, <2>2 DEF SameButLeft
  <2>3. ASSUME NEW v \in Workers, workers[v].at \in {"store", "failed"},
               x \in workers[v].batch \ workers[v].done
        PROVE  workers'[v].at \in {"store", "failed"} /\ x \in workers'[v].batch \ workers'[v].done
    BY <1>0, <1>2, <2>3
  <2> QED BY <1>7, <1>0, <2>1, <2>2, <2>3 DEF NothingMissed
<1>8. ASSUME FreshInv PROVE OnlyFreshIsMissing' /\ NewMailIsNew'
  <2>1. NewMailIsNew'
    BY <1>8, <1>0 DEF FreshInv, NewMailIsNew
  <2>2. Covered(round.validity) => Covered(round.validity)'
    BY <1>0, <1>2, <1>m DEF Covered, SameButLeft
  <2>3. ASSUME ~history.rebuilt, baseline, ~round.required
        PROVE  /\ Covered(round.validity)
               /\ \A u \in round'.left : Msg(u) \in server.there => Fresh(Msg(u))
               /\ \A v \in Workers : \A u \in workers'[v].batch : Fresh(Msg(u))
    <3>1. /\ Covered(round.validity)
          /\ \A u \in round.left : Msg(u) \in server.there => Fresh(Msg(u))
          /\ \A v \in Workers : \A u \in workers[v].batch : Fresh(Msg(u))
      BY <1>8, <1>0, <2>3 DEF FreshInv, OnlyFreshIsMissing
    <3> QED BY <1>2, <3>1 DEF SameButLeft
  <2>4. ~history.rebuilt /\ baseline => \A m \in round.candidates : Fresh(m)
    BY <1>8 DEF FreshInv, OnlyFreshIsMissing
  <2> QED BY <1>0, <1>2, <1>m, <2>1, <2>2, <2>3, <2>4 DEF OnlyFreshIsMissing, SameButLeft
<1>9. ASSUME NewsAreTold PROVE NewsAreTold'
  <2>1. \A m : Told(m) => Told(m)'
    <3> SUFFICES ASSUME NEW m, Told(m) PROVE Told(m)'
      OBVIOUS
    <3>1. CASE announced[m] > 0 \/ m \in round.candidates
      BY <1>0, <1>2, <3>1 DEF Told, SameButLeft
    <3>2. ASSUME NEW v \in Workers, Busied(v),
                 NEW x \in workers[v].new \cap workers[v].unread, Msg(x) = m
          PROVE  Told(m)'
      <4>1. v # w
        BY <1>0, <3>2 DEF Busied
      <4>2. Busied(v)' /\ x \in workers'[v].new \cap workers'[v].unread
        BY <1>2, <3>2, <4>1 DEF Busied
      <4> QED BY <1>m, <3>2, <4>2 DEF Told
    <3> QED BY <3>1, <3>2 DEF Told
  <2>2. \A m : Heard(m)' => Heard(m)
    BY <1>0, <1>2, <1>m, <1>c DEF Heard, SameButLeft
  <2>3. \A v \in Workers : \A x \in workers'[v].batch :
          Msg(x) \in history.new => x \in workers'[v].unread
    <3> SUFFICES ASSUME NEW v \in Workers, NEW x \in workers'[v].batch, Msg(x) \in history.new
                 PROVE  x \in workers'[v].unread
      OBVIOUS
    <3>1. Msg(x) \notin server.seen
      BY <1>9 DEF NewsAreTold
    <3>2. CASE v = w
      BY <1>2, <3>1, <3>2
    <3>3. CASE v # w
      BY <1>9, <1>2, <3>3 DEF NewsAreTold
    <3> QED BY <3>2, <3>3
  <2> QED BY <1>9, <1>0, <1>2, <1>m, <2>1, <2>2, <2>3 DEF NewsAreTold, SameButLeft
<1>10. ASSUME Undisturbed PROVE Undisturbed'
  BY <1>10, <1>0, <1>2, <1>m DEF Undisturbed, Active, SameButLeft
<1> QED BY <1>3, <1>4, <1>5, <1>6, <1>7, <1>8, <1>9, <1>10 DEF Keeps, ShapeInv, Settled

\* The headers of a round.
LEMMA HeadersKeep == ASSUME ShapeInv, TypeOK', Headers PROVE Keeps
  BY WorkersMove, WorkerMovesKeep, UpsertsKeep, FetchSummariesKeeps DEF Headers

\* Past the headers, a round lists, stores bodies and reconciles.
RoundMoves ==
    /\ round.at \in {"search", "bodies", "body", "reconcile", "commit"}
    /\ round'.at \in {"diff", "bodies", "body", "reconcile", "commit", "complete"}
    /\ UNCHANGED <<server, ops, workers, reader, baseline, announced, history>>
    /\ mailbox'.validity = mailbox.validity
    /\ round'.ready = round.ready /\ round'.validity = round.validity
    /\ round'.required = round.required /\ round'.candidates = round.candidates
    /\ round'.left \subseteq round.left
    /\ \A u \in round'.remote : u \in round.remote \/ Msg(u) \in server.there
    /\ round'.at = "body" => round'.uid \in round.left /\ round.at = "bodies"
    /\ round'.at = "bodies" => round.at \in {"bodies", "body"}
    /\ round'.at \in {"bodies", "body", "reconcile"} =>
         round.at \in {"bodies", "body"} /\ (round.incompatible => round'.incompatible)
    /\ \A k \in Stored' : k \in Stored \/ (round.at = "body" /\ k = <<round.validity, round.uid>>)
    /\ \A u \in Uids : <<round.validity, u>> \in Stored =>
         <<round.validity, u>> \in Stored' \/ (round.at = "commit" /\ u \notin round.remote)
    /\ \A k \in Keys : rows'[k].hidden => rows[k].hidden /\ rows'[k].stored

LEMMA RoundMovesKeep ==
  ASSUME ShapeInv, TypeOK', RoundMoves
  PROVE  /\ ShapeInv'
         /\ FreshInv => OnlyFreshIsMissing' /\ NewMailIsNew'
         /\ NewsAreTold => NewsAreTold'
<1>t. /\ RoundShape /\ WorkerShape /\ UnbornIsNowhere /\ round \in Round
  BY TypesOfVariables DEF ShapeInv
<1>m. /\ \A u : Msg(u)' = Msg(u)
      /\ \A m : Fresh(m)' <=> Fresh(m)
      /\ \A m : Known(m)' <=> Known(m)
      /\ \A w \in Workers : Committed(w)' = {} /\ Committed(w) = {} /\ workers[w].batch = {}
      /\ \A w \in Workers : ~Busied(w) /\ ~Busied(w)'
      /\ MessageOf(<<round.validity, round.uid>>) = Msg(round.uid)
  BY <1>t DEF RoundMoves, Msg, Fresh, Known, Committed, WorkerShape, MessageOf, Busied
<1>1. RoundShape'
  BY <1>t DEF RoundShape, RoundMoves
<1>2. WorkerShape'
  <2> SUFFICES ASSUME NEW w \in Workers
               PROVE
    /\ workers[w].at \in {"take", "done", "unusable"} /\ workers[w].batch = {}
    /\ workers[w].new \subseteq workers[w].batch
    /\ workers[w].done \subseteq workers[w].batch
    /\ w = 1 /\ round'.at \in {"bodies", "body", "reconcile"} /\ workers[w].at # "done"
         => round'.incompatible
    BY <1>m DEF WorkerShape, RoundMoves
  <2> QED BY <1>t DEF WorkerShape, RoundMoves
<1>3. UnbornIsNowhere'
  <2> SUFFICES ASSUME NEW m \in server.unborn
               PROVE  /\ \A k \in Stored' : MessageOf(k) # m
                      /\ \A u \in round'.remote \cup round'.left : Msg(u) # m
                      /\ round'.at = "body" => Msg(round'.uid) # m
    BY <1>t, <1>m DEF UnbornIsNowhere, RoundMoves
  <2>1. /\ \A k \in Stored : MessageOf(k) # m
        /\ \A u \in round.remote \cup round.left : Msg(u) # m
        /\ round.at = "body" => Msg(round.uid) # m
        /\ m \notin server.there
    BY <1>t DEF UnbornIsNowhere
  <2>2. \A k \in Stored' : MessageOf(k) # m
    BY <1>m, <2>1 DEF RoundMoves
  <2> QED BY <2>1, <2>2 DEF RoundMoves
<1>4. Settled'
  BY SettledStays DEF RoundMoves
<1>5. ASSUME FreshInv PROVE OnlyFreshIsMissing' /\ NewMailIsNew'
  <2>1. NewMailIsNew'
    BY <1>5 DEF FreshInv, NewMailIsNew, RoundMoves
  <2>2. Covered(round.validity) => Covered(round.validity)'
    <3> SUFFICES ASSUME Covered(round.validity), NEW u \in Uids,
                        Msg(u) \in server.there, Known(Msg(u))
                 PROVE  <<round.validity, u>> \in Stored'
      BY <1>m DEF Covered, RoundMoves, Msg
    <3>1. <<round.validity, u>> \in Stored
      BY DEF Covered, Msg
    <3>2. round.at = "commit" => u \in round.remote
      BY <1>5 DEF FreshInv, NothingMissed, Must
    <3> QED BY <3>1, <3>2 DEF RoundMoves
  <2> QED BY <1>5, <1>m, <2>1, <2>2 DEF FreshInv, OnlyFreshIsMissing, RoundMoves
<1>6. ASSUME NewsAreTold PROVE NewsAreTold'
  <2>1. \A m : Told(m) => Told(m)'
    BY <1>m DEF Told, RoundMoves
  <2>2. \A m : Heard(m)' => Heard(m)
    <3> SUFFICES ASSUME NEW m, Heard(m)' PROVE Heard(m)
      OBVIOUS
    <3>1. CASE \E k \in Stored' : MessageOf(k) = m
      BY <1>m, <3>1 DEF Heard, RoundMoves
    <3>2. CASE reader'.at # "idle" /\ MessageOf(reader'.key) = m
      BY <3>2 DEF Heard, RoundMoves
    <3>3. CASE round'.at \in {"bodies", "body"} /\ \E u \in round'.left : Msg(u) = m
      BY <3>3 DEF Heard, RoundMoves
    <3>4. CASE round'.at = "body" /\ Msg(round'.uid) = m
      BY <3>4 DEF Heard, RoundMoves
    <3> QED BY <1>m, <3>1, <3>2, <3>3, <3>4 DEF Heard
  <2> QED BY <1>6, <1>m, <2>1, <2>2 DEF NewsAreTold, RoundMoves
<1> QED BY <1>1, <1>2, <1>3, <1>4, <1>5, <1>6 DEF ShapeInv, Settled

\* The UIDs the server lists are those of its messages.
LEMMA ListedUids ==
  \A v : \A ms \in SUBSET Messages : \A u \in Uids :
    u \in {UidOf(v, m) : m \in ms} <=> MessageAt(v, u) \in ms
<1> SUFFICES ASSUME NEW v, NEW ms \in SUBSET Messages, NEW u \in Uids
             PROVE  u \in {UidOf(v, m) : m \in ms} <=> MessageAt(v, u) \in ms
  OBVIOUS
<1>1. \A m \in ms : MessageAt(v, UidOf(v, m)) = m
  BY UidsCorrespond DEF Uids, Messages
<1>2. UidOf(v, MessageAt(v, u)) = u
  BY UidsCorrespond
<1> QED BY <1>1, <1>2

LEMMA SearchAllKeeps == ASSUME ShapeInv, TypeOK', SearchAll PROVE Keeps
<1>t. round \in Round /\ server \in ServerType /\ RoundShape
  BY TypesOfVariables DEF ShapeInv
<1>1. /\ round.at = "search" /\ round'.at = "diff" /\ round'.ready = round.ready
      /\ round'.validity = round.validity /\ round'.required = round.required
      /\ round'.candidates = round.candidates /\ round'.left = round.left
      /\ server.validity = round.validity
      /\ round'.remote = {UidOf(server.validity, m) : m \in server.there}
      /\ round'.incompatible = round.incompatible
      /\ UNCHANGED <<server, mailbox, rows, bodies, ops, workers, reader, baseline, announced,
                     history>>
  BY <1>t DEF SearchAll, Connected, Round
<1>2. server.there \in SUBSET Messages
  BY <1>t DEF ServerType
<1>3. \A u \in Uids : u \in round'.remote <=> Msg(u) \in server.there
  BY <1>1, <1>2, ListedUids DEF Msg
<1>4. round'.remote \subseteq Uids
  BY TypesOfVariables DEF TypeOK, Round
<1>5. Stored' = Stored
  BY <1>1 DEF Stored
<1>6. \A k \in Keys : rows[k].hidden => rows[k].stored
  BY DEF ShapeInv, HiddenIsDeleted
<1>7. RoundMoves
  BY <1>1, <1>3, <1>4, <1>5, <1>6 DEF RoundMoves
<1>m. \A u : Msg(u)' = Msg(u)
  BY <1>1 DEF Msg
<1>8. NothingMissed'
  BY <1>1, <1>3, <1>m DEF NothingMissed
<1>9. ASSUME Undisturbed PROVE Undisturbed'
  BY <1>1, <1>3, <1>9, <1>m DEF Undisturbed, Active
<1> QED BY <1>7, <1>8, <1>9, RoundMovesKeep DEF Keeps

LEMMA FetchBodyKeeps ==
  ASSUME ShapeInv, TypeOK', NEW u \in Uids, FetchBody(u)
  PROVE  Keeps
<1>t. round \in Round /\ server \in ServerType /\ RoundShape
  BY TypesOfVariables DEF ShapeInv
<1>1. /\ round.at = "bodies" /\ u \in round.left
      /\ round'.ready = round.ready
      /\ round'.validity = round.validity /\ round'.required = round.required
      /\ round'.candidates = round.candidates /\ round'.left = round.left \ {u}
      /\ round'.remote = round.remote /\ round'.incompatible = round.incompatible
      /\ \/ round'.at = "body" /\ round'.uid = u
         \/ round'.at = "bodies" /\ ~There(<<round.validity, u>>)
      /\ server.validity = round.validity
      /\ UNCHANGED <<server, mailbox, rows, bodies, ops, workers, reader, baseline, announced,
                     history>>
  BY <1>t DEF FetchBody, Connected, Round
<1>5. Stored' = Stored
  BY <1>1 DEF Stored
<1>6. \A k \in Keys : rows[k].hidden => rows[k].stored
  BY DEF ShapeInv, HiddenIsDeleted
<1>7. RoundMoves
  BY <1>1, <1>5, <1>6 DEF RoundMoves
<1>m. /\ \A x : Msg(x)' = Msg(x)
      /\ \A m : Must(m)' <=> Must(m)
      /\ There(<<round.validity, u>>) <=> Msg(u) \in server.there
  BY <1>1 DEF Msg, Must, Known, Fresh, There, MessageOf
<1>8. ASSUME NothingMissed PROVE NothingMissed'
  BY <1>1, <1>5, <1>8, <1>m DEF NothingMissed
<1>9. ASSUME Undisturbed PROVE Undisturbed'
  BY <1>1, <1>9, <1>m DEF Undisturbed, Active
<1> QED BY <1>7, <1>8, <1>9, RoundMovesKeep DEF Keeps

LEMMA StoreBodyKeeps == ASSUME ShapeInv, TypeOK', StoreBody PROVE Keeps
<1>t. /\ round \in Round /\ rows \in [Keys -> Row] /\ bodies \in [Messages -> 0 .. Last]
      /\ HiddenIsDeleted
  BY TypesOfVariables DEF ShapeInv
<1>0. PICK key \in Keys : key = <<round.validity, round.uid>>
  BY <1>t DEF Round, Keys
<1>b. PICK b \in BOOLEAN : b <=> round.uid \notin round.seen
  OBVIOUS
<1>1. /\ round.at = "body" /\ round'.at = "bodies" /\ round'.ready = round.ready
      /\ round'.validity = round.validity /\ round'.required = round.required
      /\ round'.candidates = round.candidates /\ round'.left = round.left
      /\ round'.remote = round.remote /\ round'.incompatible = round.incompatible
      /\ UNCHANGED <<server, mailbox, ops, workers, reader, baseline, announced, history>>
      /\ bodies' = [bodies EXCEPT ![MessageOf(key)] = MessageOf(key)]
      /\ rows' = rows \/ rows' = UpsertLocation(rows, key, b)
  BY <1>t, <1>0, <1>b DEF StoreBody, Round
<1>k. MessageOf(key) = Msg(round.uid) /\ MessageOf(key) \in Messages
  BY <1>0, UidsNameMessages DEF MessageOf, Msg
<1>5. Stored' = Stored \/ Stored' = Stored \cup {key}
  BY <1>t, <1>1, StoredAfter
<1>6. \A k \in Keys : rows'[k].hidden => rows[k].hidden /\ rows'[k].stored
  <2>1. \A k \in Keys : rows'[k].hidden = rows[k].hidden
    BY <1>t, <1>1, HiddenAfter
  <2>2. \A k \in Keys : rows[k].hidden => k \in Stored
    BY <1>t DEF HiddenIsDeleted, Stored
  <2> QED BY <1>5, <2>1, <2>2 DEF Stored
<1>7. RoundMoves
  BY <1>0, <1>1, <1>5, <1>6 DEF RoundMoves
<1>m. /\ \A x : Msg(x)' = Msg(x)
      /\ \A m : Must(m)' <=> Must(m)
  BY <1>1 DEF Msg, Must, Known, Fresh
<1>8. ASSUME NothingMissed PROVE NothingMissed'
  BY <1>1, <1>5, <1>8, <1>m DEF NothingMissed
<1>9. ASSUME Undisturbed PROVE Undisturbed'
  <2>1. \A m \in Messages : bodies'[m] = IF m = Msg(round.uid) THEN m ELSE bodies[m]
    BY <1>t, <1>1, <1>k
  <2>2. \A u \in Uids : /\ Msg(u) \in Messages /\ Msg(u) # 0
                        /\ u = round.uid => bodies'[Msg(u)] # 0
                        /\ bodies[Msg(u)] # 0 => bodies'[Msg(u)] # 0
    <3>1. \A u \in Uids : Msg(u) \in Messages
      BY UidsCorrespond DEF Msg
    <3> QED BY <2>1, <3>1 DEF Messages
  <2> QED BY <1>1, <1>9, <1>m, <2>2 DEF Undisturbed, Active
<1> QED BY <1>7, <1>8, <1>9, RoundMovesKeep DEF Keeps

LEMMA BodiesDoneKeeps == ASSUME ShapeInv, TypeOK', BodiesDone PROVE Keeps
<1>t. round \in Round /\ RoundShape
  BY TypesOfVariables DEF ShapeInv
<1>0. \/ round' = [round EXCEPT !.at = "reconcile"] /\ round.left = {}
      \/ round' = [round EXCEPT !.at = "reconcile", !.left = {}, !.incompatible = TRUE]
  BY DEF BodiesDone
<1>a. /\ round.at = "bodies"
      /\ UNCHANGED <<server, mailbox, rows, bodies, ops, workers, reader, baseline, announced,
                     history>>
  BY DEF BodiesDone
<1>1. /\ round.at = "bodies" /\ round'.at = "reconcile" /\ round'.ready = round.ready
      /\ round'.validity = round.validity /\ round'.required = round.required
      /\ round'.candidates = round.candidates /\ round'.left = {}
      /\ round'.remote = round.remote
      /\ \/ round'.incompatible
         \/ round'.incompatible = round.incompatible /\ round.left = {}
      /\ UNCHANGED <<server, mailbox, rows, bodies, ops, workers, reader, baseline, announced,
                     history>>
  BY <1>t, <1>0, <1>a DEF Round
<1>5. Stored' = Stored
  BY <1>1 DEF Stored
<1>6. \A k \in Keys : rows[k].hidden => rows[k].stored
  BY DEF ShapeInv, HiddenIsDeleted
<1>7. RoundMoves
  BY <1>1, <1>5, <1>6 DEF RoundMoves
<1>m. /\ \A x : Msg(x)' = Msg(x)
      /\ \A m : Must(m)' <=> Must(m)
  BY <1>1 DEF Msg, Must, Known, Fresh
<1>8. ASSUME NothingMissed PROVE NothingMissed'
  BY <1>1, <1>5, <1>8, <1>m DEF NothingMissed
<1>9. ASSUME Undisturbed PROVE Undisturbed'
  BY <1>1, <1>9, <1>m DEF Undisturbed, Active
<1> QED BY <1>7, <1>8, <1>9, RoundMovesKeep DEF Keeps

LEMMA FetchFlagsKeeps == ASSUME ShapeInv, TypeOK', FetchFlags PROVE Keeps
<1>t. round \in Round /\ server \in ServerType /\ RoundShape /\ WorkerShape
  BY TypesOfVariables DEF ShapeInv
<1>1. /\ round.at = "reconcile" /\ round'.ready = round.ready
      /\ round'.validity = round.validity /\ round'.required = round.required
      /\ round'.candidates = round.candidates /\ round'.left = round.left
      /\ round'.incompatible = round.incompatible
      /\ UNCHANGED <<server, mailbox, rows, bodies, ops, workers, reader, baseline, announced,
                     history>>
  BY <1>t DEF FetchFlags, Round
<1>2. \/ /\ round'.at = "commit" /\ server.validity = round.validity
         /\ round'.remote = {UidOf(server.validity, m) : m \in server.there}
         /\ round'.seen = {UidOf(server.validity, m) : m \in server.seen}
      \/ round'.at = "complete" /\ workers[1].at # "done" /\ round'.remote = round.remote
  BY <1>t DEF FetchFlags, Connected, Round
<1>c. \/ round'.at = "commit" /\ server.validity = round.validity
      \/ round'.at = "complete" /\ round'.remote = round.remote
  BY <1>2
<1>3. round'.at = "commit" => \A u \in Uids :
        /\ u \in round'.remote <=> Msg(u) \in server.there
        /\ u \in round'.seen <=> Msg(u) \in server.seen
  <2>1. server.there \in SUBSET Messages /\ server.seen \in SUBSET Messages
    BY <1>t DEF ServerType
  <2> QED BY <1>2, <2>1, ListedUids DEF Msg
<1>4. round'.remote \subseteq Uids
  BY TypesOfVariables DEF TypeOK, Round
<1>i. round'.at = "complete" => round'.incompatible
  BY <1>t, <1>1, <1>2, MailSyncAssumption DEF WorkerShape
<1>5. Stored' = Stored
  BY <1>1 DEF Stored
<1>6. \A k \in Keys : rows[k].hidden => rows[k].stored
  BY DEF ShapeInv, HiddenIsDeleted
<1>7. RoundMoves
  <2>1. CASE round'.at = "commit"
    BY <1>1, <1>3, <1>4, <1>5, <1>6, <2>1 DEF RoundMoves
  <2>2. CASE round'.at = "complete" /\ round'.remote = round.remote
    BY <1>1, <1>5, <1>6, <2>2 DEF RoundMoves
  <2> QED BY <1>c, <2>1, <2>2
<1>m. /\ \A x : Msg(x)' = Msg(x)
      /\ \A m : Must(m)' <=> Must(m)
  BY <1>1 DEF Msg, Must, Known, Fresh
<1>8. ASSUME NothingMissed PROVE NothingMissed'
  <2>1. CASE round'.at = "commit"
    BY <1>1, <1>3, <1>5, <1>8, <1>m, <2>1 DEF NothingMissed
  <2>2. CASE round'.at = "complete" /\ round'.remote = round.remote
    BY <1>1, <1>5, <1>8, <1>m, <2>2 DEF NothingMissed
  <2> QED BY <1>c, <2>1, <2>2
<1>9. ASSUME Undisturbed PROVE Undisturbed'
  <2>1. CASE round'.at = "commit" /\ server.validity = round.validity
    BY <1>1, <1>3, <1>9, <1>m, <2>1 DEF Undisturbed, Active
  <2>2. CASE round'.at = "complete"
    BY <1>1, <1>i, <1>9, <1>m, <2>2 DEF Undisturbed, Active
  <2> QED BY <1>c, <2>1, <2>2
<1> QED BY <1>7, <1>8, <1>9, RoundMovesKeep DEF Keeps

\* What reconcile_mailbox does to a row.
LEMMA ReconciledRows ==
  ASSUME rows \in [Keys -> Row], rows' = Reconciled, NEW k \in Keys
  PROVE  /\ rows'[k].stored => rows[k].stored
         /\ rows'[k].hidden => rows[k].hidden /\ (rows[k].stored => rows'[k].stored)
         /\ rows[k].stored /\ ~rows'[k].stored => k[1] = round.validity /\ k[2] \notin round.remote
         /\ rows[k].stored /\ k[1] = round.validity /\ ~rows[k].hidden
              /\ ActiveOn(MessageOf(k)) = {} =>
                /\ rows'[k].stored <=> k[2] \in round.remote
                /\ ~rows'[k].hidden
                /\ k[2] \in round.remote => (rows'[k].unread <=> k[2] \notin round.seen)
<1>0. rows[k] \in Row
  OBVIOUS
<1>1. rows'[k] = IF k[1] # round.validity \/ ~rows[k].stored THEN rows[k]
        ELSE IF k[2] \notin round.remote /\ ActiveOn(MessageOf(k)) = {} THEN NoRow
        ELSE IF k[2] \in round.remote /\ ~rows[k].hidden /\ ActiveFlagOn(MessageOf(k)) = {}
        THEN [rows[k] EXCEPT !.unread = k[2] \notin round.seen]
        ELSE rows[k]
  BY DEF Reconciled
<1>2. ActiveFlagOn(MessageOf(k)) \subseteq ActiveOn(MessageOf(k))
  BY DEF ActiveFlagOn
<1>3. /\ [rows[k] EXCEPT !.unread = k[2] \notin round.seen].stored = rows[k].stored
      /\ [rows[k] EXCEPT !.unread = k[2] \notin round.seen].hidden = rows[k].hidden
      /\ [rows[k] EXCEPT !.unread = k[2] \notin round.seen].unread <=> k[2] \notin round.seen
  BY <1>0 DEF Row
<1>4. ~NoRow.stored /\ ~NoRow.hidden
  BY DEF NoRow
<1> HIDE DEF NoRow
<1>5. CASE k[1] # round.validity \/ ~rows[k].stored
  BY <1>1, <1>5
<1>6. CASE k[1] = round.validity /\ rows[k].stored /\ k[2] \notin round.remote
  BY <1>1, <1>4, <1>6
<1>7. CASE k[1] = round.validity /\ rows[k].stored /\ k[2] \in round.remote
  BY <1>1, <1>2, <1>3, <1>7
<1> QED BY <1>5, <1>6, <1>7

\* The commit of a round that nothing disturbed makes the projection exact.
LEMMA ReconcileIsExact ==
  ASSUME ShapeInv, ReconcileMailbox, NothingMissed, Undisturbed, history.calm,
         ~round.incompatible
  PROVE  Exact'
<1>t. /\ round \in Round /\ rows \in [Keys -> Row] /\ server \in ServerType
      /\ mailbox \in MailboxType /\ RoundShape /\ HiddenIsDeleted /\ SeenIsThere
  BY TypesOfVariables DEF ShapeInv
<1>0. /\ round.at = "commit" /\ rows' = Reconciled /\ server' = server /\ bodies' = bodies
      /\ mailbox'.validity = mailbox.validity /\ mailbox'.counts = CountsOf(rows')
  <2>1. Project(Reconciled)
    BY DEF ReconcileMailbox
  <2> QED BY <1>t, <2>1 DEF ReconcileMailbox, Project, MailboxType
<1>1. /\ \A o \in OpIds : ~Active(o)
      /\ server.validity = round.validity /\ mailbox.validity = round.validity
      /\ \A u \in Uids : /\ u \in round.remote <=> Msg(u) \in server.there
                         /\ u \in round.seen <=> Msg(u) \in server.seen
                         /\ Msg(u) \in server.there => <<round.validity, u>> \in Stored
                         /\ DownloadFullMessages /\ Msg(u) \in server.there => bodies[Msg(u)] # 0
  <2>1. /\ \A o \in OpIds : ~Active(o)
        /\ server.validity = round.validity
        /\ \A u \in Uids : u \in round.remote <=> Msg(u) \in server.there
        /\ \A u \in Uids : u \in round.seen <=> Msg(u) \in server.seen
        /\ DownloadFullMessages => \A u \in Uids : Msg(u) \in server.there => bodies[Msg(u)] # 0
    BY <1>0 DEF Undisturbed
  <2>2. \A u \in Uids : Msg(u) \in server.there => <<round.validity, u>> \in Stored
    BY <1>0 DEF NothingMissed, Must
  <2>3. mailbox.validity = round.validity
    BY <1>t, <1>0 DEF RoundShape
  <2> QED BY <2>1, <2>2, <2>3
<1>2. \A m : ActiveOn(m) = {}
  BY <1>1 DEF ActiveOn
<1>3. \A k \in Keys : ~rows[k].hidden
  BY <1>t, <1>2 DEF HiddenIsDeleted
<1>4. \A u \in Uids : LET k == <<round.validity, u>> IN
        /\ k \in Keys /\ MessageOf(k) = Msg(u)
        /\ rows'[k].stored <=> Msg(u) \in server.there
        /\ ~rows'[k].hidden
        /\ Msg(u) \in server.there => (rows'[k].unread <=> Msg(u) \notin server.seen)
  <2> SUFFICES ASSUME NEW u \in Uids, NEW k, k = <<round.validity, u>>
               PROVE  /\ k \in Keys /\ MessageOf(k) = Msg(u)
                      /\ rows'[k].stored <=> Msg(u) \in server.there
                      /\ ~rows'[k].hidden
                      /\ Msg(u) \in server.there => (rows'[k].unread <=> Msg(u) \notin server.seen)
    OBVIOUS
  <2>1. k \in Keys /\ MessageOf(k) = Msg(u) /\ k[1] = round.validity /\ k[2] = u
    BY <1>t DEF Round, Keys, MessageOf, Msg
  <2>2. /\ rows'[k].stored => rows[k].stored
        /\ rows'[k].hidden => rows[k].hidden
        /\ rows[k].stored => /\ rows'[k].stored <=> u \in round.remote
                             /\ u \in round.remote => (rows'[k].unread <=> u \notin round.seen)
    BY <1>0, <1>2, <1>3, <1>t, <2>1, ReconciledRows
  <2>3. Msg(u) \in server.there => rows[k].stored
    BY <1>1 DEF Stored
  <2> QED BY <1>1, <1>3, <2>1, <2>2, <2>3
<1>5. \A u \in Uids : <<round.validity, u>> \in Visible(rows') <=> Msg(u) \in server.there
  BY <1>4 DEF Visible
<1>k. \A k \in Keys : k[1] = round.validity => \E u \in Uids : k = <<round.validity, u>>
  BY DEF Keys
<1>f. server.there \in SUBSET Messages
  BY <1>t DEF ServerType
<1>m. \A m \in server.there : /\ UidOf(round.validity, m) \in Uids
                              /\ Msg(UidOf(round.validity, m)) = m
  BY <1>f, UidsCorrespond DEF Uids, Messages, Msg
<1>6. {k \in Visible(rows') : k[1] = round.validity} =
        {<<round.validity, UidOf(round.validity, m)>> : m \in server.there}
  <2>1. ASSUME NEW k \in Visible(rows'), k[1] = round.validity
        PROVE  k \in {<<round.validity, UidOf(round.validity, m)>> : m \in server.there}
    <3>1. PICK u \in Uids : k = <<round.validity, u>>
      BY <1>k, <2>1 DEF Visible
    <3>2. Msg(u) \in server.there /\ UidOf(round.validity, Msg(u)) = u
      BY <1>5, <2>1, <3>1, UidsCorrespond DEF Msg
    <3> QED BY <3>1, <3>2
  <2>2. ASSUME NEW m \in server.there
        PROVE  /\ <<round.validity, UidOf(round.validity, m)>> \in Visible(rows')
               /\ <<round.validity, UidOf(round.validity, m)>>[1] = round.validity
    BY <1>5, <1>m
  <2> QED BY <2>1, <2>2
<1>7. \A k \in Visible(rows') : k[1] = round.validity => (rows'[k].unread <=> UnreadThere(k))
  <2> SUFFICES ASSUME NEW k \in Visible(rows'), k[1] = round.validity
               PROVE  rows'[k].unread <=> UnreadThere(k)
    OBVIOUS
  <2>1. PICK u \in Uids : k = <<round.validity, u>>
    BY <1>k DEF Visible
  <2>2. Msg(u) \in server.there
    BY <1>5, <2>1
  <2>3. UnreadThere(k) <=> Msg(u) \in server.there /\ Msg(u) \notin server.seen
    BY <1>1, <2>1 DEF UnreadThere, There, MessageOf, Msg
  <2> QED BY <1>4, <2>1, <2>2, <2>3
<1>8. DownloadFullMessages => \A m \in server.there : bodies[m] # 0
  BY <1>1, <1>m
<1>9. \A k : UnreadThere(k)' <=> UnreadThere(k)
  BY <1>0 DEF UnreadThere, There
<1> QED BY <1>0, <1>1, <1>6, <1>7, <1>8, <1>9 DEF Exact

LEMMA ReconcileMailboxKeeps == ASSUME ShapeInv, TypeOK', ReconcileMailbox PROVE Keeps
<1>t. /\ round \in Round /\ rows \in [Keys -> Row] /\ mailbox \in MailboxType
      /\ HiddenIsDeleted
  BY TypesOfVariables DEF ShapeInv
<1>0. Project(Reconciled)
  BY DEF ReconcileMailbox
<1>1. /\ round.at = "commit" /\ round'.at = "complete" /\ round'.ready = round.ready
      /\ round'.validity = round.validity /\ round'.required = round.required
      /\ round'.candidates = round.candidates /\ round'.left = round.left
      /\ round'.remote = {} /\ round'.incompatible = round.incompatible
      /\ UNCHANGED <<server, bodies, ops, workers, reader, baseline, announced, history>>
      /\ rows' = Reconciled /\ mailbox'.validity = mailbox.validity
  BY <1>t, <1>0 DEF ReconcileMailbox, Project, Round, MailboxType
<1>2. /\ \A k \in Stored' : k \in Stored
      /\ \A u \in Uids : <<round.validity, u>> \in Stored /\ u \in round.remote =>
           <<round.validity, u>> \in Stored'
      /\ \A k \in Keys : rows'[k].hidden => rows[k].hidden /\ rows'[k].stored
  <2>1. \A k \in Keys : /\ rows'[k].stored => rows[k].stored
                        /\ rows'[k].hidden => rows[k].hidden /\ (rows[k].stored => rows'[k].stored)
                        /\ rows[k].stored /\ ~rows'[k].stored => k[2] \notin round.remote
    BY <1>t, <1>1, ReconciledRows
  <2>2. \A u \in Uids : <<round.validity, u>> \in Stored =>
          <<round.validity, u>> \in Keys /\ <<round.validity, u>>[2] = u
    BY DEF Stored
  <2>3. \A k \in Keys : rows[k].hidden => rows[k].stored
    BY <1>t DEF HiddenIsDeleted
  <2> QED BY <2>1, <2>2, <2>3 DEF Stored
<1>3. RoundMoves
  BY <1>1, <1>2 DEF RoundMoves
<1>m. /\ \A x : Msg(x)' = Msg(x)
      /\ \A m : Must(m)' <=> Must(m)
  BY <1>1 DEF Msg, Must, Known, Fresh
<1>4. ASSUME NothingMissed PROVE NothingMissed'
  <2> SUFFICES ASSUME NEW u \in Uids, Msg(u) \in server.there, Must(Msg(u)), ~round.incompatible
               PROVE  <<round.validity, u>> \in Stored'
    BY <1>1, <1>m DEF NothingMissed
  <2>1. u \in round.remote /\ <<round.validity, u>> \in Stored
    BY <1>1, <1>4 DEF NothingMissed
  <2> QED BY <1>2, <2>1
<1>5. ASSUME NothingMissed, Undisturbed PROVE Undisturbed'
  <2>1. history.calm /\ ~round.incompatible => Exact'
    BY <1>5, ReconcileIsExact
  <2> QED BY <1>1, <1>5, <1>m, <2>1 DEF Undisturbed, Active
<1> QED BY <1>3, <1>4, <1>5, RoundMovesKeep DEF Keeps

\* What is not stored is left to fetch, and the workers start.
LEMMA DiffStoredUidsKeeps == ASSUME ShapeInv, TypeOK', DiffStoredUids PROVE Keeps
<1>t. /\ round \in Round /\ RoundShape /\ WorkerShape /\ UnbornIsNowhere
      /\ workers \in [Workers -> Worker]
  BY TypesOfVariables DEF ShapeInv
<1>1. /\ round.at = "diff" /\ round'.at = "headers" /\ round'.ready = round.ready
      /\ round'.validity = round.validity /\ round'.required = round.required
      /\ round'.candidates = round.candidates /\ round'.left = Missing
      /\ round'.remote = round.remote /\ round'.incompatible = round.incompatible
      /\ UNCHANGED <<server, mailbox, rows, bodies, ops, reader, baseline, announced, history>>
  BY <1>t DEF DiffStoredUids, Round
<1>2. \A w \in Workers : /\ workers'[w].at = "take" /\ workers'[w].batch = {}
                         /\ workers'[w].done = {} /\ workers'[w].new = {}
  BY DEF DiffStoredUids, NoWorkers, NoWorker
<1>3. /\ Missing \subseteq round.remote
      /\ \A u \in Uids : u \in Missing <=> u \in round.remote /\ <<round.validity, u>> \notin Stored
  <2>1. round.remote \subseteq Uids
    BY <1>t DEF Round
  <2>2. \A u \in Uids : <<round.validity, u>> \in Stored <=> rows[<<round.validity, u>>].stored
    BY <1>t DEF Stored, Keys, Round
  <2> QED BY <2>1, <2>2 DEF Missing
<1>m. /\ Stored' = Stored /\ \A u : Msg(u)' = Msg(u)
      /\ \A m : Fresh(m)' <=> Fresh(m)
      /\ \A m : Known(m)' <=> Known(m)
      /\ \A m : Must(m)' <=> Must(m)
      /\ \A w \in Workers : Committed(w)' = {} /\ Committed(w) = {} /\ ~Busied(w)
  BY <1>t, <1>1, <1>2 DEF Stored, Msg, Fresh, Known, Must, Committed, Busied, WorkerShape
<1>4. RoundShape'
  BY <1>t, <1>1 DEF RoundShape
<1>5. WorkerShape'
  BY <1>1, <1>2, <1>m DEF WorkerShape
<1>6. UnbornIsNowhere'
  BY <1>t, <1>1, <1>2, <1>3, <1>m DEF UnbornIsNowhere
<1>7. Settled'
  <2>1. \A k \in Keys : rows'[k].hidden => rows[k].hidden /\ rows'[k].stored
    BY <1>1 DEF ShapeInv, HiddenIsDeleted
  <2> QED BY <1>1, <2>1, SettledStays
<1>8. ASSUME NothingMissed PROVE NothingMissed'
  BY <1>1, <1>3, <1>8, <1>m DEF NothingMissed
<1>9. ASSUME FreshInv PROVE OnlyFreshIsMissing' /\ NewMailIsNew'
  <2>1. NewMailIsNew'
    BY <1>9, <1>1 DEF FreshInv, NewMailIsNew
  <2>2. Covered(round.validity) => Covered(round.validity)'
    BY <1>1, <1>m DEF Covered
  <2>3. ASSUME Covered(round.validity), NEW u \in Missing, Msg(u) \in server.there
        PROVE  Fresh(Msg(u))
    <3>1. u \in Uids /\ <<round.validity, u>> \notin Stored
      BY <1>3, <1>t DEF Round
    <3>2. ~Known(Msg(u))
      BY <2>3, <3>1 DEF Covered, Msg
    <3> QED BY <3>2 DEF Known
  <2> QED BY <1>9, <1>1, <1>2, <1>m, <2>1, <2>2, <2>3 DEF FreshInv, OnlyFreshIsMissing
<1>10. ASSUME NewsAreTold PROVE NewsAreTold'
  <2>1. \A m : Told(m) => Told(m)'
    BY <1>1, <1>m DEF Told
  <2>2. \A m : Heard(m)' => Heard(m)
    BY <1>1, <1>m DEF Heard
  <2> QED BY <1>10, <1>1, <1>2, <1>m, <2>1, <2>2 DEF NewsAreTold
<1>11. ASSUME Undisturbed PROVE Undisturbed'
  BY <1>1, <1>11, <1>m DEF Undisturbed, Active
<1> QED BY <1>4, <1>5, <1>6, <1>7, <1>8, <1>9, <1>10, <1>11 DEF Keeps, ShapeInv, Settled

\* All workers have ended: what is left was not fetched only if the server is incompatible.
LEMMA JoinWorkersKeeps == ASSUME ShapeInv, TypeOK', JoinWorkers PROVE Keeps
<1>t. /\ round \in Round /\ RoundShape /\ WorkerShape /\ UnbornIsNowhere
      /\ workers \in [Workers -> Worker] /\ rows \in [Keys -> Row]
  BY TypesOfVariables DEF ShapeInv
<1>0. 1 \in Workers
  BY MailSyncAssumption
<1>1. /\ round.at = "headers" /\ round'.ready = round.ready
      /\ round'.validity = round.validity /\ round'.required = round.required
      /\ round'.candidates = round.candidates
      /\ round'.remote = round.remote
      /\ UNCHANGED <<server, mailbox, rows, bodies, ops, reader, baseline, announced, history>>
      /\ \A w \in Workers : workers[w].at \in {"done", "unusable"}
      /\ \/ /\ round'.at = "bodies" /\ round'.left = MissingBodies /\ ~Incompatible
            /\ round'.incompatible = round.incompatible /\ DownloadFullMessages
         \/ /\ round'.at = "reconcile" /\ round'.left = {}
            /\ round'.incompatible = Incompatible
            /\ ~DownloadFullMessages \/ Incompatible
  BY <1>t DEF JoinWorkers, Round
<1>2. \A w \in Workers : /\ workers'[w].at \in {"take", "done", "unusable"}
                         /\ workers'[w].batch = {} /\ workers'[w].done = {}
                         /\ workers'[w].new = {}
                         /\ w = 1 => workers'[w].at = workers[w].at
  <2>1. workers' = [NoWorkers EXCEPT ![1].at = workers[1].at]
    BY DEF JoinWorkers
  <2>2. /\ \A w \in Workers \ {1} : workers'[w] = NoWorker
        /\ workers'[1].at = workers[1].at /\ workers'[1].batch = {} /\ workers'[1].done = {}
        /\ workers'[1].new = {}
    BY <1>0, <2>1 DEF NoWorkers, NoWorker
  <2> QED BY <1>0, <1>1, <2>2 DEF NoWorker
<1>3. ~Incompatible => \A w \in Workers : workers[w].at = "done" /\ round.left = {}
  BY <1>t, <1>1 DEF Incompatible, WorkerShape
<1>k. \A u \in Uids : <<round.validity, u>> \in Stored <=> rows[<<round.validity, u>>].stored
  BY <1>t DEF Stored, Keys, Round
<1>4. /\ MissingBodies \subseteq round.remote /\ MissingBodies \subseteq Uids
      /\ \A u \in Uids : u \in MissingBodies <=>
           u \in round.remote /\ <<round.validity, u>> \in Stored /\ bodies[Msg(u)] = 0
  <2>1. round.remote \subseteq Uids
    BY <1>t DEF Round
  <2> QED BY <1>k, <2>1 DEF MissingBodies, Msg
<1>m. /\ Stored' = Stored /\ \A u : Msg(u)' = Msg(u)
      /\ \A m : Fresh(m)' <=> Fresh(m)
      /\ \A m : Known(m)' <=> Known(m)
      /\ \A m : Must(m)' <=> Must(m)
      /\ \A w \in Workers : Committed(w)' = {} /\ Committed(w) = {} /\ ~Busied(w)
      /\ \A u : MessageOf(<<round.validity, u>>) = Msg(u)
  BY <1>t, <1>1, <1>2
  DEF Stored, Msg, Fresh, Known, Must, Committed, Busied, WorkerShape, MessageOf
<1>5. RoundShape'
  BY <1>t, <1>1 DEF RoundShape
<1>6. WorkerShape'
  <2>1. workers'[1].at # "done" => Incompatible
    BY <1>0, <1>2, <1>3
  <2>2. workers'[1].at # "done" => round'.incompatible
    BY <1>1, <2>1
  <2>3. \A w \in Workers : w = 1 /\ workers'[w].at # "done" => round'.incompatible
    BY <2>2
  <2> QED BY <1>1, <1>2, <1>m, <2>3 DEF WorkerShape
<1>7. UnbornIsNowhere'
  <2>1. \A u \in round'.left : u \in round.remote
    BY <1>1, <1>4
  <2> QED BY <1>t, <1>1, <1>2, <1>m, <2>1 DEF UnbornIsNowhere
<1>8. Settled'
  <2>1. \A k \in Keys : rows'[k].hidden => rows[k].hidden /\ rows'[k].stored
    BY <1>1 DEF ShapeInv, HiddenIsDeleted
  <2> QED BY <1>1, <2>1, SettledStays
<1>9. ASSUME NothingMissed PROVE NothingMissed'
  <2>1. \A u \in Uids : Msg(u) \in server.there /\ Must(Msg(u)) /\ ~Incompatible =>
          <<round.validity, u>> \in Stored
    BY <1>0, <1>1, <1>3, <1>9 DEF NothingMissed
  <2> QED BY <1>1, <1>m, <2>1 DEF NothingMissed
<1>10. ASSUME FreshInv PROVE OnlyFreshIsMissing' /\ NewMailIsNew'
  <2>1. NewMailIsNew'
    BY <1>10, <1>1 DEF FreshInv, NewMailIsNew
  <2>2. Covered(round.validity) => Covered(round.validity)'
    BY <1>1, <1>m DEF Covered
  <2> QED BY <1>10, <1>1, <1>m, <2>1, <2>2 DEF FreshInv, OnlyFreshIsMissing
<1>11. ASSUME NewsAreTold PROVE NewsAreTold'
  <2>1. \A m : Told(m) => Told(m)'
    BY <1>1, <1>m DEF Told
  <2>2. \A m : Heard(m)' => Heard(m)
    <3> SUFFICES ASSUME NEW m, Heard(m)' PROVE Heard(m)
      OBVIOUS
    <3>1. CASE round'.at \in {"bodies", "body"} /\ \E u \in round'.left : Msg(u) = m
      <4>1. PICK u \in MissingBodies : Msg(u) = m
        BY <1>1, <3>1
      <4>2. <<round.validity, u>> \in Stored
        BY <1>4
      <4> QED BY <1>m, <4>1, <4>2 DEF Heard
    <3> QED BY <1>1, <1>m, <3>1 DEF Heard
  <2> QED BY <1>11, <1>1, <1>2, <1>m, <2>1, <2>2 DEF NewsAreTold
<1>12. ASSUME NothingMissed, Undisturbed PROVE Undisturbed'
  <2>1. ASSUME history.calm, ~Incompatible, NEW u \in Uids, Msg(u) \in server.there
        PROVE  bodies[Msg(u)] # 0 \/ u \in MissingBodies
    <3>1. <<round.validity, u>> \in Stored
      BY <1>0, <1>1, <1>3, <1>12, <2>1 DEF NothingMissed, Must
    <3>2. u \in round.remote
      BY <1>1, <1>12, <2>1 DEF Undisturbed
    <3> QED BY <1>4, <3>1, <3>2
  <2> QED BY <1>1, <1>12, <1>m, <2>1 DEF Undisturbed, Active
<1> QED BY <1>5, <1>6, <1>7, <1>8, <1>9, <1>10, <1>11, <1>12 DEF Keeps, ShapeInv, Settled

\* A round starts, from what the account knows.
LEMMA StartRoundKeeps == ASSUME ShapeInv, TypeOK', StartRound PROVE Keeps
<1>t. /\ round \in Round /\ RoundShape /\ WorkerShape /\ UnbornIsNowhere
      /\ history \in HistoryType /\ server \in ServerType
  BY TypesOfVariables DEF ShapeInv
<1>1. /\ round.at = "idle" /\ round'.at = "open" /\ round'.ready = baseline
      /\ round'.validity = 1 /\ ~round'.required /\ ~round'.incompatible
      /\ round'.candidates = {} /\ round.candidates = {} /\ ~round.required
      /\ round'.remote = {} /\ round'.left = {}
      /\ history'.old = history.old /\ history'.new = history.new
      /\ history'.lost = history.lost /\ history'.rebuilt = history.rebuilt
      /\ history'.calm <=> (\A o \in OpIds : ~Active(o)) /\ reader.at = "idle"
      /\ UNCHANGED <<server, mailbox, rows, bodies, ops, workers, reader, baseline, announced>>
  BY <1>t DEF StartRound, NoRound, HistoryType, RoundShape
<1>m. /\ Stored' = Stored
      /\ \A m : Fresh(m)' <=> Fresh(m)
      /\ \A m : Known(m)' <=> Known(m)
      /\ \A w \in Workers : Committed(w)' = {} /\ Committed(w) = {} /\ workers[w].batch = {}
      /\ \A w \in Workers : ~Busied(w) /\ ~Busied(w)'
  BY <1>t, <1>1 DEF Stored, Fresh, Known, Committed, WorkerShape, Busied
<1>2. RoundShape'
  <2>1. server.validity >= 1
    BY <1>t, ValiditiesAreNumbers
  <2> QED BY <1>t, <1>1, <2>1 DEF RoundShape
<1>3. WorkerShape'
  BY <1>t, <1>1, <1>m DEF WorkerShape
<1>4. UnbornIsNowhere'
  BY <1>t, <1>1, <1>m DEF UnbornIsNowhere
<1>5. Settled'
  <2>1. \A k \in Keys : rows'[k].hidden => rows[k].hidden /\ rows'[k].stored
    BY <1>1 DEF ShapeInv, HiddenIsDeleted
  <2> QED BY <1>1, <2>1, SettledStays
<1>6. NothingMissed'
  BY <1>1 DEF NothingMissed
<1>7. ASSUME FreshInv PROVE OnlyFreshIsMissing' /\ NewMailIsNew'
  <2>1. NewMailIsNew'
    BY <1>7, <1>1 DEF FreshInv, NewMailIsNew
  <2>2. Covered(mailbox.validity) => Covered(mailbox.validity)'
    BY <1>1, <1>m DEF Covered
  <2> QED BY <1>7, <1>1, <1>m, <2>1, <2>2 DEF FreshInv, OnlyFreshIsMissing
<1>8. ASSUME NewsAreTold PROVE NewsAreTold'
  <2>1. \A m : Told(m) => Told(m)'
    BY <1>1, <1>m DEF Told
  <2>2. \A m : Heard(m)' => Heard(m)
    BY <1>1, <1>m DEF Heard
  <2> QED BY <1>8, <1>1, <1>m, <2>1, <2>2 DEF NewsAreTold
<1>9. Undisturbed'
  BY <1>1 DEF Undisturbed, Active
<1> QED BY <1>2, <1>3, <1>4, <1>5, <1>6, <1>7, <1>8, <1>9 DEF Keeps, ShapeInv, Settled

\* SELECT: the locations of another UIDVALIDITY go, and the mailbox is read anew.
LEMMA OpenMailboxKeeps == ASSUME ShapeInv, TypeOK', OpenMailbox PROVE Keeps
<1>t. /\ round \in Round /\ RoundShape /\ WorkerShape /\ UnbornIsNowhere
      /\ server \in ServerType /\ mailbox \in MailboxType /\ rows \in [Keys -> Row]
  BY TypesOfVariables DEF ShapeInv
<1>c. PICK changed \in BOOLEAN :
        changed <=> mailbox.validity # 0 /\ mailbox.validity # server.validity
  OBVIOUS
<1>1. /\ round.at = "open" /\ round'.at = "upsert" /\ round'.ready = round.ready
      /\ round'.validity = server.validity /\ ~round.required
      /\ round'.required <=> mailbox.validity = 0 \/ changed
      /\ round'.incompatible = round.incompatible
      /\ round'.candidates = round.candidates
      /\ round'.remote = {} /\ round'.left = {} /\ round.remote = {} /\ round.left = {}
      /\ UNCHANGED <<server, mailbox, bodies, ops, workers, reader, baseline, announced, history>>
      /\ rows' = IF changed THEN [k \in Keys |-> NoRow] ELSE rows
  <2>1. round.at = "open" /\ round'.candidates = round.candidates /\ round'.ready = round.ready
        /\ round'.at = "upsert" /\ round'.validity = server.validity
        /\ round'.incompatible = round.incompatible
        /\ round'.remote = round.remote /\ round'.left = round.left
    BY <1>t DEF OpenMailbox, Round
  <2>2. round'.required <=> mailbox.validity = 0 \/ changed
    BY <1>t, <1>c DEF OpenMailbox, Round
  <2>3. rows' = IF changed THEN [k \in Keys |-> NoRow] ELSE rows
    BY <1>c DEF OpenMailbox
  <2>4. UNCHANGED <<server, mailbox, bodies, ops, workers, reader, baseline, announced, history>>
    BY DEF OpenMailbox
  <2> QED BY <1>t, <2>1, <2>2, <2>3, <2>4 DEF RoundShape
<1>v. server.validity \in Nat \ {0} /\ mailbox.validity \in Nat
  BY <1>t, ValiditiesAreNumbers
<1>s. /\ ~changed => Stored' = Stored
      /\ Stored' \subseteq Stored
      /\ \A k \in Keys : rows'[k].hidden => rows[k].hidden /\ rows'[k].stored
  <2>1. \A k \in Keys : rows[k].hidden => rows[k].stored
    BY DEF ShapeInv, HiddenIsDeleted
  <2>2. CASE changed
    BY <1>1, <2>2 DEF Stored, NoRow
  <2>3. CASE ~changed
    BY <1>1, <2>1, <2>3 DEF Stored
  <2> QED BY <2>2, <2>3
<1>m. /\ \A m : Fresh(m)' <=> Fresh(m)
      /\ \A m : Known(m)' <=> Known(m)
      /\ \A w \in Workers : Committed(w)' = {} /\ Committed(w) = {} /\ workers[w].batch = {}
      /\ \A w \in Workers : ~Busied(w) /\ ~Busied(w)'
  BY <1>t, <1>1 DEF Fresh, Known, Committed, WorkerShape, Busied
<1>2. RoundShape'
  BY <1>t, <1>1, <1>c, <1>v DEF RoundShape
<1>3. WorkerShape'
  BY <1>t, <1>1, <1>m DEF WorkerShape
<1>4. UnbornIsNowhere'
  BY <1>t, <1>1, <1>m, <1>s DEF UnbornIsNowhere
<1>5. Settled'
  BY <1>1, <1>s, SettledStays
<1>6. NothingMissed'
  BY <1>1 DEF NothingMissed
<1>7. ASSUME FreshInv PROVE OnlyFreshIsMissing' /\ NewMailIsNew'
  <2>1. NewMailIsNew'
    BY <1>7, <1>1 DEF FreshInv, NewMailIsNew
  <2>2. ASSUME ~history.rebuilt, baseline, ~round'.required PROVE Covered(round.validity)'
    <3>1. mailbox.validity = server.validity /\ ~changed
      BY <1>1, <1>c, <2>2
    <3>2. Covered(server.validity)
      BY <1>7, <1>1, <2>2, <3>1 DEF FreshInv, OnlyFreshIsMissing
    <3> QED BY <1>1, <1>s, <1>m, <3>1, <3>2 DEF Covered
  <2> QED BY <1>7, <1>1, <1>m, <2>1, <2>2 DEF FreshInv, OnlyFreshIsMissing
<1>8. ASSUME NewsAreTold PROVE NewsAreTold'
  <2>1. \A m : Told(m) => Told(m)'
    BY <1>1, <1>m DEF Told
  <2>2. \A m : Heard(m)' => Heard(m)
    BY <1>1, <1>m, <1>s DEF Heard
  <2>3. history.new # {} => ~round'.required
    BY <1>8, <1>1, <1>c, <1>v DEF NewsAreTold
  <2> QED BY <1>8, <1>1, <1>m, <2>1, <2>2, <2>3 DEF NewsAreTold
<1>9. ASSUME Undisturbed PROVE Undisturbed'
  BY <1>9, <1>1 DEF Undisturbed, Active
<1> QED BY <1>2, <1>3, <1>4, <1>5, <1>6, <1>7, <1>8, <1>9 DEF Keeps, ShapeInv, Settled

\* The mailbox row takes the UIDVALIDITY of the round.
LEMMA UpsertMailboxKeeps == ASSUME ShapeInv, TypeOK', UpsertMailbox PROVE Keeps
<1>t. /\ round \in Round /\ RoundShape /\ WorkerShape /\ UnbornIsNowhere
      /\ server \in ServerType /\ mailbox \in MailboxType
  BY TypesOfVariables DEF ShapeInv
<1>1. /\ round.at = "upsert" /\ round'.at = "search" /\ round'.ready = round.ready
      /\ round'.validity = round.validity /\ round'.required = round.required
      /\ round'.incompatible = round.incompatible
      /\ round'.candidates = round.candidates /\ mailbox'.validity = round.validity
      /\ round'.remote = round.remote /\ round'.left = round.left
      /\ UNCHANGED <<server, rows, bodies, ops, workers, reader, baseline, announced, history>>
  BY <1>t DEF UpsertMailbox, Round
<1>m. /\ Stored' = Stored /\ \A u : Msg(u)' = Msg(u)
      /\ \A m : Fresh(m)' <=> Fresh(m)
      /\ \A m : Known(m)' <=> Known(m)
      /\ \A w \in Workers : Committed(w)' = {} /\ Committed(w) = {} /\ workers[w].batch = {}
      /\ \A w \in Workers : ~Busied(w) /\ ~Busied(w)'
  BY <1>t, <1>1 DEF Stored, Msg, Fresh, Known, Committed, WorkerShape, Busied
<1>2. RoundShape'
  BY <1>t, <1>1 DEF RoundShape
<1>3. WorkerShape'
  BY <1>t, <1>1, <1>m DEF WorkerShape
<1>4. UnbornIsNowhere'
  BY <1>t, <1>1, <1>m DEF UnbornIsNowhere
<1>5. Settled'
  <2>1. \A k \in Keys : rows'[k].hidden => rows[k].hidden /\ rows'[k].stored
    BY <1>1 DEF ShapeInv, HiddenIsDeleted
  <2> QED BY <1>1, <2>1, SettledStays
<1>6. NothingMissed'
  BY <1>1 DEF NothingMissed
<1>7. ASSUME FreshInv PROVE OnlyFreshIsMissing' /\ NewMailIsNew'
  <2>1. NewMailIsNew'
    BY <1>7, <1>1 DEF FreshInv, NewMailIsNew
  <2>2. Covered(round.validity) => Covered(round.validity)'
    BY <1>1, <1>m DEF Covered
  <2> QED BY <1>7, <1>1, <1>m, <2>1, <2>2 DEF FreshInv, OnlyFreshIsMissing
<1>8. ASSUME NewsAreTold PROVE NewsAreTold'
  <2>1. \A m : Told(m) => Told(m)'
    BY <1>1, <1>m DEF Told
  <2>2. \A m : Heard(m)' => Heard(m)
    BY <1>1, <1>m DEF Heard
  <2>3. history.new # {} => mailbox'.validity = server.validity
    BY <1>8, <1>t, <1>1 DEF NewsAreTold, RoundShape
  <2> QED BY <1>8, <1>1, <1>m, <2>1, <2>2, <2>3 DEF NewsAreTold
<1>9. ASSUME Undisturbed PROVE Undisturbed'
  BY <1>9, <1>1 DEF Undisturbed, Active
<1> QED BY <1>2, <1>3, <1>4, <1>5, <1>6, <1>7, <1>8, <1>9 DEF Keeps, ShapeInv, Settled

\* complete_mailbox: the round ends, or starts over without BODYSTRUCTURE.
LEMMA CompleteMailboxKeeps == ASSUME ShapeInv, TypeOK', CompleteMailbox PROVE Keeps
<1>t. /\ round \in Round /\ RoundShape /\ WorkerShape /\ UnbornIsNowhere
      /\ server \in ServerType /\ history \in HistoryType
  BY TypesOfVariables DEF ShapeInv
<1>1. /\ round.at = "complete" /\ round'.ready = round.ready
      /\ round'.candidates = round.candidates
      /\ UNCHANGED <<server, mailbox, rows, bodies, ops, reader, baseline, announced>>
      /\ history'.old = history.old /\ history'.new = history.new
      /\ history'.calm = history.calm /\ history'.lost = history.lost
      /\ \/ /\ round'.at = "open" /\ round.incompatible /\ ~round'.incompatible
            /\ round'.validity = 1 /\ ~round'.required
            /\ round'.remote = {} /\ round'.left = {}
            /\ history'.rebuilt <=> history.rebuilt \/ Rebuilding
         \/ /\ round'.at = "end" /\ ~round.incompatible /\ ~round'.incompatible
            /\ round'.validity = round.validity /\ round'.required = round.required
            /\ round'.remote = round.remote /\ round'.left = round.left
            /\ history'.rebuilt = history.rebuilt
      /\ \A w \in Workers : /\ workers'[w].at = "take" /\ workers'[w].batch = {}
                            /\ workers'[w].done = {} /\ workers'[w].new = {}
  <2>0. \A w \in Workers : /\ workers'[w].at = "take" /\ workers'[w].batch = {}
                            /\ workers'[w].done = {} /\ workers'[w].new = {}
    BY DEF CompleteMailbox, NoWorkers, NoWorker
  <2>1. CASE round.incompatible
    <3>1. /\ round' = [NoRound EXCEPT !.at = "open", !.ready = round.ready,
                                      !.candidates = round.candidates]
          /\ history' = [history EXCEPT !.rebuilt = @ \/ Rebuilding]
      BY <2>1 DEF CompleteMailbox
    <3>2. /\ round'.at = "open" /\ round'.ready = round.ready /\ ~round'.incompatible
          /\ round'.candidates = round.candidates
          /\ round'.validity = 1 /\ ~round'.required
          /\ round'.remote = {} /\ round'.left = {}
      BY <3>1 DEF NoRound
    <3>3. /\ history'.old = history.old /\ history'.new = history.new
          /\ history'.calm = history.calm /\ history'.lost = history.lost
          /\ history'.rebuilt <=> history.rebuilt \/ Rebuilding
      BY <1>t, <3>1 DEF HistoryType
    <3> QED BY <2>0, <2>1, <3>2, <3>3 DEF CompleteMailbox
  <2>2. CASE ~round.incompatible
    <3>1. round' = [round EXCEPT !.at = "end"] /\ history' = history
      BY <2>2 DEF CompleteMailbox
    <3>2. /\ round'.at = "end" /\ round'.ready = round.ready /\ ~round'.incompatible
          /\ round'.candidates = round.candidates
          /\ round'.validity = round.validity /\ round'.required = round.required
          /\ round'.remote = round.remote /\ round'.left = round.left
      BY <1>t, <2>2, <3>1 DEF Round
    <3> QED BY <2>0, <2>2, <3>1, <3>2 DEF CompleteMailbox
  <2> QED BY <2>1, <2>2
<1>m. /\ Stored' = Stored
      /\ \A m : Fresh(m)' <=> Fresh(m)
      /\ \A m : Known(m)' <=> Known(m)
      /\ \A m : Must(m)' <=> Must(m)
      /\ \A w \in Workers : Committed(w)' = {} /\ Committed(w) = {} /\ workers[w].batch = {}
      /\ \A w \in Workers : ~Busied(w) /\ ~Busied(w)'
  BY <1>t, <1>1 DEF Stored, Fresh, Known, Must, Committed, WorkerShape, Busied
<1>2. RoundShape'
  <2>1. server.validity >= 1
    BY <1>t, ValiditiesAreNumbers
  <2> QED BY <1>t, <1>1, <2>1 DEF RoundShape
<1>3. WorkerShape'
  BY <1>t, <1>1, <1>m DEF WorkerShape
<1>4. UnbornIsNowhere'
  <2>1. \A u \in round'.remote \cup round'.left :
          u \in round.remote \cup round.left /\ Msg(u)' = Msg(u)
    BY <1>1 DEF Msg
  <2>2. \A w \in Workers : workers'[w].batch = {}
    BY <1>1
  <2>3. round'.at # "body" /\ server' = server /\ ops' = ops /\ reader' = reader
    BY <1>1
  <2> QED BY <1>t, <1>1, <1>m, <2>1, <2>2, <2>3 DEF UnbornIsNowhere
<1>5. Settled'
  <2>1. \A k \in Keys : rows'[k].hidden => rows[k].hidden /\ rows'[k].stored
    BY <1>1 DEF ShapeInv, HiddenIsDeleted
  <2> QED BY <1>1, <2>1, SettledStays
<1>6. ASSUME NothingMissed PROVE NothingMissed'
  BY <1>1, <1>m, <1>6 DEF NothingMissed, Msg
<1>7. ASSUME FreshInv PROVE OnlyFreshIsMissing' /\ NewMailIsNew'
  <2>0. round.validity = mailbox.validity
    BY <1>t, <1>1 DEF RoundShape
  <2>1. NewMailIsNew'
    BY <1>7, <1>1 DEF FreshInv, NewMailIsNew
  <2>2. Covered(round.validity) => Covered(mailbox.validity)'
    BY <1>1, <1>m, <2>0 DEF Covered
  <2>3. ASSUME ~history'.rebuilt, baseline, ~round.required
        PROVE  Covered(round.validity)
    BY <1>7, <1>1, <2>3 DEF FreshInv, OnlyFreshIsMissing
  <2>4. ~history'.rebuilt /\ baseline /\ round'.at = "open" => ~round.required
    BY <1>t, <1>1 DEF Rebuilding, RoundShape
  <2>5. ~history'.rebuilt => ~history.rebuilt
    BY <1>1
  <2>7. round'.at = "end" => (Covered(mailbox.validity)' => Covered(round.validity)')
    BY <1>1, <2>0 DEF Covered
  <2>8. ~history'.rebuilt /\ baseline /\ ~round'.required =>
          Covered(mailbox.validity)' /\ (round'.at = "end" => Covered(round.validity)')
    <3>1. CASE round'.at = "open"
      BY <2>2, <2>3, <2>4, <2>7, <3>1
    <3>2. CASE round'.at = "end"
      BY <1>1, <2>2, <2>3, <2>7, <3>2
    <3> QED BY <1>1, <3>1, <3>2
  <2>9. ~history'.rebuilt /\ baseline => \A m \in round'.candidates : Fresh(m)'
    BY <1>7, <1>1, <1>m, <2>5 DEF FreshInv, OnlyFreshIsMissing
  <2> QED BY <1>1, <2>1, <2>8, <2>9 DEF OnlyFreshIsMissing
<1>8. ASSUME NewsAreTold PROVE NewsAreTold'
  <2>1. \A m : Told(m) => Told(m)'
    BY <1>1, <1>m DEF Told
  <2>2. \A m : Heard(m)' => Heard(m)
    BY <1>1, <1>m DEF Heard
  <2>3. history.new # {} => ~round'.required
    BY <1>8, <1>1 DEF NewsAreTold
  <2> QED BY <1>8, <1>1, <1>m, <2>1, <2>2, <2>3 DEF NewsAreTold
<1>9. ASSUME Undisturbed PROVE Undisturbed'
  <2>1. Exact => Exact'
    BY <1>1 DEF Exact, UnreadThere, There
  <2>2. \A o \in OpIds : Active(o)' <=> Active(o)
    BY <1>1 DEF Active
  <2>3. CASE round'.at = "open"
    BY <1>9, <1>1, <2>2, <2>3 DEF Undisturbed
  <2>4. CASE round'.at = "end"
    BY <1>9, <1>1, <2>1, <2>2, <2>4 DEF Undisturbed
  <2> QED BY <1>1, <2>3, <2>4
<1> QED BY <1>2, <1>3, <1>4, <1>5, <1>6, <1>7, <1>8, <1>9 DEF Keeps, ShapeInv, Settled

\* The round announces its candidates; what the account knows then is stored.
LEMMA EndRoundKeeps == ASSUME ShapeInv, TypeOK', EndRound PROVE Keeps
<1>t. /\ round \in Round /\ RoundShape /\ WorkerShape /\ UnbornIsNowhere
      /\ server \in ServerType /\ announced \in [Messages -> 0 .. 2]
  BY TypesOfVariables DEF ShapeInv
<1>1. /\ round.at = "end" /\ round'.at = "idle" /\ ~round'.required /\ ~round'.incompatible
      /\ round'.validity = 1 /\ round'.candidates = {}
      /\ round'.remote = {} /\ round'.left = {}
      /\ UNCHANGED <<server, mailbox, rows, bodies, ops, reader, workers, history>>
      /\ baseline'
  BY DEF EndRound, NoRound
<1>a. \A m \in Messages : announced'[m] =
          IF round.ready /\ m \in round.candidates /\ announced[m] < 2
          THEN announced[m] + 1 ELSE announced[m]
  BY DEF EndRound
<1>r. round.ready <=> baseline
  BY <1>t, <1>1 DEF RoundShape
<1>c. round.candidates \subseteq Messages /\ server.there \subseteq Messages
  BY <1>t DEF Round, ServerType
<1>m. /\ Stored' = Stored
      /\ \A m \in Messages : Known(m)' => Known(m)
      /\ \A w \in Workers : Committed(w)' = {} /\ Committed(w) = {} /\ workers[w].batch = {}
      /\ \A w \in Workers : ~Busied(w) /\ ~Busied(w)'
  <2>1. Stored' = Stored
    BY <1>1 DEF Stored
  <2>2. \A m \in Messages : Known(m)' => Known(m)
    BY <1>t, <1>1, <1>a DEF Known, Fresh
  <2>3. \A w \in Workers : Committed(w) = {} /\ workers[w].batch = {} /\ ~Busied(w)
    BY <1>t, <1>1 DEF Committed, WorkerShape, Busied
  <2>4. \A w \in Workers : Committed(w)' = {} /\ ~Busied(w)'
    BY <1>1, <2>3 DEF Committed, Busied
  <2> QED BY <2>1, <2>2, <2>3, <2>4
<1>2. RoundShape'
  <2>1. server.validity >= 1
    BY <1>t, ValiditiesAreNumbers
  <2> QED BY <1>t, <1>1, <2>1 DEF RoundShape
<1>3. WorkerShape'
  BY <1>t, <1>1, <1>m DEF WorkerShape
<1>4. UnbornIsNowhere'
  <2>1. server.unborn \subseteq Messages
    BY <1>t DEF ServerType
  <2> QED BY <1>t, <1>1, <1>m, <2>1 DEF UnbornIsNowhere
<1>5. Settled'
  <2>1. \A k \in Keys : rows'[k].hidden => rows[k].hidden /\ rows'[k].stored
    BY <1>1 DEF ShapeInv, HiddenIsDeleted
  <2> QED BY <1>1, <2>1, SettledStays
<1>6. NothingMissed'
  BY <1>1 DEF NothingMissed
<1>7. ASSUME FreshInv PROVE OnlyFreshIsMissing' /\ NewMailIsNew'
  <2>1. ASSUME ~history.rebuilt, NEW m \in Messages
        PROVE  announced'[m] <= IF m \in history.old THEN 0 ELSE 1
    <3>1. announced[m] <= IF m \in history.old THEN 0 ELSE 1
      BY <1>7, <2>1 DEF FreshInv, NewMailIsNew
    <3>2. baseline /\ m \in round.candidates => m \notin history.old /\ announced[m] = 0
      BY <1>7, <2>1 DEF FreshInv, OnlyFreshIsMissing, Fresh
    <3> QED BY <1>t, <1>a, <1>r, <3>1, <3>2
  <2>2. NewMailIsNew'
    BY <1>1, <2>1 DEF NewMailIsNew
  <2>3. Covered(mailbox.validity)'
    <3>1. round.validity = mailbox.validity
      BY <1>t, <1>1 DEF RoundShape
    <3>2. \A u \in Uids : Msg(u) \in server.there /\ Known(Msg(u)) =>
                             <<round.validity, u>> \in Stored
      BY <1>7, <1>1 DEF FreshInv, NothingMissed, Must
    <3> QED BY <1>1, <1>c, <1>m, <3>1, <3>2 DEF Covered, Msg
  <2> QED BY <1>1, <2>2, <2>3 DEF OnlyFreshIsMissing
<1>8. ASSUME NewsAreTold PROVE NewsAreTold'
  <2>1. history.new # {} => \A m \in Messages : Told(m) => Told(m)'
    <3> SUFFICES ASSUME history.new # {}, NEW m \in Messages, Told(m) PROVE announced'[m] > 0
      BY DEF Told
    <3>1. announced[m] > 0 \/ m \in round.candidates
      BY <1>m DEF Told
    <3>2. round.ready
      BY <1>8, <1>r DEF NewsAreTold
    <3> QED BY <1>t, <1>a, <3>1, <3>2
  <2>2. \A m : Heard(m)' => Heard(m)
    BY <1>1, <1>m DEF Heard
  <2>3. history.new \subseteq Messages
    BY TypesOfVariables DEF ShapeInv, HistoryType
  <2>4. ~history.lost => \A m \in history.new : Heard(m)' => Told(m)'
    BY <1>8, <2>1, <2>2, <2>3 DEF NewsAreTold
  <2> QED BY <1>8, <1>1, <1>m, <2>4 DEF NewsAreTold
<1>9. ASSUME Undisturbed PROVE Undisturbed'
  BY <1>9, <1>1 DEF Undisturbed, Active
<1> QED BY <1>2, <1>3, <1>4, <1>5, <1>6, <1>7, <1>8, <1>9 DEF Keeps, ShapeInv, Settled

\* The round is lost: it failed, the account was restarted, or the process ended.
RoundIsLost ==
    /\ round'.at = "idle" /\ ~round'.required /\ ~round'.incompatible /\ round'.validity = 1
    /\ round'.candidates = {} /\ round'.remote = {} /\ round'.left = {}
    /\ \A w \in Workers : /\ workers'[w].at = "take" /\ workers'[w].batch = {}
                          /\ workers'[w].done = {} /\ workers'[w].new = {}
    /\ UNCHANGED <<server, mailbox, rows, bodies, announced>>
    /\ baseline' # baseline => baseline' /\ round.at = "end"
    /\ history'.old = history.old /\ history'.new = history.new
    /\ history'.calm = history.calm
    /\ history.rebuilt => history'.rebuilt
    /\ round.at = "idle" => history'.lost = history.lost
    /\ round.at # "idle" => history'.lost
    /\ Rebuilding /\ round.at \notin {"idle", "open", "upsert", "end"} => history'.rebuilt
    /\ \A o \in OpIds : /\ ops'[o].key = ops[o].key /\ ops'[o].kind = ops[o].kind
                        /\ ops'[o].status \in {ops[o].status, "queued"}
                        /\ ops'[o].status # ops[o].status => ops[o].status = "running"
    /\ reader'.at # "idle" => reader' = reader

LEMMA LostRounds ==
  ASSUME TypeOK, RoundFails \/ RoundReplaced \/ Crash
  PROVE  RoundIsLost
<1>t. history \in HistoryType /\ ops \in [OpIds -> Operation]
  BY TypesOfVariables
<1>1. /\ round' = NoRound /\ workers' = NoWorkers
      /\ UNCHANGED <<server, mailbox, rows, bodies, announced>>
      /\ baseline' # baseline => baseline' = TRUE /\ round.at = "end"
  BY DEF RoundFails, RoundReplaced, Crash, NoMoreRound
<1>2. \/ round.at = "idle" /\ history' = history
      \/ round.at # "idle" /\ Losing
  BY DEF RoundFails, RoundReplaced, Crash, NoMoreRound
<1>3. /\ history'.old = history.old /\ history'.new = history.new
      /\ history'.calm = history.calm
      /\ history.rebuilt => history'.rebuilt
      /\ round.at = "idle" => history'.lost = history.lost
      /\ round.at # "idle" => history'.lost
      /\ Rebuilding /\ round.at \notin {"idle", "open", "upsert", "end"} => history'.rebuilt
  <2>1. CASE round.at = "idle" /\ history' = history
    BY <2>1
  <2>2. CASE round.at # "idle" /\ Losing
    BY <1>t, <2>2 DEF Losing, HistoryType
  <2> QED BY <1>2, <2>1, <2>2
<1>4. \A o \in OpIds : /\ ops'[o].key = ops[o].key /\ ops'[o].kind = ops[o].kind
                       /\ ops'[o].status \in {ops[o].status, "queued"}
                       /\ ops'[o].status # ops[o].status => ops[o].status = "running"
  <2>1. CASE ops' = ops
    BY <2>1
  <2>2. CASE Crash
    <3> SUFFICES ASSUME NEW o \in OpIds
                 PROVE  /\ ops'[o].key = ops[o].key /\ ops'[o].kind = ops[o].kind
                        /\ ops'[o].status \in {ops[o].status, "queued"}
                        /\ ops'[o].status # ops[o].status => ops[o].status = "running"
      OBVIOUS
    <3>1. ops'[o] = IF ops[o].status = "running" THEN [ops[o] EXCEPT !.status = "queued"]
                    ELSE ops[o]
      BY <2>2 DEF Crash
    <3>2. ops[o] \in Operation
      BY <1>t
    <3> QED BY <3>1, <3>2 DEF Operation
  <2> QED BY <2>1, <2>2 DEF RoundFails, RoundReplaced
<1>5. reader'.at # "idle" => reader' = reader
  BY DEF RoundFails, RoundReplaced, Crash, NoReader
<1> QED BY <1>1, <1>3, <1>4, <1>5 DEF RoundIsLost, NoRound, NoWorkers, NoWorker

LEMMA LostRoundsKeep == ASSUME ShapeInv, TypeOK', RoundIsLost PROVE Keeps
<1>t. /\ round \in Round /\ RoundShape /\ WorkerShape /\ UnbornIsNowhere
      /\ server \in ServerType /\ DeletedIsGone /\ HiddenIsDeleted /\ SeenIsThere
  BY TypesOfVariables DEF ShapeInv
<1>1. /\ round'.at = "idle" /\ ~round'.required /\ ~round'.incompatible /\ round'.validity = 1
      /\ round'.candidates = {} /\ round'.remote = {} /\ round'.left = {}
      /\ UNCHANGED <<server, mailbox, rows, bodies, announced>>
      /\ history'.old = history.old /\ history'.new = history.new
      /\ history'.calm = history.calm
      /\ baseline' # baseline => baseline' /\ round.at = "end"
  BY DEF RoundIsLost
<1>w. \A w \in Workers : /\ workers'[w].at = "take" /\ workers'[w].batch = {}
                         /\ workers'[w].done = {} /\ workers'[w].new = {}
  BY DEF RoundIsLost
<1>o. /\ \A o \in OpIds : /\ ops'[o].key = ops[o].key /\ ops'[o].kind = ops[o].kind
                          /\ ops'[o].status \in {ops[o].status, "queued"}
                          /\ ops'[o].status # ops[o].status => ops[o].status = "running"
      /\ reader'.at # "idle" => reader' = reader
  BY DEF RoundIsLost
<1>m. /\ Stored' = Stored
      /\ \A m : Fresh(m)' <=> Fresh(m)
      /\ \A m : Known(m)' => Known(m)
      /\ \A w \in Workers : Committed(w)' = {} /\ ~Busied(w)'
      /\ \A o \in OpIds : Active(o)' <=> Active(o)
  <2>1. Stored' = Stored /\ \A m : Fresh(m)' <=> Fresh(m)
    BY <1>1 DEF Stored, Fresh
  <2>2. \A m : Known(m)' => Known(m)
    BY <1>1, <2>1 DEF Known
  <2>3. \A w \in Workers : Committed(w)' = {} /\ ~Busied(w)'
    BY <1>w DEF Committed, Busied
  <2>4. \A o \in OpIds : Active(o)' <=> Active(o)
    BY <1>o DEF Active
  <2> QED BY <2>1, <2>2, <2>3, <2>4
<1>2. RoundShape'
  <2>1. server.validity >= 1
    BY <1>t, ValiditiesAreNumbers
  <2> QED BY <1>t, <1>1, <2>1 DEF RoundShape
<1>3. WorkerShape'
  BY <1>t, <1>1, <1>w, <1>m DEF WorkerShape
<1>4. UnbornIsNowhere'
  <2>1. \A o \in OpIds : ops'[o].status # "none" => ops[o].status # "none"
    BY <1>o
  <2> QED BY <1>t, <1>1, <1>w, <1>o, <1>m, <2>1 DEF UnbornIsNowhere
<1>5. Settled'
  <2>1. SeenIsThere'
    BY <1>t, <1>1 DEF SeenIsThere
  <2>2. DeletedIsGone'
    BY <1>t, <1>1, <1>o DEF DeletedIsGone
  <2>3. \A m : ActiveOn(m)' = ActiveOn(m)
    BY <1>o, <1>m DEF ActiveOn
  <2>4. \A k : \A o \in ActiveOn(MessageOf(k)) : ops'[o].kind = ops[o].kind
    BY <1>o DEF ActiveOn
  <2>5. HiddenIsDeleted'
    BY <1>t, <1>1, <2>3, <2>4 DEF HiddenIsDeleted
  <2> QED BY <2>1, <2>2, <2>5 DEF Settled
<1>6. NothingMissed'
  BY <1>1 DEF NothingMissed
<1>7. ASSUME FreshInv PROVE OnlyFreshIsMissing' /\ NewMailIsNew'
  <2>t. /\ NothingMissed /\ OnlyFreshIsMissing /\ NewMailIsNew
        /\ history.rebuilt => history'.rebuilt
        /\ Rebuilding /\ round.at \notin {"idle", "open", "upsert", "end"} => history'.rebuilt
    BY <1>7 DEF FreshInv, RoundIsLost
  <2>1. NewMailIsNew'
    BY <1>1, <2>t DEF NewMailIsNew
  <2>2. ASSUME ~history'.rebuilt, baseline', mailbox.validity = server.validity
        PROVE  \A u \in Uids : /\ MessageAt(mailbox.validity, u) \in server.there
                               /\ Known(MessageAt(mailbox.validity, u))
                               => <<mailbox.validity, u>> \in Stored
    <3>1. CASE round.at \in {"idle", "open"}
      BY <1>1, <2>t, <2>2, <3>1 DEF OnlyFreshIsMissing, Covered
    <3>2. CASE round.at = "end"
      <4>1. round.validity = mailbox.validity
        BY <1>t, <3>2 DEF RoundShape
      <4> QED BY <2>t, <3>2, <4>1 DEF NothingMissed, Must, Msg
    <3>3. CASE round.at \notin {"idle", "open", "end"}
      <4>1. baseline /\ ~round.required /\ round.validity = mailbox.validity
        BY <1>t, <1>1, <2>t, <2>2, <3>3 DEF RoundShape, Rebuilding
      <4> QED BY <2>t, <2>2, <3>3, <4>1 DEF OnlyFreshIsMissing, Covered
    <3> QED BY <3>1, <3>2, <3>3
  <2>3. ~history'.rebuilt /\ baseline' /\ mailbox'.validity = server'.validity =>
          Covered(mailbox.validity)'
    BY <1>1, <1>m, <2>2 DEF Covered
  <2> QED BY <1>1, <2>1, <2>3 DEF OnlyFreshIsMissing
<1>8. ASSUME NewsAreTold PROVE NewsAreTold'
  <2>1. \A m : Heard(m)' => Heard(m)
    BY <1>1, <1>o, <1>m DEF Heard
  <2>2. ASSUME ~history'.lost, NEW m, Told(m) PROVE Told(m)'
    <3>1. round.at = "idle"
      BY <2>2 DEF RoundIsLost
    <3>2. \A w \in Workers : ~Busied(w)
      BY <1>t, <3>1 DEF WorkerShape, Busied
    <3> QED BY <1>t, <1>1, <2>2, <3>1, <3>2 DEF Told, RoundShape
  <2>3. ~history'.lost => ~history.lost
    BY DEF RoundIsLost, ShapeInv, TypeOK
  <2>4. ~history'.lost => \A m \in history'.new : Heard(m)' => Told(m)'
    BY <1>8, <1>1, <2>1, <2>2, <2>3 DEF NewsAreTold
  <2>5. /\ history'.new # {} => /\ baseline' /\ mailbox'.validity = server'.validity
                                /\ ~round'.required
        /\ history'.new \cap server'.seen = {}
    BY <1>8, <1>1 DEF NewsAreTold
  <2> QED BY <1>w, <2>4, <2>5 DEF NewsAreTold
<1>9. ASSUME Undisturbed PROVE Undisturbed'
  BY <1>9, <1>1, <1>o, <1>m DEF Undisturbed
<1> QED BY <1>2, <1>3, <1>4, <1>5, <1>6, <1>7, <1>8, <1>9 DEF Keeps, ShapeInv, Settled

-----------------------------------------------------------------------------
(* The properties of rounds *)

LEMMA OutsideKeeps == ASSUME ShapeInv, TypeOK', Outside, Settled' PROVE Keeps
<1>1. ShapeInv'
  BY OutsideKeepsShape
<1>2. NothingMissed => NothingMissed'
  BY OutsideKeepsFreshness
<1>3. FreshInv => OnlyFreshIsMissing' /\ NewMailIsNew'
  BY OutsideKeepsFreshness DEF FreshInv
<1>4. NewsAreTold => NewsAreTold'
  BY OutsideKeepsNews DEF NewsInv
<1>5. Undisturbed'
  BY DEF Outside, Undisturbed
<1> QED BY <1>1, <1>2, <1>3, <1>4, <1>5 DEF Keeps

LEMMA StuttersKeep == ASSUME ShapeInv, UNCHANGED vars PROVE Keeps
<1>1. ShapeInv'
  <2>1. TypeOK'
    BY DEF ShapeInv, TypeOK, vars
  <2>2. RoundShape' /\ WorkerShape' /\ UnbornIsNowhere'
    BY DEF ShapeInv, RoundShape, WorkerShape, UnbornIsNowhere, Committed, Msg, Stored, Known,
           Fresh, vars
  <2>3. SeenIsThere' /\ DeletedIsGone' /\ HiddenIsDeleted'
    BY DEF ShapeInv, SeenIsThere, DeletedIsGone, HiddenIsDeleted, ActiveOn, Active, vars
  <2> QED BY <2>1, <2>2, <2>3 DEF ShapeInv
<1>2. NothingMissed => NothingMissed'
  BY DEF NothingMissed, Msg, Must, Known, Fresh, Stored, vars
<1>3. OnlyFreshIsMissing => OnlyFreshIsMissing'
  BY DEF OnlyFreshIsMissing, Covered, Msg, Known, Fresh, Stored, vars
<1>4. NewMailIsNew => NewMailIsNew'
  BY DEF NewMailIsNew, vars
<1>5. NewsAreTold => NewsAreTold'
  BY DEF NewsAreTold, Told, Heard, Busied, Committed, Msg, Stored, vars
<1>6. Exact' <=> Exact
  BY DEF Exact, UnreadThere, There, vars
<1>7. Undisturbed => Undisturbed'
  BY <1>6 DEF Undisturbed, Msg, Active, vars
<1> QED BY <1>1, <1>2, <1>3, <1>4, <1>5, <1>7 DEF Keeps, FreshInv

\* Every step keeps each invariant, with the shape of the round.
LEMMA StepsKeep == ASSUME ShapeInv, [Next]_vars PROVE Keeps
<1>t. TypeOK'
  BY TypesStep DEF ShapeInv
<1>1. CASE Server
  BY <1>t, <1>1, ServerIsOutside, OutsideKeeps
<1>2. CASE User \/ Operations
  BY <1>t, <1>2, OperationsAreOutside, OutsideKeeps
<1>3. CASE Read
  BY <1>t, <1>3, ReadsAreOutside, OutsideKeeps
<1>4. CASE RoundFails \/ RoundReplaced \/ Crash
  <2>1. RoundIsLost
    BY <1>4, LostRounds DEF ShapeInv
  <2> QED BY <1>t, <2>1, LostRoundsKeep
<1>5. CASE Headers
  BY <1>t, <1>5, HeadersKeep
<1>6. CASE StartRound \/ OpenMailbox \/ UpsertMailbox \/ SearchAll \/ DiffStoredUids
  BY <1>t, <1>6, StartRoundKeeps, OpenMailboxKeeps, UpsertMailboxKeeps, SearchAllKeeps,
     DiffStoredUidsKeeps
<1>7. CASE JoinWorkers \/ (\E u \in Uids : FetchBody(u)) \/ StoreBody \/ BodiesDone
  BY <1>t, <1>7, JoinWorkersKeeps, FetchBodyKeeps, StoreBodyKeeps, BodiesDoneKeeps
<1>8. CASE FetchFlags \/ ReconcileMailbox \/ CompleteMailbox \/ EndRound
  BY <1>t, <1>8, FetchFlagsKeeps, ReconcileMailboxKeeps, CompleteMailboxKeeps, EndRoundKeeps
<1>9. CASE UNCHANGED vars
  BY <1>9, StuttersKeep
<1> QED BY <1>1, <1>2, <1>3, <1>4, <1>5, <1>6, <1>7, <1>8, <1>9 DEF Next, Synchronize

\* At first nothing is stored, and no round is in progress.
LEMMA RoundsInit ==
  Init => ShapeInv /\ NothingMissed /\ OnlyFreshIsMissing /\ NewMailIsNew /\ NewsAreTold
          /\ Undisturbed
<1> SUFFICES ASSUME Init
             PROVE  ShapeInv /\ NothingMissed /\ OnlyFreshIsMissing /\ NewMailIsNew
                    /\ NewsAreTold /\ Undisturbed
  OBVIOUS
<1>1. PICK there \in SUBSET Messages : \E seen \in SUBSET there :
        /\ server = [validity |-> 1, there |-> there, seen |-> seen,
                     unborn |-> Messages \ there]
        /\ history = [calm |-> FALSE, lost |-> FALSE, rebuilt |-> FALSE, old |-> there,
                      new |-> {}]
  BY DEF Init
<1>2. /\ server.validity = 1 /\ server.there = there /\ server.seen \subseteq there
      /\ server.unborn = Messages \ there
      /\ ~history.calm /\ ~history.lost /\ ~history.rebuilt /\ history.old = there
      /\ history.new = {}
  BY <1>1
<1>3. /\ round.at = "idle" /\ round.validity = 1 /\ ~round.required /\ ~round.incompatible
      /\ round.candidates = {} /\ round.remote = {} /\ round.left = {}
      /\ mailbox.validity = 0 /\ reader.at = "idle"
      /\ \A w \in Workers : /\ workers[w].at = "take" /\ workers[w].batch = {}
                            /\ workers[w].done = {} /\ workers[w].new = {}
      /\ \A k \in Keys : ~rows[k].stored /\ ~rows[k].hidden
      /\ \A o \in OpIds : ops[o].status = "none"
      /\ \A m \in Messages : announced[m] = 0
  BY DEF Init, NoRound, NoReader, NoWorkers, NoWorker, NoRow, NoOperation
<1>4. Stored = {}
  BY <1>3 DEF Stored
<1>5. ShapeInv
  <2>1. RoundShape
    BY <1>2, <1>3 DEF RoundShape
  <2>2. WorkerShape
    BY <1>3 DEF WorkerShape, Committed
  <2>3. UnbornIsNowhere
    BY <1>2, <1>3, <1>4 DEF UnbornIsNowhere, Known, Fresh
  <2>4. SeenIsThere /\ DeletedIsGone /\ HiddenIsDeleted
    BY <1>2, <1>3 DEF SeenIsThere, DeletedIsGone, HiddenIsDeleted
  <2> QED BY <2>1, <2>2, <2>3, <2>4, TypesInit DEF ShapeInv
<1>6. NothingMissed /\ Undisturbed
  BY <1>2, <1>3 DEF NothingMissed, Undisturbed
<1>7. OnlyFreshIsMissing /\ NewMailIsNew
  BY <1>2, <1>3 DEF OnlyFreshIsMissing, NewMailIsNew
<1>8. NewsAreTold
  BY <1>2, <1>3 DEF NewsAreTold
<1> QED BY <1>5, <1>6, <1>7, <1>8

\* Mail that was there before the account was added is not announced, and nothing twice,
\* unless the rebuild of a renumbered mailbox was interrupted: a round misses no mail the
\* account knows, so that what a later round finds missing is new.
THEOREM NewMailIsAnnouncedOnce == Spec => []NewMailIsNew
<1>1. Init => FreshInv
  BY RoundsInit DEF FreshInv
<1>2. FreshInv /\ [Next]_vars => FreshInv'
  BY StepsKeep DEF FreshInv, Keeps
<1>3. FreshInv => NewMailIsNew
  BY DEF FreshInv
<1> QED BY <1>1, <1>2, <1>3, PTL DEF Spec

\* Mail that arrived after the first synchronization and that nobody has read is announced
\* by the round that stores it, whichever worker fetched it and whatever worker broke,
\* unless a round was lost.
THEOREM NewsAreAnnounced == Spec => []ArrivalsAreAnnounced
<1>1. Init => NewsInv
  BY RoundsInit DEF NewsInv
<1>2. NewsInv /\ [Next]_vars => NewsInv'
  BY StepsKeep DEF NewsInv, Keeps
<1>3. NewsInv => ArrivalsAreAnnounced
  <2> SUFFICES ASSUME NewsInv, ~history.lost, round.at = "idle", NEW k \in Stored,
                      MessageOf(k) \in history.new
               PROVE  announced[MessageOf(k)] > 0
    BY DEF ArrivalsAreAnnounced
  <2>1. Heard(MessageOf(k))
    BY DEF Heard
  <2>2. Told(MessageOf(k))
    BY <2>1 DEF NewsInv, NewsAreTold
  <2>3. round.candidates = {} /\ \A w \in Workers : ~Busied(w)
    BY DEF NewsInv, ShapeInv, RoundShape, WorkerShape, Busied
  <2> QED BY <2>2, <2>3 DEF Told
<1> QED BY <1>1, <1>2, <1>3, PTL DEF Spec

\* A round that ends well and was not disturbed leaves exactly the server's mailbox, with
\* its flags and counts, whatever failed or half-done rounds came before it.
THEOREM RoundsAreExact == Spec => CompleteRoundIsExact
<1>1. Init => ExactInv
  BY RoundsInit DEF ExactInv
<1>2. ExactInv /\ [Next]_vars => ExactInv'
  BY StepsKeep DEF ExactInv, Keeps
<1>3. ExactInv => (round.at = "end" /\ round'.at = "idle" /\ history.calm => Exact)
  BY DEF ExactInv, Undisturbed
<1> QED BY <1>1, <1>2, <1>3, PTL DEF Spec, CompleteRoundIsExact
=============================================================================
